------------------------------ MODULE FriProof ------------------------------
(***************************************************************************)
(* The end of a prove: get_final_poly, the FRI commit phase, the queries   *)
(* and get_fri_proof, on top of the buffers of PolynomialBuffers, and the  *)
(* checks of the verifier on what comes out.                               *)
(*                                                                         *)
(* Every kernel of this phase computes addresses: of layers of trees, of   *)
(* scratch and result memory shared by all queries, of the coset a layer   *)
(* of the folded polynomial lives on.  The addresses and the exponents are *)
(* kept; a field element is the polynomial it is a value of and its place. *)
(***************************************************************************)
EXTENDS PolynomialBuffers, Sequences

CONSTANTS
    DegreeBits,
    CapHeight,
    Reductions,       \* the lists reduction_arity_bits may be
    TileBits,         \* log of the tiles of coset_e and of transpose_gpu
    NumQueries,
    QueryChallenges   \* what the transcript may return for the queries

LdeBits == DegreeBits + RateBits
NumLayers == LdeBits - CapHeight
Queries == 0 .. NumQueries - 1

\* Sums(list)[n] is the sum of the first n.
Sums(list) ==
    LET sum[n \in 0 .. Len(list)] ==
          IF n = 0 THEN 0 ELSE sum[n - 1] + list[n]
    IN  sum

\* The bits of the first n of reduction_arity_bits.
BitsFolded(list, n) == Sums(list)[n]

\* fri_params, and the sizes coset_e and transpose_gpu work for: with less
\* than a tile the one stores nothing and the other launches no block.
ASSUME FriAssumption ==
    /\ DegreeBits \in Nat /\ CapHeight \in Nat /\ TileBits \in Nat
    /\ TileBits <= DegreeBits /\ NumQueries \in Nat \ {0}
    /\ QueryChallenges \subseteq [Queries -> Nat]
    /\ \A list \in Reductions :
          /\ list \in Seq(Nat \ {0}) /\ list # <<>>
          /\ BitsFolded(list, Len(list)) <= DegreeBits
          /\ BitsFolded(list, Len(list)) <= NumLayers
          /\ \A k \in DOMAIN list : TileBits <= list[k] + 1
          /\ \A k \in 1 .. Len(list) - 1 :
                TileBits <= DegreeBits - BitsFolded(list, k)

----------------------------------------------------------------------------
(* Polynomials over the extension field, the layers they are extended to,  *)
(* and the elements of a layer.                                            *)

\* batches: what fp_shift_add accumulated, in order; folds: <<arity_bits,
\* beta>> of each reduction, beta named by the round that sampled it.
ExtPoly(batches, folds) == [batches |-> batches, folds |-> folds]
NoPoly == ExtPoly(<<>>, <<>>)

\* The values of poly on the coset g^e of 2^bits points, bit-reversed.
Layer(rep, poly, e, bits) ==
    [rep |-> rep, poly |-> poly, shift |-> e, bits |-> bits]
BlankLayer(rep) == Layer(rep, NoPoly, 0, 0)

At(layer, n) == [layer |-> layer, at |-> n]
JunkValue == At(BlankLayer("junk"), 0)

\* reduce_e: chunks of 2^bits coefficients become one, by powers of beta.
Fold(poly, bits, beta) == [poly EXCEPT !.folds = Append(@, <<bits, beta>>)]

\* coset_e stores the 2^bits coefficients times powers of the shift at the
\* start of out and leaves the rest of it as it is; ntt_extension_inplace
\* transforms all of out, with what the rest held laid over the extension.
CosetFft(poly, e, bits, out) ==
    IF TileBits <= bits
    THEN Layer(IF out.rep = "zero" THEN "lde" ELSE "overlaid",
               poly, e, bits + RateBits)
    ELSE BlankLayer("junk")

----------------------------------------------------------------------------
(* Merkle trees: the digests of all layers one after the other, the leaves *)
(* first.                                                                  *)

\* Node n of layer l in the digests of a tree of 2^bits leaves.
NodeAt(bits, l, n) == Two[bits + 1] - Two[bits + 1 - l] + n

\* cap_offset, in digests: tree_len - (8 << cap_height)
CapOffset(bits) == 2 * Two[bits] - 2 * Two[CapHeight]

TrailingOnes(n) ==
    CHOOSE k \in 0 .. LdeBits + 1 :
       /\ (n \div Two[k]) % 2 = 0
       /\ \A j \in 0 .. k - 1 : (n \div Two[j]) % 2 = 1

\* The address of sibling l of leaf x: fri_initial_siblings and fri_step find
\* the layer and the place in it from the index MerkleTree::prove uses.
SiblingAt(x, layers, l) ==
    LET pair     == (x % Two[layers]) \div Two[l]
        siblings == (pair \div 2) * Two[l + 1] + Two[l] - 1
        sibling  == 2 * siblings + (1 - (pair % 2))
        layer    == TrailingOnes(sibling \div 2)
        inLayer  == ((sibling + 2 - Two[layer + 1]) \div Two[layer + 2]) * 2
                      + (sibling % 2)
        full     == layers + CapHeight + 1
    IN  inLayer + Two[full] - Two[full - layer]
          + (x \div Two[layers]) * Two[layers - layer]

----------------------------------------------------------------------------
VARIABLES
    arities,      \* reduction_arity_bits
    coefficients, \* of FinalPolyScratch: the final polynomial
    leaves,       \* tree_leaves of each round
    digests,      \* what the leaves under tree_digests of each round are of
    folded,       \* folded_coefficients of each round
    beta,         \* the round that sampled what the beta buffer holds
    shift,        \* the exponent of g in the coset of the next layer
    caps,         \* fri_commit_phase_caps
    sampled,      \* the challenges as the transcript returned them
    xIndexes,     \* round_challenges, which the kernels overwrite
    scratch,      \* one element per query and polynomial without extension
    initLeaves,   \* fri_initial_leaves
    initSiblings, \* fri_initial_siblings
    evaluations,  \* step_evaluations
    stepSiblings, \* step_siblings
    friPhase,
    round         \* the loop counter of the current phase

commitVars == <<coefficients, leaves, digests, folded, beta, shift, caps>>
queryVars == <<sampled, xIndexes, scratch, initLeaves, initSiblings,
               evaluations, stepSiblings>>
friVars == <<arities, commitVars, queryVars, friPhase, round>>
proofVars == <<vars, friVars>>

NumRounds == Len(arities)
Rounds == DOMAIN arities

\* FriQueryGeometry, summed up by GpuProverSetup::new
StepLayers(list, k) == NumLayers - BitsFolded(list, k)
ArityEnds(list) == Sums([k \in DOMAIN list |-> Two[list[k]]])
SiblingEnds(list) == Sums([k \in DOMAIN list |-> StepLayers(list, k)])
AritySum(list) == ArityEnds(list)[Len(list)]
TotalStepSiblings(list) == SiblingEnds(list)[Len(list)]

\* fri_buf has room for num_wires + 1 polynomials.
ScratchLen == NumQueries * (NumWires + 1)

\* A digest: of which tree, and where in it.
Node(name, k, at) == [tree |-> <<name, k>>, at |-> at]
NoNode == Node("none", 0, 0)
NoLeaf == <<Unset, 0>>

\* Memory of len elements that hold v.
Filled(len, v) == [a \in 0 .. len - 1 |-> v]

ProofInit ==
    /\ Init
    /\ arities \in Reductions
    /\ coefficients = NoPoly /\ beta = 0 /\ shift = 1 /\ caps = <<>>
    /\ leaves = [k \in Rounds |->
          BlankLayer(IF "fri_scratch" \in Cleared THEN "zero" ELSE "unset")]
    /\ digests = [k \in Rounds |-> BlankLayer("unset")]
    /\ folded = [k \in Rounds |-> NoPoly]
    /\ sampled = Filled(NumQueries, 0) /\ xIndexes = Filled(NumQueries, 0)
    /\ scratch = Filled(ScratchLen, NoLeaf)
    /\ initLeaves = [s \in Segments |-> Filled(NumQueries * Count[s], NoLeaf)]
    /\ initSiblings = Filled(NumQueries * 4 * NumLayers, NoNode)
    /\ evaluations = Filled(NumQueries * AritySum(arities), JunkValue)
    /\ stepSiblings = Filled(NumQueries * TotalStepSiblings(arities), NoNode)
    /\ friPhase = "final_poly" /\ round = 1

----------------------------------------------------------------------------
(* The final polynomial and the commit phase.                              *)

\* reduce reads num consecutive polynomials as plain coefficients.
Reduced(first, num, point) ==
    [first |-> first, num |-> num,
     point |-> IF \A p \in first .. first + num - 1 :
                     /\ fp[p].rep = "coeffs" /\ fp[p].order = "natural"
                     /\ fp[p].coset = <<0, 0>>
               THEN point ELSE "junk"]

Stale == [first |-> 0, num |-> 0, point |-> "stale"]

\* Both calls of divide_shift_add multiply what the buffer holds by a power
\* of alpha and add; nothing clears the buffer, before them or between proves.
FinalPoly ==
    /\ friPhase = "final_poly"
    /\ LET held == IF coefficients = NoPoly /\ "final_poly" \in Cleared
                   THEN <<>> ELSE <<Stale>>
           poly == ExtPoly(held \o
                      <<Reduced(0, NumPolys, "zeta"),
                        Reduced(FpSlot("PartialProducts", 0), NumChallenges,
                                "g * zeta")>>, <<>>)
       IN  /\ coefficients' = poly
           /\ leaves' = [leaves EXCEPT ![1] = CosetFft(poly, 1, DegreeBits, @)]
    /\ shift' = 1 /\ friPhase' = "commit" /\ round' = 1
    /\ UNCHANGED <<arities, digests, folded, beta, caps, queryVars>>

\* Mutant: the coset is not raised with the domain.
NextShiftSame(s, bits) == s

\* shift.pow_u64(arity)
NextShift(s, bits) == s * Two[bits]

\* commit_tree: transpose_gpu, and the tree of what it stored.
CommitTree(k) == IF TileBits <= arities[k] + 1 THEN leaves[k]
                 ELSE BlankLayer("junk")

\* copy_cap: the cap of the tree of k, and where it was copied from
CopyCap(k) == [layer |-> digests'[k],
               first |-> CapOffset(LdeBits - BitsFolded(arities, k))]

\* fold_round: reduce_input of round k
ReduceInput(k) == IF k = 1 THEN coefficients ELSE folded[k - 1]

\* One round of fri_committed_trees: the tree of the layer, its cap observed
\* and copied, beta sampled, the coefficients folded and, but for the last
\* round, extended to the next layer.
CommitRound ==
    /\ friPhase = "commit" /\ round <= NumRounds
    /\ digests' = [digests EXCEPT ![round] = CommitTree(round)]
    /\ caps' = Append(caps, CopyCap(round))
    /\ beta' = round
    /\ LET bits   == arities[round]
           output == Fold(ReduceInput(round), bits, beta')
       IN  /\ folded' = [folded EXCEPT ![round] = output]
           /\ IF round = NumRounds
              THEN UNCHANGED <<shift, leaves>>
              ELSE /\ shift' = NextShift(shift, bits)
                   /\ leaves' = [leaves EXCEPT ![round + 1] =
                         CosetFft(output, shift',
                                  DegreeBits - BitsFolded(arities, round), @)]
    /\ round' = round + 1
    /\ UNCHANGED <<arities, coefficients, queryVars, friPhase>>

\* The folded coefficients are copied and observed, the proof of work is
\* found, and the transcript gives the query challenges.
SampleQueries ==
    /\ friPhase = "commit" /\ round > NumRounds
    /\ sampled' \in QueryChallenges /\ xIndexes' = sampled'
    /\ friPhase' = "initial" /\ round' = 1
    /\ UNCHANGED <<arities, commitVars, scratch, initLeaves, initSiblings,
                   evaluations, stepSiblings>>

----------------------------------------------------------------------------
(* The queries.                                                            *)

\* Thread i stores val[i] at addr[i]; a store past the end is lost.
Store(mem, addr, val) ==
    [a \in DOMAIN mem |-> IF \E i \in DOMAIN addr : addr[i] = a
                          THEN val[CHOOSE i \in DOMAIN addr : addr[i] = a]
                          ELSE mem[a]]

Load(mem, a) == IF a \in DOMAIN mem THEN mem[a] ELSE <<Junk, 0>>

\* The value of coefficients f, and of extension l, at index x.
PolyAt(f, x) == <<NttN2B(MulExp(f, <<1, Rev(x \div Two[DegreeBits])>>)),
                  x % Two[DegreeBits]>>
LdeAt(l, x) == <<LdeBlock(l, x \div Two[DegreeBits]), x % Two[DegreeBits]>>

SegmentOrder == <<"ConstantsSigmas", "Wires", "PartialProducts", "Quotients">>

\* Mutant: the polynomials with an extension are not taken off.
ScratchAtOfAll(s, q, p) == p * NumQueries + q

\* fri_initial_leaves_seg numbers the polynomials after the extensions,
\* fri_initial_leaves_reduce_partial all of them.
ScratchAt(s, q, p) == (p * NumQueries + q) - numLdes[s] * NumQueries

\* One segment of initial_proofs.  The indices are reduced in place, by any
\* of the threads of a query: to reduce twice is to reduce once.
InitialProof ==
    /\ friPhase = "initial" /\ round <= 4
    /\ LET s    == SegmentOrder[round]
           x    == [q \in Queries |-> xIndexes[q] % Two[LdeBits]]
           rest == 0 .. Count[s] - numLdes[s] - 1
           mem  == Store(scratch,
                     [i \in Queries \X rest |-> i[2] * NumQueries + i[1]],
                     [i \in Queries \X rest |->
                        PolyAt(fp[FpSlot(s, numLdes[s] + i[2])], x[i[1]])])
           leaf(q, j) == IF j < numLdes[s]
                         THEN LdeAt(lde[LdeSlot(numLdes, s, j)], x[q])
                         ELSE Load(mem, ScratchAt(s, q, j))
           path == Queries \X (0 .. NumLayers - 1)
       IN  /\ xIndexes' = x
           /\ scratch' = mem
           /\ initLeaves' = [initLeaves EXCEPT ![s] =
                Store(@, [i \in Queries \X Index(s) |-> i[1] * Count[s] + i[2]],
                         [i \in Queries \X Index(s) |-> leaf(i[1], i[2])])]
           /\ initSiblings' = Store(initSiblings,
                [i \in path |-> (i[1] * 4 + round - 1) * NumLayers + i[2]],
                [i \in path |-> Node(s, 0, SiblingAt(x[i[1]], NumLayers, i[2]))])
    /\ round' = round + 1
    /\ UNCHANGED <<arities, commitVars, sampled, evaluations, stepSiblings,
                   friPhase>>

InitialDone ==
    /\ friPhase = "initial" /\ round > 4
    /\ friPhase' = "steps" /\ round' = 1
    /\ UNCHANGED <<arities, commitVars, queryVars>>

\* arity_acc and acc_step_siblings before round k
ArityAcc(k) == ArityEnds(arities)[k - 1]
SiblingsAcc(k) == SiblingEnds(arities)[k - 1]

\* fri_step of one round, which also moves the indices of the queries on.
QueryStep ==
    /\ friPhase = "steps" /\ round <= NumRounds
    /\ LET bits   == arities[round]
           layers == StepLayers(arities, round)
           x      == [q \in Queries |-> xIndexes[q] \div Two[bits]]
           evals  == Queries \X (0 .. Two[bits] - 1)
           path   == Queries \X (0 .. layers - 1)
       IN  /\ xIndexes' = x
           /\ evaluations' = Store(evaluations,
                [i \in evals |-> i[1] * AritySum(arities) + ArityAcc(round) + i[2]],
                [i \in evals |-> At(leaves[round], x[i[1]] * Two[bits] + i[2])])
           /\ stepSiblings' = Store(stepSiblings,
                [i \in path |-> i[1] * TotalStepSiblings(arities)
                                  + SiblingsAcc(round) + i[2]],
                [i \in path |-> Node("step", round,
                                     SiblingAt(x[i[1]], layers, i[2]))])
    /\ round' = round + 1
    /\ UNCHANGED <<arities, commitVars, sampled, scratch, initLeaves,
                   initSiblings, friPhase>>

QueriesDone ==
    /\ friPhase = "steps" /\ round > NumRounds
    /\ friPhase' = "assemble"
    /\ UNCHANGED <<arities, commitVars, queryVars, round>>

FriStep == FinalPoly \/ CommitRound \/ SampleQueries \/ InitialProof
             \/ InitialDone \/ QueryStep \/ QueriesDone

\* prove_with_prepared_witness returns the assembled proof.
ReturnProof ==
    /\ friPhase = "assemble" /\ ProveEnd
    /\ friPhase' = "final_poly"
    /\ UNCHANGED <<arities, commitVars, queryVars, round>>

ProofNext == \/ BufferStep /\ UNCHANGED friVars
             \/ phase = "open" /\ FriStep /\ UNCHANGED vars
             \/ ReturnProof

ProofSpec == ProofInit /\ [][ProofNext]_proofVars

----------------------------------------------------------------------------
(* get_fri_proof: the parts of query round q, read from the host copies.   *)

InitialEvals(q, s) == [j \in Index(s) |-> initLeaves[s][q * Count[s] + j]]

InitialSiblings(q, r) ==
    [l \in 0 .. NumLayers - 1 |->
       initSiblings[q * 4 * NumLayers + r * NumLayers + l]]

StepEvals(q, k) ==
    [e \in 0 .. Two[arities[k]] - 1 |->
       evaluations[q * AritySum(arities) + ArityAcc(k) + e]]

StepPath(q, k) ==
    [l \in 0 .. StepLayers(arities, k) - 1 |->
       stepSiblings[q * TotalStepSiblings(arities) + SiblingsAcc(k) + l]]

FinalCoefficients == folded[NumRounds]
=============================================================================
