------------------------- MODULE PolynomialBuffers -------------------------
(***************************************************************************)
(* The polynomials of one proof live in a single device buffer, fp_inputs, *)
(* that is transformed in place: values become coefficients, coefficients  *)
(* are moved from coset to coset and back while leaves are hashed and the  *)
(* quotient is evaluated, and every later phase trusts that the phase      *)
(* before left them as it expects.  Chosen polynomials (num_ldes) are in   *)
(* addition extended once into a second buffer, ldes.                      *)
(*                                                                         *)
(* The module follows the FORM of the contents of each polynomial-sized    *)
(* slot of both buffers, from build_gpu to the end of prove: which         *)
(* polynomial it holds, as values or coefficients, in natural or           *)
(* bit-reversed order, over which coset.  Field arithmetic is abstracted   *)
(* to that; a kernel applied to a form it is not written for leaves Junk.  *)
(***************************************************************************)
EXTENDS Integers, FiniteSets, PowersOfTwo

CONSTANTS
    NumConstants,     \* constant polynomials, before the sigmas
    NumRouted,        \* num_routed_wires, also the number of sigmas
    NumWires,
    NumPartial,       \* polynomials of the PartialProducts segment
    NumChallenges,
    RateBits,
    Gates,            \* the circuit's gates
    GateKernels,      \* the gates evaluate_gate has a kernel for
    LdeCounts,        \* the numbers of extensions build_gpu is asked for
    Cleared,          \* the memories known to be zero when they are first used
    MaxProves         \* bound on the number of proves

ASSUME LayoutAssumption ==
    /\ NumConstants \in Nat /\ NumRouted \in Nat \ {0}
    /\ NumWires \in Nat /\ NumRouted <= NumWires
    /\ NumPartial \in Nat \ {0} /\ NumChallenges \in Nat \ {0}
    /\ RateBits \in Nat \ {0} /\ MaxProves \in Nat \ {0}
    /\ LdeCounts \subseteq Nat /\ Cleared \subseteq STRING
    /\ {"z", "stale", "tail"} \cap Gates = {}

Rate == Two[RateBits]
Parts == 0 .. Rate - 1

\* i.reverse_bits() >> (64 - bits): the low bits of i, the lowest first.
BitReversed[bits \in Nat] ==
    [i \in Nat |->
       IF bits = 0 THEN 0
       ELSE (i % 2) * Two[bits - 1] + BitReversed[bits - 1][i \div 2]]

Rev(i) == BitReversed[RateBits][i]

----------------------------------------------------------------------------
(* The layout of fp_inputs and ldes.                                       *)

Segments == {"ConstantsSigmas", "Wires", "PartialProducts", "Quotients"}

\* num_polynomials; max_quotient_degree_factor is 1 << rate_bits in every
\* configuration the kernels accept (they fix both to 8 and 3).
Count == [s \in Segments |->
            CASE s = "ConstantsSigmas" -> NumConstants + NumRouted
              [] s = "Wires"           -> NumWires
              [] s = "PartialProducts" -> NumPartial
              [] s = "Quotients"       -> NumChallenges * Rate]

\* What the segments before s take, of len[t] for each segment t.
Offset(len, s) ==
    CASE s = "ConstantsSigmas" -> 0
      [] s = "Wires"           -> len["ConstantsSigmas"]
      [] s = "PartialProducts" -> len["ConstantsSigmas"] + len["Wires"]
      [] s = "Quotients"       -> len["ConstantsSigmas"] + len["Wires"]
                                    + len["PartialProducts"]

NumPolys == Offset(Count, "Quotients") + Count["Quotients"]
Slots == 0 .. NumPolys - 1
Index(s) == 0 .. Count[s] - 1

\* fp_offset, in polynomials
FpSlot(s, j) == Offset(Count, s) + j

\* lde_offset, in extended polynomials
LdeSlot(numLdes, s, j) == Offset(numLdes, s) + j

----------------------------------------------------------------------------
(* Forms.  coset = <<a, b>> stands for g^a * w^b, g the generator of the   *)
(* field and w that of the extended domain; sum is the set of the terms    *)
(* that were added: the constraints a quotient polynomial was accumulated  *)
(* from, "stale" for what was there before them, "tail" for what was past  *)
(* the coefficients when they were extended; rep is "unset", "zero",       *)
(* "junk", "values", "coeffs" or "lde"; order "natural" or "bitrev".       *)

Form(s, j, n, rep, order, coset, sum) ==
    [seg |-> s, idx |-> j, prove |-> n, rep |-> rep, order |-> order,
     coset |-> coset, sum |-> sum]

Blank(rep) == Form("none", 0, 0, rep, "natural", <<0, 0>>, {})
Junk  == Blank("junk")
Zero  == Blank("zero")
Unset == Blank("unset")

Values(s, j, n) == Form(s, j, n, "values", "natural", <<0, 0>>, {})

Times(c, d) == <<c[1] + d[1], c[2] + d[2]>>
G    == <<1, 0>>               \* MULTIPLICATIVE_GROUP_GENERATOR
GInv == <<-1, 0>>
W    == <<0, 1>>               \* lde_twiddle_factor

\* Mutant: one coset too far.
UntwistByRate == <<-1, -Rate>>

\* (w^(rate - 1) * g)^-1, after the last part
Untwist == <<-1, -(Rate - 1)>>

\* mul_exp multiplies coefficient i by m^i.
MulExp(f, m) ==
    IF f.rep = "coeffs" /\ f.order = "natural"
    THEN [f EXCEPT !.coset = Times(@, m)] ELSE Junk

\* batch_ntt_internal with bitrev_inputs = FALSE, inverse = FALSE
NttN2B(f) ==
    IF f.rep = "coeffs" /\ f.order = "natural"
    THEN [f EXCEPT !.rep = "values", !.order = "bitrev"] ELSE Junk

\* batch_ntt_internal with bitrev_inputs = TRUE, inverse = TRUE
InttB2N(f) ==
    IF f.rep = "values" /\ f.order = "bitrev"
    THEN [f EXCEPT !.rep = "coeffs", !.order = "natural"] ELSE Junk

\* batch_ntt_in_place with bitrev_inputs = FALSE reverses after the kernel.
NttInPlace(f, inverse) ==
    IF f.order = "natural" /\ f.rep = (IF inverse THEN "values" ELSE "coeffs")
    THEN [f EXCEPT !.rep = IF inverse THEN "coeffs" ELSE "values"] ELSE Junk

\* batch_lde_transpose_out_of_place_ptr: pad_coset stores the coefficients
\* times g^i at the start of out and leaves the rest of it as it is; the
\* transform of degree << rate_bits points takes that rest as coefficients.
Lde(f, out) ==
    IF f.rep = "coeffs" /\ f.order = "natural"
    THEN [f EXCEPT !.rep = "lde", !.order = "bitrev", !.coset = Times(@, G),
                   !.sum = @ \cup (IF out.rep = "zero" THEN {} ELSE {"tail"})]
    ELSE Junk

\* Block b of an extension in bit-reversed order: the coset w^Rev(b).
LdeBlock(l, b) ==
    IF l.rep = "lde"
    THEN [l EXCEPT !.rep = "values", !.coset = Times(@, <<0, Rev(b)>>)]
    ELSE Junk

----------------------------------------------------------------------------
VARIABLES
    numLdes,  \* num_ldes of build_gpu
    fp,       \* the form of each slot of fp_inputs
    lde,      \* the form of each extended polynomial in ldes
    tree,     \* tree[s][b][j]: what the leaves of block b hash for j
    phase,    \* the next phase of build_gpu or prove
    seg,      \* the segment being committed
    part,     \* the loop counter of the in-place loops
    mul,      \* mul_val
    proves    \* proves begun

vars == <<numLdes, fp, lde, tree, phase, seg, part, mul, proves>>

\* DeviceAllocation::alloc is cudaMalloc: nothing promises that it clears.
Fresh(memory) == IF memory \in Cleared THEN {Zero} ELSE {Zero, Unset}

Init ==
    /\ numLdes \in {c \in [Segments -> LdeCounts] :
                      \A s \in Segments : c[s] <= Count[s]}
    /\ \E m \in Fresh("fp_inputs") : fp = [p \in Slots |-> m]
    /\ \E m \in Fresh("ldes") : lde = [p \in Slots |-> m]
    /\ tree = [s \in Segments |-> [b \in Parts |-> [j \in Index(s) |-> Unset]]]
    /\ phase = "upload" /\ seg = "ConstantsSigmas"
    /\ part = 0 /\ mul = G /\ proves = 0

\* The slots of s that have no extension and are transformed in place.
NonLdeSlots(s) == {FpSlot(s, j) : j \in numLdes[s] .. Count[s] - 1}
SlotsOf(s) == {FpSlot(s, j) : j \in Index(s)}

\* finalize_gpu copies the values of constants and sigmas to the device.
Upload ==
    /\ phase = "upload"
    /\ fp' = [p \in Slots |->
                IF p \in SlotsOf("ConstantsSigmas")
                THEN Values("ConstantsSigmas", p, 0) ELSE fp[p]]
    /\ phase' = "intt" /\ seg' = "ConstantsSigmas"
    /\ UNCHANGED <<numLdes, lde, tree, part, mul, proves>>

----------------------------------------------------------------------------
(* The four commitments.                                                   *)

\* The inverse transform of degree * quotient_degree_factor points joins the
\* parts of challenge k, each in its bit-reversed place, into one polynomial
\* over the coset g; batch_pad_coset with inverse takes the coset off.
JoinParts(k) ==
    LET chunk(b) == fp[FpSlot("Quotients", k * Rate + b)]
        joined   == \A b \in Parts :
                       /\ chunk(b).seg = "Quotients" /\ chunk(b).rep = "values"
                       /\ chunk(b).order = "bitrev" /\ chunk(b).idx = k
                       /\ chunk(b).prove = chunk(0).prove
                       /\ chunk(b).coset = <<1, Rev(b)>>
    IN  [b \in Parts |->
           IF joined
           THEN Form("Quotients", k * Rate + b, chunk(0).prove, "coeffs", "natural",
                     Times(G, GInv), UNION {chunk(c).sum : c \in Parts})
           ELSE Junk]

InttSlot(p) ==
    IF seg = "Quotients"
    THEN LET j == p - FpSlot("Quotients", 0)
         IN  JoinParts(j \div Rate)[j % Rate]
    ELSE NttInPlace(fp[p], TRUE)

Intt ==
    /\ phase = "intt"
    /\ fp' = [p \in Slots |-> IF p \in SlotsOf(seg) THEN InttSlot(p) ELSE fp[p]]
    /\ phase' = "lde"
    /\ UNCHANGED <<numLdes, lde, tree, seg, part, mul, proves>>

Extend ==
    /\ phase = "lde"
    /\ LET first == LdeSlot(numLdes, seg, 0)
       IN  lde' = [p \in Slots |->
                     IF p \in first .. first + numLdes[seg] - 1
                     THEN Lde(fp[FpSlot(seg, p - first)], lde[p]) ELSE lde[p]]
    /\ phase' = "tree" /\ part' = 0 /\ mul' = G
    /\ UNCHANGED <<numLdes, fp, tree, seg, proves>>

\* build_merkle_tree_w_partial_ldes for constants and wires transforms the
\* polynomials without an extension, build_merkle_tree_in_place for partial
\* products and quotients all of them.
Partial(s) == s \in {"ConstantsSigmas", "Wires"}
Moving(s) == IF Partial(s) THEN NonLdeSlots(s) ELSE SlotsOf(s)

OnCoset(ps) == [p \in Slots |->
                  IF p \in ps THEN NttN2B(MulExp(fp[p], mul)) ELSE fp[p]]
Back(ps, f) == [p \in Slots |-> IF p \in ps THEN InttB2N(f[p]) ELSE f[p]]

\* outputs_offset: the leaves of part i go to block Rev(i)
LeafBlock(i) == Rev(i)

Leaf(s, j, b, f) ==
    IF Partial(s) /\ j < numLdes[s]
    THEN LdeBlock(lde[LdeSlot(numLdes, s, j)], b)
    ELSE f[FpSlot(s, j)]

\* The in-place loops run for i in 0..rate.
MoreParts == part < Rate

TreePart ==
    /\ phase = "tree" /\ MoreParts
    /\ LET f == OnCoset(Moving(seg))
           b == LeafBlock(part)
       IN  /\ tree' = [tree EXCEPT ![seg][b] =
                          [j \in Index(seg) |-> Leaf(seg, j, b, f)]]
           /\ fp' = Back(Moving(seg), f)
    /\ part' = part + 1 /\ mul' = W
    /\ UNCHANGED <<numLdes, lde, phase, seg, proves>>

AfterCommit == [s \in Segments |->
    CASE s = "ConstantsSigmas" -> "build" [] s = "Wires" -> "zp"
      [] s = "PartialProducts" -> "quotient" [] s = "Quotients" -> "open"]

TreeDone ==
    /\ phase = "tree" /\ part = Rate
    /\ fp' = [p \in Slots |-> IF p \in Moving(seg)
                              THEN MulExp(fp[p], Untwist) ELSE fp[p]]
    /\ phase' = AfterCommit[seg] /\ part' = 0 /\ mul' = G
    /\ UNCHANGED <<numLdes, lde, tree, seg, proves>>

----------------------------------------------------------------------------
(* The witness, the partial products and the quotient.                     *)

WiresWith(n) == [p \in Slots |->
    IF p \in SlotsOf("Wires")
    THEN Values("Wires", p - FpSlot("Wires", 0), n) ELSE fp[p]]

\* sorting_new: with a captured graph, the warm-up launch scatters a witness
\* nobody has written; without, nothing is launched.
Build ==
    /\ phase = "build"
    /\ \/ fp' = WiresWith(0)
       \/ UNCHANGED fp
    /\ phase' = "scatter"
    /\ UNCHANGED <<numLdes, lde, tree, seg, part, mul, proves>>

\* prove replays the witness generation, which ends with the scatter.
Scatter ==
    /\ phase = "scatter" /\ proves < MaxProves
    /\ proves' = proves + 1
    /\ fp' = WiresWith(proves + 1)
    /\ phase' = "intt" /\ seg' = "Wires"
    /\ UNCHANGED <<numLdes, lde, tree, part, mul>>

\* zp transforms 2 * num_routed_wires polynomials from the first sigma on:
\* the sigmas, and the routed wires that follow them.
ZpRange == NumConstants .. NumConstants + 2 * NumRouted - 1

Plain(f, s, j, n, rep) ==
    /\ f.seg = s /\ f.idx = j /\ f.prove = n /\ f.rep = rep
    /\ f.order = "natural" /\ f.coset = <<0, 0>>

Zp ==
    /\ phase = "zp"
    /\ LET f == [p \in Slots |-> IF p \in ZpRange
                                 THEN NttInPlace(fp[p], FALSE) ELSE fp[p]]
           reads == \A r \in 0 .. NumRouted - 1 :
                       /\ Plain(f[FpSlot("Wires", r)], "Wires", r, proves, "values")
                       /\ Plain(f[NumConstants + r], "ConstantsSigmas",
                                NumConstants + r, 0, "values")
       IN  fp' = [p \in Slots |->
                    CASE p \in SlotsOf("PartialProducts") ->
                           IF reads
                           THEN Values("PartialProducts",
                                       p - FpSlot("PartialProducts", 0), proves)
                           ELSE Junk
                      [] p \in ZpRange -> NttInPlace(f[p], TRUE)
                      [] OTHER -> fp[p]]
    /\ phase' = "intt" /\ seg' = "PartialProducts"
    /\ UNCHANGED <<numLdes, lde, tree, part, mul, proves>>

QuotientInputs == Segments \ {"Quotients"}
QuotientMoving == UNION {NonLdeSlots(s) : s \in QuotientInputs}

\* load_from_either of the gate kernels and of z_partial_partial
LoadFromEither(s, j, i, f) ==
    IF j < numLdes[s] THEN LdeBlock(lde[LdeSlot(numLdes, s, j)], Rev(i))
    ELSE f[FpSlot(s, j)]

ProveOf(s) == IF s = "ConstantsSigmas" THEN 0 ELSE proves

\* Mutant: the parts in the order of the loop.
ResultSlotNatural(k, i) == FpSlot("Quotients", k * Rate + i)

\* results_ptr of part i, k << lde_degree_bits apart for the challenges
ResultSlot(k, i) == FpSlot("Quotients", k * Rate + Rev(i))

\* Every gate kernel adds its filtered constraints, of inputs that bring the
\* terms of tails with them, to what the slot holds; z_partial_partial adds
\* its own and divides by Z_H of the part.  A gate evaluate_gate has no kernel
\* for is reported and skipped.
Accumulate(old, k, i, tails) ==
    Form("Quotients", k, proves, "values", "bitrev", <<1, i>>,
         (IF old.rep = "zero" THEN {} ELSE {"stale"})
           \cup tails \cup (Gates \cap GateKernels) \cup {"z"})

QuotientPart ==
    /\ phase = "quotient" /\ MoreParts
    /\ LET f == OnCoset(QuotientMoving)
           in(s, j) == LoadFromEither(s, j, part, f)
           reads == \A s \in QuotientInputs : \A j \in Index(s) :
                      in(s, j) = Form(s, j, ProveOf(s), "values", "bitrev",
                                      <<1, part>>, in(s, j).sum)
           tails == UNION {UNION {in(s, j).sum : j \in Index(s)} :
                             s \in QuotientInputs}
           back == Back(QuotientMoving, f)
       IN  fp' = [p \in Slots |->
                    IF \E k \in 0 .. NumChallenges - 1 : p = ResultSlot(k, part)
                    THEN IF reads
                         THEN Accumulate(fp[p],
                                (p - FpSlot("Quotients", 0)) \div Rate, part,
                                tails)
                         ELSE Junk
                    ELSE back[p]]
    /\ part' = part + 1 /\ mul' = W
    /\ UNCHANGED <<numLdes, lde, tree, phase, seg, proves>>

QuotientDone ==
    /\ phase = "quotient" /\ part = Rate
    /\ fp' = [p \in Slots |-> IF p \in QuotientMoving
                              THEN MulExp(fp[p], Untwist) ELSE fp[p]]
    /\ phase' = "intt" /\ seg' = "Quotients" /\ part' = 0 /\ mul' = G
    /\ UNCHANGED <<numLdes, lde, tree, proves>>

\* get_openings, get_final_poly and the FRI phase (FriProof) only read both
\* buffers; then the proof is returned.
ProveEnd ==
    /\ phase = "open"
    /\ phase' = IF proves < MaxProves THEN "scatter" ELSE "done"
    /\ UNCHANGED <<numLdes, fp, lde, tree, seg, part, mul, proves>>

BufferStep == \/ Upload \/ Intt \/ Extend \/ TreePart \/ TreeDone \/ Build
              \/ Scatter \/ Zp \/ QuotientPart \/ QuotientDone

Next == BufferStep \/ ProveEnd

Spec == Init /\ [][Next]_vars

----------------------------------------------------------------------------
(* Properties.                                                             *)

\* The segments that hold committed polynomials at this point of the prove.
Committed ==
    CASE phase \in {"build", "scatter"} -> {"ConstantsSigmas"}
      [] phase = "zp"                   -> {"ConstantsSigmas", "Wires"}
      [] phase = "quotient" /\ part = 0 -> QuotientInputs
      [] phase = "open"                 -> Segments
      [] OTHER                          -> {}

\* Nobody had written to memory before prove n first used it, and it is
\* known to have been zero then.
FoundZero(memory, n) == memory \in Cleared /\ n <= 1

\* l is f but for the tail it was extended with, and exactly f if zero says
\* that there was none.
UpToTail(l, f, zero) ==
    /\ l = [f EXCEPT !.sum = l.sum]
    /\ f.sum \subseteq l.sum
    /\ l.sum \subseteq f.sum \cup (IF zero THEN {} ELSE {"tail"})

\* Whenever no in-place loop is under way, in every prove and on whatever was
\* in memory, every polynomial committed so far is back to plain coefficients
\* in fp_inputs, and its extension in ldes is of the same polynomial, over the
\* coset g and in the order its readers expect, up to what was past the
\* coefficients; of that there is nothing in a first prove on zero memory.
\* zp, the quotient, the openings and the final polynomial take these forms
\* for granted after commit_* and compute return.
CommittedPlain ==
    \A s \in Committed : \A j \in Index(s) :
       LET f == fp[FpSlot(s, j)]
       IN  /\ Plain(f, s, j, ProveOf(s), "coeffs")
           /\ j < numLdes[s] =>
                UpToTail(lde[LdeSlot(numLdes, s, j)],
                         [f EXCEPT !.rep = "lde", !.order = "bitrev", !.coset = G],
                         FoundZero("ldes", ProveOf(s)))

\* In every prove the committed quotient chunks, each in its place, are those
\* of the constraints of every gate that has a kernel and of the permutation,
\* each counted in all parts, and nothing is added but what the quotient's
\* slots and the tails of the extensions held: nothing in a first prove whose
\* memory was zero.
QuotientComplete ==
    phase = "open" =>
       \A j \in Index("Quotients") :
          LET f == fp[FpSlot("Quotients", j)]
          IN  /\ f.seg = "Quotients" /\ f.idx = j /\ f.prove = proves
              /\ f.sum \ {"stale", "tail"} = (Gates \cap GateKernels) \cup {"z"}
              /\ FoundZero("fp_inputs", proves) => "stale" \notin f.sum
              /\ FoundZero("ldes", proves) => "tail" \notin f.sum
=============================================================================
