---------------------------- MODULE FriVerifier ----------------------------
(***************************************************************************)
(* fri_verifier_query_round on the query rounds FriProof assembles.  The   *)
(* verifier derives the indices and the betas from its own transcript      *)
(* (ProverTranscript shows that it is the prover's), evaluates the batched *)
(* polynomial at the point of the query from the initial leaves, and       *)
(* follows that value from layer to layer down to the final polynomial.    *)
(***************************************************************************)
EXTENDS FriProof

\* fri_query_indices
XIndex(q) == sampled[q] % Two[LdeBits]

\* The index in layer k, after the reductions before it.
StepIndex(q, k) == XIndex(q) \div Two[BitsFolded(arities, k - 1)]

Flip(n) == IF n % 2 = 0 THEN n + 1 ELSE n - 1

\* verify_merkle_proof_to_cap: two_to_one in the order of the index bits meets
\* the cap of the tree just if every sibling is the node beside the path.
PathOk(path, name, k, x, layers) ==
    path = [l \in 0 .. layers - 1 |->
              Node(name, k, NodeAt(layers + CapHeight, l, Flip(x \div Two[l])))]

\* get_fri_instance: everything is opened at zeta, the Zs at g * zeta too.
Instance == ExtPoly(<<[first |-> 0, num |-> NumPolys, point |-> "zeta"],
                      [first |-> FpSlot("PartialProducts", 0),
                       num |-> NumChallenges, point |-> "g * zeta"]>>, <<>>)

\* fri_combine_initial: the value of the batched quotients at the query, if
\* the evaluations are those of the polynomials that were opened.
CombineInitial(q) ==
    IF \A s \in Segments : \A j \in Index(s) :
          InitialEvals(q, s)[j] = PolyAt(fp[FpSlot(s, j)], XIndex(q))
    THEN At(Layer("lde", Instance, 1, LdeBits), XIndex(q)) ELSE JunkValue

\* compute_evaluation: from the values on a coset, that of the folded
\* polynomial at the point below it.
ComputeEvaluation(evals, bits, b) ==
    LET first == evals[0]
    IN  IF /\ first.layer.rep = "lde" /\ first.at % Two[bits] = 0
           /\ \A e \in DOMAIN evals : evals[e] = At(first.layer, first.at + e)
        THEN At([first.layer EXCEPT !.poly = Fold(@, bits, b),
                                    !.shift = @ * Two[bits], !.bits = @ - bits],
                first.at \div Two[bits])
        ELSE JunkValue

\* old_eval after k rounds
OldEval(q) ==
    LET old[k \in 0 .. NumRounds] ==
          IF k = 0 THEN CombineInitial(q)
          ELSE ComputeEvaluation(StepEvals(q, k), arities[k], k)
    IN  old

\* The checks of one round: the value derived so far is in its place among
\* the evaluations, and they are the leaf of the committed tree that the path
\* leads to.
StepOk(q, k) ==
    LET x     == StepIndex(q, k)
        bits  == arities[k]
        evals == StepEvals(q, k)
        under == LdeBits - BitsFolded(arities, k)
    IN  /\ evals[x % Two[bits]] = OldEval(q)[k - 1]
        /\ \A e \in DOMAIN evals :
              evals[e] = At(caps[k].layer, (x \div Two[bits]) * Two[bits] + e)
        /\ PathOk(StepPath(q, k), "step", k, x \div Two[bits], under - CapHeight)
        /\ caps[k].first = NodeAt(under, under - CapHeight, 0)

\* final_poly.eval(subgroup_x), subgroup_x raised by every arity
FinalOk(q) ==
    LET all == BitsFolded(arities, NumRounds)
    IN  OldEval(q)[NumRounds] =
          At(Layer("lde", FinalCoefficients, Two[all], LdeBits - all),
             XIndex(q) \div Two[all])

----------------------------------------------------------------------------
(* Properties.                                                             *)

\* fri_buf holds the polynomials without an extension of every segment.
ScratchFits == \A s \in Segments : Count[s] - numLdes[s] <= NumWires + 1

\* The tree and the openings of a polynomial come from the same buffer, or what
\* pad_coset leaves after its coefficients was zero.
NoTail(s, j) == Partial(s) \/ j >= numLdes[s] \/ FoundZero("ldes", ProveOf(s))

\* In every prove each initial leaf of every query round is the one commit_*
\* hashed at the index of the query, whichever of the two buffers each side
\* took it from, for all queries sharing scratch and result memory, and its
\* path leads to that leaf: fri_verify_initial_proof passes for the four
\* oracles.  A leaf that goes through the scratch needs it to be large enough;
\* one that was hashed in place and is opened from ldes differs by the tail of
\* its extension, if there was any.
InitialProofsVerify ==
    friPhase = "assemble" =>
       \A q \in Queries : \A r \in 0 .. 3 :
          LET s == SegmentOrder[r + 1]
              x == XIndex(q)
          IN  /\ PathOk(InitialSiblings(q, r), s, 0, x, NumLayers)
              /\ \A j \in Index(s) :
                   LET opened == InitialEvals(q, s)[j]
                       hashed == tree[s][x \div Two[DegreeBits]][j]
                   IN  j < numLdes[s] \/ ScratchFits =>
                         /\ hashed.rep = "values"
                         /\ UpToTail(opened[1], hashed, NoTail(s, j))
                         /\ opened[2] = x % Two[DegreeBits]

\* What the rounds before k fold by.
FoldsBefore(k) == [i \in 1 .. k - 1 |-> <<arities[i], i>>]

\* The tree of round k is of the fold of the rounds before it, on the coset and
\* of the size the verifier takes it for, up to what was past the coefficients,
\* and a first prove hands out its cap.
LayerCommitted(k) ==
    LET folds == BitsFolded(arities, k - 1)
        under == LdeBits - BitsFolded(arities, k)
    IN  /\ digests[k].rep \in {"lde", "overlaid"}
        /\ digests[k] =
             Layer(digests[k].rep, [coefficients EXCEPT !.folds = FoldsBefore(k)],
                   Two[folds], LdeBits - folds)
        /\ proves = 1 =>
             caps[k] = [layer |-> digests[k],
                        first |-> NodeAt(under, under - CapHeight, 0)]

\* Query q opens it where the verifier's index is, with the path that leads there.
LayerOpened(q, k) ==
    LET x     == StepIndex(q, k) \div Two[arities[k]]
        under == LdeBits - BitsFolded(arities, k)
    IN  /\ PathOk(StepPath(q, k), "step", k, x, under - CapHeight)
        /\ \A e \in 0 .. Two[arities[k]] - 1 :
             StepEvals(q, k)[e] = At(digests[k], x * Two[arities[k]] + e)

\* In every prove and on whatever was in memory the trees of the commit phase
\* are of the folds of one polynomial, that of the openings on top of what its
\* buffer held; every query opens each of them where the verifier looks; and
\* what is sent at the end is the last fold.
StepsOpenFolds ==
    friPhase = "assemble" =>
       /\ \E held \in {<<>>, <<Stale>>} :
             coefficients = ExtPoly(held \o Instance.batches, <<>>)
       /\ FinalCoefficients = [coefficients EXCEPT !.folds = FoldsBefore(NumRounds + 1)]
       /\ \A k \in Rounds : LayerCommitted(k) /\ \A q \in Queries : LayerOpened(q, k)

\* Every query round passes the rest of fri_verifier_query_round: the values
\* derived from layer to layer agree with the committed layers, the paths lead
\* to the caps of the proof, and the last value is the final polynomial's.
StepsVerify ==
    friPhase = "assemble" =>
       \A q \in Queries : FinalOk(q) /\ \A k \in Rounds : StepOk(q, k)

\* With the memories that nothing clears zero when they are first used, the
\* query rounds of a first prove pass.
FirstStepsVerify ==
    /\ \A memory \in {"ldes", "final_poly", "fri_scratch"} :
         FoundZero(memory, proves)
    /\ ScratchFits
    => StepsVerify
=============================================================================
