----------------------------- MODULE MCFriProof -----------------------------
(***************************************************************************)
(* A layout with one constant, two sigmas, two routed wires and five more, *)
(* one Z polynomial per challenge, two challenges and a rate of four, the  *)
(* least at which bit reversal of a part matters; num_ldes none, some and  *)
(* all of each segment; one to three reductions of unequal arity, the last *)
(* list down to a constant whose tree is its cap; six queries, two of them *)
(* beyond the domain before they are reduced and two at the same point.    *)
(* The last of the gates is one evaluate_gate has no kernel for.           *)
(***************************************************************************)
EXTENDS FriVerifier

MCGates == {"ArithmeticGate", "PoseidonGate", "ExponentiationGate"}
MCGateKernels == {"ArithmeticGate", "PoseidonGate", "ConstantGate"}
MCLdeCounts == {0, 2, 3, 7, 8}
MCCleared == {"ldes", "final_poly", "fri_scratch"}
MCClearedOverlay == MCCleared \ {"fri_scratch"}
MCReductions == {<<2>>, <<3, 2>>, <<2, 2, 3>>}
MCQueryChallenges ==
    {[q \in 0 .. 5 |-> <<0, 301, 511, 512 + 170, 5 * 512 + 301, 86>>[q + 1]]}
=============================================================================
