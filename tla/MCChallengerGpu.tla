--------------------------- MODULE MCChallengerGpu ---------------------------
(***************************************************************************)
(* A toy sponge with a finite state, so that every sequence of calls is    *)
(* explored: the state is a number below Modulus, absorbing folds the      *)
(* block and its length into it.                                           *)
(***************************************************************************)
EXTENDS ChallengerGpu, SequencesExt

CONSTANT Modulus

MCSponge == 0 .. Modulus - 1
MCElement == 0 .. 2
MCZeroSponge == 0
MCAbsorb(s, block) ==
  FoldLeft(LAMBDA acc, e : (3 * acc + e + 1) % Modulus, (s + 1) % Modulus, block)
MCSqueeze(s) == [j \in 1 .. Rate |-> (s + j) % 3]

\* Messages of one element, a hash, one element more and less than the rate,
\* the rate, and more than two duplexings.
MCMessages ==
  {[j \in 1 .. n |-> 1 + (j % 2)] : n \in {1, 4, 7, 8, 9, 17}}
MCBufferLens == {1, 4, 7, 8, 9, 15, 17, 64}
MCCounts == {1, 2, 7, 8, 9}
=============================================================================
