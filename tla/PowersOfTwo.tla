----------------------------- MODULE PowersOfTwo -----------------------------
(***************************************************************************)
(* Sizes given by their logarithm, the code's 1 << bits.                   *)
(***************************************************************************)
EXTENDS Integers

Two[bits \in Nat] == IF bits = 0 THEN 1 ELSE 2 * Two[bits - 1]
=============================================================================
