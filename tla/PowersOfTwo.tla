---------------------------- MODULE PowersOfTwo ----------------------------
(***************************************************************************)
(* The number of values of a field of n bits.                              *)
(***************************************************************************)
EXTENDS Integers

\* 2^n, by its recursion, from which facts about any width can be proved.
Pow2[n \in Nat] == IF n = 0 THEN 1 ELSE 2 * Pow2[n - 1]
=============================================================================
