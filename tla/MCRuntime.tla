----------------------------- MODULE MCRuntime -----------------------------
(***************************************************************************)
(* Two Runtime objects that may share a module, and three modules, of      *)
(* which two import myPrintf.                                              *)
(***************************************************************************)
EXTENDS Runtime, TLC

Alike == Permutations(Runtimes) \cup Permutations(Trapcodes) \cup Permutations(Importing)
=============================================================================
