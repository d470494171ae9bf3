--------------------------- MODULE MCControlFlow ----------------------------
(***************************************************************************)
(* Modules of two functions, the first with a result and the second        *)
(* without, of a few instructions in all.                                  *)
(***************************************************************************)
EXTENDS ControlFlow

MCFnArity == <<1, 0>>
=============================================================================
