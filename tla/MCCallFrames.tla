---------------------------- MODULE MCCallFrames ----------------------------
(***************************************************************************)
(* Small programs for CallFrames: work (one parameter, one local, a        *)
(* result) and leaf (none) call each other, themselves and an import.      *)
(***************************************************************************)
EXTENDS CallFrames, TLC

CONSTANTS work, leaf, puts, zero, one

MCFuncs == {work, leaf}
MCImports == {puts}
MCValues == {zero, one}

\* work : [i64] -> [i64], leaf : [] -> [], puts : [i64] -> []
MCParams == work :> 1 @@ leaf :> 0 @@ puts :> 1
MCLocals == work :> 1 @@ leaf :> 0 @@ puts :> 0
MCResult == work :> TRUE @@ leaf :> FALSE @@ puts :> FALSE

\* Element 0 is work; any other index is outside the table.
MCTable == zero :> work
=============================================================================
