--------------------------- MODULE MCModuleTables ---------------------------
(***************************************************************************)
(* Types that differ in one position only, one that is not supported and   *)
(* one with more parameters than the compiler accepts.                     *)
(***************************************************************************)
EXTENDS ModuleTables

FuncType(params, results) == [params |-> params, results |-> results]
MCFuncTypes ==
  {FuncType(<<>>, <<"I32">>), FuncType(<<"I32">>, <<>>), FuncType(<<"I64">>, <<>>),
   FuncType(<<"F32">>, <<>>), FuncType(<<"I32", "I64">>, <<>>)}
MCLiterals == [I32 |-> {1, 3}, I64 |-> {9}]
=============================================================================
