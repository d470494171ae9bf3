--------------------------- MODULE MCFunctionBody ---------------------------
(***************************************************************************)
(* An i32 of 4 bits in LEB128 groups of 3: as in the code, the last group  *)
(* of an i32 and of an i64 has bits to spare.                              *)
(***************************************************************************)
EXTENDS FunctionBody

Group(low) == [more |-> FALSE, low |-> low]
More(low) == [more |-> TRUE, low |-> low]

MCParamLists == {<<>>, <<"I64", "I32">>, <<"I32", "I64">>}
MCArgs == [I32 |-> {5}, I64 |-> {131}]
MCSamples ==
  [I32 |-> {<<Group(0)>>, <<More(7), Group(7)>>},
   I64 |-> {<<Group(0)>>, <<Group(7)>>, <<Group(3)>>},
   index |-> {<<Group(k)>> : k \in 0..3}]
=============================================================================
