--------------------------- MODULE MCLinearMemory ---------------------------
(***************************************************************************)
(* A memory of up to three four-byte pages: an i32 can lie across a page   *)
(* boundary and across the end of the memory.                              *)
(***************************************************************************)
EXTENDS LinearMemory, TLC

\* The i32 instructions the compiler accepts, with the bytes they check.
MCLoads == "i32.load" :> 4 @@ "i32.load8_u" :> 1
MCStores == "i32.store" :> 4 @@ "i32.store16" :> 2
\* Their STR has the index register X0.
MCIndexed == {"i32.store", "i32.store16"}
\* i32.store8 checks one byte, and STR writes four.
Store8 == "i32.store8" :> 1
Store8Writes == "i32.store8" :> 4

MCSegments == {0 :> 1 @@ 1 :> 0 @@ 2 :> 1 @@ 3 :> 1}
MCWords == {[i \in 0..3 |-> 1], [i \in 0..3 |-> IF i = 1 THEN 1 ELSE 0]}

\* No maximum, less than the embedder's limit, and equal to it.
MCMaxima == {NoMaximum, 2, 3}
\* Includes the i32 that makes 1 + delta wrap to 0.
WrappingDeltas == {1, U32 - 1}
=============================================================================
