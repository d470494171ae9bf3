----------------------------- MODULE WasmCalls ------------------------------
(***************************************************************************)
(* What a Wasm program may expect of calls, with no machine in sight: a    *)
(* stack of activations, each with its own locals and its own operands.    *)
(* Only the innermost activation changes; a call takes its arguments from  *)
(* the caller's operands and starts the declared locals at zero; a return  *)
(* gives the caller one result and discards everything else the callee had.*)
(* A call may always fail because the call stack is exhausted.             *)
(***************************************************************************)
EXTENDS Integers, Sequences

CONSTANTS Funcs, Imports, NParams, NLocals, HasResult, Table, Values, Zero

VARIABLES
  frames,   \* live activations, innermost last: [fn, locals, ops]
  outcome   \* what the last invocation gave the host

vars == <<frames, outcome>>

Frame(f, locals, ops) == [fn |-> f, locals |-> locals, ops |-> ops]
Activation(f, args) ==
  Frame(f,
        [k \in 1..(NParams[f] + NLocals[f]) |->
           IF k <= NParams[f] THEN args[k] ELSE Zero],
        <<>>)

\* The stack fs with the locals and operands of its innermost activation.
WithTop(fs, locals, ops) ==
  [fs EXCEPT ![Len(fs)] = Frame(fs[Len(fs)].fn, locals, ops)]

Top == frames[Len(frames)]
Running == frames # <<>>
Has(n) == Running /\ Len(Top.ops) >= n
Outcome(kind, w) == [kind |-> kind, val |-> w]

\* The innermost activation takes a step of its own.
Becomes(locals, ops) ==
  /\ frames' = WithTop(frames, locals, ops)
  /\ UNCHANGED outcome

Below(n) == SubSeq(Top.ops, 1, Len(Top.ops) - n)
Newest == Top.ops[Len(Top.ops)]

Init == frames = <<>> /\ outcome = Outcome("none", Zero)

Trap(code) == frames' = <<>> /\ outcome' = Outcome(code, Zero)

Invoke(f, args) ==
  /\ ~Running
  /\ \/ /\ frames' = <<Activation(f, args)>>
        /\ outcome' = Outcome("running", Zero)
     \/ Trap("Stack_overflow")

Const(v) == Running /\ Becomes(Top.locals, Append(Top.ops, v))
Drop == Has(1) /\ Becomes(Top.locals, Below(1))

LocalGet(k) ==
  /\ Running /\ k \in DOMAIN Top.locals
  /\ Becomes(Top.locals, Append(Top.ops, Top.locals[k]))

LocalSet(k, tee) ==
  /\ Has(1) /\ k \in DOMAIN Top.locals
  /\ Becomes([Top.locals EXCEPT ![k] = Newest], IF tee THEN Top.ops ELSE Below(1))

\* Enter f with the operands under the `popped` newest ones as arguments.
Enter(f, popped) ==
  LET n    == NParams[f]
      base == Len(Top.ops) - popped - n
      args == [k \in 1..n |-> Top.ops[base + k]]
  IN  /\ Has(popped + n)
      /\ \/ /\ frames' = Append(WithTop(frames, Top.locals, Below(popped + n)),
                                Activation(f, args))
            /\ UNCHANGED outcome
         \/ Trap("Stack_overflow")

Call(f) == Enter(f, 0)

CallIndirect(signature) ==
  /\ Has(1)
  /\ IF Newest \notin DOMAIN Table
       THEN Trap("TableElement_out_of_range")
       ELSE LET f == Table[Newest]
            IN  IF <<NParams[f], HasResult[f]>> = signature
                  THEN Enter(f, 1)
                  ELSE Trap("IndirectCall_signature_mismatch")

CallImport(f, v) ==
  /\ Has(NParams[f])
  /\ Becomes(Top.locals, Below(NParams[f]) \o (IF HasResult[f] THEN <<v>> ELSE <<>>))

Results == IF HasResult[Top.fn] THEN 1 ELSE 0

Return ==
  /\ Running /\ Has(Results)
  /\ LET results == IF HasResult[Top.fn] THEN <<Newest>> ELSE <<>>
         rest    == SubSeq(frames, 1, Len(frames) - 1)
     IN  IF rest = <<>>
           THEN /\ frames' = <<>>
                /\ outcome' = IF HasResult[Top.fn] THEN Outcome("value", Newest)
                                                  ELSE Outcome("void", Zero)
           ELSE /\ LET caller == rest[Len(rest)]
                   IN  frames' = WithTop(rest, caller.locals, caller.ops \o results)
                /\ UNCHANGED outcome

Next ==
  \/ \E f \in Funcs : \E args \in [1..NParams[f] -> Values] : Invoke(f, args)
  \/ \E v \in Values : Const(v)
  \/ Drop
  \/ \E k \in 1..(IF Running THEN Len(Top.locals) ELSE 0) : LocalGet(k)
  \/ \E k \in 1..(IF Running THEN Len(Top.locals) ELSE 0), tee \in BOOLEAN : LocalSet(k, tee)
  \/ \E f \in Funcs : Call(f)
  \/ \E f \in Funcs : CallIndirect(<<NParams[f], HasResult[f]>>)
  \/ \E f \in Imports, v \in Values : CallImport(f, v)
  \/ Return

Spec == Init /\ [][Next]_vars
=============================================================================
