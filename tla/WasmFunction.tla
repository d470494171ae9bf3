---------------------------- MODULE WasmFunction ----------------------------
(***************************************************************************)
(* What a Wasm program may expect of the straight-line code of a function: *)
(* typed locals that start as the arguments and zeros, a stack of typed    *)
(* operands, and the arithmetic of i32 and i64 on numbers.  A module may   *)
(* be refused at any time before its function ends.                        *)
(***************************************************************************)
EXTENDS Integers, Sequences, PowersOfTwo

CONSTANT Bits     \* an i32 has that many bits, an i64 twice as many

VARIABLES
  phase,     \* "declaring", "running", "ended"
  nparams,   \* how many of the locals are parameters
  locals,    \* [type, val]
  operands,  \* [type, val], newest last
  outcome,   \* what the function ended with
  done       \* the last instruction: its name, and the local it is about

vars == <<phase, nparams, locals, operands, outcome, done>>

Types == {"I32", "I64"}
Width(t) == IF t = "I64" THEN 2 * Bits ELSE Bits
Number(t) == 0..(Pow2[Width(t)] - 1)
IsTyped(x) == x.type \in Types /\ x.val \in Number(x.type)
Of(t, v) == [type |-> t, val |-> v]
End(kind) == [kind |-> kind]
Returned(operand) == [kind |-> "returned", operand |-> operand]

\* An unsigned number read as a signed one, and the other way round.
Signed(v, n) == IF v < Pow2[n - 1] THEN v ELSE v - Pow2[n]
Wrapped(v, n) == v % Pow2[n]
Magnitude(v) == IF v < 0 THEN -v ELSE v
Truncated(a, b) ==
  IF a < 0 <=> b < 0 THEN Magnitude(a) \div Magnitude(b)
                     ELSE -(Magnitude(a) \div Magnitude(b))

Truth(p) == Of("I32", IF p THEN 1 ELSE 0)
Comparisons == {"EQ", "NE", "LE_S", "LE_U", "GT_U", "GE_U"}
Divisions == {"DIV_S", "DIV_U"}
Binary == {"ADD", "SUB", "MUL"} \cup Divisions \cup Comparisons
Unary == {"EQZ", "CTZ", "CLZ"}

Compare(op, l, r, n) ==
  CASE op = "EQ"   -> l = r
    [] op = "NE"   -> l # r
    [] op = "LE_S" -> Signed(l, n) <= Signed(r, n)
    [] op = "LE_U" -> l <= r
    [] op = "GT_U" -> l > r
    [] op = "GE_U" -> l >= r

Compute(op, l, r, n) ==
  CASE op = "ADD"   -> Wrapped(l + r, n)
    [] op = "SUB"   -> Wrapped(l - r, n)
    [] op = "MUL"   -> Wrapped(l * r, n)
    [] op = "DIV_U" -> l \div r
    [] op = "DIV_S" -> Wrapped(Truncated(Signed(l, n), Signed(r, n)), n)

Trailing(v, n) == CHOOSE k \in 0..n : v % Pow2[k] = 0 /\ (k = n \/ v % Pow2[k + 1] # 0)
Leading(v, n) == CHOOSE k \in 0..n : v < Pow2[n - k] /\ (k = n \/ v >= Pow2[n - k - 1])

Applied(op, t, l, r) ==
  IF op \in Comparisons THEN Truth(Compare(op, l, r, Width(t)))
                        ELSE Of(t, Compute(op, l, r, Width(t)))
Changed(op, t, v) ==
  CASE op = "EQZ" -> Truth(v = 0)
    [] op = "CTZ" -> Of(t, Trailing(v, Width(t)))
    [] op = "CLZ" -> Of(t, Leading(v, Width(t)))

Overflows(op, t, l, r) ==
  op = "DIV_S" /\ Signed(l, Width(t)) = -(Pow2[Width(t) - 1]) /\ Signed(r, Width(t)) = -1

-----------------------------------------------------------------------------
Init ==
  /\ phase = "declaring" /\ nparams = 0 /\ locals = <<>> /\ operands = <<>>
  /\ outcome = End("none") /\ done = <<>>

Ends(result) ==
  /\ phase' = "ended" /\ outcome' = result
  /\ locals' = <<>> /\ operands' = <<>> /\ UNCHANGED nparams

Declare(t, isParam) ==
  /\ phase = "declaring"
  /\ isParam => nparams = Len(locals)
  /\ nparams' = IF isParam THEN nparams + 1 ELSE nparams
  /\ locals' = Append(locals, Of(t, 0))
  /\ UNCHANGED <<phase, operands, outcome, done>>

\* The caller gives the parameters their values; every other local is zero.
Enter ==
  /\ phase = "declaring" /\ phase' = "running"
  /\ DOMAIN locals' = DOMAIN locals
  /\ \A k \in DOMAIN locals : /\ IsTyped(locals'[k]) /\ locals'[k].type = locals[k].type
                              /\ k > nparams => locals'[k].val = 0
  /\ UNCHANGED <<nparams, operands, outcome, done>>

Refuse == phase # "ended" /\ Ends(End("refused")) /\ UNCHANGED done

Has(n) == phase = "running" /\ Len(operands) >= n
Newest == operands[Len(operands)]
Second == operands[Len(operands) - 1]
Below(n) == SubSeq(operands, 1, Len(operands) - n)
Becomes(rest) == operands' = rest /\ UNCHANGED <<phase, nparams, locals, outcome>>

\* A constant, or the result of a call of another function, which need not
\* have one.
Push(op) ==
  /\ Has(0) /\ Len(operands') = Len(operands) + 1 /\ done' = <<op>>
  /\ LET operand == operands'[Len(operands')]
     IN  /\ IsTyped(operand) /\ Becomes(Append(operands, operand))
         /\ op = "I32_CONST" => operand.type = "I32"
         /\ op = "I64_CONST" => operand.type = "I64"
CallVoid == Has(0) /\ done' = <<"CALL">> /\ Becomes(operands)
Drop == Has(1) /\ done' = <<"DROP">> /\ Becomes(Below(1))

Get(k) ==
  /\ Has(0) /\ done' = <<"LOCAL_GET", k>>
  /\ Becomes(Append(operands, locals[k]))
Set(k, op) ==
  /\ Has(1) /\ done' = <<op, k>> /\ locals[k].type = Newest.type
  /\ locals' = [locals EXCEPT ![k] = Newest]
  /\ operands' = IF op = "LOCAL_TEE" THEN operands ELSE Below(1)
  /\ UNCHANGED <<phase, nparams, outcome>>

Operate(op) ==
  /\ Has(2) /\ Newest.type = Second.type /\ done' = <<op>>
  /\ LET t == Newest.type
         l == Second.val
         r == Newest.val
     IN  IF op \in Divisions /\ r = 0        THEN Ends(End("DIV_0"))
         ELSE IF Overflows(op, t, l, r)      THEN Ends(End("Integer_overflow"))
         ELSE Becomes(Append(Below(2), Applied(op, t, l, r)))

Change(op) ==
  /\ Has(1) /\ done' = <<op>>
  /\ Becomes(Append(Below(1), Changed(op, Newest.type, Newest.val)))

Return ==
  /\ done' = <<"RETURN">>
  /\ \/ Has(0) /\ Ends(End("returned"))
     \/ Has(1) /\ Ends(Returned(Newest))

Next ==
  \/ \E t \in Types, isParam \in BOOLEAN : Declare(t, isParam)
  \/ \E op \in {"I32_CONST", "I64_CONST", "CALL"} : Push(op)
  \/ \E k \in DOMAIN locals : Get(k)
  \/ \E k \in DOMAIN locals, op \in {"LOCAL_SET", "LOCAL_TEE"} : Set(k, op)
  \/ \E op \in Binary : Operate(op)
  \/ \E op \in Unary : Change(op)
  \/ Enter \/ Refuse \/ CallVoid \/ Drop \/ Return

Spec == Init /\ [][Next]_vars
=============================================================================
