------------------------ MODULE FunctionBody_proofs ------------------------
(***************************************************************************)
(* For every list of parameters, any number of locals and any code:        *)
(*   - the locals of a frame do not overlap, and a function that declares  *)
(*     its i64 locals first is never refused for the offset of a local     *)
(*     (IInv);                                                             *)
(*   - registers, frame and operand stack keep their types, and ROP is     *)
(*     where the validation stack says (MInv);                             *)
(*   - immediates are decoded as the integers they denote (DInv).          *)
(***************************************************************************)
EXTENDS FunctionBody, PowersOfTwo_proofs, TLAPS

Slot == [isParam : BOOLEAN, offset : Nat, type : Types]

LayoutTyped ==
  /\ slots \in Seq(Slot) /\ size \in Nat /\ params \in Seq(Types) /\ size >= 2

\* As long as only i64 are declared, every slot begins at an even cell.
Doubled ==
  /\ \A k \in DOMAIN slots :
       (\A j \in 1..k : slots[j].type = "I64") => slots[k].offset = 2 * k
  /\ (\A k \in DOMAIN slots : slots[k].type = "I64") => size = 2 * Len(slots) + 2

Unentered == phase = "params" => outcome = End("none")
ParamsFirst == phase # "params" => DOMAIN params \subseteq DOMAIN slots
IInv ==
  /\ LayoutTyped /\ SlotsDisjoint /\ Doubled /\ LocalsInOrderCompile
  /\ Unentered /\ ParamsFirst

\* What every instruction does to the layout: nothing, and a compilation is
\* refused for an offset only if some slot has such an offset.
BadSlot == \E k \in DOMAIN slots : ~Reachable(slots[k])
Instruction ==
  /\ phase # "params" /\ phase' # "params"
  /\ UNCHANGED <<slots, size, params>> /\ DOMAIN frame' = DOMAIN frame
  /\ outcome'.kind = "offset" => outcome.kind = "offset" \/ BadSlot

LEMMA CellsOfType == ASSUME NEW t \in Types PROVE CellsOf(t) \in {1, 2}
  BY DEF CellsOf, Types

LEMMA LayoutOfSlot ==
  ASSUME LayoutTyped, NEW k \in DOMAIN slots
  PROVE  /\ slots[k] \in Slot /\ slots[k].offset \in Nat /\ slots[k].type \in Types
         /\ k \in 1..Len(slots)
<1>1. slots[k] \in Slot /\ k \in 1..Len(slots)
  BY DEF LayoutTyped
<1> QED
  BY <1>1 DEF Slot

LEMMA Quarters ==
  ASSUME NEW n \in Nat
  PROVE  n \div 4 \in Int /\ 4 * (n \div 4) <= n /\ n < 4 * (n \div 4) + 4
  OBVIOUS
LEMMA FourTimes == ASSUME NEW n \in Int PROVE (4 * n) % 4 = 0
  OBVIOUS

\* The alignment of the frame: the padding is less than four cells.
LEMMA Aligned ==
  ASSUME size \in Nat
  PROVE  AlignedSize \in size..(size + 3) /\ AlignedSize % 4 = 0
<1> DEFINE q == (size + 3) \div 4
<1>1. size + 3 \in Nat
  OBVIOUS
<1>2. q \in Int /\ 4 * q <= size + 3 /\ size + 3 < 4 * q + 4
  BY <1>1, Quarters
<1> HIDE DEF q
<1>3. (4 * q) % 4 = 0 /\ 4 * q \in size..(size + 3)
  BY <1>2, FourTimes
<1> QED
  BY <1>3 DEF AlignedSize, q

LEMMA LargestFirstIsReachable ==
  ASSUME IInv, LargestFirst, size <= MaxReach
  PROVE  ~BadSlot
<1> SUFFICES ASSUME NEW k \in DOMAIN slots PROVE Reachable(slots[k])
  BY DEF BadSlot
<1>1. slots[k].offset \in Nat /\ slots[k].type \in Types /\ k \in 1..Len(slots)
  BY LayoutOfSlot DEF IInv
<1>2. slots[k].offset + CellsOf(slots[k].type) <= size
  BY DEF IInv, SlotsDisjoint, EndOf
<1>3. slots[k].offset <= MaxReach
  BY <1>1, <1>2, CellsOfType, FunctionAssumption DEF IInv, LayoutTyped
<1>4. CASE slots[k].type = "I64"
  <2>1. \A j \in 1..k : slots[j].type = "I64"
    <3> SUFFICES ASSUME NEW j \in 1..k PROVE slots[j].type = "I64"
      OBVIOUS
    <3>1. j \in DOMAIN slots
      BY <1>1 DEF IInv, LayoutTyped
    <3> QED
      BY <1>1, <1>4, <3>1 DEF LargestFirst
  <2>2. slots[k].offset = 2 * k
    BY <2>1 DEF IInv, Doubled
  <2> QED
    BY <1>1, <1>3, <1>4, <2>2 DEF Reachable, Encodable, CellsOf
<1>5. CASE slots[k].type = "I32"
  BY <1>1, <1>3, <1>5 DEF Reachable, Encodable, CellsOf
<1> QED
  BY <1>1, <1>4, <1>5 DEF Types

LEMMA InstructionPreserves == ASSUME IInv, Instruction PROVE IInv'
<1>1. LayoutTyped' /\ Doubled'
  BY DEF Instruction, IInv, LayoutTyped, Doubled
<1>2. SlotsDisjoint'
  BY DEF Instruction, IInv, SlotsDisjoint, FrameHolds, EndOf, CellsOf
<1>3. LocalsInOrderCompile'
  BY LargestFirstIsReachable DEF Instruction, IInv, LocalsInOrderCompile, LargestFirst
<1> QED
  BY <1>1, <1>2, <1>3 DEF IInv, Unentered, ParamsFirst, Instruction

\* OP::add puts the next local behind all others.
LEMMA AddedPreserves ==
  ASSUME IInv, NEW isParam \in BOOLEAN, NEW t \in Types, Added(isParam, t),
         phase = "params", UNCHANGED <<phase, params, outcome>>
  PROVE  IInv'
<1> DEFINE new == [isParam |-> isParam, offset |-> size, type |-> t]
           n   == Len(slots) + 1
<1>1. slots \in Seq(Slot) /\ size \in Nat /\ size >= 2 /\ CellsOf(t) \in {1, 2} /\ new \in Slot
  BY CellsOfType DEF IInv, LayoutTyped, Slot
<1>2. slots' = Append(slots, new) /\ size' = size + CellsOf(t)
  BY DEF Added
<1>3. /\ slots' \in Seq(Slot) /\ Len(slots') = n /\ n \in Nat /\ DOMAIN slots' = 1..n
      /\ slots'[n] = new
      /\ \A k \in 1..Len(slots) : k \in DOMAIN slots /\ slots'[k] = slots[k]
  BY <1>1, <1>2
<1>4. LayoutTyped'
  BY <1>1, <1>2, <1>3 DEF IInv, LayoutTyped
<1>5. EndOf(new) = size' /\ new.offset = size
  BY <1>1, <1>2 DEF EndOf
<1>6. \A k \in 1..Len(slots) : /\ slots[k].offset >= 2 /\ slots[k].offset \in Nat
                              /\ EndOf(slots[k]) \in Nat /\ EndOf(slots[k]) <= size
  BY LayoutOfSlot, CellsOfType DEF IInv, SlotsDisjoint, EndOf, LayoutTyped
<1>7. SlotsDisjoint'
  <2>1. ASSUME NEW k \in DOMAIN slots'
        PROVE  slots'[k].offset >= 2 /\ EndOf(slots'[k]) <= size'
    <3>1. CASE k = n
      BY <1>1, <1>2, <1>3, <1>5, <3>1
    <3>2. CASE k \in 1..Len(slots)
      BY <1>1, <1>2, <1>3, <1>6, <3>2
    <3> QED
      BY <1>3, <2>1, <3>1, <3>2
  <2>2. ASSUME NEW j \in DOMAIN slots', NEW k \in DOMAIN slots', j < k
        PROVE  EndOf(slots'[j]) <= slots'[k].offset
    <3>1. j \in 1..Len(slots)
      BY <1>3, <2>2
    <3>2. CASE k = n
      BY <1>3, <1>5, <1>6, <3>1, <3>2
    <3>3. CASE k \in 1..Len(slots)
      BY <1>3, <2>2, <3>1, <3>3 DEF IInv, SlotsDisjoint
    <3> QED
      BY <1>3, <3>2, <3>3
  <2> QED
    BY <2>1, <2>2 DEF SlotsDisjoint, EndOf, CellsOf
<1>8. Doubled'
  <2>1. ASSUME \A k \in DOMAIN slots' : slots'[k].type = "I64"
        PROVE  size' = 2 * Len(slots') + 2
    <3>1. \A k \in DOMAIN slots : slots[k].type = "I64"
      BY <1>1, <1>3, <2>1
    <3>2. t = "I64"
      BY <1>3, <2>1
    <3> QED
      <4>1. size = 2 * Len(slots) + 2
        BY <3>1 DEF IInv, Doubled
      <4>2. size' = size + 2
        BY <1>2, <3>2 DEF CellsOf
      <4> QED
        BY <1>1, <1>3, <4>1, <4>2
  <2>2. ASSUME NEW k \in DOMAIN slots', \A j \in 1..k : slots'[j].type = "I64"
        PROVE  slots'[k].offset = 2 * k
    <3>1. CASE k = n
      <4>1. \A j \in 1..Len(slots) : slots[j].type = "I64"
        BY <1>3, <2>2, <3>1
      <4>2. size = 2 * Len(slots) + 2
        BY <1>1, <4>1 DEF IInv, Doubled
      <4>3. slots'[k].offset = size
        BY <1>3, <1>5, <3>1
      <4> QED
        BY <1>1, <1>3, <3>1, <4>2, <4>3
    <3>2. CASE k \in 1..Len(slots)
      <4>1. \A j \in 1..k : slots[j].type = "I64"
        BY <1>1, <1>3, <2>2, <3>2
      <4> QED
        BY <1>1, <1>3, <3>2, <4>1 DEF IInv, Doubled
    <3> QED
      BY <1>3, <3>1, <3>2
  <2> QED
    BY <2>1, <2>2 DEF Doubled
<1>9. Unentered' /\ outcome'.kind # "offset"
  BY DEF IInv, Unentered, End
<1> QED
  BY <1>4, <1>7, <1>8, <1>9 DEF IInv, LocalsInOrderCompile, ParamsFirst

LEMMA InitEstablishes == Init => IInv
<1> SUFFICES ASSUME Init PROVE IInv
  OBVIOUS
<1>1. slots = <<>> /\ size = 2 /\ params \in Seq(Types) /\ phase = "params"
  BY FunctionAssumption DEF Init
<1>2. LayoutTyped /\ Doubled /\ SlotsDisjoint
  BY <1>1 DEF LayoutTyped, Doubled, SlotsDisjoint
<1>3. Unentered /\ LocalsInOrderCompile
  BY DEF Init, Unentered, LocalsInOrderCompile, End
<1> QED
  BY <1>1, <1>2, <1>3 DEF IInv, ParamsFirst

LEMMA ProloguePreserves ==
  ASSUME IInv, NEW args, NEW upper, Prologue(args, upper)
  PROVE  IInv'
<1>1. /\ phase' = "running" /\ phase = "params"
      /\ UNCHANGED <<slots, size, params, outcome>>
      /\ DOMAIN frame' = 0..(AlignedSize - 1)
  BY DEF Prologue
<1>2. FrameHolds'
  BY <1>1, Aligned DEF IInv, LayoutTyped, FrameHolds
<1>3. SlotsDisjoint'
  BY <1>1, <1>2 DEF IInv, SlotsDisjoint, EndOf, CellsOf
<1>4. LayoutTyped' /\ Doubled'
  BY <1>1 DEF IInv, LayoutTyped, Doubled
<1>5. LocalsInOrderCompile' /\ Unentered'
  BY <1>1 DEF IInv, LocalsInOrderCompile, LargestFirst, Unentered
<1>6. ParamsFirst'
  BY <1>1 DEF Prologue, IInv, LayoutTyped, ParamsFirst
<1> QED
  BY <1>3, <1>4, <1>5, <1>6 DEF IInv
-----------------------------------------------------------------------------
\* The instructions.
LEMMA ExecutedIsInstruction ==
  ASSUME phase # "params", NEW t, NEW mem, Executed(t, mem)
  PROVE  Instruction
  BY DEF Executed, Instruction

LEMMA EndedIsInstruction ==
  ASSUME phase # "params", NEW result, result.kind # "offset", Ended(result)
  PROVE  Instruction
  BY DEF Ended, Instruction

LEMMA RefusedIsInstruction ==
  ASSUME phase # "params", NEW why, Refused(why), why = "offset" => BadSlot
  PROVE  Instruction
  BY DEF Refused, Instruction, End

LEMMA GetLocalIsInstruction ==
  ASSUME phase # "params", NEW k \in DOMAIN slots, GetLocal(k)
  PROVE  Instruction
<1>1. CASE ~Reachable(slots[k]) /\ Refused("offset")
  BY <1>1, RefusedIsInstruction DEF BadSlot
<1>2. CASE \E x : Executed(Append(types, slots[k].type), Pushed(opmem, slots[k].type, x))
  BY <1>2, ExecutedIsInstruction
<1> QED
  BY <1>1, <1>2 DEF GetLocal

LEMMA SetLocalIsInstruction ==
  ASSUME phase # "params", NEW k \in DOMAIN slots, NEW tee, SetLocal(k, tee)
  PROVE  Instruction
<1>1. CASE ~Reachable(slots[k]) /\ Refused("offset")
  BY <1>1, RefusedIsInstruction DEF BadSlot
<1>2. CASE ~(~Reachable(slots[k]) /\ Refused("offset"))
  BY <1>2 DEF SetLocal, StoredAt, Instruction
<1> QED
  BY <1>1, <1>2

LEMMA PerformIsInstruction ==
  ASSUME phase # "params", NEW op, NEW v,
         Immediate(op) = "index" => v + 1 \in DOMAIN slots, Perform(op, v)
  PROVE  Instruction
<1>1. CASE op \in {"I32_CONST", "I64_CONST"} /\ MoveConst(Immediate(op), v)
  BY <1>1, ExecutedIsInstruction DEF MoveConst
<1>2. CASE op = "LOCAL_GET" /\ GetLocal(v + 1)
  BY <1>2, GetLocalIsInstruction DEF Immediate
<1>3. CASE op = "LOCAL_SET" /\ SetLocal(v + 1, FALSE)
  BY <1>3, SetLocalIsInstruction DEF Immediate
<1>4. CASE op = "LOCAL_TEE" /\ SetLocal(v + 1, TRUE)
  BY <1>4, SetLocalIsInstruction DEF Immediate
<1> QED
  BY <1>1, <1>2, <1>3, <1>4 DEF Perform

LEMMA ReadGroupIsInstruction ==
  ASSUME NEW byte, ReadGroup(byte)
  PROVE  Instruction
<1> DEFINE kind == Immediate(opcode)
           v == Decoded(read, byte, IsSigned(kind), MaxBits(kind))
<1>1. phase = "reading"
  BY DEF ReadGroup
<1>2. CASE Refused("malformed")
  BY <1>1, <1>2, RefusedIsInstruction
<1>3. CASE UNCHANGED <<phase, params, slots, size, types, reg, frame, opmem, outcome>>
  BY <1>1, <1>3 DEF Instruction
<1>4. CASE (kind = "index" => v + 1 \in DOMAIN slots) /\ Perform(opcode, v)
  BY <1>1, <1>4, PerformIsInstruction
<1> QED
  BY <1>2, <1>3, <1>4 DEF ReadGroup

LEMMA FetchIsInstruction == ASSUME NEW op, Fetch(op) PROVE Instruction
  BY DEF Fetch, Has, Instruction

LEMMA ArithmeticIsInstruction == ASSUME NEW op, Arithmetic(op) PROVE Instruction
<1>1. phase = "running"
  BY DEF Arithmetic, HasTwo, Has
<1>2. CASE Ended(End("DIV_0"))
  BY <1>1, <1>2, EndedIsInstruction DEF End
<1>3. CASE Ended(End("Integer_overflow"))
  BY <1>1, <1>3, EndedIsInstruction DEF End
<1>4. CASE \E t, mem : Executed(t, mem)
  BY <1>1, <1>4, ExecutedIsInstruction
<1> QED
  BY <1>2, <1>3, <1>4 DEF Arithmetic

LEMMA ComparisonIsInstruction == ASSUME NEW op, Comparison(op) PROVE Instruction
<1>1. phase = "running" /\ \E t, mem : Executed(t, mem)
  BY DEF Comparison, HasTwo, Has
<1> QED
  BY <1>1, ExecutedIsInstruction

LEMMA UnaryIsInstruction == ASSUME NEW op, UnaryOp(op) PROVE Instruction
<1>1. phase = "running" /\ \E t, mem : Executed(t, mem)
  BY DEF UnaryOp, Has
<1> QED
  BY <1>1, ExecutedIsInstruction

LEMMA DropIsInstruction == ASSUME Drop PROVE Instruction
<1>1. phase = "running" /\ \E t, mem : Executed(t, mem)
  BY DEF Drop, Has
<1> QED
  BY <1>1, ExecutedIsInstruction

\* A call stores through the whole frame, but in its cells only.
LEMMA CallIsInstruction == ASSUME IInv, NEW result, Call(result) PROVE Instruction
<1>1. phase = "running"
  BY DEF Call, Has
<1>2. CASE (\E k \in DOMAIN params : ~Encodable(slots[k])) /\ Refused("offset")
  <2>1. PICK k \in DOMAIN params : ~Encodable(slots[k])
    BY <1>2
  <2>2. k \in DOMAIN slots
    BY <1>1, <2>1 DEF IInv, ParamsFirst
  <2> QED
    BY <1>1, <1>2, <2>1, <2>2, RefusedIsInstruction DEF BadSlot, Reachable
<1>3. CASE frame' = Spilled /\ UNCHANGED <<phase, params, slots, size, outcome>>
  BY <1>1, <1>3 DEF Spilled, ParamsStored, StoredAt, Instruction
<1> QED
  BY <1>2, <1>3 DEF Call

LEMMA ReturnIsInstruction == ASSUME NEW hasResult, Return(hasResult) PROVE Instruction
<1>1. phase = "running"
  BY DEF Return, Has
<1>2. CASE Ended(Returned(Newest, Operand(opmem, Newest)))
  BY <1>1, <1>2, EndedIsInstruction DEF Returned
<1>3. CASE Ended(End("returned"))
  BY <1>1, <1>3, EndedIsInstruction DEF End
<1> QED
  BY <1>2, <1>3 DEF Return

LEMMA UnsupportedIsInstruction == ASSUME Unsupported PROVE Instruction
<1>1. phase = "running" /\ Refused("unsupported")
  BY DEF Unsupported, Has
<1> QED
  BY <1>1, RefusedIsInstruction

LEMMA NextPreserves == ASSUME IInv, [Next]_vars PROVE IInv'
<1>1. CASE AddParam
  <2>1. params[Len(slots) + 1] \in Types
    BY <1>1 DEF AddParam, IInv, LayoutTyped
  <2> QED
    BY <1>1, <2>1, AddedPreserves DEF AddParam
<1>2. ASSUME NEW t \in Types, AddLocal(t) PROVE IInv'
  BY <1>2, AddedPreserves DEF AddLocal
<1>3. ASSUME NEW args, NEW upper, Prologue(args, upper) PROVE IInv'
  BY <1>3, ProloguePreserves
<1>4. ASSUME NEW op, Fetch(op) PROVE IInv'
  BY <1>4, FetchIsInstruction, InstructionPreserves
<1>5. ASSUME NEW byte, ReadGroup(byte) PROVE IInv'
  BY <1>5, ReadGroupIsInstruction, InstructionPreserves
<1>6. ASSUME NEW op, Arithmetic(op) PROVE IInv'
  BY <1>6, ArithmeticIsInstruction, InstructionPreserves
<1>7. ASSUME NEW op, Comparison(op) PROVE IInv'
  BY <1>7, ComparisonIsInstruction, InstructionPreserves
<1>8. ASSUME NEW op, UnaryOp(op) PROVE IInv'
  BY <1>8, UnaryIsInstruction, InstructionPreserves
<1>9. CASE Drop
  BY <1>9, DropIsInstruction, InstructionPreserves
<1>10. ASSUME NEW result, Call(result) PROVE IInv'
  BY <1>10, CallIsInstruction, InstructionPreserves
<1>11. ASSUME NEW hasResult, Return(hasResult) PROVE IInv'
  BY <1>11, ReturnIsInstruction, InstructionPreserves
<1>12. CASE Unsupported
  BY <1>12, UnsupportedIsInstruction, InstructionPreserves
<1>13. CASE UNCHANGED vars
  BY <1>13 DEF vars, IInv, LayoutTyped, SlotsDisjoint, FrameHolds, EndOf, CellsOf, Doubled,
               LocalsInOrderCompile, LargestFirst, Unentered, ParamsFirst
<1> QED
  BY <1>1, <1>2, <1>3, <1>4, <1>5, <1>6, <1>7, <1>8, <1>9, <1>10, <1>11, <1>12, <1>13 DEF Next
-----------------------------------------------------------------------------
\* OP::add and decreaseSPWithClean lay out any list of parameters and locals
\* without overlap, clear of the saved LR, inside the frame that is zeroed.
THEOREM LocalsDoNotOverlap == Spec => []SlotsDisjoint
<1>1. IInv => SlotsDisjoint
  BY DEF IInv
<1> QED
  BY <1>1, InitEstablishes, NextPreserves, PTL DEF Spec

\* Whatever the code of a function, it is not refused for the offset of a
\* local if the i64 come first and all are within reach.
THEOREM LargestFirstCompiles == Spec => []LocalsInOrderCompile
<1>1. IInv => LocalsInOrderCompile
  BY DEF IInv
<1> QED
  BY <1>1, InitEstablishes, NextPreserves, PTL DEF Spec
-----------------------------------------------------------------------------
(***************************************************************************)
(* How many cells a list of types takes.                                   *)
(***************************************************************************)
LEMMA CellsRecursion ==
  ASSUME NEW ts \in Seq(Types)
  PROVE  /\ CellsUpTo(ts)[0] = 0
         /\ \A n \in 0..Len(ts) : CellsUpTo(ts)[n] \in Nat
         /\ \A n \in 1..Len(ts) : CellsUpTo(ts)[n] = CellsUpTo(ts)[n - 1] + CellsOf(ts[n])
<1> DEFINE m == Len(ts)
           h == [p \in Nat \X Nat |-> p[2] + CellsOf(ts[p[1]])]
           Defines(f) == f = [n \in 0..m |-> IF n = 0 THEN 0 ELSE f[n - 1] + CellsOf(ts[n])]
<1>1. m \in Nat /\ 0..m \subseteq 0..m
  OBVIOUS
<1>2. h \in [Nat \X Nat -> Nat] /\ 0 \in Nat
  BY DEF CellsOf
<1>3. \A i, k \in Nat : h[<<i, k>>] = k + CellsOf(ts[i])
  OBVIOUS
<1> HIDE DEF h
<1>4. PICK f : Recursive(f, 0..m, 0, h)
  BY <1>1, RecursionUpTo, Zenon
<1>5. \A n \in 0..m : f[n] \in Nat
  BY <1>1, <1>2, <1>4, RecursionTyped
<1>6. f = [n \in 0..m |-> IF n = 0 THEN 0 ELSE h[<<n, f[n - 1]>>]]
  BY <1>4 DEF Recursive
<1>7. ASSUME NEW n \in 0..m, n # 0 PROVE h[<<n, f[n - 1]>>] = f[n - 1] + CellsOf(ts[n])
  <2>1. n \in Nat /\ n - 1 \in 0..m
    BY <1>1, <1>7
  <2> QED
    BY <1>3, <1>5, <2>1
<1>8. Defines(f)
  BY <1>6, <1>7
<1>9. CellsUpTo(ts) = CHOOSE g : Defines(g)
  BY DEF CellsUpTo
<1> DEFINE c == CellsUpTo(ts)
<1> HIDE DEF Defines, c
<1>10. Defines(c)
  BY <1>8, <1>9 DEF c
<1>11. c = [n \in 0..m |-> IF n = 0 THEN 0 ELSE c[n - 1] + CellsOf(ts[n])]
  BY <1>10 DEF Defines
<1>12. \A n \in 0..m : c[n] = IF n = 0 THEN 0 ELSE c[n - 1] + CellsOf(ts[n])
  BY <1>11, Zenon
<1>13. c[0] = 0
  <2>1. 0 \in 0..m
    BY <1>1
  <2> QED
    BY <1>12, <2>1, Zenon
<1>14. \A n \in 1..m : n \in 0..m /\ n # 0 /\ n - 1 \in 0..m
  BY <1>1
<1>15. \A n \in 1..m : c[n] = c[n - 1] + CellsOf(ts[n])
  BY <1>12, <1>14, Zenon
<1>16. \A n \in 0..m : c[n] \in Nat
  <2> DEFINE S == {n \in Nat : c[n] \in Nat}
  <2>1. 0 \in S
    BY <1>13
  <2>2. ASSUME NEW n \in 0..(m - 1), n \in S PROVE n + 1 \in S
    <3>1. n + 1 \in 1..m /\ (n + 1) - 1 = n /\ n + 1 \in Nat
      BY <1>1
    <3>2. c[n + 1] = c[n] + CellsOf(ts[n + 1]) /\ CellsOf(ts[n + 1]) \in Nat
      BY <1>15, <3>1 DEF CellsOf
    <3> QED
      BY <2>2, <3>1, <3>2
  <2> HIDE DEF S
  <2>3. \A n \in 0..m : n \in S
    BY <1>1, <2>1, <2>2, InductionUpTo
  <2> QED
    BY <2>3 DEF S
<1> QED
  BY <1>13, <1>15, <1>16 DEF c

\* Lists that agree up to n take as many cells up to there.
LEMMA CellsAgree ==
  ASSUME NEW ss \in Seq(Types), NEW ts \in Seq(Types), NEW m \in Nat,
         m <= Len(ss), m <= Len(ts), \A n \in 1..m : ss[n] = ts[n]
  PROVE  \A n \in 0..m : CellsUpTo(ss)[n] = CellsUpTo(ts)[n]
<1> DEFINE b == CellsUpTo(ss)
           c == CellsUpTo(ts)
           S == {n \in Nat : b[n] = c[n]}
<1>1. b[0] = 0 /\ c[0] = 0
  BY CellsRecursion
<1>2. /\ \A n \in 1..Len(ss) : b[n] = b[n - 1] + CellsOf(ss[n])
      /\ \A n \in 1..Len(ts) : c[n] = c[n - 1] + CellsOf(ts[n])
  BY CellsRecursion
<1> HIDE DEF b, c
<1>3. 0 \in S
  BY <1>1
<1>4. ASSUME NEW n \in 0..(m - 1), n \in S PROVE n + 1 \in S
  <2>1. /\ n + 1 \in 1..m /\ n + 1 \in 1..Len(ss) /\ n + 1 \in 1..Len(ts)
        /\ (n + 1) - 1 = n /\ n + 1 \in Nat
    OBVIOUS
  <2>2. b[n + 1] = b[n] + CellsOf(ss[n + 1]) /\ c[n + 1] = c[n] + CellsOf(ts[n + 1])
    BY <1>2, <2>1
  <2> QED
    BY <1>4, <2>1, <2>2
<1> HIDE DEF S
<1>5. \A n \in 0..m : n \in S
  BY <1>3, <1>4, InductionUpTo
<1> QED
  BY <1>5 DEF S, b, c

\* Pushing a type and popping some.
LEMMA CellsAppend ==
  ASSUME NEW ts \in Seq(Types), NEW t \in Types
  PROVE  /\ CellsUpTo(Append(ts, t))[Len(ts) + 1] = CellsUpTo(ts)[Len(ts)] + CellsOf(t)
         /\ \A n \in 0..Len(ts) : CellsUpTo(Append(ts, t))[n] = CellsUpTo(ts)[n]
<1> DEFINE us == Append(ts, t)
<1>1. /\ us \in Seq(Types) /\ Len(us) = Len(ts) + 1 /\ us[Len(ts) + 1] = t
      /\ Len(ts) \in Nat /\ \A n \in 1..Len(ts) : us[n] = ts[n]
  OBVIOUS
<1> HIDE DEF us
<1>2. \A n \in 0..Len(ts) : CellsUpTo(us)[n] = CellsUpTo(ts)[n]
  BY <1>1, CellsAgree
<1>3. CellsUpTo(us)[Len(ts) + 1] = CellsUpTo(us)[Len(ts)] + CellsOf(t)
  BY <1>1, CellsRecursion
<1> QED
  BY <1>1, <1>2, <1>3 DEF us

LEMMA CellsPrefix ==
  ASSUME NEW ts \in Seq(Types), NEW k \in Nat, k <= Len(ts)
  PROVE  /\ SubSeq(ts, 1, Len(ts) - k) \in Seq(Types)
         /\ Len(SubSeq(ts, 1, Len(ts) - k)) = Len(ts) - k
         /\ \A n \in 0..(Len(ts) - k) :
              CellsUpTo(SubSeq(ts, 1, Len(ts) - k))[n] = CellsUpTo(ts)[n]
<1> DEFINE us == SubSeq(ts, 1, Len(ts) - k)
           m == Len(ts) - k
<1>1. /\ us \in Seq(Types) /\ Len(us) = m /\ m \in Nat /\ m <= Len(ts)
      /\ \A n \in 1..m : us[n] = ts[n]
  OBVIOUS
<1> HIDE DEF us, m
<1>2. \A n \in 0..m : CellsUpTo(us)[n] = CellsUpTo(ts)[n]
  BY <1>1, CellsAgree
<1> QED
  BY <1>1, <1>2 DEF us, m
-----------------------------------------------------------------------------
(***************************************************************************)
(* Cells, words and operands.                                              *)
(***************************************************************************)
Cell == 0..(Pow2[Bits] - 1)
Values(t) == 0..(Pow2[Width(t)] - 1)

LEMMA BitsTyped ==
  /\ Bits \in Nat \ {0} /\ Pow2[Bits] \in Nat \ {0}
  /\ Pow2[2 * Bits] = Pow2[Bits] * Pow2[Bits] /\ 2 * Bits \in Nat
  /\ Width("I32") = Bits /\ Width("I64") = 2 * Bits
<1>1. Bits \in Nat \ {0}
  BY FunctionAssumption DEF Bits
<1>2. Pow2[Bits + Bits] = Pow2[Bits] * Pow2[Bits] /\ Pow2[Bits] \in Nat \ {0}
  BY <1>1, PowSum, PowNat
<1>3. Bits + Bits = 2 * Bits
  BY <1>1
<1>4. Width("I32") = 1 * Bits /\ Width("I64") = 2 * Bits
  BY DEF Width, CellsOf
<1> QED
  BY <1>1, <1>2, <1>3, <1>4

\* An X register is two cells.
LEMMA TwoCells ==
  ASSUME NEW p \in Nat \ {0}, NEW a \in 0..(p - 1), NEW b \in 0..(p - 1)
  PROVE  /\ a + b * p \in 0..(p * p - 1)
         /\ (a + b * p) % p = a /\ ((a + b * p) \div p) % p = b
<1>1. b * p <= (p - 1) * p /\ b * p >= 0 /\ b * p \in Int
  OBVIOUS
<1>2. (p - 1) * p = p * p - p /\ p * p \in Int
  OBVIOUS
<1>3. a + b * p \in 0..(p * p - 1)
  BY <1>1, <1>2
<1>4. p * b + a = a + b * p
  OBVIOUS
<1>5. (p * b + a) \div p = b /\ (p * b + a) % p = a
  BY QuotientOf
<1>6. p * 0 + b = b /\ (p * 0 + b) % p = b
  BY QuotientOf
<1> QED
  BY <1>3, <1>4, <1>5, <1>6

LEMMA LoadedTyped ==
  ASSUME NEW mem, NEW at \in Int, NEW t \in Types, mem[at] \in Cell,
         t = "I64" => mem[at + 1] \in Cell
  PROVE  LoadedFrom(mem, at, t) \in Values(t)
<1>1. CASE t = "I64"
  BY <1>1, BitsTyped, TwoCells DEF LoadedFrom, Values, Cell
<1>2. CASE t = "I32"
  BY <1>2, BitsTyped DEF LoadedFrom, Values, Cell
<1> QED
  BY <1>1, <1>2 DEF Types

LEMMA WordsTyped ==
  ASSUME NEW t \in Types, NEW x \in Int
  PROVE  /\ Words(t, x) \in Seq(Cell) /\ Len(Words(t, x)) = CellsOf(t)
         /\ Words(t, x)[1] = x % Pow2[Bits]
         /\ t = "I64" => Words(t, x)[2] = (x \div Pow2[Bits]) % Pow2[Bits]
<1>1. x % Pow2[Bits] \in Cell /\ (x \div Pow2[Bits]) % Pow2[Bits] \in Cell
  <2>1. Pow2[Bits] \in Nat \ {0}
    BY BitsTyped
  <2>2. x \div Pow2[Bits] \in Int
    BY <2>1
  <2> QED
    BY <2>1, <2>2 DEF Cell
<1>2. CASE t = "I64"
  BY <1>1, <1>2 DEF Words, CellsOf
<1>3. CASE t = "I32"
  BY <1>1, <1>3 DEF Words, CellsOf
<1> QED
  BY <1>2, <1>3 DEF Types

\* The value is what its words say.
LEMMA WordsHold ==
  ASSUME NEW t \in Types, NEW x \in Values(t)
  PROVE  x = IF t = "I64" THEN Words(t, x)[1] + Words(t, x)[2] * Pow2[Bits] ELSE Words(t, x)[1]
<1> DEFINE p == Pow2[Bits]
<1>1. p \in Nat \ {0} /\ Pow2[2 * Bits] = p * p
  BY BitsTyped
<1>2. x \in Nat
  BY BitsTyped, PowNat DEF Values, Types
<1>3. CASE t = "I64"
  <2>1. x \in 0..(p * p - 1)
    BY <1>1, <1>3, BitsTyped DEF Values
  <2>2. x \div p \in Nat /\ x % p \in 0..(p - 1) /\ x = p * (x \div p) + (x % p)
    BY <1>1, <1>2, DivisionLaw
  <2> DEFINE q == x \div p
             r == x % p
  <2> HIDE DEF q, r, p
  <2>3. q \in Nat /\ r \in 0..(p - 1) /\ x = p * q + r
    BY <2>2 DEF q, r
  <2>4. q < p
    <3>1. CASE q >= p
      <4>1. p * q >= p * p
        BY <1>1, <2>3, <3>1
      <4> QED
        BY <1>1, <2>1, <2>3, <4>1
    <3> QED
      BY <1>1, <2>3, <3>1
  <2>5. q % p = q
    BY <1>1, <2>3, <2>4, QuotientOf, p * 0 + q = q
  <2>6. Words(t, x)[1] = r /\ Words(t, x)[2] = q
    BY <1>2, <1>3, <2>5, WordsTyped DEF p, q, r
  <2> QED
    BY <1>1, <1>3, <2>3, <2>6 DEF p
<1>4. CASE t = "I32"
  <2>1. x \in 0..(p - 1)
    BY <1>1, <1>4, BitsTyped DEF Values
  <2>2. x % p = x
    BY <1>1, <2>1, QuotientOf, p * 0 + x = x
  <2>3. Words(t, x)[1] = x
    BY <1>2, <2>2, WordsTyped
  <2> QED
    BY <1>4, <2>3
<1> QED
  BY <1>3, <1>4 DEF Types

LEMMA Concatenation ==
  ASSUME NEW S, NEW a \in Seq(S), NEW b \in Seq(S)
  PROVE  /\ a \o b \in Seq(S) /\ Len(a \o b) = Len(a) + Len(b)
         /\ \A i \in 1..Len(a) : (a \o b)[i] = a[i]
         /\ \A i \in 1..Len(b) : (a \o b)[Len(a) + i] = b[i]
         /\ SubSeq(a \o b, 1, Len(a)) = a
<1>1. /\ a \o b \in Seq(S) /\ Len(a \o b) = Len(a) + Len(b)
      /\ \A i \in 1..Len(a) : (a \o b)[i] = a[i]
      /\ \A i \in 1..Len(b) : (a \o b)[Len(a) + i] = b[i]
  OBVIOUS
<1> DEFINE c == a \o b
           d == SubSeq(c, 1, Len(a))
<1> HIDE DEF c
<1>2. /\ c \in Seq(S) /\ Len(c) = Len(a) + Len(b) /\ \A i \in 1..Len(a) : c[i] = a[i]
      /\ Len(a) \in Nat /\ Len(b) \in Nat
  BY <1>1 DEF c
<1>3. d \in Seq(S) /\ Len(d) = Len(a) /\ \A i \in 1..Len(a) : d[i] = c[i]
  BY <1>2
<1> HIDE DEF d
<1>4. d = a
  BY <1>2, <1>3
<1> QED
  BY <1>1, <1>4 DEF c, d

\* The two operand stacks: the types the compiler keeps, the cells below ROP.
Operands(ts, mem) ==
  ts \in Seq(Types) /\ mem \in Seq(Cell) /\ Len(mem) = CellsUpTo(ts)[Len(ts)]

LEMMA PushedTyped ==
  ASSUME NEW ts, NEW mem, Operands(ts, mem), NEW t \in Types, NEW x \in Int
  PROVE  Operands(Append(ts, t), Pushed(mem, t, x))
<1>1. ts \in Seq(Types) /\ mem \in Seq(Cell) /\ Len(mem) = CellsUpTo(ts)[Len(ts)]
  BY DEF Operands
<1> DEFINE w == Words(t, x)
<1>2. w \in Seq(Cell) /\ Len(w) = CellsOf(t)
  BY WordsTyped
<1> HIDE DEF w
<1>3. mem \o w \in Seq(Cell) /\ Len(mem \o w) = Len(mem) + CellsOf(t)
  <2>1. mem \o w \in Seq(Cell) /\ Len(mem \o w) = Len(mem) + Len(w)
    BY <1>1, <1>2, Concatenation, Zenon
  <2> QED
    BY <1>2, <2>1, Zenon
<1>4. CellsUpTo(Append(ts, t))[Len(ts) + 1] = CellsUpTo(ts)[Len(ts)] + CellsOf(t)
  BY <1>1, CellsAppend
<1>5. Append(ts, t) \in Seq(Types) /\ Len(Append(ts, t)) = Len(ts) + 1
  BY <1>1
<1> QED
  BY <1>1, <1>3, <1>4, <1>5 DEF Operands, Pushed, w

LEMMA PoppedTyped ==
  ASSUME NEW ts, NEW mem, Operands(ts, mem), Len(ts) >= 1, NEW t, t = ts[Len(ts)]
  PROVE  /\ t \in Types /\ Len(mem) >= CellsOf(t) /\ CellsOf(t) \in {1, 2}
         /\ Len(mem) - CellsOf(t) = CellsUpTo(ts)[Len(ts) - 1]
         /\ Operands(SubSeq(ts, 1, Len(ts) - 1), Popped(mem, t))
<1>1. /\ ts \in Seq(Types) /\ mem \in Seq(Cell) /\ Len(mem) = CellsUpTo(ts)[Len(ts)]
      /\ Len(ts) \in 1..Len(ts) /\ Len(ts) - 1 \in 0..Len(ts) /\ Len(ts) \in Nat
  BY DEF Operands
<1>2. t \in Types /\ CellsOf(t) \in {1, 2}
  BY <1>1, CellsOfType
<1>3. CellsUpTo(ts)[Len(ts)] = CellsUpTo(ts)[Len(ts) - 1] + CellsOf(t)
  BY <1>1, CellsRecursion
<1>4. CellsUpTo(ts)[Len(ts) - 1] \in Nat
  BY <1>1, CellsRecursion
<1> DEFINE us == SubSeq(ts, 1, Len(ts) - 1)
           c == CellsUpTo(ts)[Len(ts) - 1]
<1>5. us \in Seq(Types) /\ Len(us) = Len(ts) - 1 /\ CellsUpTo(us)[Len(ts) - 1] = c
  <2>1. 1 \in Nat /\ 1 <= Len(ts) /\ Len(ts) - 1 \in 0..(Len(ts) - 1)
    BY <1>1
  <2> QED
    BY <1>1, <2>1, CellsPrefix
<1> HIDE DEF us, c
<1>6. Len(mem) = c + CellsOf(t) /\ c \in Nat
  BY <1>1, <1>3, <1>4 DEF c
<1>7. Popped(mem, t) \in Seq(Cell) /\ Len(Popped(mem, t)) = c
  <2>1. Len(mem) - CellsOf(t) = c
    BY <1>2, <1>6
  <2>2. Len(mem) >= c
    BY <1>2, <1>6
  <2> QED
    BY <1>1, <1>6, <2>1, <2>2 DEF Popped
<1>8. Operands(us, Popped(mem, t))
  BY <1>5, <1>7 DEF Operands
<1> QED
  BY <1>2, <1>6, <1>8 DEF us, c

\* The operand below ROP.
LEMMA OperandTyped ==
  ASSUME NEW mem \in Seq(Cell), NEW t \in Types, Len(mem) >= CellsOf(t)
  PROVE  Operand(mem, t) \in Values(t)
<1> DEFINE at == Len(mem) - CellsOf(t) + 1
<1>1. at \in DOMAIN mem /\ (t = "I64" => at + 1 \in DOMAIN mem) /\ at \in Int
  BY DEF CellsOf, Types
<1> HIDE DEF at
<1>2. mem[at] \in Cell /\ (t = "I64" => mem[at + 1] \in Cell)
  BY <1>1
<1>3. LoadedFrom(mem, at, t) \in Values(t)
  BY <1>1, <1>2, LoadedTyped
<1> QED
  BY <1>3 DEF Operand, at

LEMMA OperandOfPushed ==
  ASSUME NEW mem \in Seq(Cell), NEW t \in Types, NEW x \in Values(t)
  PROVE  Operand(Pushed(mem, t, x), t) = x /\ Popped(Pushed(mem, t, x), t) = mem
<1>1. x \in Int
  BY BitsTyped, PowNat DEF Values, Types
<1> DEFINE w == Words(t, x)
           at == Len(mem) + 1
<1>2. w \in Seq(Cell) /\ Len(w) = CellsOf(t) /\ CellsOf(t) \in {1, 2}
  BY <1>1, WordsTyped, CellsOfType
<1>3. x = IF t = "I64" THEN w[1] + w[2] * Pow2[Bits] ELSE w[1]
  BY WordsHold
<1> HIDE DEF w
<1>4. /\ Len(mem \o w) - CellsOf(t) = Len(mem)
      /\ (mem \o w)[at] = w[1] /\ (t = "I64" => (mem \o w)[at + 1] = w[2])
      /\ SubSeq(mem \o w, 1, Len(mem)) = mem
  <2>1. 1 \in 1..Len(w) /\ (t = "I64" => 2 \in 1..Len(w))
    BY <1>2 DEF CellsOf
  <2>2. Len(mem \o w) = Len(mem) + CellsOf(t) /\ Len(mem) \in Nat
    BY <1>2, Concatenation
  <2>3. \A i \in 1..Len(w) : (mem \o w)[Len(mem) + i] = w[i]
    BY <1>2, Concatenation
  <2>4. SubSeq(mem \o w, 1, Len(mem)) = mem
    BY <1>2, Concatenation, Zenon
  <2> DEFINE c == mem \o w
  <2> HIDE DEF c
  <2>5. /\ \A i \in 1..Len(w) : c[Len(mem) + i] = w[i]
        /\ Len(c) = Len(mem) + CellsOf(t)
    BY <2>2, <2>3 DEF c
  <2>6. c[Len(mem) + 1] = w[1] /\ (t = "I64" => c[Len(mem) + 2] = w[2])
    BY <2>1, <2>5, Zenon
  <2>7. Len(mem) + 1 + 1 = Len(mem) + 2
    BY <2>2
  <2>8. Len(c) - CellsOf(t) = Len(mem)
    BY <1>2, <2>2, <2>5
  <2>9. c[at] = w[1] /\ (t = "I64" => c[at + 1] = w[2])
    BY <2>6, <2>7
  <2> QED
    BY <2>4, <2>8, <2>9 DEF c
<1> DEFINE all == mem \o w
<1> HIDE DEF all
<1>5. Operand(all, t) = x /\ Popped(all, t) = mem
  BY <1>3, <1>4 DEF Operand, Popped, LoadedFrom, all
<1> QED
  BY <1>5 DEF Pushed, all, w

LEMMA BitIs == ASSUME NEW v \in Int, NEW i \in Nat PROVE Bit(v, i) \in {0, 1}
<1>1. Pow2[i] \in Nat \ {0}
  BY PowNat
<1>2. v \div Pow2[i] \in Int
  BY <1>1
<1> QED
  BY <1>2 DEF Bit

\* The functions Moved, Reversed, LeadingZeros and Denoted are the last values of.
MovedUpTo(t, v) ==
  LET x[i \in 0..(2 * CellsOf(t) - 1)] ==
        IF i = 0 THEN Half(v, 0)
        ELSE IF Half(v, i) = 0 THEN x[i - 1] ELSE Kept(x[i - 1], v, i)
  IN  x
ReversedUpTo(v, n) ==
  LET x[i \in 0..n] == IF i = 0 THEN 0 ELSE x[i - 1] + Bit(v, i - 1) * Pow2[n - i] IN x
ZerosUpTo(v, n) ==
  LET z[i \in 0..n] == IF i = 0 \/ Bit(v, i - 1) = 1 THEN n - i ELSE z[i - 1]
  IN  z
Places(bs) ==
  LET places[i \in 0..Len(bs)] ==
        IF i = 0 THEN 0 ELSE places[i - 1] + bs[i].low * Pow2[(i - 1) * GroupBits]
  IN  places

LEMMA HalfTyped ==
  ASSUME NEW v \in Int, NEW i \in Nat
  PROVE  Half(v, i) \in 0..(Pow2[HalfBits] - 1) /\ Half(v, i) \in Int
         /\ i * HalfBits \in Nat /\ Pow2[i * HalfBits] \in Nat \ {0} /\ Pow2[HalfBits] \in Nat \ {0}
<1>1. HalfBits \in Nat /\ i * HalfBits \in Nat
  BY FunctionAssumption
<1>2. Pow2[i * HalfBits] \in Nat \ {0} /\ Pow2[HalfBits] \in Nat \ {0}
  BY <1>1, PowNat
<1>3. v \div Pow2[i * HalfBits] \in Int
  BY <1>2
<1>4. Half(v, i) \in 0..(Pow2[HalfBits] - 1)
  BY <1>2, <1>3 DEF Half
<1> QED
  BY <1>1, <1>2, <1>4

LEMMA MovedRecursion ==
  ASSUME NEW t \in Types, NEW v \in Int
  PROVE  /\ MovedUpTo(t, v)[0] = Half(v, 0)
         /\ \A i \in 1..(2 * CellsOf(t) - 1) :
              MovedUpTo(t, v)[i] = (IF Half(v, i) = 0 THEN MovedUpTo(t, v)[i - 1]
                                    ELSE Kept(MovedUpTo(t, v)[i - 1], v, i))
         /\ \A i \in 0..2 * CellsOf(t) - 1 : MovedUpTo(t, v)[i] \in Int
<1> DEFINE m == 2 * CellsOf(t) - 1
           c == MovedUpTo(t, v)
           a == Half(v, 0)
           Following(i, y) == IF Half(v, i) = 0 THEN y ELSE Kept(y, v, i)
           h == [p \in Nat \X Int |-> IF p[1] \in 1..m THEN Following(p[1], p[2]) ELSE 0]
           Defines(f) == f = [i \in 0..m |-> IF i = 0 THEN a ELSE Following(i, f[i - 1])]
<1>1. m \in Nat
  BY DEF CellsOf
<1>2. a \in Int
  BY HalfTyped
<1>3. ASSUME NEW i \in 1..m, NEW y \in Int PROVE Following(i, y) \in Int
  <2>1. i \in Nat
    BY <1>1
  <2>2. Half(v, i) \in Int /\ Half(y, i) \in Int /\ Pow2[i * HalfBits] \in Nat \ {0}
    BY <2>1, HalfTyped, Zenon
  <2> QED
    BY <2>2 DEF Kept
<1>4. c = CHOOSE f : Defines(f)
  BY DEF MovedUpTo
<1>5. \A i, y : Following(i, y) = IF Half(v, i) = 0 THEN y ELSE Kept(y, v, i)
  OBVIOUS
<1> HIDE DEF m, c, a, Following
<1>6. h \in [Nat \X Int -> Int]
  BY <1>3
<1>7. \A i \in 1..m, y \in Int : h[<<i, y>>] = Following(i, y)
  BY <1>1
<1> HIDE DEF h
<1>8. PICK f : Recursive(f, 0..m, a, h) /\ \A i \in 0..m : f[i] \in Int
  BY <1>1, <1>2, <1>6, RecursionExists, Zenon
<1>9. \A i \in 0..m : i # 0 => i \in 1..m /\ i - 1 \in 0..m
  BY <1>1
<1>10. Defines(f)
  <2>1. f = [i \in 0..m |-> IF i = 0 THEN a ELSE h[<<i, f[i - 1]>>]]
    BY <1>8, Zenon DEF Recursive
  <2> QED
    BY <1>7, <1>8, <1>9, <2>1, Zenon
<1> HIDE DEF Defines
<1>11. Defines(c)
  BY <1>4, <1>10
<1>12. \A i \in 0..m : c[i] = IF i = 0 THEN a ELSE Following(i, c[i - 1])
  BY <1>11, Zenon DEF Defines
<1>13. c[0] = a /\ \A i \in 1..m : c[i] = Following(i, c[i - 1])
  <2>1. 0 \in 0..m /\ \A i \in 1..m : i \in 0..m /\ i # 0
    BY <1>1
  <2> QED
    BY <1>12, <2>1, Zenon
<1>14. \A i \in 0..m : c[i] \in Int
  <2>1. \A i \in 1..m : c[i - 1] \in Int => c[i] = h[<<i, c[i - 1]>>]
    BY <1>7, <1>13, Zenon
  <2> QED
    BY <1>1, <1>2, <1>6, <1>13, <2>1, EquationsTyped
<1> QED
  BY <1>5, <1>13, <1>14, Zenon DEF c, m, a

LEMMA ReversedRecursion ==
  ASSUME NEW v \in Int, NEW n \in Nat
  PROVE  /\ ReversedUpTo(v, n)[0] = 0
         /\ \A i \in 1..n :
              ReversedUpTo(v, n)[i] = ReversedUpTo(v, n)[i - 1] + Bit(v, i - 1) * Pow2[n - i]
         /\ \A i \in 0..n : ReversedUpTo(v, n)[i] \in Int
<1> DEFINE m == n
           c == ReversedUpTo(v, n)
           a == 0
           Following(i, y) == y + Bit(v, i - 1) * Pow2[n - i]
           h == [p \in Nat \X Int |-> IF p[1] \in 1..m THEN Following(p[1], p[2]) ELSE 0]
           Defines(f) == f = [i \in 0..m |-> IF i = 0 THEN a ELSE Following(i, f[i - 1])]
<1>1. m \in Nat
  OBVIOUS
<1>2. a \in Int
  OBVIOUS
<1>3. ASSUME NEW i \in 1..m, NEW y \in Int PROVE Following(i, y) \in Int
  <2>1. i - 1 \in Nat /\ n - i \in Nat
    BY <1>1
  <2>2. Bit(v, i - 1) \in Int /\ Pow2[n - i] \in Int
    BY <2>1, BitIs, PowNat
  <2> QED
    BY <2>2
<1>4. c = CHOOSE f : Defines(f)
  BY DEF ReversedUpTo
<1>5. \A i, y : Following(i, y) = y + Bit(v, i - 1) * Pow2[n - i]
  OBVIOUS
<1> HIDE DEF m, c, a, Following
<1>6. h \in [Nat \X Int -> Int]
  BY <1>3
<1>7. \A i \in 1..m, y \in Int : h[<<i, y>>] = Following(i, y)
  BY <1>1
<1> HIDE DEF h
<1>8. PICK f : Recursive(f, 0..m, a, h) /\ \A i \in 0..m : f[i] \in Int
  BY <1>1, <1>2, <1>6, RecursionExists, Zenon
<1>9. \A i \in 0..m : i # 0 => i \in 1..m /\ i - 1 \in 0..m
  BY <1>1
<1>10. Defines(f)
  <2>1. f = [i \in 0..m |-> IF i = 0 THEN a ELSE h[<<i, f[i - 1]>>]]
    BY <1>8, Zenon DEF Recursive
  <2> QED
    BY <1>7, <1>8, <1>9, <2>1, Zenon
<1> HIDE DEF Defines
<1>11. Defines(c)
  BY <1>4, <1>10
<1>12. \A i \in 0..m : c[i] = IF i = 0 THEN a ELSE Following(i, c[i - 1])
  BY <1>11, Zenon DEF Defines
<1>13. c[0] = a /\ \A i \in 1..m : c[i] = Following(i, c[i - 1])
  <2>1. 0 \in 0..m /\ \A i \in 1..m : i \in 0..m /\ i # 0
    BY <1>1
  <2> QED
    BY <1>12, <2>1, Zenon
<1>14. \A i \in 0..m : c[i] \in Int
  <2>1. \A i \in 1..m : c[i - 1] \in Int => c[i] = h[<<i, c[i - 1]>>]
    BY <1>7, <1>13, Zenon
  <2> QED
    BY <1>1, <1>2, <1>6, <1>13, <2>1, EquationsTyped
<1> QED
  BY <1>5, <1>13, <1>14, Zenon DEF c, m, a

LEMMA ZerosRecursion ==
  ASSUME NEW v, NEW n \in Nat
  PROVE  /\ ZerosUpTo(v, n)[0] = n
         /\ \A i \in 1..n :
              ZerosUpTo(v, n)[i] = IF Bit(v, i - 1) = 1 THEN n - i ELSE ZerosUpTo(v, n)[i - 1]
         /\ \A i \in 0..n : ZerosUpTo(v, n)[i] \in Int
<1> DEFINE m == n
           c == ZerosUpTo(v, n)
           a == n
           Following(i, y) == IF Bit(v, i - 1) = 1 THEN n - i ELSE y
           h == [p \in Nat \X Int |-> IF p[1] \in 1..m THEN Following(p[1], p[2]) ELSE 0]
           Defines(f) == f = [i \in 0..m |-> IF i = 0 THEN a ELSE Following(i, f[i - 1])]
<1>1. m \in Nat
  OBVIOUS
<1>2. a \in Int
  OBVIOUS
<1>3. ASSUME NEW i \in 1..m, NEW y \in Int PROVE Following(i, y) \in Int
  OBVIOUS
<1>4. c = CHOOSE f : Defines(f)
  BY DEF ZerosUpTo
<1>5. \A i, y : Following(i, y) = IF Bit(v, i - 1) = 1 THEN n - i ELSE y
  OBVIOUS
<1> HIDE DEF m, c, a, Following
<1>6. h \in [Nat \X Int -> Int]
  BY <1>3
<1>7. \A i \in 1..m, y \in Int : h[<<i, y>>] = Following(i, y)
  BY <1>1
<1> HIDE DEF h
<1>8. PICK f : Recursive(f, 0..m, a, h) /\ \A i \in 0..m : f[i] \in Int
  BY <1>1, <1>2, <1>6, RecursionExists, Zenon
<1>9. \A i \in 0..m : i # 0 => i \in 1..m /\ i - 1 \in 0..m
  BY <1>1
<1>10. Defines(f)
  <2>1. f = [i \in 0..m |-> IF i = 0 THEN a ELSE h[<<i, f[i - 1]>>]]
    BY <1>8, Zenon DEF Recursive
  <2> QED
    BY <1>7, <1>8, <1>9, <2>1, Zenon
<1> HIDE DEF Defines
<1>11. Defines(c)
  BY <1>4, <1>10
<1>12. \A i \in 0..m : c[i] = IF i = 0 THEN a ELSE Following(i, c[i - 1])
  BY <1>11, Zenon DEF Defines
<1>13. c[0] = a /\ \A i \in 1..m : c[i] = Following(i, c[i - 1])
  <2>1. 0 \in 0..m /\ \A i \in 1..m : i \in 0..m /\ i # 0
    BY <1>1
  <2> QED
    BY <1>12, <2>1, Zenon
<1>14. \A i \in 0..m : c[i] \in Int
  <2>1. \A i \in 1..m : c[i - 1] \in Int => c[i] = h[<<i, c[i - 1]>>]
    BY <1>7, <1>13, Zenon
  <2> QED
    BY <1>1, <1>2, <1>6, <1>13, <2>1, EquationsTyped
<1> QED
  BY <1>5, <1>13, <1>14, Zenon DEF c, m, a

LEMMA PlacesRecursion ==
  ASSUME NEW bs \in Seq(Byte)
  PROVE  /\ Places(bs)[0] = 0
         /\ \A i \in 1..Len(bs) :
              Places(bs)[i] = Places(bs)[i - 1] + bs[i].low * Pow2[(i - 1) * GroupBits]
         /\ \A i \in 0..Len(bs) : Places(bs)[i] \in Int
<1> DEFINE m == Len(bs)
           c == Places(bs)
           a == 0
           Following(i, y) == y + bs[i].low * Pow2[(i - 1) * GroupBits]
           h == [p \in Nat \X Int |-> IF p[1] \in 1..m THEN Following(p[1], p[2]) ELSE 0]
           Defines(f) == f = [i \in 0..m |-> IF i = 0 THEN a ELSE Following(i, f[i - 1])]
<1>1. m \in Nat
  OBVIOUS
<1>2. a \in Int
  OBVIOUS
<1>3. ASSUME NEW i \in 1..m, NEW y \in Int PROVE Following(i, y) \in Int
  <2>1. bs[i] \in Byte /\ (i - 1) * GroupBits \in Nat
    BY <1>1, WidthsAssumption DEF m
  <2>2. bs[i].low \in Int /\ Pow2[(i - 1) * GroupBits] \in Int
    BY <2>1, PowNat, WidthsAssumption DEF Byte
  <2> QED
    BY <2>2
<1>4. c = CHOOSE f : Defines(f)
  BY DEF Places
<1>5. \A i, y : Following(i, y) = y + bs[i].low * Pow2[(i - 1) * GroupBits]
  OBVIOUS
<1> HIDE DEF m, c, a, Following
<1>6. h \in [Nat \X Int -> Int]
  BY <1>3
<1>7. \A i \in 1..m, y \in Int : h[<<i, y>>] = Following(i, y)
  BY <1>1
<1> HIDE DEF h
<1>8. PICK f : Recursive(f, 0..m, a, h) /\ \A i \in 0..m : f[i] \in Int
  BY <1>1, <1>2, <1>6, RecursionExists, Zenon
<1>9. \A i \in 0..m : i # 0 => i \in 1..m /\ i - 1 \in 0..m
  BY <1>1
<1>10. Defines(f)
  <2>1. f = [i \in 0..m |-> IF i = 0 THEN a ELSE h[<<i, f[i - 1]>>]]
    BY <1>8, Zenon DEF Recursive
  <2> QED
    BY <1>7, <1>8, <1>9, <2>1, Zenon
<1> HIDE DEF Defines
<1>11. Defines(c)
  BY <1>4, <1>10
<1>12. \A i \in 0..m : c[i] = IF i = 0 THEN a ELSE Following(i, c[i - 1])
  BY <1>11, Zenon DEF Defines
<1>13. c[0] = a /\ \A i \in 1..m : c[i] = Following(i, c[i - 1])
  <2>1. 0 \in 0..m /\ \A i \in 1..m : i \in 0..m /\ i # 0
    BY <1>1
  <2> QED
    BY <1>12, <2>1, Zenon
<1>14. \A i \in 0..m : c[i] \in Int
  <2>1. \A i \in 1..m : c[i - 1] \in Int => c[i] = h[<<i, c[i - 1]>>]
    BY <1>7, <1>13, Zenon
  <2> QED
    BY <1>1, <1>2, <1>6, <1>13, <2>1, EquationsTyped
<1> QED
  BY <1>5, <1>13, <1>14, Zenon DEF c, m, a
-----------------------------------------------------------------------------
(***************************************************************************)
(* What the instructions compute are numbers.                              *)
(***************************************************************************)
LEMMA ModTyped ==
  ASSUME NEW x \in Int, NEW n \in Nat
  PROVE  x % Pow2[n] \in 0..(Pow2[n] - 1) /\ Pow2[n] \in Nat \ {0}
<1>1. Pow2[n] \in Nat \ {0}
  BY PowNat
<1> QED
  BY <1>1

LEMMA WidthTyped ==
  ASSUME NEW t \in Types
  PROVE  Width(t) \in Nat \ {0} /\ Pow2[Width(t)] \in Nat \ {0}
<1>1. Width(t) \in Nat \ {0}
  BY BitsTyped DEF Types
<1> QED
  BY <1>1, PowNat

LEMMA AbsoluteTyped ==
  ASSUME NEW n \in Nat \ {0}, NEW v \in 0..(Pow2[n] - 1)
  PROVE  /\ Absolute(v, n) \in 0..(Pow2[n] - 1)
         /\ v # 0 => Absolute(v, n) # 0
         /\ Negated(v, n) = IF v = 0 THEN 0 ELSE Pow2[n] - v
<1> DEFINE p == Pow2[n]
<1>1. p \in Nat \ {0}
  BY PowNat
<1> HIDE DEF p
<1>2. v \in 0..(p - 1)
  BY DEF p
<1>3. (p - v) % p = IF v = 0 THEN 0 ELSE p - v
  <2>1. CASE v = 0
    <3>1. p * 1 + 0 = p - v /\ 0 \in 0..(p - 1) /\ 1 \in Int
      BY <1>1, <2>1
    <3>2. (p * 1 + 0) % p = 0
      BY <1>1, <3>1, QuotientOf, Zenon
    <3> QED
      BY <2>1, <3>1, <3>2
  <2>2. CASE v # 0
    <3>1. p - v \in 0..(p - 1) /\ p * 0 + (p - v) = p - v /\ 0 \in Int
      BY <1>1, <1>2, <2>2
    <3>2. (p * 0 + (p - v)) % p = p - v
      BY <1>1, <3>1, QuotientOf, Zenon
    <3> QED
      BY <2>2, <3>1, <3>2
  <2> QED
    BY <2>1, <2>2
<1>4. Negated(v, n) = IF v = 0 THEN 0 ELSE p - v
  BY <1>3 DEF Negated, p
<1> QED
  BY <1>1, <1>2, <1>4 DEF Absolute, p

LEMMA QuotientTyped ==
  ASSUME NEW n \in Nat \ {0}, NEW l \in 0..(Pow2[n] - 1), NEW r \in 1..(Pow2[n] - 1)
  PROVE  Quotient(l, r, n) \in Int
<1> DEFINE a == Absolute(l, n)
           b == Absolute(r, n)
<1>1. a \in Nat /\ b \in Nat \ {0}
  <2>1. r \in 0..(Pow2[n] - 1) /\ r # 0 /\ Pow2[n] \in Nat
    BY PowNat
  <2>2. a \in 0..(Pow2[n] - 1) /\ b \in 0..(Pow2[n] - 1) /\ b # 0
    BY <2>1, AbsoluteTyped
  <2> QED
    BY <2>1, <2>2
<1> HIDE DEF a, b
<1> DEFINE q == a \div b
<1>2. q \in Int
  BY <1>1
<1> HIDE DEF q
<1>3. q % Pow2[n] \in Int /\ (Pow2[n] - q) % Pow2[n] \in Int
  BY <1>2, PowNat
<1> QED
  BY <1>3 DEF Quotient, Negated, a, b, q

LEMMA AluTyped ==
  ASSUME NEW n \in Nat \ {0}, NEW l \in 0..(Pow2[n] - 1), NEW r \in 0..(Pow2[n] - 1),
         NEW op \in Binary \ Comparisons, op \in Divisions => r # 0
  PROVE  Alu(op, l, r, n) \in Int
<1>1. Pow2[n] \in Nat \ {0} /\ l \in Nat /\ r \in Nat
  BY PowNat
<1>2. op \in {"ADD", "SUB", "MUL", "DIV_U", "DIV_S"}
  BY DEF Binary, Divisions
<1>3. CASE op = "ADD"
  <2>1. (l + r) % Pow2[n] \in Int
    BY <1>1
  <2> QED
    BY <1>3, <2>1 DEF Alu
<1>4. CASE op = "SUB"
  <2>1. Negated(r, n) \in Int
    BY <1>1 DEF Negated
  <2>2. (l + Negated(r, n)) % Pow2[n] \in Int
    BY <1>1, <2>1
  <2> QED
    BY <1>4, <2>2 DEF Alu
<1>5. CASE op = "MUL"
  <2>1. l * r \in Int
    BY <1>1
  <2>2. (l * r) % Pow2[n] \in Int
    BY <1>1, <2>1
  <2> QED
    BY <1>5, <2>2 DEF Alu
<1>6. CASE op = "DIV_U"
  <2>1. r \in Nat \ {0}
    BY <1>1, <1>6 DEF Divisions
  <2>2. l \div r \in Int
    BY <1>1, <2>1
  <2> QED
    BY <1>6, <2>2 DEF Alu
<1>7. CASE op = "DIV_S"
  <2>1. r \in 1..(Pow2[n] - 1)
    BY <1>1, <1>7 DEF Divisions
  <2> QED
    BY <1>7, <2>1, QuotientTyped DEF Alu
<1> QED
  BY <1>2, <1>3, <1>4, <1>5, <1>6, <1>7

LEMMA LeadingTyped == ASSUME NEW v, NEW n \in Nat PROVE LeadingZeros(v, n) \in Int
<1>1. LeadingZeros(v, n) = ZerosUpTo(v, n)[n]
  BY DEF LeadingZeros, ZerosUpTo
<1>2. n \in 0..n /\ \A i \in 0..n : ZerosUpTo(v, n)[i] \in Int
  BY ZerosRecursion
<1> QED
  BY <1>1, <1>2

LEMMA MovedTyped == ASSUME NEW t \in Types, NEW v \in Int PROVE Moved(t, v) \in Int
<1>1. Moved(t, v) = MovedUpTo(t, v)[2 * CellsOf(t) - 1]
  BY DEF Moved, MovedUpTo
<1>2. 2 * CellsOf(t) - 1 \in 0..(2 * CellsOf(t) - 1)
  BY DEF CellsOf
<1> QED
  BY <1>1, <1>2, MovedRecursion
-----------------------------------------------------------------------------
(***************************************************************************)
(* The invariant of the machine: everything is a number of its width, the  *)
(* registers and the frame are those of the parameters and the locals, and *)
(* ROP stands where the types of the validation stack say.                 *)
(***************************************************************************)
Phases == {"params", "running", "reading", "refused", "ended"}
Reader ==
  /\ bytes \in Seq(Byte \cup {EndOfFile})
  /\ read.result \in 0..(Pow2[RegisterBits] - 1) /\ read.written \in Nat
  /\ count \in 0..MaxOps /\ (phase = "reading" => count < MaxOps)
Registers == reg \in Seq(Values("I64")) /\ (phase # "params" => Len(reg) = Len(params))
Frame == \A c \in DOMAIN frame : frame[c] \in Cell
Stacks ==
  /\ types \in Seq(Types) /\ opmem \in Seq(Cell)
  /\ phase \in {"params", "running", "reading"} => Operands(types, opmem)
Machine == phase \in Phases /\ Registers /\ Frame /\ Stacks

Declared ==
  /\ params \in ParamLists
  /\ phase # "params" => Len(slots) >= Len(params)
  /\ \A k \in DOMAIN slots : /\ slots[k].isParam <=> k <= Len(params)
                             /\ k <= Len(params) => slots[k].type = params[k]
MInv == IInv /\ Declared /\ Reader /\ Machine

LEMMA SlotTyped ==
  ASSUME MInv, phase # "params", NEW k \in DOMAIN slots
  PROVE  /\ slots[k].type \in Types /\ slots[k].offset \in Nat /\ k \in 1..Len(slots)
         /\ slots[k].isParam => k \in DOMAIN params /\ k \in DOMAIN reg /\ params[k] = slots[k].type
         /\ ~slots[k].isParam => k > Len(params)
         /\ slots[k].offset \in DOMAIN frame
         /\ slots[k].type = "I64" => slots[k].offset + 1 \in DOMAIN frame
<1>1. /\ slots[k].type \in Types /\ slots[k].offset \in Nat /\ k \in 1..Len(slots)
      /\ slots[k] \in Slot
  BY LayoutOfSlot DEF MInv, IInv
<1>2. params \in Seq(Types) /\ size \in Nat
  BY DEF MInv, IInv, LayoutTyped
<1>3. /\ slots[k].isParam <=> k <= Len(params)
      /\ k <= Len(params) => slots[k].type = params[k]
  BY DEF MInv, Declared
<1>4. reg \in Seq(Values("I64")) /\ Len(reg) = Len(params)
  BY DEF MInv, Machine, Registers
<1>5. slots[k].offset + CellsOf(slots[k].type) <= size
  BY DEF MInv, IInv, SlotsDisjoint, EndOf
<1>6. PICK n \in size..(size + 3) : DOMAIN frame = 0..(n - 1)
  BY DEF MInv, IInv, SlotsDisjoint, FrameHolds
<1>7. slots[k].offset \in 0..(n - 1) /\ (slots[k].type = "I64" => slots[k].offset + 1 \in 0..(n - 1))
  BY <1>1, <1>2, <1>5 DEF CellsOf, Types
<1>8. slots[k].isParam => k \in DOMAIN params /\ k \in DOMAIN reg
  BY <1>1, <1>2, <1>3, <1>4
<1>9. ~slots[k].isParam => k > Len(params)
  BY <1>1, <1>2, <1>3
<1> QED
  BY <1>1, <1>3, <1>6, <1>7, <1>8, <1>9
-----------------------------------------------------------------------------
\* Executed, Ended and Refused, which end every instruction.
LEMMA ExecutedTyped ==
  ASSUME MInv, phase # "params", NEW ts, NEW mem, Executed(ts, mem), Operands(ts, mem)
  PROVE  Machine' /\ phase' = "running"
<1>1. /\ phase' = "running" /\ types' = ts /\ opmem' = mem
      /\ UNCHANGED params /\ UNCHANGED reg /\ UNCHANGED frame
  BY DEF Executed
<1>2. Registers' /\ Frame'
  BY <1>1 DEF MInv, Machine, Registers, Frame
<1>3. Stacks'
  BY <1>1 DEF Stacks, Operands
<1> QED
  BY <1>1, <1>2, <1>3 DEF Machine, Phases

LEMMA EndedTyped ==
  ASSUME MInv, phase # "params", NEW result, Ended(result), opmem' \in Seq(Cell)
  PROVE  Machine' /\ phase' = "ended"
<1>1. phase' = "ended" /\ UNCHANGED types /\ UNCHANGED params /\ UNCHANGED reg /\ UNCHANGED frame
  BY DEF Ended
<1>2. Registers' /\ Frame'
  BY <1>1 DEF MInv, Machine, Registers, Frame
<1>3. Stacks'
  BY <1>1 DEF MInv, Machine, Stacks
<1> QED
  BY <1>1, <1>2, <1>3 DEF Machine, Phases

LEMMA RefusedTyped ==
  ASSUME MInv, phase # "params", NEW why, Refused(why)
  PROVE  Machine' /\ phase' = "refused"
<1>1. /\ phase' = "refused" /\ UNCHANGED types /\ UNCHANGED params /\ UNCHANGED reg
      /\ UNCHANGED frame /\ UNCHANGED opmem
  BY DEF Refused
<1>2. Registers' /\ Frame'
  BY <1>1 DEF MInv, Machine, Registers, Frame
<1>3. Stacks'
  BY <1>1 DEF MInv, Machine, Stacks
<1> QED
  BY <1>1, <1>2, <1>3 DEF Machine, Phases

\* Counting an instruction, and forgetting the immediate of the last.
LEMMA StepRead ==
  ASSUME MInv, phase = "running", count < MaxOps, NEW op, Step(op), phase' # "reading"
  PROVE  Reader'
<1>1. count' = count + 1 /\ bytes' = <<>> /\ read' = Start
  BY DEF Step, Unread
<1>2. count' \in 0..MaxOps
  BY <1>1, FunctionAssumption DEF MInv, Reader
<1>3. Start.result \in 0..(Pow2[RegisterBits] - 1) /\ Start.written \in Nat
  <2>1. Pow2[RegisterBits] \in Nat \ {0}
    BY PowNat, WidthsAssumption
  <2> QED
    BY <2>1 DEF Start
<1> QED
  BY <1>1, <1>2, <1>3 DEF Reader

LEMMA UnreadRead ==
  ASSUME MInv, UNCHANGED <<bytes, read, count>>, phase' # "reading"
  PROVE  Reader'
  BY DEF MInv, Reader

\* The operands an instruction takes.
LEMMA Takes ==
  ASSUME MInv, Has(1)
  PROVE  /\ phase = "running" /\ count < MaxOps /\ Newest \in Types
         /\ Operands(types, opmem) /\ Len(types) \in Nat
         /\ Operand(opmem, Newest) \in Values(Newest) /\ Operand(opmem, Newest) \in Nat
         /\ Operands(TypesBelow(1), Popped(opmem, Newest))
         /\ Popped(opmem, Newest) \in Seq(Cell)
<1>1. phase = "running" /\ count < MaxOps /\ Len(types) >= 1
  BY DEF Has
<1>2. Operands(types, opmem)
  BY <1>1 DEF MInv, Machine, Stacks
<1>3. types \in Seq(Types) /\ opmem \in Seq(Cell)
  BY <1>2 DEF Operands
<1> DEFINE t == Newest
<1>4. t = types[Len(types)]
  BY DEF Newest
<1> HIDE DEF t
<1>5. /\ t \in Types /\ Len(opmem) >= CellsOf(t)
      /\ Operands(SubSeq(types, 1, Len(types) - 1), Popped(opmem, t))
  BY <1>1, <1>2, <1>4, PoppedTyped
<1>6. Operand(opmem, t) \in Values(t)
  BY <1>3, <1>5, OperandTyped
<1>7. Operand(opmem, t) \in Nat
  BY <1>5, <1>6, WidthTyped DEF Values
<1>8. Popped(opmem, t) \in Seq(Cell)
  BY <1>5 DEF Operands
<1> QED
  BY <1>1, <1>2, <1>3, <1>5, <1>6, <1>7, <1>8 DEF t, TypesBelow

LEMMA Shortened ==
  ASSUME NEW S, NEW s \in Seq(S), NEW k \in Nat, k <= Len(s)
  PROVE  /\ SubSeq(s, 1, Len(s) - k) \in Seq(S) /\ Len(SubSeq(s, 1, Len(s) - k)) = Len(s) - k
         /\ \A i \in 1..(Len(s) - k) : SubSeq(s, 1, Len(s) - k)[i] = s[i]
  OBVIOUS

LEMMA TakesTwo ==
  ASSUME MInv, HasTwo
  PROVE  LET t == Newest
             rest == Popped(opmem, t)
             left == Popped(rest, t)
         IN  /\ phase = "running" /\ count < MaxOps /\ t \in Types
             /\ Operand(opmem, t) \in Values(t) /\ Operand(rest, t) \in Values(t)
             /\ Operand(opmem, t) \in Nat /\ Operand(rest, t) \in Nat
             /\ rest \in Seq(Cell) /\ left \in Seq(Cell)
             /\ TypesBelow(1) = Append(TypesBelow(2), t)
             /\ Operands(TypesBelow(2), left)
<1> DEFINE t == Newest
           rest == Popped(opmem, t)
           left == Popped(rest, t)
           ts == TypesBelow(1)
<1>1. Has(1) /\ Len(types) >= 2 /\ types[Len(types) - 1] = t
  BY DEF HasTwo, Has
<1>2. /\ phase = "running" /\ count < MaxOps /\ t \in Types
      /\ Operands(types, opmem) /\ Operand(opmem, t) \in Values(t)
      /\ Operand(opmem, t) \in Nat
      /\ Operands(ts, rest) /\ rest \in Seq(Cell)
  BY <1>1, Takes
<1>3. types \in Seq(Types)
  BY <1>2 DEF Operands
<1>4. /\ Len(ts) = Len(types) - 1 /\ Len(ts) >= 1 /\ ts[Len(ts)] = t
      /\ SubSeq(ts, 1, Len(ts) - 1) = TypesBelow(2)
      /\ ts = Append(TypesBelow(2), t)
  <2>1. Len(types) \in Nat /\ Len(types) >= 2
    BY <1>1, <1>3
  <2>2. /\ ts \in Seq(Types) /\ Len(ts) = Len(types) - 1
        /\ \A i \in 1..Len(ts) : ts[i] = types[i]
    BY <1>3, <2>1 DEF TypesBelow
  <2> DEFINE us == TypesBelow(2)
  <2>3. /\ us \in Seq(Types) /\ Len(us) = Len(types) - 2
        /\ \A i \in 1..Len(us) : us[i] = types[i]
    <3>1. 2 \in Nat /\ 2 <= Len(types)
      BY <2>1
    <3>2. /\ SubSeq(types, 1, Len(types) - 2) \in Seq(Types)
          /\ Len(SubSeq(types, 1, Len(types) - 2)) = Len(types) - 2
          /\ \A i \in 1..(Len(types) - 2) : SubSeq(types, 1, Len(types) - 2)[i] = types[i]
      BY <1>3, <3>1, Shortened, Zenon
    <3> QED
      BY <3>2, Zenon DEF TypesBelow
  <2> HIDE DEF ts, us, t
  <2>4. ts[Len(ts)] = t
    BY <1>1, <2>1, <2>2
  <2> DEFINE cut == SubSeq(ts, 1, Len(ts) - 1)
  <2>5. cut \in Seq(Types) /\ Len(cut) = Len(us) /\ \A i \in 1..Len(us) : cut[i] = ts[i]
    BY <2>1, <2>2, <2>3
  <2> HIDE DEF cut
  <2>6. cut = us
    <3>1. \A i \in 1..Len(us) : cut[i] = us[i]
      BY <2>1, <2>2, <2>3, <2>5
    <3> QED
      BY <2>1, <2>3, <2>5, <3>1
  <2>7. ts = Append(us, t)
    <3>1. /\ Append(us, t) \in Seq(Types) /\ Len(Append(us, t)) = Len(us) + 1
          /\ Append(us, t)[Len(us) + 1] = t
          /\ \A i \in 1..Len(us) : Append(us, t)[i] = us[i]
      <4>1. t \in Types
        BY <1>2
      <4> QED
        BY <2>3, <4>1
    <3> DEFINE a == Append(us, t)
    <3> HIDE DEF a
    <3>2. /\ a \in Seq(Types) /\ Len(a) = Len(us) + 1 /\ a[Len(us) + 1] = t
          /\ \A i \in 1..Len(us) : a[i] = us[i]
      BY <3>1 DEF a
    <3>3. \A i \in 1..Len(ts) : a[i] = ts[i]
      BY <2>1, <2>2, <2>3, <2>4, <3>2
    <3>4. a = ts
      BY <2>1, <2>2, <2>3, <3>2, <3>3
    <3> QED
      BY <3>4 DEF a
  <2> QED
    BY <2>1, <2>2, <2>4, <2>6, <2>7 DEF us, cut
<1> HIDE DEF t, rest, ts
<1>5. Len(rest) >= CellsOf(t) /\ Operands(TypesBelow(2), left)
  BY <1>2, <1>4, PoppedTyped
<1>6. Operand(rest, t) \in Values(t)
  BY <1>2, <1>5, OperandTyped
<1>7. Operand(rest, t) \in Nat
  BY <1>2, <1>6, WidthTyped DEF Values
<1>8. left \in Seq(Cell)
  BY <1>5 DEF Operands
<1> QED
  BY <1>2, <1>4, <1>5, <1>6, <1>7, <1>8 DEF t, rest, ts

LEMMA ArithmeticTyped == ASSUME MInv, NEW op \in Binary, Arithmetic(op) PROVE Reader' /\ Machine'
<1> DEFINE t == Newest
           r == Operand(opmem, t)
           rest == Popped(opmem, t)
           l == Operand(rest, t)
           left == Popped(rest, t)
           n == Width(t)
<1>1. HasTwo /\ op \notin Comparisons /\ Step(op)
  BY DEF Arithmetic
<1>2. /\ phase = "running" /\ count < MaxOps /\ t \in Types
      /\ r \in Values(t) /\ l \in Values(t)
      /\ rest \in Seq(Cell) /\ left \in Seq(Cell)
      /\ TypesBelow(1) = Append(TypesBelow(2), t)
      /\ Operands(TypesBelow(2), left)
  BY <1>1, TakesTwo
<1>3. \/ Ended(End("DIV_0")) /\ opmem' = rest
      \/ Ended(End("Integer_overflow")) /\ opmem' = left
      \/ /\ op \in Divisions => r # 0
         /\ Executed(TypesBelow(1), Pushed(left, t, Alu(op, l, r, n)))
  BY DEF Arithmetic
<1> HIDE DEF t, r, rest, l, left
<1>4. n \in Nat \ {0} /\ l \in 0..(Pow2[n] - 1) /\ r \in 0..(Pow2[n] - 1)
  BY <1>2, WidthTyped DEF Values
<1> HIDE DEF n
<1>5. CASE Ended(End("DIV_0")) /\ opmem' = rest
  <2>1. Machine' /\ phase' = "ended"
    BY <1>2, <1>5, EndedTyped
  <2> QED
    BY <1>1, <1>2, <2>1, StepRead
<1>6. CASE Ended(End("Integer_overflow")) /\ opmem' = left
  <2>1. Machine' /\ phase' = "ended"
    BY <1>2, <1>6, EndedTyped
  <2> QED
    BY <1>1, <1>2, <2>1, StepRead
<1>7. CASE /\ op \in Divisions => r # 0
           /\ Executed(TypesBelow(1), Pushed(left, t, Alu(op, l, r, n)))
  <2>1. Alu(op, l, r, n) \in Int
    BY <1>1, <1>4, <1>7, AluTyped
  <2>2. Operands(TypesBelow(1), Pushed(left, t, Alu(op, l, r, n)))
    BY <1>2, <2>1, PushedTyped
  <2>3. Machine' /\ phase' = "running"
    BY <1>2, <1>7, <2>2, ExecutedTyped
  <2> QED
    BY <1>1, <1>2, <2>3, StepRead
<1> QED
  BY <1>3, <1>5, <1>6, <1>7

LEMMA ComparisonTyped == ASSUME MInv, NEW op, Comparison(op) PROVE Reader' /\ Machine'
<1> DEFINE t == Newest
           left == Popped(Popped(opmem, t), t)
<1>1. HasTwo /\ Step(op) /\ \E x \in {0, 1} :
        Executed(Append(TypesBelow(2), "I32"), Pushed(left, "I32", x))
  BY DEF Comparison
<1>2. phase = "running" /\ count < MaxOps /\ Operands(TypesBelow(2), left)
  BY <1>1, TakesTwo
<1> HIDE DEF left
<1>3. PICK x \in {0, 1} : Executed(Append(TypesBelow(2), "I32"), Pushed(left, "I32", x))
  BY <1>1
<1>4. "I32" \in Types /\ x \in Int
  BY DEF Types
<1>5. Operands(Append(TypesBelow(2), "I32"), Pushed(left, "I32", x))
  BY <1>2, <1>4, PushedTyped
<1>6. Machine' /\ phase' = "running"
  BY <1>2, <1>3, <1>5, ExecutedTyped
<1> QED
  BY <1>1, <1>2, <1>6, StepRead

LEMMA UnaryTyped == ASSUME MInv, NEW op, UnaryOp(op) PROVE Reader' /\ Machine'
<1> DEFINE t == Newest
           rest == Popped(opmem, t)
           below == TypesBelow(1)
<1>1. /\ Has(1) /\ Step(op)
      /\ \/ \E x \in {0, 1} : Executed(Append(below, "I32"), Pushed(rest, "I32", x))
         \/ \E v : Executed(types, Pushed(rest, t, LeadingZeros(v, Width(t))))
  BY DEF UnaryOp
<1>2. /\ phase = "running" /\ count < MaxOps /\ Operands(below, rest) /\ t \in Types
      /\ Operands(types, opmem)
  BY <1>1, Takes
<1>3. types = Append(below, t)
  BY <1>1, <1>2 DEF Operands, TypesBelow, Newest, Has
<1> HIDE DEF t, rest, below
<1>4. \E u \in Types, x \in Int : Executed(Append(below, u), Pushed(rest, u, x))
  <2>1. CASE \E x \in {0, 1} : Executed(Append(below, "I32"), Pushed(rest, "I32", x))
    <3>1. PICK x \in {0, 1} : Executed(Append(below, "I32"), Pushed(rest, "I32", x))
      BY <2>1
    <3>2. x \in Int /\ "I32" \in Types
      BY DEF Types
    <3> QED
      BY <3>1, <3>2
  <2>2. CASE \E v : Executed(types, Pushed(rest, t, LeadingZeros(v, Width(t))))
    <3>1. PICK v : Executed(types, Pushed(rest, t, LeadingZeros(v, Width(t))))
      BY <2>2
    <3>2. LeadingZeros(v, Width(t)) \in Int
      BY <1>2, WidthTyped, LeadingTyped
    <3> QED
      BY <1>2, <1>3, <3>1, <3>2
  <2> QED
    BY <1>1, <2>1, <2>2
<1>5. PICK u \in Types, x \in Int : Executed(Append(below, u), Pushed(rest, u, x))
  BY <1>4
<1>6. Operands(Append(below, u), Pushed(rest, u, x))
  BY <1>2, PushedTyped
<1>7. Machine' /\ phase' = "running"
  BY <1>2, <1>5, <1>6, ExecutedTyped
<1> QED
  BY <1>1, <1>2, <1>7, StepRead

LEMMA DropTyped == ASSUME MInv, Drop PROVE Reader' /\ Machine'
<1>1. Has(1) /\ Step("DROP") /\ Executed(TypesBelow(1), Popped(opmem, Newest))
  BY DEF Drop
<1>2. phase = "running" /\ count < MaxOps /\ Operands(TypesBelow(1), Popped(opmem, Newest))
  BY <1>1, Takes
<1>3. Machine' /\ phase' = "running"
  BY <1>1, <1>2, ExecutedTyped
<1> QED
  BY <1>1, <1>2, <1>3, StepRead

LEMMA ReturnTyped == ASSUME MInv, NEW hasResult, Return(hasResult) PROVE Reader' /\ Machine'
<1>1. phase = "running" /\ count < MaxOps /\ Step("RETURN")
  BY DEF Return, Has
<1>2. Machine' /\ phase' = "ended"
  <2>1. CASE hasResult /\ Ended(Returned(Newest, Operand(opmem, Newest)))
             /\ opmem' = Popped(opmem, Newest)
    <3>1. Has(1)
      BY <2>1 DEF Return
    <3>2. Popped(opmem, Newest) \in Seq(Cell)
      BY <3>1, Takes
    <3> QED
      BY <1>1, <2>1, <3>2, EndedTyped
  <2>2. CASE Ended(End("returned")) /\ UNCHANGED opmem
    <3>1. opmem' \in Seq(Cell)
      BY <2>2 DEF MInv, Machine, Stacks
    <3> QED
      BY <1>1, <2>2, <3>1, EndedTyped
  <2> QED
    BY <2>1, <2>2 DEF Return
<1> QED
  BY <1>1, <1>2, StepRead

LEMMA UnsupportedTyped == ASSUME MInv, Unsupported PROVE Reader' /\ Machine'
<1>1. /\ phase = "running" /\ Refused("unsupported")
      /\ UNCHANGED bytes /\ UNCHANGED read /\ UNCHANGED count
  BY DEF Unsupported, Has
<1>2. Machine' /\ phase' = "refused"
  BY <1>1, RefusedTyped
<1> QED
  BY <1>1, <1>2, UnreadRead
-----------------------------------------------------------------------------
(***************************************************************************)
(* Constants and locals.                                                   *)
(***************************************************************************)
LEMMA MoveConstTyped ==
  ASSUME MInv, phase = "reading", NEW t \in Types, NEW v \in Int, MoveConst(t, v)
  PROVE  Machine' /\ phase' = "running"
<1>1. Executed(Append(types, t), Pushed(opmem, t, Moved(t, v)))
  BY DEF MoveConst
<1>2. Operands(types, opmem)
  BY DEF MInv, Machine, Stacks
<1>3. Operands(Append(types, t), Pushed(opmem, t, Moved(t, v)))
  BY <1>2, MovedTyped, PushedTyped
<1> QED
  BY <1>1, <1>3, ExecutedTyped

LEMMA RegisterTyped ==
  ASSUME NEW k, reg[k] \in Values("I64"), NEW t \in Types
  PROVE  Register(k, t) \in Values(t)
<1>1. Pow2[Bits] \in Nat \ {0} /\ Pow2[2 * Bits] \in Nat \ {0}
  BY BitsTyped, PowNat
<1>2. reg[k] \in Nat /\ reg[k] \in 0..(Pow2[2 * Bits] - 1)
  BY <1>1, BitsTyped DEF Values
<1>3. CASE t = "I64"
  BY <1>2, <1>3, BitsTyped DEF Register, Values
<1>4. CASE t = "I32"
  <2>1. reg[k] % Pow2[Bits] \in 0..(Pow2[Bits] - 1)
    BY <1>1, <1>2
  <2> QED
    BY <1>4, <2>1, BitsTyped DEF Register, Values
<1> QED
  BY <1>3, <1>4 DEF Types

\* Any value fits in an X register.
LEMMA WiderTyped == ASSUME NEW t \in Types, NEW x \in Values(t) PROVE x \in Values("I64")
<1>1. Pow2[Bits] \in Nat \ {0} /\ Pow2[2 * Bits] \in Nat
  BY BitsTyped, PowNat
<1>2. Pow2[Bits] <= Pow2[2 * Bits]
  BY BitsTyped, PowGrows
<1>3. x \in 0..(Pow2[Bits] - 1) \/ x \in 0..(Pow2[2 * Bits] - 1)
  BY BitsTyped DEF Values, Types
<1>4. x \in 0..(Pow2[2 * Bits] - 1)
  BY <1>1, <1>2, <1>3
<1> QED
  BY <1>4, BitsTyped DEF Values

\* The value of a local is of its type.
LEMMA LocalTyped ==
  ASSUME MInv, phase # "params", NEW k \in DOMAIN slots
  PROVE  /\ slots[k].isParam => Register(k, slots[k].type) \in Values(slots[k].type)
         /\ ~slots[k].isParam =>
              LoadedFrom(frame, slots[k].offset, slots[k].type) \in Values(slots[k].type)
<1>1. /\ slots[k].type \in Types /\ slots[k].offset \in Nat
      /\ slots[k].isParam => k \in DOMAIN reg
      /\ slots[k].offset \in DOMAIN frame
      /\ slots[k].type = "I64" => slots[k].offset + 1 \in DOMAIN frame
  BY SlotTyped
<1>2. ASSUME slots[k].isParam PROVE Register(k, slots[k].type) \in Values(slots[k].type)
  <2>1. reg[k] \in Values("I64")
    BY <1>1, <1>2 DEF MInv, Machine, Registers
  <2> QED
    BY <1>1, <2>1, RegisterTyped
<1>3. LoadedFrom(frame, slots[k].offset, slots[k].type) \in Values(slots[k].type)
  <2>1. /\ frame[slots[k].offset] \in Cell
        /\ slots[k].type = "I64" => frame[slots[k].offset + 1] \in Cell
    BY <1>1 DEF MInv, Machine, Frame
  <2> QED
    BY <1>1, <2>1, LoadedTyped
<1> QED
  BY <1>2, <1>3

LEMMA GetLocalTyped ==
  ASSUME MInv, phase = "reading", NEW k \in DOMAIN slots, GetLocal(k)
  PROVE  Machine' /\ phase' \in {"running", "refused"}
<1> DEFINE t == slots[k].type
<1>1. \/ Refused("offset")
      \/ /\ slots[k].isParam
         /\ Executed(Append(types, t), Pushed(opmem, t, Register(k, t)))
      \/ /\ ~slots[k].isParam
         /\ Executed(Append(types, t), Pushed(opmem, t, LoadedFrom(frame, slots[k].offset, t)))
  BY DEF GetLocal
<1>2. t \in Types /\ Operands(types, opmem)
  BY SlotTyped DEF MInv, Machine, Stacks
<1>3. CASE Refused("offset")
  BY <1>3, RefusedTyped
<1>4. CASE \E x \in Values(t) : Executed(Append(types, t), Pushed(opmem, t, x))
  <2>1. PICK x \in Values(t) : Executed(Append(types, t), Pushed(opmem, t, x))
    BY <1>4
  <2>2. x \in Int
    BY <1>2, WidthTyped DEF Values
  <2>3. Operands(Append(types, t), Pushed(opmem, t, x))
    BY <1>2, <2>2, PushedTyped
  <2> QED
    BY <2>1, <2>3, ExecutedTyped
<1> QED
  BY <1>1, <1>3, <1>4, LocalTyped

LEMMA StoredTyped ==
  ASSUME NEW mem, \A c \in DOMAIN mem : mem[c] \in Cell, NEW at, NEW t \in Types, NEW x \in Int
  PROVE  /\ DOMAIN StoredAt(mem, at, t, x) = DOMAIN mem
         /\ \A c \in DOMAIN mem : StoredAt(mem, at, t, x)[c] \in Cell
<1>1. \A i \in DOMAIN Words(t, x) : Words(t, x)[i] \in Cell
  BY WordsTyped
<1> QED
  BY <1>1 DEF StoredAt

LEMMA SetLocalTyped ==
  ASSUME MInv, phase = "reading", NEW k \in DOMAIN slots, NEW tee \in BOOLEAN, SetLocal(k, tee)
  PROVE  Machine' /\ phase' \in {"running", "refused"}
<1> DEFINE t == slots[k].type
           x == Operand(opmem, t)
<1>1. types # <<>> /\ Newest = t
  BY DEF SetLocal
<1>2. CASE Refused("offset")
  BY <1>2, RefusedTyped
<1>3. CASE ~Refused("offset")
  <2>1. /\ phase' = "running" /\ UNCHANGED params
        /\ types' = IF tee THEN types ELSE TypesBelow(1)
        /\ opmem' = IF tee THEN opmem ELSE Popped(opmem, t)
    BY <1>3 DEF SetLocal
  <2>2. \/ slots[k].isParam /\ reg' = [reg EXCEPT ![k] = x] /\ UNCHANGED frame
        \/ frame' = StoredAt(frame, slots[k].offset, t, x) /\ UNCHANGED reg
    BY <1>3 DEF SetLocal
  <2>3. Operands(types, opmem)
    BY DEF MInv, Machine, Stacks
  <2>4. t \in Types /\ Len(types) >= 1 /\ t = types[Len(types)]
    BY <1>1, <2>3, SlotTyped DEF Operands, Newest
  <2> HIDE DEF t, x
  <2>5. Len(opmem) >= CellsOf(t) /\ Operands(TypesBelow(1), Popped(opmem, t))
    BY <2>3, <2>4, PoppedTyped DEF TypesBelow
  <2>6. x \in Values(t)
    BY <2>3, <2>4, <2>5, OperandTyped DEF Operands, x
  <2>7. x \in Int /\ x \in Values("I64")
    <3>1. Pow2[Width(t)] \in Nat
      BY <2>4, WidthTyped
    <3> QED
      BY <2>4, <2>6, <3>1, WiderTyped DEF Values
  <2>8. Stacks'
    <3>1. Operands(types', opmem')
      BY <2>1, <2>3, <2>5
    <3> QED
      BY <3>1 DEF Stacks, Operands
  <2>9. Registers'
    <3>1. reg \in Seq(Values("I64")) /\ Len(reg) = Len(params)
      BY DEF MInv, Machine, Registers
    <3>2. reg' \in Seq(Values("I64")) /\ Len(reg') = Len(reg)
      BY <2>2, <2>7, <3>1
    <3> QED
      BY <2>1, <3>1, <3>2 DEF Registers
  <2>10. Frame'
    <3>1. \A c \in DOMAIN frame : frame[c] \in Cell
      BY DEF MInv, Machine, Frame
    <3>2. CASE UNCHANGED frame
      BY <3>1, <3>2 DEF Frame
    <3>3. CASE frame' = StoredAt(frame, slots[k].offset, t, x)
      BY <2>4, <2>7, <3>1, <3>3, StoredTyped DEF Frame
    <3> QED
      BY <2>2, <3>2, <3>3
  <2> QED
    BY <2>1, <2>8, <2>9, <2>10 DEF Machine, Phases
<1> QED
  BY <1>2, <1>3

LEMMA PerformTyped ==
  ASSUME MInv, phase = "reading", NEW op, NEW v \in Int,
         Immediate(op) = "index" => v + 1 \in DOMAIN slots, Perform(op, v)
  PROVE  Machine' /\ phase' \in {"running", "refused"}
<1>1. CASE op \in {"I32_CONST", "I64_CONST"} /\ MoveConst(Immediate(op), v)
  <2>1. Immediate(op) \in Types
    BY <1>1 DEF Immediate, Types
  <2> QED
    BY <1>1, <2>1, MoveConstTyped
<1>2. CASE op = "LOCAL_GET" /\ GetLocal(v + 1)
  BY <1>2, GetLocalTyped DEF Immediate
<1>3. CASE op = "LOCAL_SET" /\ SetLocal(v + 1, FALSE)
  BY <1>3, SetLocalTyped DEF Immediate
<1>4. CASE op = "LOCAL_TEE" /\ SetLocal(v + 1, TRUE)
  BY <1>4, SetLocalTyped DEF Immediate
<1> QED
  BY <1>1, <1>2, <1>3, <1>4 DEF Perform
-----------------------------------------------------------------------------
\* Reading an immediate.
LEMMA MaxBitsTyped ==
  /\ \A kind : MaxBits(kind) \in Nat \ {0} /\ MaxBits(kind) <= RegisterBits
  /\ \A t \in Types : MaxBits(t) = Width(t)
  /\ RegisterBits \in Nat \ {0}
<1>1. 2 * Bits <= RegisterBits /\ Bits \in Nat \ {0}
  BY BitsTyped, FunctionAssumption
<1> QED
  BY <1>1, BitsTyped, WidthsAssumption DEF MaxBits, Types

LEMMA AccumulatedTyped ==
  ASSUME NEW rd, rd.result \in Nat, rd.written \in Nat, NEW byte \in Byte
  PROVE  /\ Accumulated(rd, byte).result \in 0..(Pow2[RegisterBits] - 1)
         /\ Accumulated(rd, byte).written \in Nat
<1>1. byte.low \in Int /\ Pow2[rd.written] \in Int /\ GroupBits \in Nat /\ RegisterBits \in Nat
  BY PowNat, WidthsAssumption DEF Byte
<1>2. rd.result + byte.low * Pow2[rd.written] \in Int
  BY <1>1
<1>3. (rd.result + byte.low * Pow2[rd.written]) % Pow2[RegisterBits] \in 0..(Pow2[RegisterBits] - 1)
  BY <1>1, <1>2, ModTyped
<1> QED
  BY <1>1, <1>3 DEF Accumulated

LEMMA DecodedTyped ==
  ASSUME NEW rd, rd.result \in Nat, rd.written \in Nat, NEW byte \in Byte,
         NEW signed, NEW maxBits \in Nat
  PROVE  Decoded(rd, byte, signed, maxBits) \in 0..(Pow2[maxBits] - 1)
<1> DEFINE acc == Accumulated(rd, byte)
<1>1. acc.result \in 0..(Pow2[RegisterBits] - 1) /\ acc.written \in Nat
  BY AccumulatedTyped
<1> HIDE DEF acc
<1>2. Pow2[acc.written] \in Nat /\ Pow2[RegisterBits] \in Nat
  BY <1>1, PowNat, WidthsAssumption
<1>3. Extended(acc, byte, signed) \in Int
  BY <1>1, <1>2 DEF Extended
<1>4. Extended(acc, byte, signed) % Pow2[maxBits] \in 0..(Pow2[maxBits] - 1)
  BY <1>3, ModTyped
<1> QED
  BY <1>4 DEF Decoded, acc

LEMMA ReadGroupTyped ==
  ASSUME MInv, NEW byte \in Byte \cup {EndOfFile}, ReadGroup(byte)
  PROVE  Reader' /\ Machine'
<1> DEFINE kind == Immediate(opcode)
           refuses == Refuses(read, byte, IsSigned(kind), MaxBits(kind))
           v == Decoded(read, byte, IsSigned(kind), MaxBits(kind))
<1>1. phase = "reading" /\ bytes' = Append(bytes, byte)
  BY DEF ReadGroup
<1>2. /\ bytes \in Seq(Byte \cup {EndOfFile})
      /\ read.result \in 0..(Pow2[RegisterBits] - 1) /\ read.written \in Nat
      /\ count \in 0..MaxOps /\ count < MaxOps
  BY <1>1 DEF MInv, Reader
<1>3. bytes' \in Seq(Byte \cup {EndOfFile})
  BY <1>1, <1>2
<1>4. read.result \in Nat
  BY <1>2, PowNat, WidthsAssumption
<1>5. CASE Refused("malformed") /\ UNCHANGED <<opcode, read, done, count>>
  <2>1. UNCHANGED read /\ UNCHANGED count /\ phase' = "refused"
    BY <1>5 DEF Refused
  <2> QED
    BY <1>1, <1>2, <1>3, <1>5, <2>1, RefusedTyped DEF Reader
<1>6. CASE ~refuses /\ (\/ byte.more /\ read' = Accumulated(read, byte)
                           /\ UNCHANGED <<phase, params, slots, size, types, reg, frame, opmem,
                                          opcode, outcome, done, count>>
                        \/ /\ kind = "index" => v + 1 \in DOMAIN slots
                           /\ read' = Accumulated(read, byte)
                           /\ count' = count + 1 /\ Perform(opcode, v))
  <2>1. byte \in Byte
    BY <1>6 DEF Refuses
  <2>2. /\ read'.result \in 0..(Pow2[RegisterBits] - 1)
        /\ read'.written \in Nat
    BY <1>2, <1>4, <1>6, <2>1, AccumulatedTyped
  <2>3. v \in 0..(Pow2[MaxBits(kind)] - 1)
    <3>1. MaxBits(kind) \in Nat
      BY MaxBitsTyped
    <3> QED
      BY <1>2, <1>4, <2>1, <3>1, DecodedTyped
  <2>4. v \in Int
    BY <2>3, MaxBitsTyped, PowNat
  <2> HIDE DEF kind, v, refuses
  <2>5. CASE UNCHANGED <<phase, params, slots, size, types, reg, frame, opmem, opcode, outcome,
                         done, count>>
    <3>1. /\ UNCHANGED phase /\ UNCHANGED params /\ UNCHANGED types /\ UNCHANGED reg
          /\ UNCHANGED frame /\ UNCHANGED opmem /\ UNCHANGED count
      BY <2>5
    <3>2. Machine'
      BY <3>1 DEF MInv, Machine, Registers, Frame, Stacks
    <3> QED
      BY <1>2, <1>3, <2>2, <3>1, <3>2 DEF Reader
  <2>6. CASE /\ kind = "index" => v + 1 \in DOMAIN slots
             /\ count' = count + 1 /\ Perform(opcode, v)
    <3>1. Machine' /\ phase' \in {"running", "refused"}
      BY <1>1, <2>4, <2>6, PerformTyped DEF kind
    <3>2. count' \in 0..MaxOps
      BY <1>2, <2>6, FunctionAssumption
    <3> QED
      BY <1>3, <2>2, <3>1, <3>2 DEF Reader
  <2> QED
    BY <1>6, <2>5, <2>6
<1> QED
  BY <1>5, <1>6 DEF ReadGroup

LEMMA FetchTyped == ASSUME MInv, NEW op, Fetch(op) PROVE Reader' /\ Machine'
<1>1. /\ phase = "running" /\ phase' = "reading" /\ count < MaxOps
      /\ bytes' = <<>> /\ read' = Start /\ UNCHANGED params /\ UNCHANGED types
      /\ UNCHANGED reg /\ UNCHANGED frame /\ UNCHANGED opmem /\ UNCHANGED count
  BY DEF Fetch, Has
<1>2. Start.result \in 0..(Pow2[RegisterBits] - 1) /\ Start.written \in Nat
  <2>1. Pow2[RegisterBits] \in Nat \ {0}
    BY PowNat, WidthsAssumption
  <2> QED
    BY <2>1 DEF Start
<1>3. Reader'
  BY <1>1, <1>2 DEF MInv, Reader
<1>4. Machine'
  BY <1>1 DEF MInv, Machine, Registers, Frame, Stacks, Phases
<1> QED
  BY <1>3, <1>4
-----------------------------------------------------------------------------
(***************************************************************************)
(* Calls, and the way into a function.                                     *)
(***************************************************************************)
\* Since slots do not overlap, at most one parameter is saved in a cell.
LEMMA CoveringTyped ==
  ASSUME MInv, phase = "running", NEW c \in DOMAIN frame, NEW k \in Covering(c)
  PROVE  /\ k \in DOMAIN params /\ k \in DOMAIN slots /\ k \in Nat
         /\ slots[k].offset \in Nat /\ c \in Nat
         /\ slots[k].offset <= c /\ c < EndOf(slots[k]) /\ EndOf(slots[k]) \in Nat
         /\ Words(params[k], reg[k])[c - slots[k].offset + 1] \in Cell
<1>1. k \in DOMAIN params /\ c - slots[k].offset + 1 \in DOMAIN Words(params[k], reg[k])
  BY DEF Covering
<1>2. k \in DOMAIN slots
  BY <1>1 DEF MInv, IInv, ParamsFirst
<1>3. slots[k].isParam
  BY <1>1, <1>2 DEF MInv, Declared, IInv, LayoutTyped
<1>4. /\ slots[k].type \in Types /\ slots[k].offset \in Nat /\ k \in Nat
      /\ k \in DOMAIN reg /\ params[k] = slots[k].type
  BY <1>2, <1>3, SlotTyped
<1>5. reg[k] \in Int
  <2>1. reg[k] \in Values("I64") /\ "I64" \in Types
    BY <1>4 DEF MInv, Machine, Registers, Types
  <2> QED
    BY <2>1, WidthTyped DEF Values
<1> DEFINE w == Words(params[k], reg[k])
<1>6. w \in Seq(Cell) /\ Len(w) = CellsOf(slots[k].type) /\ CellsOf(slots[k].type) \in {1, 2}
  BY <1>4, <1>5, WordsTyped, CellsOfType
<1>7. c \in Nat
  BY DEF MInv, IInv, SlotsDisjoint, FrameHolds
<1> HIDE DEF w
<1>8. c - slots[k].offset + 1 \in 1..Len(w) /\ w[c - slots[k].offset + 1] \in Cell
  BY <1>1, <1>6 DEF w
<1>9. EndOf(slots[k]) = slots[k].offset + Len(w) /\ Len(w) \in Nat
  BY <1>6 DEF EndOf, w
<1>10. /\ slots[k].offset <= c /\ c < EndOf(slots[k]) /\ EndOf(slots[k]) \in Nat
  BY <1>4, <1>7, <1>8, <1>9
<1> QED
  BY <1>1, <1>2, <1>4, <1>7, <1>8, <1>10 DEF w

LEMMA CoveringOne ==
  ASSUME MInv, phase = "running", NEW c \in DOMAIN frame,
         NEW j \in Covering(c), NEW k \in Covering(c)
  PROVE  j = k
<1>1. /\ j \in DOMAIN slots /\ j \in Nat /\ slots[j].offset \in Nat /\ c \in Nat
      /\ slots[j].offset <= c /\ c < EndOf(slots[j]) /\ EndOf(slots[j]) \in Nat
  BY CoveringTyped
<1>2. /\ k \in DOMAIN slots /\ k \in Nat /\ slots[k].offset \in Nat
      /\ slots[k].offset <= c /\ c < EndOf(slots[k]) /\ EndOf(slots[k]) \in Nat
  BY CoveringTyped
<1>3. \A a, b \in DOMAIN slots : a < b => EndOf(slots[a]) <= slots[b].offset
  BY DEF MInv, IInv, SlotsDisjoint
<1>4. ~(j < k)
  BY <1>1, <1>2, <1>3
<1>5. ~(k < j)
  BY <1>1, <1>2, <1>3
<1> QED
  BY <1>1, <1>2, <1>4, <1>5

LEMMA ParamsStoredIs ==
  ASSUME MInv, phase = "running", NEW c \in DOMAIN frame
  PROVE  /\ Covering(c) = {} => ParamsStored[c] = frame[c]
         /\ \A k \in Covering(c) :
              ParamsStored[c] = Words(params[k], reg[k])[c - slots[k].offset + 1]
<1>1. ASSUME Covering(c) = {} PROVE ParamsStored[c] = frame[c]
  BY <1>1 DEF ParamsStored
<1>2. ASSUME NEW k \in Covering(c)
      PROVE  ParamsStored[c] = Words(params[k], reg[k])[c - slots[k].offset + 1]
  <2> DEFINE top == CHOOSE i \in Covering(c) : \A j \in Covering(c) : j <= i
  <2>1. \A j \in Covering(c) : j = k
    BY CoveringOne
  <2>2. k \in Nat
    BY CoveringTyped
  <2>3. \A j \in Covering(c) : j <= k
    BY <2>1, <2>2
  <2>4. top \in Covering(c)
    BY <2>3, Zenon
  <2>5. top = k
    BY <2>1, <2>4
  <2>6. ParamsStored[c] = Words(params[top], reg[top])[c - slots[top].offset + 1]
    BY Zenon DEF ParamsStored
  <2> QED
    BY <2>5, <2>6
<1> QED
  BY <1>1, <1>2

LEMMA SpilledTyped ==
  ASSUME MInv, phase = "running"
  PROVE  DOMAIN Spilled = DOMAIN frame /\ \A c \in DOMAIN frame : Spilled[c] \in Cell
<1>1. DOMAIN ParamsStored = DOMAIN frame
  BY DEF ParamsStored
<1>2. ASSUME NEW c \in DOMAIN frame PROVE ParamsStored[c] \in Cell
  <2>1. CASE Covering(c) = {}
    BY <2>1, ParamsStoredIs DEF MInv, Machine, Frame
  <2>2. CASE Covering(c) # {}
    <3>1. PICK k : k \in Covering(c)
      BY <2>2
    <3>2. Words(params[k], reg[k])[c - slots[k].offset + 1] \in Cell
      BY <3>1, CoveringTyped
    <3> QED
      BY <3>1, <3>2, ParamsStoredIs
  <2> QED
    BY <2>1, <2>2
<1>3. "I64" \in Types /\ ReturnAddress \in Int
  BY PowNat, BitsTyped DEF ReturnAddress, Types
<1> QED
  BY <1>1, <1>2, <1>3, StoredTyped DEF Spilled

LEMMA CallTyped ==
  ASSUME MInv, NEW result \in Results \cup {<<>>}, Call(result)
  PROVE  Reader' /\ Machine'
<1>1. phase = "running" /\ count < MaxOps
  BY DEF Call, Has
<1>2. CASE Refused("offset") /\ UNCHANGED <<opcode, bytes, read, done, count>>
  <2>1. UNCHANGED bytes /\ UNCHANGED read /\ UNCHANGED count
    BY <1>2
  <2>2. Machine' /\ phase' = "refused"
    BY <1>1, <1>2, RefusedTyped
  <2> QED
    BY <2>1, <2>2, UnreadRead
<1>3. CASE ~(Refused("offset") /\ UNCHANGED <<opcode, bytes, read, done, count>>)
  <2>1. /\ Step("CALL") /\ frame' = Spilled /\ reg' = Reloaded(frame')
        /\ types' = IF result = <<>> THEN types ELSE Append(types, result[1])
        /\ opmem' = IF result = <<>> THEN opmem ELSE Pushed(opmem, result[1], result[2])
        /\ UNCHANGED phase /\ UNCHANGED params
    BY <1>3 DEF Call
  <2>2. Frame'
    BY <1>1, <2>1, SpilledTyped DEF Frame
  <2>3. Operands(types, opmem)
    BY <1>1 DEF MInv, Machine, Stacks
  <2>4. Operands(types', opmem')
    <3>1. CASE result = <<>>
      BY <2>1, <2>3, <3>1
    <3>2. CASE result # <<>>
      <4>0. PICK t \in Types : \E v \in Args[t] : result = <<t, v>>
        BY <3>2 DEF Results
      <4>1. PICK v \in Args[t] : result = <<t, v>>
        BY <4>0
      <4>2. v \in 0..(Pow2[Width(t)] - 1)
        BY FunctionAssumption
      <4>3. v \in Int
        BY <4>2, WidthTyped
      <4> QED
        BY <2>1, <2>3, <3>2, <4>1, <4>3, PushedTyped
    <3> QED
      BY <3>1, <3>2
  <2>5. Stacks'
    BY <2>4 DEF Stacks, Operands
  <2>6. Registers'
    <3>1. params \in Seq(Types)
      BY DEF MInv, IInv, LayoutTyped
    <3>2. ASSUME NEW k \in DOMAIN params
          PROVE  LoadedFrom(frame', slots[k].offset, params[k]) \in Values("I64")
      <4>1. k \in DOMAIN slots
        BY <1>1 DEF MInv, IInv, ParamsFirst
      <4>2. slots[k].isParam
        BY <3>1, <4>1 DEF MInv, Declared
      <4>3. /\ params[k] \in Types /\ slots[k].offset \in Nat
            /\ slots[k].offset \in DOMAIN frame
            /\ params[k] = "I64" => slots[k].offset + 1 \in DOMAIN frame
        BY <1>1, <4>1, <4>2, SlotTyped
      <4>4. frame'[slots[k].offset] \in Cell
            /\ (params[k] = "I64" => frame'[slots[k].offset + 1] \in Cell)
        BY <1>1, <2>1, <4>3, SpilledTyped
      <4>5. LoadedFrom(frame', slots[k].offset, params[k]) \in Values(params[k])
        BY <4>3, <4>4, LoadedTyped
      <4> QED
        BY <4>3, <4>5, WiderTyped
    <3>3. reg' = [k \in DOMAIN params |-> LoadedFrom(frame', slots[k].offset, params[k])]
      BY <2>1 DEF Reloaded
    <3> DEFINE v(k) == LoadedFrom(frame', slots[k].offset, params[k])
    <3>4. \A k \in DOMAIN params : v(k) \in Values("I64")
      BY <3>2
    <3> HIDE DEF v
    <3>5. reg' = [k \in DOMAIN params |-> v(k)]
      BY <3>3 DEF v
    <3>6. reg' \in Seq(Values("I64")) /\ Len(reg') = Len(params)
      BY <3>1, <3>4, <3>5
    <3> QED
      BY <2>1, <3>6 DEF Registers
  <2>7. Machine' /\ phase' = "running"
    BY <1>1, <2>1, <2>2, <2>5, <2>6 DEF Machine, Phases
  <2> QED
    BY <1>1, <2>1, <2>7, StepRead
<1> QED
  BY <1>2, <1>3

LEMMA PrologueTyped ==
  ASSUME MInv, NEW args, NEW upper \in Upper, Prologue(args, upper)
  PROVE  Reader' /\ Machine' /\ Declared'
<1>1. /\ phase = "params" /\ phase' = "running" /\ Len(slots) >= Len(params)
      /\ \A k \in DOMAIN params : args[k] \in Args[params[k]]
      /\ reg' = [k \in DOMAIN params |-> InRegister(params[k], args[k], upper)]
      /\ frame' = [c \in 0..(AlignedSize - 1) |-> 0]
      /\ UNCHANGED params /\ UNCHANGED slots /\ UNCHANGED types /\ UNCHANGED opmem
      /\ UNCHANGED bytes /\ UNCHANGED read /\ UNCHANGED count
  BY DEF Prologue
<1>2. Declared'
  BY <1>1 DEF MInv, Declared
<1>3. Reader'
  BY <1>1 DEF MInv, Reader
<1>4. Stacks'
  BY <1>1 DEF MInv, Machine, Stacks, Operands
<1>5. Frame'
  <2>1. 0 \in Cell
    BY BitsTyped DEF Cell
  <2> QED
    BY <1>1, <2>1 DEF Frame
<1>6. params \in Seq(Types)
  BY DEF MInv, IInv, LayoutTyped
<1>7. ASSUME NEW k \in DOMAIN params
      PROVE  InRegister(params[k], args[k], upper) \in Values("I64")
  <2> DEFINE p == Pow2[Bits]
  <2>1. params[k] \in Types
    BY <1>6
  <2>2. args[k] \in 0..(Pow2[Width(params[k])] - 1)
    BY <1>1, <2>1, FunctionAssumption
  <2>3. p \in Nat \ {0} /\ Pow2[2 * Bits] = p * p
    BY BitsTyped
  <2>4. CASE params[k] = "I64"
    BY <2>2, <2>4 DEF InRegister, Values
  <2>5. CASE params[k] = "I32"
    <3>1. args[k] \in 0..(p - 1) /\ upper \in 0..(p - 1)
      BY <2>2, <2>3, <2>5, BitsTyped DEF Upper
    <3> DEFINE a == args[k]
    <3> HIDE DEF a, p
    <3>2. a + upper * p \in 0..(p * p - 1)
      BY <2>3, <3>1, TwoCells DEF a
    <3> QED
      BY <2>3, <2>5, <3>2, BitsTyped DEF InRegister, Values, a, p
  <2> QED
    BY <2>1, <2>4, <2>5 DEF Types
<1>8. Registers'
  <2> DEFINE v(k) == InRegister(params[k], args[k], upper)
  <2>1. \A k \in DOMAIN params : v(k) \in Values("I64")
    BY <1>7
  <2>2. reg' = [k \in DOMAIN params |-> v(k)]
    BY <1>1
  <2> HIDE DEF v
  <2>3. reg' \in Seq(Values("I64")) /\ Len(reg') = Len(params)
    BY <1>6, <2>1, <2>2
  <2> QED
    BY <1>1, <2>3 DEF Registers
<1> QED
  BY <1>1, <1>2, <1>3, <1>4, <1>5, <1>8 DEF Machine, Phases

LEMMA AddedTyped ==
  ASSUME MInv, phase = "params", NEW isParam \in BOOLEAN, NEW t \in Types, Added(isParam, t),
         isParam <=> Len(slots) < Len(params), isParam => t = params[Len(slots) + 1],
         UNCHANGED <<phase, params, types, reg, frame, opmem, bytes, read, count>>
  PROVE  Reader' /\ Machine' /\ Declared'
<1>1. /\ UNCHANGED phase /\ UNCHANGED params /\ UNCHANGED types /\ UNCHANGED reg
      /\ UNCHANGED frame /\ UNCHANGED opmem /\ UNCHANGED bytes /\ UNCHANGED read
      /\ UNCHANGED count
  OBVIOUS
<1>2. Reader'
  BY <1>1 DEF MInv, Reader
<1>3. Machine'
  BY <1>1 DEF MInv, Machine, Registers, Frame, Stacks, Operands
<1>4. Declared'
  <2> DEFINE new == [isParam |-> isParam, offset |-> size, type |-> t]
             n == Len(slots) + 1
  <2>1. slots \in Seq(Slot) /\ new \in Slot /\ slots' = Append(slots, new) /\ params \in Seq(Types)
    BY DEF MInv, IInv, LayoutTyped, Slot, Added
  <2>2. new.isParam = isParam /\ new.type = t
    OBVIOUS
  <2> HIDE DEF new
  <2>3. /\ DOMAIN slots' = 1..n /\ slots'[n] = new /\ n \in Nat
        /\ \A k \in 1..Len(slots) : k \in DOMAIN slots /\ slots'[k] = slots[k]
    BY <2>1
  <2>4. ASSUME NEW k \in 1..n
        PROVE  /\ slots'[k].isParam <=> k <= Len(params)
               /\ k <= Len(params) => slots'[k].type = params[k]
    <3>1. CASE k = n
      BY <2>1, <2>2, <2>3, <3>1
    <3>2. CASE k \in 1..Len(slots)
      BY <2>3, <3>2 DEF MInv, Declared
    <3> QED
      BY <2>1, <3>1, <3>2
  <2> QED
    BY <1>1, <2>3, <2>4 DEF MInv, Declared
<1> QED
  BY <1>2, <1>3, <1>4

LEMMA MInit == Init => MInv
<1> SUFFICES ASSUME Init PROVE MInv
  OBVIOUS
<1>1. /\ phase = "params" /\ params \in ParamLists /\ slots = <<>> /\ types = <<>>
      /\ reg = <<>> /\ frame = <<>> /\ opmem = <<>> /\ bytes = <<>> /\ read = Start /\ count = 0
  BY DEF Init
<1>2. Reader
  <2>1. Start.result \in 0..(Pow2[RegisterBits] - 1) /\ Start.written \in Nat
    <3>1. Pow2[RegisterBits] \in Nat \ {0}
      BY PowNat, WidthsAssumption
    <3> QED
      BY <3>1 DEF Start
  <2> QED
    BY <1>1, <2>1, FunctionAssumption DEF Reader
<1>3. Operands(<<>>, <<>>)
  <2>1. CellsUpTo(<<>>)[0] = 0
    <3>1. <<>> \in Seq(Types)
      OBVIOUS
    <3> QED
      BY <3>1, CellsRecursion, Zenon
  <2> QED
    BY <2>1 DEF Operands
<1>4. Machine
  BY <1>1, <1>3 DEF Machine, Phases, Registers, Frame, Stacks
<1>5. Declared
  BY <1>1 DEF Declared
<1> QED
  BY <1>2, <1>4, <1>5, InitEstablishes DEF MInv

\* Once a function is entered, its locals are what was declared.
LEMMA InstructionDeclares == ASSUME MInv, Instruction PROVE Declared'
<1>1. UNCHANGED slots /\ UNCHANGED params /\ phase # "params"
  BY DEF Instruction
<1> QED
  BY <1>1 DEF MInv, Declared

LEMMA MNext == ASSUME MInv, [Next]_vars PROVE MInv'
<1>0. IInv /\ IInv'
  BY NextPreserves DEF MInv
<1> SUFFICES Reader' /\ Machine' /\ Declared'
  BY <1>0 DEF MInv
<1>1. CASE AddParam
  <2>1. Len(slots) < Len(params) /\ Added(TRUE, params[Len(slots) + 1]) /\ phase = "params"
        /\ UNCHANGED <<phase, params, types, reg, frame, opmem, bytes, read, count>>
    BY <1>1 DEF AddParam
  <2>2. params[Len(slots) + 1] \in Types
    BY <2>1 DEF MInv, IInv, LayoutTyped
  <2> QED
    BY <2>1, <2>2, AddedTyped
<1>2. ASSUME NEW t \in Types, AddLocal(t) PROVE Reader' /\ Machine' /\ Declared'
  <2>1. ~(Len(slots) < Len(params)) /\ Added(FALSE, t) /\ phase = "params"
        /\ UNCHANGED <<phase, params, types, reg, frame, opmem, bytes, read, count>>
    <3>1. Len(slots) \in Nat /\ Len(params) \in Nat
      BY DEF MInv, IInv, LayoutTyped
    <3>2. Len(slots) >= Len(params) /\ Added(FALSE, t) /\ phase = "params"
          /\ UNCHANGED <<phase, params, types, reg, frame, opmem, bytes, read, count>>
      BY <1>2 DEF AddLocal
    <3>3. Len(slots) >= Len(params) => ~(Len(slots) < Len(params))
      BY <3>1
    <3> QED
      BY <3>2, <3>3, Zenon
  <2> QED
    BY <2>1, AddedTyped
<1>3. ASSUME NEW args, NEW upper \in Upper, Prologue(args, upper)
      PROVE  Reader' /\ Machine' /\ Declared'
  BY <1>3, PrologueTyped
<1>4. ASSUME NEW op, Fetch(op) PROVE Reader' /\ Machine' /\ Declared'
  BY <1>4, FetchTyped, FetchIsInstruction, InstructionDeclares
<1>5. ASSUME NEW byte \in Byte \cup {EndOfFile}, ReadGroup(byte)
      PROVE  Reader' /\ Machine' /\ Declared'
  BY <1>5, ReadGroupTyped, ReadGroupIsInstruction, InstructionDeclares
<1>6. ASSUME NEW op \in Binary \ Comparisons, Arithmetic(op) PROVE Reader' /\ Machine' /\ Declared'
  BY <1>6, ArithmeticTyped, ArithmeticIsInstruction, InstructionDeclares
<1>7. ASSUME NEW op, Comparison(op) PROVE Reader' /\ Machine' /\ Declared'
  BY <1>7, ComparisonTyped, ComparisonIsInstruction, InstructionDeclares
<1>8. ASSUME NEW op, UnaryOp(op) PROVE Reader' /\ Machine' /\ Declared'
  BY <1>8, UnaryTyped, UnaryIsInstruction, InstructionDeclares
<1>9. CASE Drop
  BY <1>9, DropTyped, DropIsInstruction, InstructionDeclares
<1>10. ASSUME NEW result \in Results \cup {<<>>}, Call(result)
       PROVE  Reader' /\ Machine' /\ Declared'
  BY <1>0, <1>10, CallTyped, CallIsInstruction, InstructionDeclares
<1>11. ASSUME NEW hasResult, Return(hasResult) PROVE Reader' /\ Machine' /\ Declared'
  BY <1>11, ReturnTyped, ReturnIsInstruction, InstructionDeclares
<1>12. CASE Unsupported
  BY <1>12, UnsupportedTyped, UnsupportedIsInstruction, InstructionDeclares
<1>13. CASE UNCHANGED vars
  <2>1. /\ UNCHANGED phase /\ UNCHANGED params /\ UNCHANGED slots /\ UNCHANGED types
        /\ UNCHANGED reg /\ UNCHANGED frame /\ UNCHANGED opmem /\ UNCHANGED bytes
        /\ UNCHANGED read /\ UNCHANGED count
    BY <1>13 DEF vars
  <2>2. Reader'
    BY <2>1 DEF MInv, Reader
  <2>3. Machine'
    BY <2>1 DEF MInv, Machine, Registers, Frame, Stacks, Operands
  <2>4. Declared'
    BY <2>1 DEF MInv, Declared
  <2> QED
    BY <2>2, <2>3, <2>4
<1> QED
  BY <1>1, <1>2, <1>3, <1>4, <1>5, <1>6, <1>7, <1>8, <1>9, <1>10, <1>11, <1>12, <1>13 DEF Next
-----------------------------------------------------------------------------
\* Every variable has its type: what is pushed, stored and loaded are numbers
\* of the width of a cell or a register, whatever the code of the function.
THEOREM TypeCorrect == Spec => []TypeOK
<1>1. MInv => TypeOK
  <2> SUFFICES ASSUME MInv PROVE TypeOK
    OBVIOUS
  <2>1. phase \in Phases /\ params \in ParamLists /\ types \in Seq(Types) /\ opmem \in Seq(Cell)
    BY DEF MInv, Machine, Declared, Stacks
  <2>2. slots \in Seq(Slot) /\ size \in Nat
    BY DEF MInv, IInv, LayoutTyped
  <2>3. reg \in Seq(0..(Pow2[2 * Bits] - 1))
    BY BitsTyped DEF MInv, Machine, Registers, Values
  <2>4. \A c \in DOMAIN frame : frame[c] \in Cell
    BY DEF MInv, Machine, Frame
  <2>5. /\ bytes \in Seq(Byte \cup {EndOfFile})
        /\ read.result \in 0..(Pow2[RegisterBits] - 1) /\ read.written \in Nat
        /\ count \in 0..MaxOps
    BY DEF MInv, Reader
  <2> QED
    BY <2>1, <2>2, <2>3, <2>4, <2>5, Zenon DEF TypeOK, Phases, Slot, Cell
<1> QED
  BY <1>1, MInit, MNext, PTL DEF Spec

\* emit_append_to_ROP_stack and emit_get_elem move ROP by the size of each
\* type: however i32 and i64 are mixed, it stands where the validation stack
\* says.
THEOREM RopFollowsTypes == Spec => []RopMatches
<1>1. MInv => RopMatches
  BY DEF MInv, Machine, Stacks, Operands, RopMatches
<1> QED
  BY <1>1, MInit, MNext, PTL DEF Spec
-----------------------------------------------------------------------------
\* MOVZ and MOVK leave the constant in the register.
LEMMA MovedIsValue ==
  ASSUME NEW t \in Types, NEW v \in Values(t)
  PROVE  Moved(t, v) = v
<1> DEFINE m == 2 * CellsOf(t) - 1
           x == MovedUpTo(t, v)
           S == {i \in Nat : x[i] = v % Pow2[(i + 1) * HalfBits]}
<1>1. v \in Nat
  BY WidthTyped DEF Values
<1>2. Moved(t, v) = x[m]
  BY DEF Moved, MovedUpTo
<1>3. m \in Nat /\ (m + 1) * HalfBits = Width(t)
  <2>1. HalfBits \in Nat
    BY FunctionAssumption
  <2>2. CASE t = "I64"
    BY <2>1, <2>2 DEF CellsOf, Width, Bits
  <2>3. CASE t = "I32"
    BY <2>1, <2>3 DEF CellsOf, Width, Bits
  <2> QED
    BY <2>2, <2>3 DEF Types
<1>4. /\ x[0] = Half(v, 0)
      /\ \A i \in 1..m : x[i] = (IF Half(v, i) = 0 THEN x[i - 1] ELSE Kept(x[i - 1], v, i))
  BY <1>1, MovedRecursion
<1> HIDE DEF m, x
<1>5. 0 \in S
  <2>1. HalfBits \in Nat
    BY FunctionAssumption
  <2>2. 0 * HalfBits = 0 /\ (0 + 1) * HalfBits = HalfBits
    BY <2>1
  <2>3. v \div 1 = v
    BY <1>1
  <2>4. Half(v, 0) = v % Pow2[HalfBits]
    BY <2>2, <2>3, PowZero DEF Half
  <2> QED
    BY <1>4, <2>2, <2>4
<1>6. ASSUME NEW j \in 0..(m - 1), j \in S PROVE j + 1 \in S
  <2> DEFINE i == j + 1
             a == Pow2[i * HalfBits]
             b == Pow2[HalfBits]
             y == x[j]
  <2>1. i \in 1..m /\ i - 1 = j /\ i \in Nat
    BY <1>3
  <2>2. a \in Nat \ {0} /\ b \in Nat \ {0}
    BY <2>1, HalfTyped
  <2>3. Pow2[(i + 1) * HalfBits] = a * b
    <3>1. HalfBits \in Nat /\ i * HalfBits \in Nat /\ (i + 1) * HalfBits = i * HalfBits + HalfBits
      BY <2>1, FunctionAssumption
    <3> QED
      BY <3>1, PowSum
  <2>4. y = v % a
    BY <1>6
  <2>5. x[i] = (IF Half(v, i) = 0 THEN y ELSE Kept(y, v, i))
    BY <1>4, <2>1
  <2>6. Half(v, i) = (v \div a) % b /\ Half(v, i) \in Nat
    BY <1>1, <2>1, <2>2, HalfTyped DEF Half
  <2>7. Half(y, i) = (y \div a) % b
    BY DEF Half
  <2>8. Kept(y, v, i) = y - Half(y, i) * a + Half(v, i) * a
    BY DEF Kept
  <2> HIDE DEF a, b, y, i
  <2>9. y \in 0..(a - 1)
    BY <1>1, <2>2, <2>4
  <2>10. Half(y, i) = 0
    <3>1. y \div a = 0
      BY <2>2, <2>9, SmallMod
    <3>2. 0 \in 0..(b - 1)
      BY <2>2
    <3> QED
      BY <2>2, <2>7, <3>1, <3>2, SmallMod
  <2>11. v % (a * b) = (v % a) + a * ((v \div a) % b)
    BY <1>1, <2>2, ModSplit
  <2>12. v % (a * b) = y + a * Half(v, i)
    BY <2>4, <2>6, <2>11
  <2>13. x[i] = y + a * Half(v, i)
    <3>1. CASE Half(v, i) = 0
      BY <2>2, <2>5, <2>9, <3>1
    <3>2. CASE Half(v, i) # 0
      <4> DEFINE g == Half(v, i)
      <4>1. x[i] = y - 0 * a + g * a
        BY <2>5, <2>8, <2>10, <3>2
      <4>2. g \in Nat
        BY <2>6
      <4> HIDE DEF g
      <4>3. y - 0 * a + g * a = y + a * g
        BY <2>2, <2>9, <4>2
      <4> QED
        BY <4>1, <4>3 DEF g
    <3> QED
      BY <3>1, <3>2
  <2> QED
    BY <2>1, <2>3, <2>12, <2>13 DEF i
<1> HIDE DEF S
<1>7. \A i \in 0..m : i \in S
  BY <1>3, <1>5, <1>6, InductionUpTo
<1>8. x[m] = v % Pow2[Width(t)]
  <2>1. m \in S
    BY <1>3, <1>7
  <2> QED
    BY <1>3, <2>1 DEF S
<1>9. v % Pow2[Width(t)] = v
  BY WidthTyped, SmallMod DEF Values
<1> QED
  BY <1>2, <1>8, <1>9
-----------------------------------------------------------------------------
(***************************************************************************)
(* The numbers of Wasm's LEB128 encoding.                                  *)
(***************************************************************************)
LEMMA GroupTyped ==
  /\ GroupBits \in Nat \ {0} /\ RegisterBits \in Nat \ {0}
  /\ Pow2[GroupBits] \in Nat \ {0} /\ Pow2[RegisterBits] \in Nat \ {0}
  /\ GroupBits - 1 \in Nat /\ Pow2[GroupBits - 1] \in Nat \ {0}
  /\ Pow2[GroupBits] = 2 * Pow2[GroupBits - 1]
<1>1. GroupBits \in Nat \ {0} /\ RegisterBits \in Nat \ {0}
  BY WidthsAssumption
<1>2. GroupBits - 1 \in Nat /\ (GroupBits - 1) + 1 = GroupBits
  BY <1>1
<1> QED
  BY <1>1, <1>2, PowNat, PowNext

LEMMA ByteTyped ==
  ASSUME NEW byte \in Byte
  PROVE  byte.more \in BOOLEAN /\ byte.low \in 0..(Pow2[GroupBits] - 1) /\ byte.low \in Nat
<1>1. byte.more \in BOOLEAN /\ byte.low \in 0..(Pow2[GroupBits] - 1)
  BY DEF Byte
<1> QED
  BY <1>1, GroupTyped

\* One more byte is one more place.
LEMMA PlacesAppend ==
  ASSUME NEW bs \in Seq(Byte), NEW byte \in Byte
  PROVE  Places(Append(bs, byte))[Len(bs) + 1] =
           Places(bs)[Len(bs)] + byte.low * Pow2[Len(bs) * GroupBits]
<1> DEFINE cs == Append(bs, byte)
           m == Len(bs)
           b == Places(bs)
           c == Places(cs)
           S == {n \in Nat : c[n] = b[n]}
<1>1. /\ cs \in Seq(Byte) /\ Len(cs) = m + 1 /\ m \in Nat /\ cs[m + 1] = byte
      /\ \A n \in 1..m : cs[n] = bs[n]
  OBVIOUS
<1> HIDE DEF cs, m
<1>2. b[0] = 0 /\ \A n \in 1..m : b[n] = b[n - 1] + bs[n].low * Pow2[(n - 1) * GroupBits]
  BY PlacesRecursion DEF m
<1>3. c[0] = 0 /\ \A n \in 1..(m + 1) : c[n] = c[n - 1] + cs[n].low * Pow2[(n - 1) * GroupBits]
  BY <1>1, PlacesRecursion
<1> HIDE DEF b, c
<1>4. 0 \in S
  BY <1>2, <1>3
<1>5. ASSUME NEW n \in 0..(m - 1), n \in S PROVE n + 1 \in S
  <2>1. n + 1 \in 1..m /\ n + 1 \in 1..(m + 1) /\ (n + 1) - 1 = n /\ n + 1 \in Nat
    BY <1>1
  <2>2. /\ b[n + 1] = b[n] + bs[n + 1].low * Pow2[n * GroupBits]
        /\ c[n + 1] = c[n] + cs[n + 1].low * Pow2[n * GroupBits]
    BY <1>2, <1>3, <2>1
  <2>3. cs[n + 1] = bs[n + 1] /\ c[n] = b[n]
    BY <1>1, <1>5, <2>1
  <2> QED
    BY <2>1, <2>2, <2>3
<1> HIDE DEF S
<1>6. \A n \in 0..m : n \in S
  BY <1>1, <1>4, <1>5, InductionUpTo
<1>7. c[m] = b[m]
  <2>1. m \in S
    BY <1>1, <1>6
  <2> QED
    BY <2>1 DEF S
<1>8. c[m + 1] = c[m] + byte.low * Pow2[m * GroupBits]
  <2>1. m + 1 \in 1..(m + 1) /\ (m + 1) - 1 = m
    BY <1>1
  <2> QED
    BY <1>1, <1>3, <2>1
<1> QED
  BY <1>7, <1>8 DEF c, b, m, cs

\* The sign bit of a group, and of its last bits.
LEMMA SignOfGroup ==
  ASSUME NEW byte \in Byte
  PROVE  Bit(byte.low, GroupBits - 1) = 1 <=> byte.low >= Pow2[GroupBits - 1]
<1> DEFINE h == Pow2[GroupBits - 1]
           v == byte.low
<1>1. h \in Nat \ {0} /\ v \in 0..(2 * h - 1)
  BY ByteTyped, GroupTyped
<1>2. Bit(v, GroupBits - 1) = (v \div h) % 2
  BY DEF Bit
<1> HIDE DEF h, v
<1>3. CASE v < h
  <2>1. v \div h = 0
    BY <1>1, <1>3, SmallMod
  <2> QED
    BY <1>1, <1>2, <1>3, <2>1 DEF h, v
<1>4. CASE v >= h
  <2>1. v - h \in 0..(h - 1) /\ h * 1 + (v - h) = v /\ 1 \in Int
    BY <1>1, <1>4
  <2>2. (h * 1 + (v - h)) \div h = 1
    BY <1>1, <2>1, QuotientOf, Zenon
  <2> QED
    BY <1>1, <1>2, <1>4, <2>1, <2>2 DEF h, v
<1> QED
  BY <1>1, <1>3, <1>4

\* The bits beyond the width repeat the sign: what PaddedWell tests is that
\* the last group is the one of a number of that many bits.
LEMMA PaddingIsSign ==
  ASSUME NEW byte \in Byte, NEW signed \in BOOLEAN, NEW bits \in 1..(GroupBits - 1)
  PROVE  PaddedWell(byte, signed, GroupBits - bits) <=> LastWellFormed(byte.low, signed, bits)
<1> DEFINE e == GroupBits - bits
           v == byte.low
           h == Pow2[bits - 1]
           b == Pow2[e]
           u == v \div h
           p == v \div (2 * h)
           s == u % 2
           r == v % h
<1>1. GroupBits \in Nat /\ bits \in Nat /\ bits - 1 \in Nat /\ e \in Nat \ {0} /\ e - 1 \in Nat
  BY GroupTyped
<1>2. h \in Nat \ {0} /\ b \in Nat \ {0} /\ b >= 2
  <2>1. Pow2[e] = 2 * Pow2[e - 1] /\ Pow2[e - 1] \in Nat \ {0}
    <3>1. (e - 1) + 1 = e
      BY <1>1
    <3> QED
      BY <1>1, <3>1, PowNext, PowNat
  <2> QED
    BY <1>1, <2>1, PowNat
<1>3. Pow2[bits] = 2 * h /\ Pow2[GroupBits] = 2 * (h * b) /\ Pow2[GroupBits - 1] = h * b
  <2>1. (bits - 1) + 1 = bits /\ bits + e = GroupBits /\ (bits - 1) + e = GroupBits - 1
    BY <1>1
  <2>2. Pow2[bits] = 2 * h
    BY <1>1, <2>1, PowNext
  <2>3. Pow2[GroupBits - 1] = h * b
    BY <1>1, <2>1, PowSum
  <2> QED
    BY <2>2, <2>3, GroupTyped
<1>4. GroupBits - e = bits /\ GroupBits - 1 - e = bits - 1
  BY <1>1
<1>5. Padding(byte, e) = p /\ SignBit(byte, e) = s
  BY <1>3, <1>4 DEF Padding, SignBit, Bit
<1>6. v \in Nat /\ v < 2 * (h * b)
  <2>1. v \in Nat /\ v \in 0..(Pow2[GroupBits] - 1) /\ Pow2[GroupBits] \in Nat
    BY ByteTyped, GroupTyped
  <2>2. v < Pow2[GroupBits]
    BY <2>1
  <2> QED
    BY <1>3, <2>1, <2>2, Zenon
<1>7. /\ LastWellFormed(v, signed, bits) <=>
           IF ~signed THEN v < 2 * h ELSE IF v < h * b THEN v < h ELSE v >= 2 * (h * b) - h
      /\ PaddedWell(byte, signed, e) <=> p = (IF signed /\ s = 1 THEN b - 1 ELSE 0)
  BY <1>3, <1>5, Zenon DEF LastWellFormed, PaddedWell
<1>8. u \in Nat /\ r \in 0..(h - 1) /\ v = h * u + r
  BY <1>2, <1>6, DivisionLaw
<1>9. u = 2 * (u \div 2) + s /\ u \div 2 \in Nat /\ s \in 0..1
  BY <1>8
<1>10. p = u \div 2
  <2> DEFINE k == u \div 2
             d == h * s + r
             c == 2 * h
  <2> HIDE DEF u, s, r, h, v
  <2>1. k \in Nat /\ s \in {0, 1} /\ u = 2 * k + s
    BY <1>9
  <2> HIDE DEF k
  <2>2. d \in 0..(c - 1) /\ c \in Nat \ {0}
    BY <1>2, <1>8, <2>1
  <2>3. h * (2 * k + s) + r = (2 * h) * k + (h * s + r)
    BY <1>2, <1>8, <2>1
  <2>4. v = c * k + d
    BY <1>8, <2>1, <2>3
  <2> HIDE DEF c, d
  <2>5. (c * k + d) \div c = k
    BY <2>1, <2>2, QuotientOf
  <2> QED
    BY <2>4, <2>5 DEF c, k
<1> HIDE DEF e, v, h, b, u, p, s, r
<1>11. p \in Nat /\ u = 2 * p + s /\ (s = 0 \/ s = 1)
  BY <1>9, <1>10
\* How u compares is how v compares.
<1>12. ASSUME NEW k \in Nat PROVE v < h * k <=> u < k
  <2>1. ASSUME u < k PROVE v < h * k
    <3>1. h * (u + 1) <= h * k /\ h * (u + 1) = h * u + h /\ h * u \in Nat /\ h * k \in Nat
      BY <1>2, <1>8, <2>1
    <3> QED
      BY <1>2, <1>8, <3>1
  <2>2. ASSUME ~(u < k) PROVE ~(v < h * k)
    <3>1. h * k <= h * u /\ h * u \in Nat /\ h * k \in Nat
      BY <1>2, <1>8, <2>2
    <3> QED
      BY <1>8, <3>1
  <2> QED
    BY <2>1, <2>2
<1>13. /\ v < h * 2 <=> u < 2
       /\ v < h * b <=> u < b
       /\ v < h * 1 <=> u < 1
       /\ v < h * (2 * b - 1) <=> u < 2 * b - 1
       /\ v < h * (2 * b) <=> u < 2 * b
  <2>1. 2 \in Nat /\ 1 \in Nat /\ b \in Nat /\ 2 * b - 1 \in Nat /\ 2 * b \in Nat
    BY <1>2
  <2> QED
    BY <1>12, <2>1, Zenon
<1>14. h * 2 = 2 * h /\ h * 1 = h /\ h * (2 * b - 1) = 2 * (h * b) - h /\ h * (2 * b) = 2 * (h * b)
       /\ h * b \in Nat
  BY <1>2
<1> DEFINE hb == h * b
<1> HIDE DEF hb
<1>15. u < 2 * b
  BY <1>6, <1>13, <1>14
<1>16. LastWellFormed(v, signed, bits) <=>
         IF ~signed THEN u < 2 ELSE IF u < b THEN u < 1 ELSE ~(u < 2 * b - 1)
  <2>1. /\ v < 2 * h <=> u < 2
        /\ v < h * b <=> u < b
        /\ v < h <=> u < 1
        /\ v < 2 * (h * b) - h <=> u < 2 * b - 1
    BY <1>13, <1>14
  <2>2. v >= 2 * (h * b) - h <=> ~(v < 2 * (h * b) - h)
    BY <1>2, <1>6, <1>14
  <2> QED
    BY <1>7, <2>1, <2>2, Zenon
<1>17. CASE ~signed
  <2>1. u < 2 <=> p = 0
    BY <1>11
  <2> QED
    BY <1>7, <1>16, <1>17, <2>1 DEF e, v
<1>18. CASE signed
  <2>1. (IF u < b THEN u < 1 ELSE ~(u < 2 * b - 1)) <=> p = (IF s = 1 THEN b - 1 ELSE 0)
    BY <1>2, <1>11, <1>15
  <2> QED
    BY <1>7, <1>16, <1>18, <2>1 DEF e, v
<1> QED
  BY <1>17, <1>18

\* A group within the width is that of some number of the width.
LEMMA WholeGroup ==
  ASSUME NEW byte \in Byte, NEW signed \in BOOLEAN, NEW bits \in Nat, bits >= GroupBits
  PROVE  LastWellFormed(byte.low, signed, bits)
<1> DEFINE v == byte.low
           h == Pow2[GroupBits - 1]
           a == Pow2[bits - 1]
<1>1. GroupBits - 1 \in Nat /\ bits - 1 \in Nat /\ GroupBits - 1 <= bits - 1 /\ (bits - 1) + 1 = bits
  BY GroupTyped
<1>2. h <= a /\ h \in Nat \ {0} /\ a \in Nat \ {0} /\ Pow2[bits] = 2 * a
  BY <1>1, PowGrows, PowNat, PowNext
<1>3. v \in 0..(2 * h - 1) /\ Pow2[GroupBits] = 2 * h
  BY ByteTyped, GroupTyped
<1> HIDE DEF v, h, a
<1>4. v < 2 * a /\ (v < h => v < a) /\ (~(v < h) => v >= 2 * h - a)
  BY <1>2, <1>3
<1> QED
  BY <1>2, <1>3, <1>4, Zenon DEF LastWellFormed, v, h, a

\* The sum the loop keeps, and the number the bytes denote.
LEMMA DenotedIs ==
  ASSUME NEW bs \in Seq(Byte), NEW byte \in Byte, NEW signed \in BOOLEAN
  PROVE  LET k == Len(bs)
             sum == Places(bs)[k] + byte.low * Pow2[k * GroupBits]
         IN  Denoted(Append(bs, byte), signed) =
               IF signed /\ byte.low >= Pow2[GroupBits - 1]
                 THEN sum - Pow2[(k + 1) * GroupBits] ELSE sum
<1> DEFINE cs == Append(bs, byte)
<1>1. cs \in Seq(Byte) /\ Len(cs) = Len(bs) + 1 /\ cs[Len(cs)] = byte
  OBVIOUS
<1>2. Denoted(cs, signed) = IF signed /\ LastLow(cs) >= Pow2[GroupBits - 1]
                              THEN Places(cs)[Len(cs)] - Pow2[Len(cs) * GroupBits]
                              ELSE Places(cs)[Len(cs)]
  BY DEF Denoted, Places
<1>3. LastLow(cs) = byte.low
  BY <1>1 DEF LastLow
<1>4. Places(cs)[Len(bs) + 1] = Places(bs)[Len(bs)] + byte.low * Pow2[Len(bs) * GroupBits]
  BY PlacesAppend
<1> HIDE DEF cs
<1> QED
  BY <1>1, <1>2, <1>3, <1>4, Zenon DEF cs

\* The bits that do not fit in the accumulator make no difference.
LEMMA AccumulatedIs ==
  ASSUME NEW bs \in Seq(Byte), NEW byte \in Byte, NEW rd,
         rd.written = Len(bs) * GroupBits,
         rd.result = Places(bs)[Len(bs)] % Pow2[RegisterBits]
  PROVE  LET k == Len(bs)
             sum == Places(bs)[k] + byte.low * Pow2[k * GroupBits]
         IN  /\ sum \in Int /\ k \in Nat /\ k * GroupBits \in Nat /\ (k + 1) * GroupBits \in Nat
             /\ Accumulated(rd, byte).result = sum % Pow2[RegisterBits]
             /\ Accumulated(rd, byte).written = (k + 1) * GroupBits
<1> DEFINE k == Len(bs)
           p == Places(bs)[k]
           w == Pow2[k * GroupBits]
           m == Pow2[RegisterBits]
           v == byte.low
<1>1. k \in Nat /\ p \in Int
  BY PlacesRecursion
<1>2. k * GroupBits \in Nat /\ (k + 1) * GroupBits \in Nat
      /\ k * GroupBits + GroupBits = (k + 1) * GroupBits
  BY <1>1, GroupTyped
<1>3. w \in Nat /\ m \in Nat \ {0} /\ v \in Nat
  BY <1>2, PowNat, GroupTyped, ByteTyped
<1>4. /\ Accumulated(rd, byte).result = ((p % m) + v * w) % m
      /\ Accumulated(rd, byte).written = (k + 1) * GroupBits
  BY <1>2 DEF Accumulated
<1> HIDE DEF k, p, w, m, v
<1>5. ((p % m) + v * w) % m = (p + v * w) % m
  <2> DEFINE q == p \div m
             r == p % m
             d == v * w
             x == r + d
  <2>1. q \in Int /\ r \in 0..(m - 1) /\ p = m * q + r
    BY <1>1, <1>3, DivisionOfInteger
  <2>2. d \in Int
    BY <1>3
  <2> HIDE DEF q, r, d
  <2>3. x \in Int /\ m * q \in Int
    BY <1>3, <2>1, <2>2
  <2>4. p + d = x + m * q
    BY <1>3, <2>1, <2>2, <2>3
  <2>5. (x + m * q) % m = x % m
    BY <1>3, <2>1, <2>3, ModShift
  <2> QED
    BY <2>4, <2>5 DEF r, d
<1>6. p + v * w \in Int
  BY <1>1, <1>3
<1> QED
  BY <1>1, <1>2, <1>4, <1>5, <1>6 DEF k, p, w, m, v

\* What the last byte yields is what all of them denote, in the width asked for.
LEMMA DecodedIs ==
  ASSUME NEW bs \in Seq(Byte), NEW byte \in Byte, NEW rd, NEW signed \in BOOLEAN,
         NEW maxBits \in Nat, maxBits <= RegisterBits,
         rd.written = Len(bs) * GroupBits,
         rd.result = Places(bs)[Len(bs)] % Pow2[RegisterBits]
  PROVE  Decoded(rd, byte, signed, maxBits) = Denoted(Append(bs, byte), signed) % Pow2[maxBits]
<1> DEFINE k == Len(bs)
           sum == Places(bs)[k] + byte.low * Pow2[k * GroupBits]
           w == (k + 1) * GroupBits
           acc == Accumulated(rd, byte)
           m == Pow2[maxBits]
           a == Pow2[RegisterBits]
           top == Pow2[w]
           negative == signed /\ byte.low >= Pow2[GroupBits - 1]
           den == Denoted(Append(bs, byte), signed)
<1>1. sum \in Int /\ w \in Nat /\ acc.result = sum % a /\ acc.written = w
  BY AccumulatedIs
<1>2. den = IF negative THEN sum - top ELSE sum
  BY DenotedIs
<1>3. a \in Nat \ {0} /\ m \in Nat \ {0} /\ top \in Nat \ {0} /\ RegisterBits \in Nat
  BY <1>1, GroupTyped, PowNat
<1>4. Extended(acc, byte, signed) =
        IF negative /\ w < RegisterBits THEN acc.result + a - top ELSE acc.result
  BY <1>1, SignOfGroup DEF Extended
<1>5. Decoded(rd, byte, signed, maxBits) = Extended(acc, byte, signed) % m
  BY DEF Decoded
<1>6. \E c \in Nat : a = m * c
  <2>1. RegisterBits - maxBits \in Nat /\ maxBits + (RegisterBits - maxBits) = RegisterBits
    BY <1>3
  <2>2. a = m * Pow2[RegisterBits - maxBits]
    BY <2>1, PowSum
  <2>3. Pow2[RegisterBits - maxBits] \in Nat
    BY <2>1, PowNat
  <2> QED
    BY <2>2, <2>3
<1>7. w >= RegisterBits => \E c \in Nat : top = m * c
  <2> SUFFICES ASSUME w >= RegisterBits PROVE \E c \in Nat : top = m * c
    OBVIOUS
  <2>1. w - maxBits \in Nat /\ maxBits + (w - maxBits) = w
    BY <1>1, <1>3
  <2>2. top = m * Pow2[w - maxBits] /\ Pow2[w - maxBits] \in Nat
    <3> DEFINE d == w - maxBits
    <3>1. d \in Nat /\ maxBits + d = w
      BY <2>1
    <3> HIDE DEF d, w
    <3> QED
      BY <3>1, PowSum, PowNat DEF d
  <2> QED
    BY <2>2
<1> DEFINE q == sum \div a
           s == acc.result
<1> HIDE DEF k, sum, w, acc, m, a, top, negative, den
<1>8. sum = a * q + s /\ q \in Int /\ s \in Int
  <2>1. s = sum % a
    BY <1>1
  <2> HIDE DEF s
  <2> QED
    BY <1>1, <1>3, <2>1, DivisionOfInteger
<1> HIDE DEF q, s
<1> DEFINE ext == Extended(acc, byte, signed)
<1>9. \E z \in Int : ext = den + m * z
  <2>1. PICK c \in Nat : a = m * c
    BY <1>6
  <2>2. CASE ~negative
    <3>1. ext = s /\ den = sum
      BY <1>2, <1>4, <2>2 DEF s
    <3>2. a * q = m * (c * q)
      BY <1>3, <1>8, <2>1
    <3>3. -(c * q) \in Int /\ m * (-(c * q)) = -(m * (c * q)) /\ m * (c * q) \in Int
      BY <1>3, <1>8
    <3>4. s = sum + m * (-(c * q))
      BY <1>8, <3>2, <3>3
    <3> QED
      BY <3>1, <3>3, <3>4
  <2>3. CASE negative /\ w < RegisterBits
    <3>1. ext = s + a - top /\ den = sum - top
      BY <1>2, <1>4, <2>3 DEF s
    <3>2. a * q = m * (c * q)
      BY <1>3, <1>8, <2>1
    <3> DEFINE z == c - c * q
    <3>3. z \in Int /\ m * z = m * c - m * (c * q) /\ m * (c * q) \in Int /\ m * c \in Int
      BY <1>3, <1>8
    <3> HIDE DEF z
    <3>4. s + a = sum + m * z
      BY <1>1, <1>8, <2>1, <3>2, <3>3
    <3>5. s + a - top = sum - top + m * z
      BY <1>1, <1>3, <1>8, <3>3, <3>4
    <3> QED
      BY <3>1, <3>3, <3>5
  <2>4. CASE negative /\ ~(w < RegisterBits)
    <3>1. ext = s /\ den = sum - top
      BY <1>2, <1>4, <2>4 DEF s
    <3>2. a * q = m * (c * q)
      BY <1>3, <1>8, <2>1
    <3>0. w >= RegisterBits
      BY <1>1, <1>3, <2>4
    <3>3. PICK d \in Nat : top = m * d
      BY <1>7, <3>0, Zenon
    <3> DEFINE z == d - c * q
    <3>4. z \in Int /\ m * z = m * d - m * (c * q) /\ m * (c * q) \in Int /\ m * d \in Int
      BY <1>3, <1>8
    <3> HIDE DEF z
    <3>5. s = sum - top + m * z
      BY <1>1, <1>3, <1>8, <3>2, <3>3, <3>4
    <3> QED
      BY <3>1, <3>4, <3>5
  <2> QED
    BY <2>2, <2>3, <2>4
<1>10. PICK z \in Int : ext = den + m * z
  BY <1>9
<1>11. den \in Int
  BY <1>1, <1>2, <1>3
<1>12. (den + m * z) % m = den % m
  BY <1>3, <1>11, ModShift
<1> QED
  BY <1>5, <1>10, <1>12 DEF ext, den, m
-----------------------------------------------------------------------------
(***************************************************************************)
(* Reading an immediate: what the loop keeps of the bytes so far.          *)
(***************************************************************************)
Reading ==
  phase = "reading" =>
    /\ bytes \in Seq(Byte) /\ \A i \in DOMAIN bytes : bytes[i].more
    /\ read.written = Len(bytes) * GroupBits
    /\ read.result = Places(bytes)[Len(bytes)] % Pow2[RegisterBits]
NothingRead == phase = "params" => bytes = <<>> /\ opcode = "none"
MalformedEnds == outcome.kind = "malformed" => phase = "refused"
DInv == Reading /\ NothingRead /\ MalformedEnds /\ DecodesWasmIntegers

\* The reader refuses a byte after which no more bytes can make an integer
\* of what was read.
LEMMA RefusedIsMalformed ==
  ASSUME NEW bs \in Seq(Byte), NEW byte \in Byte \cup {EndOfFile}, NEW rd, NEW signed \in BOOLEAN,
         NEW maxBits \in Nat \ {0}, \A i \in DOMAIN bs : bs[i].more,
         rd.written = Len(bs) * GroupBits, Refuses(rd, byte, signed, maxBits)
  PROVE  ~WellFormed(Append(bs, byte), signed, maxBits) /\ ~Incomplete(Append(bs, byte), maxBits)
<1> DEFINE cs == Append(bs, byte)
           k == Len(bs)
           w == k * GroupBits
<1>1. Len(cs) = k + 1 /\ cs[Len(cs)] = byte /\ DOMAIN cs = 1..(k + 1) /\ k \in Nat /\ k + 1 \in DOMAIN cs
  BY DEF Byte
<1>2. w \in Nat /\ Len(cs) * GroupBits = w + GroupBits /\ GroupBits \in Nat \ {0}
      /\ BitsLeft(cs, maxBits) = maxBits - w
  BY <1>1, GroupTyped DEF BitsLeft
<1>3. LastLow(cs) = byte.low /\ cs[k + 1].more = byte.more
  BY <1>1 DEF LastLow
<1> HIDE DEF cs, k, w
<1>4. CASE byte = EndOfFile
  <2>1. byte.low = -1 /\ byte.more = FALSE
    BY <1>4 DEF EndOfFile
  <2>2. ~WellFormed(cs, signed, maxBits)
    BY <1>3, <2>1 DEF WellFormed
  <2>3. ~Incomplete(cs, maxBits)
    BY <1>1, <1>3, <2>1 DEF Incomplete
  <2> QED
    BY <2>2, <2>3 DEF cs
<1>5. CASE w >= maxBits
  <2>1. ~WellFormed(cs, signed, maxBits)
    BY <1>2, <1>5 DEF WellFormed
  <2>2. ~Incomplete(cs, maxBits)
    BY <1>2, <1>5 DEF Incomplete
  <2> QED
    BY <2>1, <2>2 DEF cs
<1>6. CASE /\ byte # EndOfFile /\ w < maxBits /\ w + GroupBits - maxBits > 0
           /\ ~PaddedWell(byte, signed, w + GroupBits - maxBits)
  <2> DEFINE bits == maxBits - w
  <2>1. bits \in 1..(GroupBits - 1) /\ GroupBits - bits = w + GroupBits - maxBits
    BY <1>2, <1>6
  <2>2. byte \in Byte
    BY <1>6
  <2>3. ~LastWellFormed(byte.low, signed, bits)
    BY <1>6, <2>1, <2>2, PaddingIsSign
  <2>4. ~WellFormed(cs, signed, maxBits)
    BY <1>2, <1>3, <2>3 DEF WellFormed
  <2>5. ~Incomplete(cs, maxBits)
    BY <1>2, <1>6 DEF Incomplete
  <2> QED
    BY <2>4, <2>5 DEF cs
<1>7. rd.written = w
  BY DEF w, k
<1> QED
  BY <1>2, <1>4, <1>5, <1>6, <1>7 DEF Refuses, TooLong, Excess

\* What it accepts is well formed.
LEMMA AcceptedIsWellFormed ==
  ASSUME NEW bs \in Seq(Byte), NEW byte \in Byte, NEW rd, NEW signed \in BOOLEAN,
         NEW maxBits \in Nat \ {0}, \A i \in DOMAIN bs : bs[i].more,
         rd.written = Len(bs) * GroupBits, ~Refuses(rd, byte, signed, maxBits), ~byte.more
  PROVE  WellFormed(Append(bs, byte), signed, maxBits)
<1> DEFINE cs == Append(bs, byte)
           k == Len(bs)
           w == k * GroupBits
           bits == maxBits - w
<1>1. /\ Len(cs) = k + 1 /\ cs[Len(cs)] = byte /\ DOMAIN cs = 1..(k + 1) /\ k \in Nat
      /\ \A i \in 1..k : cs[i] = bs[i] /\ bs[i].more
  OBVIOUS
<1>2. w \in Nat /\ GroupBits \in Nat \ {0} /\ BitsLeft(cs, maxBits) = bits
  BY <1>1, GroupTyped DEF BitsLeft
<1>3. LastLow(cs) = byte.low /\ byte.low >= 0
  BY <1>1, ByteTyped DEF LastLow
<1>4. rd.written = w
  OBVIOUS
<1>5. cs # <<>>
  BY <1>1
<1> HIDE DEF cs, k, w
<1>6. bits > 0 /\ bits \in Nat
  BY <1>2, <1>4 DEF Refuses, TooLong
<1>7. LastWellFormed(byte.low, signed, bits)
  <2>1. CASE bits >= GroupBits
    BY <1>6, <2>1, WholeGroup
  <2>2. CASE bits < GroupBits
    <3>1. bits \in 1..(GroupBits - 1) /\ GroupBits - bits = w + GroupBits - maxBits
          /\ w + GroupBits - maxBits > 0 /\ ~(w >= maxBits)
      BY <1>2, <1>6, <2>2
    <3>2. PaddedWell(byte, signed, w + GroupBits - maxBits)
      BY <1>4, <3>1 DEF Refuses, TooLong, Excess
    <3> QED
      BY <3>1, <3>2, PaddingIsSign
  <2> QED
    BY <1>2, <1>6, <2>1, <2>2
<1>8. \A i \in DOMAIN cs : cs[i].more <=> i < Len(cs)
  <2> SUFFICES ASSUME NEW i \in 1..(k + 1) PROVE cs[i].more <=> i < k + 1
    BY <1>1
  <2>1. CASE i = k + 1
    BY <1>1, <2>1
  <2>2. CASE i \in 1..k
    BY <1>1, <2>2
  <2> QED
    BY <1>1, <2>1, <2>2
<1> QED
  BY <1>2, <1>3, <1>5, <1>6, <1>7, <1>8 DEF WellFormed, cs

\* What performing an instruction leaves in outcome.
LEMMA PerformOutcome ==
  ASSUME NEW op, NEW v, Perform(op, v), outcome.kind # "malformed"
  PROVE  outcome'.kind # "malformed"
<1>1. CASE MoveConst(Immediate(op), v)
  BY <1>1 DEF MoveConst, Executed
<1>2. CASE GetLocal(v + 1)
  BY <1>2 DEF GetLocal, Executed, Refused, End
<1>3. CASE \E tee : SetLocal(v + 1, tee)
  BY <1>3 DEF SetLocal, Refused, End
<1> QED
  BY <1>1, <1>2, <1>3 DEF Perform

LEMMA ReadGroupDecodes ==
  ASSUME MInv, DInv, NEW byte \in Byte \cup {EndOfFile}, ReadGroup(byte)
  PROVE  DInv'
<1> DEFINE kind == Immediate(opcode)
           signed == IsSigned(kind)
           refuses == Refuses(read, byte, signed, MaxBits(kind))
           v == Decoded(read, byte, signed, MaxBits(kind))
<1>1. /\ phase = "reading" /\ bytes' = Append(bytes, byte) /\ UNCHANGED opcode
      /\ \/ refuses /\ Refused("malformed")
         \/ /\ ~refuses /\ byte.more /\ read' = Accumulated(read, byte)
            /\ UNCHANGED phase /\ UNCHANGED outcome
         \/ /\ ~refuses /\ ~byte.more
            /\ kind = "index" => v + 1 \in DOMAIN slots
            /\ Perform(opcode, v)
  BY DEF ReadGroup
<1>2. /\ bytes \in Seq(Byte) /\ \A i \in DOMAIN bytes : bytes[i].more
      /\ read.written = Len(bytes) * GroupBits
      /\ read.result = Places(bytes)[Len(bytes)] % Pow2[RegisterBits]
  BY <1>1 DEF DInv, Reading
<1>3. outcome.kind # "malformed"
  BY <1>1 DEF DInv, MalformedEnds
<1>4. signed \in BOOLEAN /\ MaxBits(kind) \in Nat \ {0} /\ MaxBits(kind) <= RegisterBits
  BY MaxBitsTyped DEF IsSigned
<1>5. CASE refuses /\ Refused("malformed")
  <2>1. phase' = "refused"
    BY <1>5 DEF Refused
  <2>2. ~WellFormed(bytes', signed, MaxBits(kind)) /\ ~Incomplete(bytes', MaxBits(kind))
    BY <1>1, <1>2, <1>4, <1>5, RefusedIsMalformed
  <2>3. DecodesWasmIntegers'
    BY <1>1, <2>1, <2>2 DEF DecodesWasmIntegers, MaxBits, Bits
  <2> QED
    BY <2>1, <2>3 DEF DInv, Reading, NothingRead, MalformedEnds
<1>6. CASE /\ ~refuses /\ byte.more /\ read' = Accumulated(read, byte)
           /\ UNCHANGED phase /\ UNCHANGED outcome
  <2>1. byte \in Byte
    BY <1>6 DEF Refuses
  <2>2. bytes' \in Seq(Byte) /\ Len(bytes') = Len(bytes) + 1
        /\ (\A i \in DOMAIN bytes' : bytes'[i].more)
    BY <1>1, <1>2, <1>6, <2>1
  <2>3. /\ read'.written = Len(bytes') * GroupBits
        /\ read'.result = Places(bytes')[Len(bytes')] % Pow2[RegisterBits]
    BY <1>1, <1>2, <1>6, <2>1, <2>2, AccumulatedIs, PlacesAppend
  <2>4. Reading'
    BY <2>2, <2>3 DEF Reading
  <2>5. DecodesWasmIntegers'
    BY <1>1, <1>3, <1>6 DEF DecodesWasmIntegers
  <2> QED
    BY <1>1, <1>3, <1>6, <2>4, <2>5 DEF DInv, NothingRead, MalformedEnds
<1>7. CASE /\ ~refuses /\ ~byte.more
           /\ kind = "index" => v + 1 \in DOMAIN slots
           /\ Perform(opcode, v)
  <2>1. byte \in Byte
    BY <1>7 DEF Refuses
  <2>2. v = Denoted(bytes', signed) % Pow2[MaxBits(kind)]
    BY <1>1, <1>2, <1>4, <2>1, DecodedIs
  <2>3. read.result \in Nat /\ read.written \in Nat
    BY GroupTyped DEF MInv, Reader
  <2>4. v \in 0..(Pow2[MaxBits(kind)] - 1)
    BY <1>4, <2>1, <2>3, DecodedTyped
  <2>5. v \in Int
    BY <1>4, <2>4, PowNat
  <2>6. phase' \in {"running", "refused"}
    BY <1>1, <1>7, <2>5, PerformTyped
  <2>7. WellFormed(bytes', signed, MaxBits(kind))
    BY <1>1, <1>2, <1>4, <1>7, <2>1, AcceptedIsWellFormed
  <2>8. outcome'.kind # "malformed"
    BY <1>3, <1>7, PerformOutcome
  <2>9. ASSUME opcode \in {"I32_CONST", "I64_CONST"}
        PROVE  Operand(opmem', kind) = Low(Denoted(bytes', signed), kind)
    <3>1. kind \in Types
      BY <2>9 DEF Immediate, Types
    <3>2. MaxBits(kind) = Width(kind)
      BY <3>1, MaxBitsTyped
    <3>3. v \in Values(kind)
      BY <2>4, <3>2 DEF Values
    <3>4. MoveConst(kind, v)
      BY <1>7, <2>9 DEF Perform
    <3> HIDE DEF kind, v, signed
    <3>5. Moved(kind, v) = v
      BY <3>1, <3>3, MovedIsValue
    <3>6. opmem' = Pushed(opmem, kind, v)
      BY <3>4, <3>5 DEF MoveConst, Executed
    <3>7. opmem \in Seq(Cell)
      BY DEF MInv, Machine, Stacks
    <3>8. Operand(opmem', kind) = v
      BY <3>1, <3>3, <3>6, <3>7, OperandOfPushed
    <3> QED
      BY <2>2, <3>2, <3>8 DEF Low
  <2>10. DecodesWasmIntegers'
    BY <1>1, <2>7, <2>8, <2>9 DEF DecodesWasmIntegers, MaxBits, Bits, Low, Width, CellsOf
  <2> QED
    BY <2>6, <2>8, <2>10 DEF DInv, Reading, NothingRead, MalformedEnds
<1> QED
  BY <1>1, <1>5, <1>6, <1>7

\* Any other instruction forgets the immediate.
LEMMA StepDecodes ==
  ASSUME DInv, phase = "running", NEW op, Step(op), phase' \in {"running", "ended"},
         outcome'.kind # "malformed"
  PROVE  DInv'
<1>1. bytes' = <<>> /\ opcode' = "none"
  BY DEF Step, Unread
<1>2. DecodesWasmIntegers'
  BY <1>1 DEF DecodesWasmIntegers
<1> QED
  BY <1>1, <1>2 DEF DInv, Reading, NothingRead, MalformedEnds

LEMMA RefusedDecodes ==
  ASSUME DInv, NEW why, why # "malformed", Refused(why)
  PROVE  DInv'
<1>1. phase' = "refused" /\ outcome'.kind # "malformed"
  BY DEF Refused, End
<1>2. DecodesWasmIntegers'
  BY <1>1 DEF DecodesWasmIntegers
<1> QED
  BY <1>1, <1>2 DEF DInv, Reading, NothingRead, MalformedEnds

LEMMA RunningOutcome == ASSUME DInv, phase = "running" PROVE outcome.kind # "malformed"
  BY DEF DInv, MalformedEnds

LEMMA DeclaringDecodes ==
  ASSUME DInv, phase = "params", phase' \in {"params", "running"},
         UNCHANGED <<opcode, bytes, read, outcome>>
  PROVE  DInv'
<1>1. bytes' = <<>> /\ opcode' = "none" /\ outcome'.kind # "malformed"
  BY DEF DInv, NothingRead, MalformedEnds
<1>2. DecodesWasmIntegers'
  BY <1>1 DEF DecodesWasmIntegers
<1> QED
  BY <1>1, <1>2 DEF DInv, Reading, NothingRead, MalformedEnds

LEMMA FetchDecodes == ASSUME DInv, NEW op, Fetch(op) PROVE DInv'
<1>1. /\ phase = "running" /\ phase' = "reading" /\ bytes' = <<>> /\ read' = Start
      /\ UNCHANGED outcome
  BY DEF Fetch, Has
<1>2. outcome'.kind # "malformed"
  BY <1>1, RunningOutcome
<1>3. Reading'
  <2>1. <<>> \in Seq(Byte) /\ Len(<<>>) = 0
    OBVIOUS
  <2>2. Places(<<>>)[0] = 0
    <3>1. <<>> \in Seq(Byte)
      OBVIOUS
    <3> QED
      BY <3>1, PlacesRecursion, Zenon
  <2>3. 0 % Pow2[RegisterBits] = 0 /\ 0 * GroupBits = 0
    <3>1. 0 \in 0..(Pow2[RegisterBits] - 1)
      BY GroupTyped
    <3> QED
      BY <3>1, GroupTyped, SmallMod
  <2> QED
    BY <1>1, <2>1, <2>2, <2>3 DEF Reading, Start
<1>4. DecodesWasmIntegers'
  BY <1>1, <1>2 DEF DecodesWasmIntegers
<1> QED
  BY <1>1, <1>2, <1>3, <1>4 DEF DInv, NothingRead, MalformedEnds

LEMMA DInit == Init => DInv
<1> SUFFICES ASSUME Init PROVE DInv
  OBVIOUS
<1>1. phase = "params" /\ opcode = "none" /\ bytes = <<>> /\ outcome.kind # "malformed"
  BY DEF Init, End
<1> QED
  BY <1>1 DEF DInv, Reading, NothingRead, MalformedEnds, DecodesWasmIntegers

LEMMA DNext == ASSUME MInv, DInv, [Next]_vars PROVE DInv'
<1>1. CASE AddParam
  BY <1>1, DeclaringDecodes DEF AddParam
<1>2. ASSUME NEW t, AddLocal(t) PROVE DInv'
  BY <1>2, DeclaringDecodes DEF AddLocal
<1>3. ASSUME NEW args, NEW upper, Prologue(args, upper) PROVE DInv'
  BY <1>3, DeclaringDecodes DEF Prologue
<1>4. ASSUME NEW op, Fetch(op) PROVE DInv'
  BY <1>4, FetchDecodes
<1>5. ASSUME NEW byte \in Byte \cup {EndOfFile}, ReadGroup(byte) PROVE DInv'
  BY <1>5, ReadGroupDecodes
<1>6. ASSUME NEW op, Arithmetic(op) PROVE DInv'
  <2>1. phase = "running" /\ Step(op)
    BY <1>6 DEF Arithmetic, HasTwo, Has
  <2>2. phase' \in {"running", "ended"} /\ outcome'.kind # "malformed"
    BY <1>6, <2>1, RunningOutcome DEF Arithmetic, Ended, Executed, End
  <2> QED
    BY <2>1, <2>2, StepDecodes
<1>7. ASSUME NEW op, Comparison(op) PROVE DInv'
  <2>1. phase = "running" /\ Step(op)
    BY <1>7 DEF Comparison, HasTwo, Has
  <2>2. phase' \in {"running", "ended"} /\ outcome'.kind # "malformed"
    BY <1>7, <2>1, RunningOutcome DEF Comparison, Executed
  <2> QED
    BY <2>1, <2>2, StepDecodes
<1>8. ASSUME NEW op, UnaryOp(op) PROVE DInv'
  <2>1. phase = "running" /\ Step(op)
    BY <1>8 DEF UnaryOp, Has
  <2>2. phase' \in {"running", "ended"} /\ outcome'.kind # "malformed"
    BY <1>8, <2>1, RunningOutcome DEF UnaryOp, Executed
  <2> QED
    BY <2>1, <2>2, StepDecodes
<1>9. CASE Drop
  <2>1. phase = "running" /\ Step("DROP")
    BY <1>9 DEF Drop, Has
  <2>2. phase' \in {"running", "ended"} /\ outcome'.kind # "malformed"
    BY <1>9, <2>1, RunningOutcome DEF Drop, Executed
  <2> QED
    BY <2>1, <2>2, StepDecodes
<1>10. ASSUME NEW result, Call(result) PROVE DInv'
  <2>1. phase = "running"
    BY <1>10 DEF Call, Has
  <2>2. CASE Refused("offset")
    BY <2>2, RefusedDecodes
  <2>3. CASE Step("CALL") /\ UNCHANGED phase /\ UNCHANGED outcome
    BY <2>1, <2>3, RunningOutcome, StepDecodes
  <2> QED
    BY <1>10, <2>2, <2>3 DEF Call
<1>11. ASSUME NEW hasResult, Return(hasResult) PROVE DInv'
  <2>1. phase = "running" /\ Step("RETURN")
    BY <1>11 DEF Return, Has
  <2>2. phase' \in {"running", "ended"} /\ outcome'.kind # "malformed"
    BY <1>11, <2>1, RunningOutcome DEF Return, Ended, Returned, End
  <2> QED
    BY <2>1, <2>2, StepDecodes
<1>12. CASE Unsupported
  BY <1>12, RefusedDecodes DEF Unsupported
<1>13. CASE UNCHANGED vars
  <2>1. /\ UNCHANGED phase /\ UNCHANGED opcode /\ UNCHANGED bytes /\ UNCHANGED read
        /\ UNCHANGED outcome /\ UNCHANGED opmem
    BY <1>13 DEF vars
  <2>2. Reading' /\ NothingRead' /\ MalformedEnds'
    BY <2>1 DEF DInv, Reading, NothingRead, MalformedEnds
  <2>3. DecodesWasmIntegers'
    BY <2>1 DEF DInv, DecodesWasmIntegers
  <2> QED
    BY <2>2, <2>3 DEF DInv
<1> QED
  BY <1>1, <1>2, <1>3, <1>4, <1>5, <1>6, <1>7, <1>8, <1>9, <1>10, <1>11, <1>12, <1>13 DEF Next

\* readLEB128 and the MOVZ and MOVK of a constant: whatever the bytes of an
\* immediate and the widths, the encodings of Wasm's integers are accepted and
\* no others, and the number on the operand stack is the one they denote.
THEOREM ConstantsAreDecoded == Spec => []DecodesWasmIntegers
<1>1. Init => MInv /\ DInv
  BY MInit, DInit
<1>2. (MInv /\ DInv) /\ [Next]_vars => (MInv /\ DInv)'
  BY MNext, DNext
<1>3. MInv /\ DInv => DecodesWasmIntegers
  BY DEF DInv
<1> QED
  BY <1>1, <1>2, <1>3, PTL DEF Spec
=============================================================================
