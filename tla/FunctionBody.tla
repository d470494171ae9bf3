---------------------------- MODULE FunctionBody ----------------------------
(***************************************************************************)
(* The straight-line code of one function: the layout of its locals (OP),  *)
(* the decoding of its immediates, and each instruction with the AArch64   *)
(* code emitted for it.                                                    *)
(*                                                                         *)
(* A cell is 4 bytes of the code's memory and holds a number of Bits bits: *)
(* an i32 takes one, an i64 and an X register two.  An instruction is      *)
(* compiled and run in one step, so that the two stacks, the types the     *)
(* compiler keeps and the operands at run time, can be compared.  The      *)
(* bytecode is valid; what the compiler refuses all the same is in phase   *)
(* "refused".                                                              *)
(***************************************************************************)
EXTENDS BytecodeReader, FiniteSets

CONSTANTS
  HalfBits,     \* bits a MOVZ or MOVK sets; 16 in the code
  MaxReach,     \* MaxPositiveImmForLdrStr, in cells
  ParamLists,   \* the parameter types a function may have
  Args,         \* Args[t]: values of an argument of type t
  Samples,      \* Samples[kind]: immediates written in every function
  MaxDeclared,  \* bound: declared locals
  MaxOps        \* bound: instructions

Types == {"I32", "I64"}
Immediates == Types \cup {"index"}

Bits == 2 * HalfBits
CellsOf(t) == IF t = "I64" THEN 2 ELSE 1
Width(t) == CellsOf(t) * Bits
Low(x, t) == x % Pow2[Width(t)]

ASSUME FunctionAssumption ==
  /\ HalfBits \in Nat \ {0} /\ MaxReach \in Nat
  /\ Width("I64") <= RegisterBits
  /\ ParamLists \subseteq Seq(Types)
  /\ \A t \in Types : Args[t] \subseteq 0..(Pow2[Width(t)] - 1)
  /\ MaxDeclared \in Nat /\ MaxOps \in Nat

VARIABLES
  phase,     \* "params", "running", "reading", "refused", "ended"
  params,    \* currentFuncTypeInfo.params
  slots,     \* funcBody.locals: [isParam, offset, type]
  size,      \* OP::size_
  types,     \* the validation stack above FUNC_START
  reg,       \* X0.. of the parameters
  frame,     \* the cells above SP
  opmem,     \* the cells below ROP
  opcode,    \* the instruction whose immediate is read, or "none"
  bytes,     \* history: the immediate's bytes, kept until the next instruction
  read,      \* the locals of readLEB128
  outcome,   \* what the function ended with
  done,      \* history: the last instruction, and the local it is about
  count      \* instructions so far

vars == <<phase, params, slots, size, types, reg, frame, opmem, opcode, bytes, read,
          outcome, done, count>>

End(kind) == [kind |-> kind]
Returned(t, v) == [kind |-> "returned", operand |-> [type |-> t, val |-> v]]

Init ==
  /\ phase = "params" /\ params \in ParamLists
  /\ slots = <<>> /\ size = 2
  /\ types = <<>> /\ reg = <<>> /\ frame = <<>> /\ opmem = <<>>
  /\ opcode = "none" /\ bytes = <<>> /\ read = Start
  /\ outcome = End("none") /\ done = <<>> /\ count = 0

-----------------------------------------------------------------------------
\* OP::add; getAlignedSize: the frame in cells, a multiple of 16 bytes.
Added(isParam, t) ==
  /\ slots' = Append(slots, [isParam |-> isParam, offset |-> size, type |-> t])
  /\ size' = size + CellsOf(t)
\* As it would be if the size were rounded down.
AlignedDown == 4 * (size \div 4)
AlignedSize == 4 * ((size + 3) \div 4)

Refused(why) ==
  /\ phase' = "refused" /\ outcome' = End(why)
  /\ UNCHANGED <<params, slots, size, types, reg, frame, opmem>>

AddParam ==
  /\ phase = "params" /\ Len(slots) < Len(params)
  /\ Added(TRUE, params[Len(slots) + 1])
  /\ UNCHANGED <<phase, params, types, reg, frame, opmem, opcode, bytes, read, outcome,
                 done, count>>

AddLocal(t) ==
  /\ phase = "params" /\ Len(slots) >= Len(params)
  /\ Len(slots) < Len(params) + MaxDeclared
  /\ Added(FALSE, t)
  /\ UNCHANGED <<phase, params, types, reg, frame, opmem, opcode, bytes, read, outcome,
                 done, count>>

\* decreaseSPWithClean.  The caller put the arguments in the registers; the
\* ABI leaves the upper half of the register of an i32 undefined.
Upper == {0, Pow2[Bits] - 1}
AnyArg == UNION {Args[t] : t \in Types}
InRegister(t, v, upper) == IF t = "I64" THEN v ELSE v + upper * Pow2[Bits]

Prologue(args, upper) ==
  /\ phase = "params" /\ Len(slots) >= Len(params)
  /\ phase' = "running"
  /\ \A k \in DOMAIN params : args[k] \in Args[params[k]]
  /\ reg' = [k \in DOMAIN params |-> InRegister(params[k], args[k], upper)]
  /\ frame' = [c \in 0..(AlignedSize - 1) |-> 0]
  /\ UNCHANGED <<params, slots, size, types, opmem, opcode, bytes, read, outcome,
                 done, count>>

-----------------------------------------------------------------------------
\* STR and LDR.  A W register is stored without its upper half and loaded
\* with zeros there.
\* As it would be if a W register were stored with its upper half.
WholeWords(t, x) == IF t = "I64" THEN <<x % Pow2[Bits], (x \div Pow2[Bits]) % Pow2[Bits]>> ELSE <<x>>
Words(t, x) == IF t = "I64" THEN <<x % Pow2[Bits], (x \div Pow2[Bits]) % Pow2[Bits]>> ELSE <<x % Pow2[Bits]>>
StoredAt(mem, at, t, x) ==
  [c \in DOMAIN mem |-> IF c - at + 1 \in DOMAIN Words(t, x) THEN Words(t, x)[c - at + 1]
                                                           ELSE mem[c]]
LoadedFrom(mem, at, t) ==
  IF t = "I64" THEN mem[at] + mem[at + 1] * Pow2[Bits] ELSE mem[at]

\* The immediate offset of LDR and STR, scaled by the size of the access.
\* As it would be if every offset were scaled by eight bytes.
EncodableByPairs(slot) == slot.offset % 2 = 0
Encodable(slot) == slot.offset % CellsOf(slot.type) = 0
\* get_ofsp_local and set_ofsp_local.
Reachable(slot) == slot.offset <= MaxReach /\ Encodable(slot)

\* The operand stack: ROP is Len(opmem).
Pushed(mem, t, x) == mem \o Words(t, x)
\* As it would be if every operand took four bytes.
PoppedCell(mem, t) == SubSeq(mem, 1, Len(mem) - 1)
Popped(mem, t) == SubSeq(mem, 1, Len(mem) - CellsOf(t))
Operand(mem, t) == LoadedFrom(mem, Len(mem) - CellsOf(t) + 1, t)

Newest == types[Len(types)]
Has(n) == phase = "running" /\ count < MaxOps /\ Len(types) >= n
HasTwo == Has(2) /\ types[Len(types) - 1] = Newest
TypesBelow(n) == SubSeq(types, 1, Len(types) - n)

Unread == bytes' = <<>> /\ read' = Start /\ opcode' = "none"
Executed(newTypes, mem) ==
  /\ phase' = "running" /\ types' = newTypes /\ opmem' = mem
  /\ UNCHANGED <<params, slots, size, reg, frame, outcome>>

Step(op) ==
  /\ count' = count + 1 /\ Unread
  /\ done' = <<op>>

Ended(result) ==
  /\ phase' = "ended" /\ outcome' = result
  /\ UNCHANGED <<params, slots, size, types, reg, frame>>

-----------------------------------------------------------------------------
\* emit_mov_w_imm32 and emit_mov_x_imm64: MOVZ, then a MOVK for every other
\* half word that is not zero.
Half(v, i) == (v \div Pow2[i * HalfBits]) % Pow2[HalfBits]
Kept(x, v, i) == x - Half(x, i) * Pow2[i * HalfBits] + Half(v, i) * Pow2[i * HalfBits]
Moved(t, v) ==
  LET last == 2 * CellsOf(t) - 1
      x[i \in 0..last] ==
        IF i = 0 THEN Half(v, 0)
        ELSE IF Half(v, i) = 0 THEN x[i - 1] ELSE Kept(x[i - 1], v, i)
  IN  x[last]

MoveConst(t, v) == Executed(Append(types, t), Pushed(opmem, t, Moved(t, v)))

\* Locals: a parameter lives in its register, another local in the frame.
Register(k, t) == IF t = "I64" THEN reg[k] ELSE reg[k] % Pow2[Bits]
GetLocal(k) ==
  LET slot == slots[k]
      push(x) == Executed(Append(types, slot.type), Pushed(opmem, slot.type, x))
  IN  \/ slot.isParam /\ push(Register(k, slot.type))
      \/ ~slot.isParam /\ Reachable(slot) /\ push(LoadedFrom(frame, slot.offset, slot.type))
      \/ ~slot.isParam /\ ~Reachable(slot) /\ Refused("offset")

SetLocal(k, tee) ==
  LET slot == slots[k]
      x    == Operand(opmem, slot.type)
      pop  == /\ phase' = "running"
              /\ types' = IF tee THEN types ELSE TypesBelow(1)
              /\ opmem' = IF tee THEN opmem ELSE Popped(opmem, slot.type)
              /\ UNCHANGED <<params, slots, size, outcome>>
  IN  /\ types # <<>> /\ Newest = slot.type
      /\ \/ slot.isParam /\ reg' = [reg EXCEPT ![k] = x] /\ UNCHANGED frame /\ pop
         \/ /\ ~slot.isParam /\ Reachable(slot)
            /\ frame' = StoredAt(frame, slot.offset, slot.type, x)
            /\ UNCHANGED reg /\ pop
         \/ ~slot.isParam /\ ~Reachable(slot) /\ Refused("offset")

\* What an instruction does once its immediate is read.
Immediate(op) ==
  CASE op = "I32_CONST" -> "I32" [] op = "I64_CONST" -> "I64" [] OTHER -> "index"
Perform(op, v) ==
  /\ \/ op \in {"I32_CONST", "I64_CONST"} /\ MoveConst(Immediate(op), v)
     \/ op = "LOCAL_GET" /\ GetLocal(v + 1)
     \/ op = "LOCAL_SET" /\ SetLocal(v + 1, FALSE)
     \/ op = "LOCAL_TEE" /\ SetLocal(v + 1, TRUE)
  /\ done' = IF phase' = "refused" THEN done
             ELSE IF Immediate(op) = "index" THEN <<op, v + 1>> ELSE <<op>>

\* Immediates are arbitrary before any operand, the second of two i32 too, in
\* functions without locals (the index of a local: at the start of a function),
\* and one of the samples elsewhere.  The indices of a valid file are in range.
IsSigned(kind) == kind # "index"
MaxBits(kind) == IF kind = "I64" THEN 2 * Bits ELSE Bits
Offered(kind, written) ==
  \/ kind = "index" /\ count = 0
  \/ kind # "index" /\ slots = <<>> /\ types = <<>>
  \/ kind = "I32" /\ slots = <<>> /\ types = <<"I32">>
  \/ \E s \in Samples[kind] : Len(written) <= Len(s) /\ SubSeq(s, 1, Len(written)) = written

Fetch(op) ==
  /\ Has(0) /\ phase' = "reading"
  /\ op \in {"LOCAL_GET", "LOCAL_SET", "LOCAL_TEE"} => slots # <<>>
  /\ op \in {"LOCAL_SET", "LOCAL_TEE"} => \E k \in DOMAIN slots : types # <<>> /\ slots[k].type = Newest
  /\ opcode' = op /\ bytes' = <<>> /\ read' = Start
  /\ UNCHANGED <<params, slots, size, types, reg, frame, opmem, outcome,
                 done, count>>

ReadGroup(byte) ==
  LET kind == Immediate(opcode)
      v    == Decoded(read, byte, IsSigned(kind), MaxBits(kind))
  IN  /\ phase = "reading" /\ Offered(kind, Append(bytes, byte))
      /\ bytes' = Append(bytes, byte)
      /\ \/ /\ Refuses(read, byte, IsSigned(kind), MaxBits(kind))
            /\ Refused("malformed") /\ UNCHANGED <<opcode, read, done, count>>
         \/ /\ ~Refuses(read, byte, IsSigned(kind), MaxBits(kind)) /\ byte.more
            /\ read' = Accumulated(read, byte)
            /\ UNCHANGED <<phase, params, slots, size, types, reg, frame, opmem, opcode,
                           outcome, done, count>>
         \/ /\ ~Refuses(read, byte, IsSigned(kind), MaxBits(kind)) /\ ~byte.more
            /\ kind = "index" => v + 1 \in DOMAIN slots
            /\ read' = Accumulated(read, byte)
            /\ count' = count + 1 /\ UNCHANGED opcode
            /\ Perform(opcode, v)

-----------------------------------------------------------------------------
\* The flags CMP sets, and the condition codes that are used.
Flags(l, r, n) ==
  LET diff   == (l + Pow2[n] - r) % Pow2[n]
      top(v) == Bit(v, n - 1)
  IN  [negative |-> top(diff) = 1,
       zero     |-> diff = 0,
       carry    |-> l + (Pow2[n] - 1 - r) + 1 >= Pow2[n],
       overflow |-> top(l) # top(r) /\ top(diff) # top(l)]

Satisfied(flags) ==
  {cc \in {"EQ", "NE", "HS", "HI", "LS", "LE"} :
     \/ cc = "EQ" /\ flags.zero
     \/ cc = "NE" /\ ~flags.zero
     \/ cc = "HS" /\ flags.carry
     \/ cc = "HI" /\ flags.carry /\ ~flags.zero
     \/ cc = "LS" /\ ~(flags.carry /\ ~flags.zero)
     \/ cc = "LE" /\ (flags.zero \/ flags.negative # flags.overflow)}

\* The condition under which the MOV of 0 is skipped.
\* As it would be if le_s were compared without regard to signs.
UnsignedCondition == [EQ |-> "EQ", NE |-> "NE", LE_S |-> "LS", LE_U |-> "LS",
                      GT_U |-> "HI", GE_U |-> "HS"]
Condition == [EQ |-> "EQ", NE |-> "NE", LE_S |-> "LE", LE_U |-> "LS",
              GT_U |-> "HI", GE_U |-> "HS"]
Comparisons == DOMAIN Condition
Divisions == {"DIV_S", "DIV_U"}
Binary == {"ADD", "SUB", "MUL"} \cup Divisions \cup Comparisons
Unary == {"EQZ", "CTZ", "CLZ"}

\* ADD, SUB, MUL, UDIV and SDIV of n bits; SDIV divides the magnitudes.
Negated(v, n) == (Pow2[n] - v) % Pow2[n]
Absolute(v, n) == IF Bit(v, n - 1) = 1 THEN Negated(v, n) ELSE v
Quotient(l, r, n) ==
  LET q == Absolute(l, n) \div Absolute(r, n)
  IN  IF Bit(l, n - 1) = Bit(r, n - 1) THEN q % Pow2[n] ELSE Negated(q, n)
Alu(op, l, r, n) ==
  CASE op = "ADD"   -> (l + r) % Pow2[n]
    [] op = "SUB"   -> (l + Negated(r, n)) % Pow2[n]
    [] op = "MUL"   -> (l * r) % Pow2[n]
    [] op = "DIV_U" -> l \div r
    [] op = "DIV_S" -> Quotient(l, r, n)

\* RBIT and CLZ.
Reversed(v, n) ==
  LET x[i \in 0..n] == IF i = 0 THEN 0 ELSE x[i - 1] + Bit(v, i - 1) * Pow2[n - i]
  IN  x[n]
LeadingZeros(v, n) ==
  LET z[i \in 0..n] == IF i = 0 \/ Bit(v, i - 1) = 1 THEN n - i ELSE z[i - 1]
  IN  z[n]

\* The divisor is compared with zero before the dividend is taken, and a
\* trap ends the call where it stands.
SmallestInt(t) == Pow2[Width(t) - 1]
MinusOne(t) == Pow2[Width(t)] - 1
TrapsOverflow(op, t, l, r) == op = "DIV_S" /\ l = SmallestInt(t) /\ r = MinusOne(t)

Arithmetic(op) ==
  LET t    == Newest
      r    == Operand(opmem, t)
      rest == Popped(opmem, t)
      l    == Operand(rest, t)
      left == Popped(rest, t)
  IN  /\ HasTwo /\ op \notin Comparisons /\ Step(op)
      /\ \/ op \in Divisions /\ r = 0 /\ Ended(End("DIV_0")) /\ opmem' = rest
         \/ /\ op \in Divisions => r # 0
            /\ TrapsOverflow(op, t, l, r) /\ Ended(End("Integer_overflow")) /\ opmem' = left
         \/ /\ op \in Divisions => r # 0
            /\ ~TrapsOverflow(op, t, l, r)
            /\ Executed(TypesBelow(1), Pushed(left, t, Alu(op, l, r, Width(t))))

Comparison(op) ==
  LET t    == Newest
      rest == Popped(opmem, t)
      cc   == Satisfied(Flags(Operand(rest, t), Operand(opmem, t), Width(t)))
  IN  /\ HasTwo /\ Step(op)
      /\ Executed(Append(TypesBelow(2), "I32"),
                  Pushed(Popped(rest, t), "I32", IF Condition[op] \in cc THEN 1 ELSE 0))

UnaryOp(op) ==
  LET t    == Newest
      v    == Operand(opmem, t)
      rest == Popped(opmem, t)
  IN  /\ Has(1) /\ Step(op)
      /\ \/ /\ op = "EQZ"
            /\ Executed(Append(TypesBelow(1), "I32"), Pushed(rest, "I32", IF v = 0 THEN 1 ELSE 0))
         \/ /\ op = "CLZ"
            /\ Executed(types, Pushed(rest, t, LeadingZeros(v, Width(t))))
         \/ /\ op = "CTZ"
            /\ Executed(types, Pushed(rest, t, LeadingZeros(Reversed(v, Width(t)), Width(t))))

Drop == Has(1) /\ Step("DROP") /\ Executed(TypesBelow(1), Popped(opmem, Newest))

\* CALL of a function without parameters: the registers go to the frame, LR
\* to its first two cells; the callee leaves its result in X0; the result is
\* pushed and the parameters come back.
ReturnAddress == Pow2[2 * Bits] - 1
Results == UNION {{<<t, v>> : v \in Args[t]} : t \in Types}
Covering(c) == {k \in DOMAIN params : c - slots[k].offset + 1 \in DOMAIN Words(params[k], reg[k])}
ParamsStored ==
  [c \in DOMAIN frame |->
     IF Covering(c) = {} THEN frame[c]
     ELSE LET k == CHOOSE k \in Covering(c) : \A j \in Covering(c) : j <= k
          IN  Words(params[k], reg[k])[c - slots[k].offset + 1]]
Spilled == StoredAt(ParamsStored, 0, "I64", ReturnAddress)
Reloaded(mem) == [k \in DOMAIN params |-> LoadedFrom(mem, slots[k].offset, params[k])]

Call(result) ==
  /\ Has(0)
  /\ \/ /\ \E k \in DOMAIN params : ~Encodable(slots[k])
        /\ Refused("offset") /\ UNCHANGED <<opcode, bytes, read, done, count>>
     \/ /\ Step("CALL")
        /\ \A k \in DOMAIN params : Encodable(slots[k])
        /\ frame' = Spilled
        /\ reg' = Reloaded(frame')
        /\ types' = IF result = <<>> THEN types ELSE Append(types, result[1])
        /\ opmem' = IF result = <<>> THEN opmem ELSE Pushed(opmem, result[1], result[2])
        /\ UNCHANGED <<phase, params, slots, size, outcome>>

\* RETURN, or the END of the function: the newest operand is the result.
Return(hasResult) ==
  /\ Has(IF hasResult THEN 1 ELSE 0) /\ Step("RETURN")
  /\ \/ hasResult /\ Ended(Returned(Newest, Operand(opmem, Newest)))
        /\ opmem' = Popped(opmem, Newest)
     \/ ~hasResult /\ Ended(End("returned")) /\ UNCHANGED opmem

\* The rest of the opcodes the switch names throw.
Unsupported ==
  Has(0) /\ Refused("unsupported") /\ UNCHANGED <<opcode, bytes, read, done, count>>

Next ==
  \/ AddParam
  \/ \E t \in Types : AddLocal(t)
  \/ \E args \in [DOMAIN params -> AnyArg], upper \in Upper : Prologue(args, upper)
  \/ \E op \in {"I32_CONST", "I64_CONST", "LOCAL_GET", "LOCAL_SET", "LOCAL_TEE"} : Fetch(op)
  \/ \E byte \in Byte \cup {EndOfFile} : ReadGroup(byte)
  \/ \E op \in Binary \ Comparisons : Arithmetic(op)
  \/ \E op \in Comparisons : Comparison(op)
  \/ \E op \in Unary : UnaryOp(op)
  \/ Drop
  \/ \E result \in Results \cup {<<>>} : Call(result)
  \/ \E hasResult \in BOOLEAN : Return(hasResult)
  \/ Unsupported

Spec == Init /\ [][Next]_vars

-----------------------------------------------------------------------------
\* Registers, frame and operand cells hold words of their widths, the reader
\* bytes and a 64-bit result, and the slots and types are those of locals and
\* operands.
TypeOK ==
  /\ phase \in {"params", "running", "reading", "refused", "ended"}
  /\ params \in ParamLists
  /\ slots \in Seq([isParam : BOOLEAN, offset : Nat, type : Types])
  /\ size \in Nat /\ types \in Seq(Types)
  /\ reg \in Seq(0..(Pow2[2 * Bits] - 1))
  /\ opmem \in Seq(0..(Pow2[Bits] - 1))
  /\ \A c \in DOMAIN frame : frame[c] \in 0..(Pow2[Bits] - 1)
  /\ bytes \in Seq(Byte \cup {EndOfFile})
  /\ read.result \in 0..(Pow2[RegisterBits] - 1) /\ read.written \in Nat
  /\ count \in 0..MaxOps

\* The cells of the locals overlap neither each other nor the two cells in
\* which a call saves LR, and the frame reserved and zeroed by the prologue
\* holds all of them.
EndOf(slot) == slot.offset + CellsOf(slot.type)
FrameHolds == \E n \in size..(size + 3) : n % 4 = 0 /\ DOMAIN frame = 0..(n - 1)
SlotsDisjoint ==
  /\ \A k \in DOMAIN slots : slots[k].offset >= 2 /\ EndOf(slots[k]) <= size
  /\ \A j, k \in DOMAIN slots : j < k => EndOf(slots[j]) <= slots[k].offset
  /\ phase # "params" => FrameHolds

\* ROP stands where the types of the validation stack say, whatever mixture
\* of i32 and i64 is on it.
CellsUpTo(ts) ==
  LET cells[n \in 0..Len(ts)] == IF n = 0 THEN 0 ELSE cells[n - 1] + CellsOf(ts[n]) IN cells
RopMatches ==
  phase \in {"running", "reading"} => Len(opmem) = CellsUpTo(types)[Len(types)]

\* readLEB128 accepts the encodings of Wasm's integers and no others, and
\* what the program then finds on its operand stack is the number they
\* denote.  (The next byte is only asked for when one must follow.)
DecodesWasmIntegers ==
  LET kind   == Immediate(opcode)
      signed == IsSigned(kind)
  IN  /\ phase = "running" /\ bytes # <<>> => WellFormed(bytes, signed, MaxBits(kind))
      /\ phase = "running" /\ opcode \in {"I32_CONST", "I64_CONST"} =>
           Operand(opmem, kind) = Low(Denoted(bytes, signed), kind)
      /\ outcome.kind = "malformed" =>
           ~WellFormed(bytes, signed, MaxBits(kind)) /\ ~Incomplete(bytes, MaxBits(kind))

\* A function that declares its i64 locals before its i32 locals, parameters
\* included, compiles as long as they fit in the reach of LDR and STR: no
\* order of instructions meets an offset that cannot be encoded.
LargestFirst ==
  \A j, k \in DOMAIN slots : j < k /\ slots[k].type = "I64" => slots[j].type = "I64"
LocalsInOrderCompile == LargestFirst /\ size <= MaxReach => outcome.kind # "offset"

\* The code computes what Wasm says of the function: the operands are those
\* found below ROP by their types, a parameter is in its register, another
\* local in the frame.
Live == phase \in {"running", "reading"}
OperandsOf(ts, mem) ==
  [n \in DOMAIN ts |->
     [type |-> ts[n], val |-> LoadedFrom(mem, CellsUpTo(ts)[n - 1] + 1, ts[n])]]
NParams == Cardinality({k \in DOMAIN slots : slots[k].isParam})
LocalValue(k) ==
  IF phase = "params" THEN 0
  ELSE IF slots[k].isParam THEN Register(k, slots[k].type)
                           ELSE LoadedFrom(frame, slots[k].offset, slots[k].type)

WasmPhase ==
  CASE phase = "params" -> "declaring" [] Live -> "running" [] OTHER -> "ended"
WasmLocals ==
  IF phase = "params" \/ Live
    THEN [k \in DOMAIN slots |-> [type |-> slots[k].type, val |-> LocalValue(k)]] ELSE <<>>
WasmOperands == IF Live THEN OperandsOf(types, opmem) ELSE <<>>
WasmOutcome == IF phase = "refused" THEN End("refused") ELSE outcome

Wasm == INSTANCE WasmFunction WITH
  phase <- WasmPhase, nparams <- NParams, locals <- WasmLocals, operands <- WasmOperands,
  outcome <- WasmOutcome
ImplementsWasmFunction == Wasm!Spec
=============================================================================
