----------------------------- MODULE CallFrames -----------------------------
(***************************************************************************)
(* Calls between JIT-compiled Wasm functions, on the machine the generated *)
(* AArch64 code runs on: the native stack, the registers that carry        *)
(* parameters, results and the return address, and the separate operand    *)
(* stack that X28 (ROP) points into.                                       *)
(*                                                                         *)
(* A frame, from SP upwards, is: the saved LR, the parameters (stored      *)
(* before a call), the other locals, padding to 16 bytes.  An address is a *)
(* number of 8-byte words above the stack guard (X24); every value takes   *)
(* one word.  The program is arbitrary: at each point any instruction may  *)
(* come next that the compile-time operand height pc.h allows.             *)
(***************************************************************************)
EXTENDS Integers, Sequences

CONSTANTS
  Funcs,          \* functions with a body
  Imports,        \* functions the host provides
  HostFn,         \* stands for code outside the JIT, as a code address
  NParams,        \* NParams[f]: number of parameters
  NLocals,        \* NLocals[f]: number of declared locals
  HasResult,      \* HasResult[f]: whether f returns a value
  Table,          \* element index (a value) -> function, the funcref table
  Values, Zero,   \* the values of a program, and the one locals start as
  Stale,          \* whatever uninitialised memory or a clobbered register holds
  MaxParams,      \* parameter registers, config::MaxParamsForWasmFunction
  GuardWords,     \* config::stackGuardSize, in words
  ImmWords,       \* one more than the largest SUB/ADD immediate, in words
  MaxHeight,      \* bound: operands one function keeps
  ExcessReturns,  \* may a program return above other operands?
  IndirectFrom    \* functions whose body may contain a call_indirect

AllFuncs == Funcs \cup Imports
NVars(f) == NParams[f] + NLocals[f]

\* OP::getAlignedSize: LR, parameters and locals, rounded up to 16 bytes.
FrameWordsNoLr(f) == 2 * ((NVars(f) + 1) \div 2)
FrameWords(f) == 2 * ((NVars(f) + 2) \div 2)

\* The immediate of ADD/SUB is masked to 12 bits.
Imm(words) == IF words < ImmWords THEN words ELSE words % ImmWords

ASSUME SignaturesAssumption ==
  /\ Funcs \cap Imports = {} /\ HostFn \notin AllFuncs
  /\ MaxParams \in Nat \ {0}
  /\ NParams \in [AllFuncs -> 0..MaxParams]
  /\ NLocals \in [AllFuncs -> Nat]
  /\ HasResult \in [AllFuncs -> BOOLEAN]
  /\ IndirectFrom \subseteq Funcs

ASSUME ValuesAssumption ==
  /\ Zero \in Values
  /\ DOMAIN Table \subseteq Values
  /\ Table \in [DOMAIN Table -> Funcs]

ASSUME SizesAssumption ==
  /\ GuardWords \in Nat /\ GuardWords > 2
  /\ ImmWords \in Nat \ {0} /\ MaxHeight \in Nat
  /\ ExcessReturns \in BOOLEAN

Addr == 1..GuardWords
TopSp == GuardWords              \* SP when the host calls the wrapper
WrapperSp == TopSp - 2           \* SP inside the wrapper

CodeAddress == [fn: Funcs \cup {HostFn}, h: Nat, res: BOOLEAN]
Host == [fn |-> HostFn, h |-> 0, res |-> FALSE]
Words == Values \cup {Stale} \cup CodeAddress

VARIABLES
  pc,       \* the function executing and its compile-time operand height
  sp, lr,   \* SP and X30
  reg,      \* R0..R6, as reg[1]..reg[MaxParams]
  stack,    \* the native stack
  ops,      \* the operand stack below ROP
  outcome,  \* what the last invocation gave the host
  acts      \* history: function, SP and operand base of each live activation

vars == <<pc, sp, lr, reg, stack, ops, outcome, acts>>

InJit == pc.fn # HostFn
Depth == Len(acts)
Callee(f, at, base) == [fn |-> f, sp |-> at, base |-> base]
Kinds == {"none", "running", "value", "void", "Stack_overflow",
          "TableElement_out_of_range", "IndirectCall_signature_mismatch"}
Outcome(kind, w) == [kind |-> kind, val |-> w]

Init ==
  /\ pc = [fn |-> HostFn, h |-> 0]
  /\ sp = TopSp
  /\ lr = Host
  /\ reg = [k \in 1..MaxParams |-> Stale]
  /\ stack = [a \in Addr |-> Stale]
  /\ ops = <<>>
  /\ outcome = Outcome("none", Zero)
  /\ acts = <<>>

-----------------------------------------------------------------------------
\* setTrap executes BRK, and the signal handler jumps back to callByName.
Trap(code) ==
  /\ pc' = [fn |-> HostFn, h |-> 0]
  /\ sp' = TopSp
  /\ acts' = <<>>
  /\ outcome' = Outcome(code, Zero)

\* decreaseSPWithClean at the entry of f: dec_sp checks the new SP against
\* the guard; the cleaning loop then stores zeros over the whole frame.
LoweredSp(at, f) == at - Imm(FrameWords(f))
OverflowsLate(at, f) == LoweredSp(at, f) < 0
Overflows(at, f) == LoweredSp(at, f) <= 0
Cleaned(mem, f, at) ==
  [a \in Addr |-> IF a >= at /\ a < at + FrameWords(f) THEN Zero ELSE mem[a]]

\* BLR into f with SP = at, the memory and operands the call sequence left,
\* and the return address ra.
EnterBody(f, at, mem, rest, ra, before) ==
  /\ lr' = ra
  /\ ops' = rest
  /\ \/ /\ Overflows(at, f)
        /\ Trap("Stack_overflow")
        /\ stack' = mem
     \/ /\ ~Overflows(at, f)
        /\ pc' = [fn |-> f, h |-> 0]
        /\ sp' = LoweredSp(at, f)
        /\ stack' = Cleaned(mem, f, sp')
        /\ acts' = Append(before, Callee(f, sp', Len(rest)))
        /\ outcome' = Outcome("running", Zero)

\* The native-to-JIT wrapper: X28 starts at the operand stack, X24 is SP
\* minus the guard size, 16 bytes hold the host's LR during the call.
Invoke(f, args) ==
  /\ ~InJit
  /\ reg' = [k \in 1..MaxParams |-> IF k <= NParams[f] THEN args[k] ELSE Stale]
  /\ EnterBody(f, WrapperSp, [stack EXCEPT ![WrapperSp] = Host], <<>>, Host, <<>>)

-----------------------------------------------------------------------------
\* Instructions without a call.
Push(w) ==
  /\ pc.h < MaxHeight
  /\ ops' = Append(ops, w)
  /\ pc' = [pc EXCEPT !.h = @ + 1]

Popped(n) == SubSeq(ops, 1, Len(ops) - n)
TopWord == ops[Len(ops)]

Const(v) ==
  /\ InJit
  /\ Push(v)
  /\ UNCHANGED <<sp, lr, reg, stack, outcome, acts>>

Drop ==
  /\ InJit /\ pc.h >= 1
  /\ ops' = Popped(1)
  /\ pc' = [pc EXCEPT !.h = @ - 1]
  /\ UNCHANGED <<sp, lr, reg, stack, outcome, acts>>

\* Parameters live in registers, other locals in the frame.
IsParam(k) == k <= NParams[pc.fn]

LocalGet(k) ==
  /\ InJit /\ k <= NVars(pc.fn)
  /\ Push(IF IsParam(k) THEN reg[k] ELSE stack[sp + k])
  /\ UNCHANGED <<sp, lr, reg, stack, outcome, acts>>

LocalSet(k, tee) ==
  /\ InJit /\ k <= NVars(pc.fn) /\ pc.h >= 1
  /\ IF IsParam(k)
       THEN reg' = [reg EXCEPT ![k] = TopWord] /\ UNCHANGED stack
       ELSE stack' = [stack EXCEPT ![sp + k] = TopWord] /\ UNCHANGED reg
  /\ IF tee
       THEN UNCHANGED <<ops, pc>>
       ELSE ops' = Popped(1) /\ pc' = [pc EXCEPT !.h = @ - 1]
  /\ UNCHANGED <<sp, lr, outcome, acts>>

-----------------------------------------------------------------------------
\* Calls.
Signature(f) == <<NParams[f], HasResult[f]>>
ResultWords(f) == IF HasResult[f] THEN 1 ELSE 0

\* The height the caller continues with, and its code address.
HeightAfter(f, popped) == pc.h - popped - NParams[f]
Continue(f, popped) ==
  [fn |-> pc.fn, h |-> HeightAfter(f, popped), res |-> HasResult[f]]
CanCall(f, popped) ==
  /\ InJit
  /\ HeightAfter(f, popped) >= 0
  /\ HeightAfter(f, popped) + ResultWords(f) <= MaxHeight

\* CALL stores the current function's parameters in its frame.
WithoutParams == stack
WithParams ==
  [a \in Addr |-> IF a > sp /\ a <= sp + NParams[pc.fn] THEN reg[a - sp] ELSE stack[a]]

\* emitWasmCall stores LR at [SP].
WithoutLr(mem) == mem
WithLr(mem) == [mem EXCEPT ![sp] = lr]

\* handleReturnValue pushes the result, if there is one, at ROP.
PushedAlways(res, w) == <<w>>
Pushed(res, w) == IF res THEN <<w>> ELSE <<>>

\* prepareCallParams pops the arguments into R0...
ArgsInRegs(f, popped) ==
  [k \in 1..MaxParams |->
     IF k <= NParams[f] THEN ops[Len(ops) - popped - NParams[f] + k] ELSE reg[k]]

Call(f) ==
  /\ CanCall(f, 0)
  /\ reg' = ArgsInRegs(f, 0)
  /\ EnterBody(f, sp, WithLr(WithParams), Popped(NParams[f]), Continue(f, 0), acts)

\* The element index is checked against the table and the function found
\* there against the expected signature; only LR is saved.
CallIndirect(signature) ==
  LET n == signature[1]
  IN  /\ pc.fn \in IndirectFrom /\ pc.h >= 1
      /\ \/ /\ TopWord \notin DOMAIN Table
            /\ Trap("TableElement_out_of_range")
            /\ UNCHANGED <<lr, reg, stack, ops>>
         \/ /\ TopWord \in DOMAIN Table
            /\ Signature(Table[TopWord]) # signature
            /\ Trap("IndirectCall_signature_mismatch")
            /\ UNCHANGED <<lr, reg, stack, ops>>
         \/ /\ TopWord \in DOMAIN Table
            /\ Signature(Table[TopWord]) = signature
            /\ LET f == Table[TopWord]
               IN  /\ CanCall(f, 1)
                   /\ reg' = ArgsInRegs(f, 1)
                   /\ EnterBody(f, sp, WithLr(stack), Popped(1 + n), Continue(f, 1), acts)

\* recoveryCurrentFrameReg after a call that returned r0.
ReloadedFromSp(f, at, mem, r0, regs) ==
  [k \in 1..MaxParams |->
     IF k <= NParams[f] THEN mem[at + k - 1] ELSE IF k = 1 THEN r0 ELSE regs[k]]
Reloaded(f, at, mem, r0, regs) ==
  [k \in 1..MaxParams |->
     IF k <= NParams[f] THEN mem[at + k] ELSE IF k = 1 THEN r0 ELSE regs[k]]

\* A host function runs to completion: it may clobber every parameter
\* register and keeps SP and the callee-saved registers.
CallImport(f, v) ==
  LET mem == WithLr(WithParams)
  IN  /\ CanCall(f, 0)
      /\ stack' = mem
      /\ lr' = mem[sp]
      /\ ops' = Popped(NParams[f]) \o Pushed(HasResult[f], v)
      /\ pc' = [pc EXCEPT !.h = HeightAfter(f, 0) + ResultWords(f)]
      /\ reg' = Reloaded(pc.fn, sp, mem, v, [k \in 1..MaxParams |-> Stale])
      /\ UNCHANGED <<sp, outcome, acts>>

\* RETURN, or END of the function: the result goes to R0, SP is raised, RET
\* jumps to LR; then the code after the caller's BLR, or the wrapper's.
Return ==
  LET f     == pc.fn
      r0    == IF HasResult[f] THEN TopWord ELSE reg[1]
      rest  == Popped(ResultWords(f))
      after == sp + Imm(FrameWords(f))
  IN  /\ InJit
      /\ pc.h >= ResultWords(f)
      /\ ExcessReturns \/ pc.h = ResultWords(f)
      /\ IF lr = Host
           THEN /\ pc' = [fn |-> HostFn, h |-> 0]
                /\ sp' = after + 2
                /\ lr' = stack[after]
                /\ reg' = [reg EXCEPT ![1] = r0]
                /\ ops' = rest
                /\ outcome' = IF HasResult[f] THEN Outcome("value", r0)
                                              ELSE Outcome("void", Zero)
                /\ acts' = <<>>
           ELSE /\ pc' = [fn |-> lr.fn, h |-> lr.h + (IF lr.res THEN 1 ELSE 0)]
                /\ sp' = after
                /\ lr' = stack[after]
                /\ reg' = Reloaded(lr.fn, after, stack, r0, reg)
                /\ ops' = rest \o Pushed(lr.res, r0)
                /\ acts' = SubSeq(acts, 1, Len(acts) - 1)
                /\ UNCHANGED outcome
      /\ UNCHANGED stack

Next ==
  \/ \E f \in Funcs : \E args \in [1..NParams[f] -> Values] : Invoke(f, args)
  \/ \E v \in Values : Const(v)
  \/ Drop
  \/ \E k \in 1..GuardWords : LocalGet(k)
  \/ \E k \in 1..GuardWords, tee \in BOOLEAN : LocalSet(k, tee)
  \/ \E f \in Funcs : Call(f)
  \/ \E f \in Funcs : CallIndirect(Signature(f))
  \/ \E f \in Imports, v \in Values : CallImport(f, v)
  \/ Return

Spec == Init /\ [][Next]_vars

\* What the invariants below assume of the program: RETURN with nothing but
\* the result on the operand stack, and frames whose size the SUB and ADD of
\* dec_sp and inc_sp can encode.
ProgramFits ==
  /\ ~ExcessReturns
  /\ \A f \in Funcs : FrameWords(f) < ImmWords

-----------------------------------------------------------------------------
(* Properties *)

\* The type invariant.  Values and code addresses never mix: LR holds a code
\* address; the locals of every live activation, in the parameter registers
\* of the function executing and in the frames above their saved LRs, every
\* operand and every result hold values, never an address or a stale word.
TypeOK ==
  /\ pc \in [fn: Funcs \cup {HostFn}, h: Nat]
  /\ sp \in Int
  /\ lr \in CodeAddress
  /\ reg \in [1..MaxParams -> Values \cup {Stale}]
  /\ InJit => \A k \in 1..NParams[pc.fn] : reg[k] \in Values
  /\ stack \in [Addr -> Words]
  /\ \A i \in 1..Depth : \A k \in 1..NVars(acts[i].fn) : stack[acts[i].sp + k] \in Values
  /\ ops \in Seq(Values)
  /\ outcome \in [kind: Kinds, val: Values]
  /\ acts \in Seq([fn: Funcs, sp: Int, base: Nat])

\* dec_sp and inc_sp (prologue and return) together keep the frames of the
\* live activations adjacent from the wrapper's frame down to SP, and all of
\* them above the stack guard.
CallerSp(s, i) == IF i = 1 THEN WrapperSp ELSE s[i - 1].sp
FramesContiguous ==
  InJit =>
    /\ Depth > 0 /\ sp = acts[Depth].sp
    /\ \A i \in 1..Depth : /\ acts[i].sp > 0
                           /\ acts[i].sp + FrameWords(acts[i].fn) = CallerSp(acts, i)

\* The function executing is the innermost activation, and outside the JIT
\* there is none.  LR, and the LR saved in the frame of each activation that
\* is waiting for a call, lead back through exactly the callers, each at the
\* operand height it called at, and end in the wrapper: no callee overwrites
\* a saved LR and RET always lands behind the right BLR.
CallPoint(s, i) ==
  IF i = 1
    THEN Host
    ELSE [fn |-> s[i - 1].fn, h |-> s[i].base - s[i - 1].base,
          res |-> HasResult[s[i].fn]]
ReturnChain ==
  /\ ~InJit => acts = <<>>
  /\ InJit => /\ pc.fn = acts[Depth].fn
              /\ lr = CallPoint(acts, Depth)
              /\ stack[WrapperSp] = Host
              /\ \A i \in 1..(Depth - 1) : stack[acts[i].sp] = CallPoint(acts, i)

\* ROP is where the compile-time operand stack says it is: each activation's
\* operands lie directly on its caller's, and the innermost has exactly the
\* operands validation counted (prepareCallParams, handleReturnValue, END).
OperandsMatch ==
  InJit =>
    /\ Len(ops) = acts[Depth].base + pc.h
    /\ acts[1].base = 0
    /\ \A i \in 2..Depth : acts[i - 1].base <= acts[i].base

\* No step of a callee changes a word of a waiting caller's frame, nor an
\* operand below its own base; and a call itself (the saving of LR and
\* parameters, and the callee's zeroing of its frame) leaves the caller's
\* other locals alone as well.
FirstKept == IF Len(acts') > Depth THEN sp + 1 + NParams[pc.fn] ELSE sp + FrameWords(pc.fn)
CallersUntouched ==
  [][InJit /\ InJit' =>
       /\ \A a \in Addr : a >= FirstKept => stack'[a] = stack[a]
       /\ \A i \in 1..acts[Depth].base : i <= Len(ops') /\ ops'[i] = ops[i]]_vars

\* What the machine state means as Wasm activations: the innermost one has
\* its parameters in registers, the waiting ones have them in their frames.
LocalWord(i, k) ==
  IF i = Depth /\ k <= NParams[acts[i].fn] THEN reg[k] ELSE stack[acts[i].sp + k]
OpsEnd(i) == IF i = Depth THEN Len(ops) ELSE acts[i + 1].base
WasmFrames ==
  [i \in 1..Depth |->
     [fn     |-> acts[i].fn,
      locals |-> [k \in 1..NVars(acts[i].fn) |-> LocalWord(i, k)],
      ops    |-> SubSeq(ops, acts[i].base + 1, OpsEnd(i))]]

\* Frames, registers and operand stack implement Wasm calls: locals survive
\* calls, start at zero, and a call's only effect on its caller is its result.
Wasm == INSTANCE WasmCalls WITH frames <- WasmFrames
ImplementsWasmCalls == Wasm!Spec

\* doc/abi.md: "Params(store before call)".  Whenever a body makes
\* a call, the caller's parameters are in its frame when the callee starts.
ParamsStoredBeforeCall ==
  [][InJit /\ Len(acts') > Depth =>
       \A k \in 1..NParams[pc.fn] : stack'[sp + k] = reg[k]]_vars
=============================================================================
