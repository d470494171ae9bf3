-------------------------- MODULE CallFrames_proofs --------------------------
(***************************************************************************)
(* For every program that ProgramFits admits (any functions, signatures,   *)
(* frame sizes, guard size and values), the call protocol keeps the frames *)
(* adjacent above the guard, the return addresses correct and ROP where    *)
(* compile-time validation says it is.  If no function with parameters     *)
(* makes a call_indirect, CallFrames implements WasmCalls: one register    *)
(* file and two shared stacks act as activations that have locals and      *)
(* operands of their own.                                                  *)
(***************************************************************************)
EXTENDS CallFrames, SequenceTheorems, TLAPS

Activations == [fn: Funcs, sp: Int, base: Nat]

\* The strengthening: the frame of any activation lies wholly below the
\* frames of all its callers, not only below its own caller's.
Ordered(s) ==
  \A i, j \in 1..Len(s) : i < j => s[j].sp + FrameWords(s[j].fn) <= s[i].sp
BelowWrapper(s) ==
  \A i \in 1..Len(s) : s[i].sp + FrameWords(s[i].fn) <= WrapperSp

\* The types without the separation of values and code addresses, which
\* rests on the rest of the invariant and is proved after it.
WordsTyped ==
  /\ pc \in [fn: Funcs \cup {HostFn}, h: Nat]
  /\ sp \in Int
  /\ lr \in Words
  /\ reg \in [1..MaxParams -> Words]
  /\ stack \in [Addr -> Words]
  /\ ops \in Seq(Words)
  /\ outcome \in [kind: Kinds, val: Words]
  /\ acts \in Seq([fn: Funcs, sp: Int, base: Nat])

IInv ==
  /\ WordsTyped
  /\ FramesContiguous
  /\ ReturnChain
  /\ OperandsMatch
  /\ Ordered(acts)
  /\ BelowWrapper(acts)

\* A frame has room for LR and every parameter and local.
LEMMA FrameWordsFacts ==
  ASSUME NEW f \in Funcs
  PROVE  /\ FrameWords(f) \in Nat
         /\ NVars(f) \in Nat
         /\ NParams[f] \in 0..MaxParams
         /\ NParams[f] <= NVars(f)
         /\ NVars(f) < FrameWords(f)
BY SignaturesAssumption DEF FrameWords, NVars, AllFuncs

\* Code addresses and the addresses of the wrapper are well typed.
LEMMA SizeFacts ==
  /\ Host \in CodeAddress
  /\ CodeAddress \subseteq Words
  /\ Zero \in Words /\ Stale \in Words
  /\ WrapperSp \in Addr /\ WrapperSp \in Int /\ WrapperSp > 0
  /\ TopSp \in Int /\ TopSp = WrapperSp + 2
  /\ MaxParams \in Nat \ {0}
BY SizesAssumption, SignaturesAssumption, ValuesAssumption
   DEF Host, CodeAddress, Words, WrapperSp, TopSp, Addr

\* A frame that fits is subtracted whole.
LEMMA FitsImm ==
  ASSUME ProgramFits, NEW f \in Funcs
  PROVE  Imm(FrameWords(f)) = FrameWords(f)
BY DEF ProgramFits, Imm

\* Outside the JIT the invariant asks for nothing but types.
LEMMA IdlePreserves ==
  ASSUME WordsTyped', ~InJit', acts' = <<>>
  PROVE  IInv'
BY DEF IInv, FramesContiguous, ReturnChain, OperandsMatch, Ordered, BelowWrapper

\* The activations s are ready to have f entered on top of them with SP = at,
\* memory mem, operands rest and return address ra.
Callers(s, f, at, mem, rest, ra) ==
  /\ at > 0 /\ at <= WrapperSp /\ at = CallerSp(s, Len(s) + 1)
  /\ mem[WrapperSp] = Host
  /\ ra = IF Len(s) = 0 THEN Host
          ELSE [fn |-> s[Len(s)].fn, h |-> Len(rest) - s[Len(s)].base,
                res |-> HasResult[f]]
  /\ Len(s) = 0 => Len(rest) = 0
  /\ Len(s) > 0 => s[1].base = 0 /\ s[Len(s)].base <= Len(rest)
  /\ \A i \in 2..Len(s) : s[i - 1].base <= s[i].base
  /\ \A i \in 1..Len(s) :
       /\ s[i].sp > 0
       /\ s[i].sp + FrameWords(s[i].fn) = CallerSp(s, i)
       /\ mem[s[i].sp] = CallPoint(s, i)
       /\ at <= s[i].sp
  /\ Ordered(s) /\ BelowWrapper(s)

\* Entering a body from a correct chain of callers gives a correct chain.
LEMMA EnterPreserves ==
  ASSUME ProgramFits, WordsTyped,
         NEW f \in Funcs, NEW at \in Int, NEW mem \in [Addr -> Words],
         NEW rest \in Seq(Words), NEW ra \in CodeAddress,
         NEW before \in Seq(Activations),
         reg' \in [1..MaxParams -> Words],
         Callers(before, f, at, mem, rest, ra),
         EnterBody(f, at, mem, rest, ra, before)
  PROVE  IInv'
<1>1. CASE Overflows(at, f) /\ Trap("Stack_overflow") /\ stack' = mem
  <2>1. lr' \in Words /\ ops' \in Seq(Words)
    BY SizeFacts DEF EnterBody
  <2>2. WordsTyped'
    BY <1>1, <2>1, SizeFacts DEF WordsTyped, Trap, Outcome, Kinds
  <2> QED
    BY <1>1, <2>2, IdlePreserves DEF Trap, InJit
<1>2. CASE /\ ~Overflows(at, f)
           /\ pc' = [fn |-> f, h |-> 0]
           /\ sp' = LoweredSp(at, f)
           /\ stack' = Cleaned(mem, f, sp')
           /\ acts' = Append(before, Callee(f, sp', Len(rest)))
           /\ outcome' = Outcome("running", Zero)
  <2> DEFINE n == Len(before)
  <2>1. /\ sp' = at - FrameWords(f) /\ sp' \in Int /\ sp' > 0
        /\ FrameWords(f) \in Nat /\ FrameWords(f) > 0
    BY <1>2, FitsImm, FrameWordsFacts DEF Overflows, LoweredSp
  <2>2. /\ n \in Nat
        /\ acts' \in Seq(Activations) /\ Len(acts') = n + 1
        /\ acts'[n + 1] = [fn |-> f, sp |-> sp', base |-> Len(rest)]
        /\ \A i \in 1..n : acts'[i] = before[i]
    BY <1>2, <2>1 DEF Callee, Activations
  <2>3. lr' = ra /\ ops' = rest /\ Len(ops') \in Nat
    BY DEF EnterBody
  <2>4. \A i \in 1..n : before[i] \in Activations
    OBVIOUS
  <2>5. stack' \in [Addr -> Words]
    BY <1>2, SizeFacts DEF Cleaned
  <2>6. \A a \in Addr : a >= at => stack'[a] = mem[a]
    BY <1>2, <2>1 DEF Cleaned, Addr
  <2>7. WordsTyped'
    BY <1>2, <2>1, <2>2, <2>3, <2>5, SizeFacts DEF WordsTyped, Outcome, Kinds, Activations
  <2>8. /\ n + 1 \in Nat /\ \A i \in 1..n : acts'[i] = before[i]
        /\ acts'[n + 1].fn = f /\ acts'[n + 1].sp = sp' /\ acts'[n + 1].base = Len(rest)
        /\ Len(acts') = n + 1
    BY <2>2
  <2>9. \A i \in 1..n : /\ before[i].sp > 0 /\ before[i].sp \in Int
                        /\ before[i].fn \in Funcs /\ before[i].base \in Nat
                        /\ before[i].sp + FrameWords(before[i].fn) = CallerSp(before, i)
                        /\ before[i].sp + FrameWords(before[i].fn) <= WrapperSp
                        /\ at <= before[i].sp
    BY <2>4 DEF Callers, BelowWrapper, Activations
  <2>10. FramesContiguous'
    <3>1. CallerSp(acts', n + 1) = at
      <4>1. at = CallerSp(before, n + 1)
        BY DEF Callers
      <4> QED
        BY <2>2, <2>8, <4>1 DEF CallerSp
    <3>2. ASSUME NEW i \in 1..n PROVE CallerSp(acts', i) = CallerSp(before, i)
      <4>1. i = 1 \/ i - 1 \in 1..n
        BY <2>2
      <4> QED
        BY <2>8, <4>1 DEF CallerSp
    <3>3. \A i \in 1..(n + 1) : /\ acts'[i].sp > 0
                                /\ acts'[i].sp + FrameWords(acts'[i].fn) = CallerSp(acts', i)
      <4> TAKE i \in 1..(n + 1)
      <4>1. CASE i = n + 1
        BY <4>1, <2>1, <2>8, <3>1
      <4>2. CASE i \in 1..n
        BY <4>2, <2>8, <2>9, <3>2
      <4> QED
        BY <4>1, <4>2, <2>2
    <3> QED
      BY <2>1, <2>8, <3>3 DEF FramesContiguous, Depth
  <2>11. ReturnChain'
    <3>1. InJit' /\ pc'.fn = acts'[n + 1].fn
      BY <1>2, <2>8, SignaturesAssumption DEF InJit, AllFuncs
    <3>2. lr' = CallPoint(acts', n + 1)
      <4>1. ra = IF n = 0 THEN Host
                 ELSE [fn |-> before[n].fn, h |-> Len(rest) - before[n].base,
                       res |-> HasResult[f]]
        BY DEF Callers
      <4>2. n # 0 => acts'[n] = before[n]
        BY <2>2, <2>8
      <4> QED
        BY <2>2, <2>3, <2>8, <4>1, <4>2 DEF CallPoint
    <3>3. stack'[WrapperSp] = Host
      <4>1. mem[WrapperSp] = Host /\ at <= WrapperSp
        BY DEF Callers
      <4> QED
        BY <2>6, <4>1, SizeFacts
    <3>4. ASSUME NEW i \in 1..n PROVE CallPoint(acts', i) = CallPoint(before, i)
      <4>1. acts'[i] = before[i] /\ (i # 1 => acts'[i - 1] = before[i - 1])
        BY <2>2, <2>8
      <4> QED
        BY <4>1 DEF CallPoint
    <3>5. ASSUME NEW i \in 1..n PROVE before[i].sp \in Addr
      <4>1. FrameWords(before[i].fn) \in Nat
        BY <2>9, FrameWordsFacts
      <4> QED
        BY <2>9, <4>1, SizesAssumption DEF Addr, WrapperSp, TopSp
    <3>6. ASSUME NEW i \in 1..n PROVE stack'[acts'[i].sp] = CallPoint(acts', i)
      <4>1. mem[before[i].sp] = CallPoint(before, i)
        BY DEF Callers
      <4>2. stack'[before[i].sp] = mem[before[i].sp]
        BY <2>6, <2>9, <3>5
      <4> QED
        BY <2>8, <3>4, <4>1, <4>2
    <3> QED
      BY <2>2, <2>8, <3>1, <3>2, <3>3, <3>6 DEF ReturnChain, Depth
  <2>12. OperandsMatch'
    <3>1. Len(ops') = acts'[n + 1].base + pc'.h
      BY <1>2, <2>3, <2>8
    <3>2. acts'[1].base = 0
      <4>1. n = 0 => Len(rest) = 0
        BY DEF Callers
      <4>2. n > 0 => before[1].base = 0 /\ acts'[1] = before[1]
        BY <2>2, <2>8 DEF Callers
      <4> QED
        BY <2>2, <2>8, <4>1, <4>2
    <3>3. ASSUME NEW i \in 2..(n + 1) PROVE acts'[i - 1].base <= acts'[i].base
      <4>1. CASE i = n + 1
        <5>1. n > 0 /\ n \in 1..n /\ i - 1 = n
          BY <4>1, <2>2
        <5>2. before[n].base <= Len(rest)
          BY <5>1 DEF Callers
        <5> QED
          BY <4>1, <2>8, <5>1, <5>2
      <4>2. CASE i \in 2..n
        <5>1. i \in 1..n /\ i - 1 \in 1..n
          BY <4>2, <2>2
        <5>2. before[i - 1].base <= before[i].base
          BY <4>2 DEF Callers
        <5> QED
          BY <2>8, <5>1, <5>2
      <4> QED
        BY <4>1, <4>2, <2>2
    <3> QED
      BY <2>8, <3>1, <3>2, <3>3 DEF OperandsMatch, Depth
  <2>13. Ordered(acts')
    <3> SUFFICES ASSUME NEW i \in 1..(n + 1), NEW j \in 1..(n + 1), i < j
                 PROVE  acts'[j].sp + FrameWords(acts'[j].fn) <= acts'[i].sp
      BY <2>8 DEF Ordered
    <3>1. i \in 1..n
      BY <2>2
    <3>2. CASE j = n + 1
      <4>1. acts'[j].sp + FrameWords(acts'[j].fn) = at
        BY <3>2, <2>1, <2>8
      <4> QED
        BY <3>1, <4>1, <2>8, <2>9
    <3>3. CASE j \in 1..n
      <4>1. before[j].sp + FrameWords(before[j].fn) <= before[i].sp
        BY <3>1, <3>3 DEF Callers, Ordered
      <4> QED
        BY <3>1, <3>3, <4>1, <2>8
    <3> QED
      BY <3>2, <3>3, <2>2
  <2>14. BelowWrapper(acts')
    <3> SUFFICES ASSUME NEW i \in 1..(n + 1)
                 PROVE  acts'[i].sp + FrameWords(acts'[i].fn) <= WrapperSp
      BY <2>8 DEF BelowWrapper
    <3>1. at <= WrapperSp
      BY DEF Callers
    <3>2. CASE i = n + 1
      BY <3>1, <3>2, <2>1, <2>8, SizeFacts
    <3>3. CASE i \in 1..n
      BY <3>3, <2>8, <2>9
    <3> QED
      BY <3>2, <3>3, <2>2
  <2> QED
    BY <2>7, <2>10, <2>11, <2>12, <2>13, <2>14 DEF IInv
<1> QED
  BY <1>1, <1>2 DEF EnterBody

\* What the invariant says of the executing activation.
LEMMA TopFacts ==
  ASSUME IInv, InJit
  PROVE  /\ Depth \in Nat /\ Depth > 0
         /\ acts \in Seq(Activations)
         /\ pc.fn \in Funcs /\ pc.h \in Nat /\ pc = [fn |-> pc.fn, h |-> pc.h]
         /\ sp > 0 /\ sp + FrameWords(pc.fn) <= WrapperSp
         /\ sp \in Addr
         /\ Len(ops) \in Nat /\ acts[Depth].base \in Nat
         /\ Len(ops) = acts[Depth].base + pc.h
         /\ lr \in CodeAddress
         /\ \A i \in 1..Depth : acts[i].sp \in Addr /\ sp <= acts[i].sp
         /\ \A i \in 1..(Depth - 1) : sp + FrameWords(pc.fn) <= acts[i].sp
<1>1. /\ Depth \in Nat /\ Depth > 0 /\ acts \in Seq(Activations)
      /\ sp = acts[Depth].sp /\ pc.fn = acts[Depth].fn
      /\ Len(ops) \in Nat
      /\ Len(ops) = acts[Depth].base + pc.h
  BY DEF IInv, WordsTyped, FramesContiguous, ReturnChain, OperandsMatch, Depth, Activations
<1>2. \A i \in 1..Depth : /\ acts[i] \in Activations
                          /\ acts[i].fn \in Funcs /\ acts[i].sp \in Int
                          /\ acts[i].base \in Nat
  <2>1. \A i \in 1..Depth : acts[i] \in Activations
    BY <1>1 DEF Depth
  <2> QED
    BY <2>1 DEF Activations
<1>3. /\ pc.fn \in Funcs /\ pc.h \in Nat /\ pc = [fn |-> pc.fn, h |-> pc.h]
  <2>1. pc \in [fn: Funcs \cup {HostFn}, h: Nat]
    BY DEF IInv, WordsTyped
  <2> QED
    BY <1>1, <1>2, <2>1
<1>4. \A i \in 1..Depth : /\ acts[i].sp > 0
                          /\ acts[i].sp + FrameWords(acts[i].fn) <= WrapperSp
                          /\ FrameWords(acts[i].fn) \in Nat
                          /\ acts[i].sp \in Addr
  <2> TAKE i \in 1..Depth
  <2>1. acts[i].sp > 0 /\ acts[i].sp + FrameWords(acts[i].fn) <= WrapperSp
    BY DEF IInv, FramesContiguous, BelowWrapper, Depth
  <2>2. FrameWords(acts[i].fn) \in Nat
    BY <1>2, FrameWordsFacts
  <2> QED
    BY <1>2, <2>1, <2>2, SizesAssumption DEF Addr, WrapperSp, TopSp
<1>5. \A i \in 1..(Depth - 1) : sp + FrameWords(pc.fn) <= acts[i].sp
  BY <1>1 DEF IInv, Ordered, Depth
<1>6. \A i \in 1..Depth : sp <= acts[i].sp
  <2> TAKE i \in 1..Depth
  <2>1. CASE i = Depth
    BY <2>1, <1>1, <1>2
  <2>2. CASE i \in 1..(Depth - 1)
    <3>1. sp \in Int /\ FrameWords(pc.fn) \in Nat
      BY <1>3, FrameWordsFacts DEF IInv, WordsTyped
    <3> QED
      BY <2>2, <3>1, <1>2, <1>5
  <2> QED
    BY <2>1, <2>2, <1>1
<1>7. lr \in CodeAddress
  <2>1. lr = CallPoint(acts, Depth)
    BY DEF IInv, ReturnChain
  <2>2. CASE Depth = 1
    BY <2>1, <2>2, SizeFacts DEF CallPoint
  <2>3. CASE Depth > 1
    <3>1. Depth - 1 \in 1..Depth /\ Depth \in 1..Depth /\ Depth \in 2..Depth
      BY <2>3, <1>1
    <3>2. acts[Depth].base - acts[Depth - 1].base \in Nat
      BY <3>1, <1>2 DEF IInv, OperandsMatch
    <3>3. HasResult[acts[Depth].fn] \in BOOLEAN
      BY <3>1, <1>2, SignaturesAssumption DEF AllFuncs
    <3> QED
      BY <2>1, <2>3, <3>1, <3>2, <3>3, <1>2 DEF CallPoint, CodeAddress
  <2> QED
    BY <2>2, <2>3, <1>1
<1> QED
  BY <1>1, <1>2, <1>3, <1>4, <1>5, <1>6, <1>7

\* A step that stays in the activation, moves ROP by what it changes the
\* compile-time height by, and writes nothing above its own frame.
LEMMA LocalStepPreserves ==
  ASSUME IInv, InJit, WordsTyped',
         pc'.fn = pc.fn, sp' = sp, lr' = lr, acts' = acts,
         Len(ops') - Len(ops) = pc'.h - pc.h,
         \A a \in Addr : a >= sp + FrameWords(pc.fn) => stack'[a] = stack[a]
  PROVE  IInv'
<1> USE TopFacts
<1>1. InJit'
  BY DEF InJit
<1>2. FramesContiguous'
  BY DEF IInv, FramesContiguous, Depth, InJit
<1>3. ReturnChain'
  <2>1. /\ pc'.fn = acts'[Len(acts')].fn /\ lr' = CallPoint(acts', Len(acts'))
    BY DEF IInv, ReturnChain, Depth
  <2>2. stack'[WrapperSp] = Host
    BY SizeFacts DEF IInv, ReturnChain
  <2>3. \A i \in 1..(Depth - 1) : stack'[acts[i].sp] = CallPoint(acts, i)
    BY DEF IInv, ReturnChain
  <2> QED
    BY <1>1, <2>1, <2>2, <2>3 DEF ReturnChain, Depth
<1>4. OperandsMatch'
  <2>1. Len(ops') \in Nat /\ pc'.h \in Nat
    BY DEF WordsTyped
  <2>2. Len(ops') = acts'[Len(acts')].base + pc'.h
    BY <2>1 DEF Depth
  <2> QED
    BY <1>1, <2>2 DEF IInv, OperandsMatch, Depth
<1> QED
  BY <1>2, <1>3, <1>4 DEF IInv, Ordered, BelowWrapper

\* The wrapper starts an empty chain.
LEMMA InvokePreserves ==
  ASSUME ProgramFits, IInv, NEW f \in Funcs,
         NEW args \in [1..NParams[f] -> Values], Invoke(f, args)
  PROVE  IInv'
<1> DEFINE mem == [stack EXCEPT ![WrapperSp] = Host]
<1>1. mem \in [Addr -> Words] /\ mem[WrapperSp] = Host
  BY SizeFacts DEF IInv, WordsTyped
<1>2. reg' \in [1..MaxParams -> Words]
  BY SizeFacts, FrameWordsFacts DEF Invoke, Words
<1>3. /\ <<>> \in Seq(Activations) /\ <<>> \in Seq(Words)
      /\ Callers(<<>>, f, WrapperSp, mem, <<>>, Host)
  BY <1>1, SizeFacts DEF Callers, CallerSp, Ordered, BelowWrapper
<1>4. EnterBody(f, WrapperSp, mem, <<>>, Host, <<>>)
  BY DEF Invoke
<1>5. WordsTyped
  BY DEF IInv
<1> HIDE DEF mem
<1> QED
  BY <1>1, <1>2, <1>3, <1>4, <1>5, SizeFacts, EnterPreserves

LEMMA ConstPreserves ==
  ASSUME IInv, NEW w \in Words, InJit, Push(w),
         UNCHANGED <<sp, lr, reg, stack, outcome, acts>>
  PROVE  IInv'
<1>1. ops' \in Seq(Words) /\ Len(ops') = Len(ops) + 1
  BY DEF IInv, WordsTyped, Push
<1>2. pc' = [fn |-> pc.fn, h |-> pc.h + 1] /\ pc.h + 1 \in Nat
  BY TopFacts DEF Push
<1>3. WordsTyped'
  BY <1>1, <1>2, TopFacts DEF IInv, WordsTyped
<1> QED
  BY <1>1, <1>2, <1>3, TopFacts, LocalStepPreserves

LEMMA PoppedFacts ==
  ASSUME WordsTyped, NEW n \in Nat, n <= Len(ops)
  PROVE  /\ Popped(n) \in Seq(Words)
         /\ Len(Popped(n)) = Len(ops) - n
         /\ \A i \in 1..(Len(ops) - n) : Popped(n)[i] = ops[i]
BY SubSeqProperties DEF WordsTyped, Popped

LEMMA DropPreserves ==
  ASSUME IInv, Drop
  PROVE  IInv'
<1>1. InJit /\ pc.h >= 1
  BY DEF Drop
<1>2. /\ ops' \in Seq(Words) /\ Len(ops') = Len(ops) - 1
  BY <1>1, TopFacts, PoppedFacts DEF Drop, IInv
<1>3. pc' = [fn |-> pc.fn, h |-> pc.h - 1] /\ pc.h - 1 \in Nat
  BY <1>1, TopFacts DEF Drop
<1>4. WordsTyped'
  BY <1>1, <1>2, <1>3, TopFacts DEF IInv, WordsTyped, Drop
<1> QED
  BY <1>1, <1>2, <1>3, <1>4, TopFacts, LocalStepPreserves DEF Drop

\* The frame of the function executing: its parameters fit the registers and,
\* with its locals, the frame.
LEMMA TopFrame ==
  ASSUME IInv, InJit
  PROVE  /\ pc.fn \in Funcs /\ sp \in Addr /\ sp \in Nat /\ sp > 0
         /\ sp + FrameWords(pc.fn) <= WrapperSp
         /\ FrameWords(pc.fn) \in Nat /\ NVars(pc.fn) \in Nat
         /\ NVars(pc.fn) < FrameWords(pc.fn)
         /\ NParams[pc.fn] \in Nat /\ NParams[pc.fn] <= NVars(pc.fn)
         /\ NParams[pc.fn] <= MaxParams /\ MaxParams \in Nat \ {0}
<1>1. /\ pc.fn \in Funcs /\ sp \in Addr /\ sp > 0
      /\ sp + FrameWords(pc.fn) <= WrapperSp
  BY TopFacts
<1>2. sp \in Nat
  BY <1>1 DEF Addr
<1>3. MaxParams \in Nat \ {0}
  BY SizeFacts
<1>4. /\ FrameWords(pc.fn) \in Nat /\ NVars(pc.fn) \in Nat
      /\ NVars(pc.fn) < FrameWords(pc.fn) /\ NParams[pc.fn] <= NVars(pc.fn)
      /\ NParams[pc.fn] \in 0..MaxParams
  BY <1>1, FrameWordsFacts
<1>5. NParams[pc.fn] \in Nat /\ NParams[pc.fn] <= MaxParams
  BY <1>3, <1>4
<1> QED
  BY <1>1, <1>2, <1>3, <1>4, <1>5

\* A local's slot lies inside the frame.
LEMMA SlotFacts ==
  ASSUME IInv, InJit, NEW k \in Nat \ {0}, k <= NVars(pc.fn)
  PROVE  /\ sp + k \in Addr
         /\ sp + k < sp + FrameWords(pc.fn)
         /\ IsParam(k) => k \in 1..MaxParams
<1>1. /\ FrameWords(pc.fn) \in Nat /\ k < FrameWords(pc.fn)
      /\ sp \in Nat /\ sp > 0 /\ sp + FrameWords(pc.fn) <= WrapperSp
  BY TopFrame
<1>2. sp + k \in Addr
  BY <1>1, SizesAssumption DEF Addr, WrapperSp, TopSp
<1>3. IsParam(k) => k \in 1..MaxParams
  BY TopFrame DEF IsParam
<1> QED
  BY <1>1, <1>2, <1>3

LEMMA LocalGetPreserves ==
  ASSUME IInv, NEW k \in 1..GuardWords, LocalGet(k)
  PROVE  IInv'
<1>1. InJit /\ k <= NVars(pc.fn) /\ k \in Nat \ {0}
  BY SizesAssumption DEF LocalGet
<1>2. (IF IsParam(k) THEN reg[k] ELSE stack[sp + k]) \in Words
  BY <1>1, SlotFacts DEF IInv, WordsTyped
<1> QED
  BY <1>1, <1>2, ConstPreserves DEF LocalGet

LEMMA LocalSetPreserves ==
  ASSUME IInv, NEW k \in 1..GuardWords, NEW tee \in BOOLEAN, LocalSet(k, tee)
  PROVE  IInv'
<1>1. InJit /\ k <= NVars(pc.fn) /\ k \in Nat \ {0} /\ pc.h >= 1
  BY SizesAssumption DEF LocalSet
<1>2. TopWord \in Words /\ Len(ops) >= 1
  BY <1>1, TopFacts DEF TopWord, IInv, WordsTyped
<1>3. /\ reg' \in [1..MaxParams -> Words] /\ stack' \in [Addr -> Words]
      /\ \A a \in Addr : a >= sp + FrameWords(pc.fn) => stack'[a] = stack[a]
  <2>1. CASE IsParam(k)
    BY <1>1, <1>2, <2>1, SlotFacts DEF LocalSet, IInv, WordsTyped
  <2>2. CASE ~IsParam(k)
    <3>1. stack' = [stack EXCEPT ![sp + k] = TopWord] /\ reg' = reg
      BY <2>2 DEF LocalSet
    <3>2. /\ sp + k \in Addr /\ sp + k < sp + FrameWords(pc.fn)
          /\ sp \in Int /\ FrameWords(pc.fn) \in Nat
      BY <1>1, SlotFacts, TopFacts, FrameWordsFacts DEF IInv, WordsTyped
    <3>3. \A a \in Addr : a >= sp + FrameWords(pc.fn) => a # sp + k
      BY <3>2 DEF Addr
    <3> QED
      BY <1>2, <3>1, <3>2, <3>3 DEF IInv, WordsTyped
  <2> QED
    BY <2>1, <2>2
<1>4. /\ ops' \in Seq(Words) /\ Len(ops') - Len(ops) = pc'.h - pc.h
      /\ pc'.fn = pc.fn /\ pc' \in [fn: Funcs \cup {HostFn}, h: Nat]
  <2>1. CASE tee
    BY <1>1, <2>1, TopFacts DEF LocalSet, IInv, WordsTyped
  <2>2. CASE ~tee
    <3>1. pc' = [fn |-> pc.fn, h |-> pc.h - 1] /\ ops' = Popped(1)
      BY <1>1, <2>2, TopFacts DEF LocalSet
    <3>2. ops' \in Seq(Words) /\ Len(ops') = Len(ops) - 1
      BY <1>2, <3>1, PoppedFacts DEF IInv
    <3> QED
      BY <1>1, <3>1, <3>2, TopFacts
  <2> QED
    BY <2>1, <2>2
<1>5. UNCHANGED <<sp, lr, outcome, acts>>
  BY DEF LocalSet
<1>6. WordsTyped'
  BY <1>3, <1>4, <1>5 DEF IInv, WordsTyped
<1> QED
  BY <1>1, <1>3, <1>4, <1>5, <1>6, LocalStepPreserves

\* What a call site leaves: the caller's LR and parameters in its own frame,
\* everything above untouched.
LEMMA SavedFacts ==
  ASSUME IInv, InJit, NEW mem \in {WithParams, stack}
  PROVE  /\ WithLr(mem) \in [Addr -> Words]
         /\ WithLr(mem)[sp] = lr
         /\ \A a \in Addr : a >= sp + FrameWords(pc.fn) => WithLr(mem)[a] = stack[a]
<1>1. /\ FrameWords(pc.fn) \in Nat /\ NParams[pc.fn] \in Nat
      /\ NParams[pc.fn] < FrameWords(pc.fn) /\ NParams[pc.fn] <= MaxParams
      /\ sp \in Addr /\ sp \in Nat
  BY TopFrame
<1>2. mem \in [Addr -> Words]
  <2>1. ASSUME NEW a \in Addr, a > sp, a <= sp + NParams[pc.fn] PROVE reg[a - sp] \in Words
    <3>1. a - sp \in 1..MaxParams
      BY <1>1, <2>1, SizeFacts DEF Addr
    <3> QED
      BY <3>1 DEF IInv, WordsTyped
  <2>2. WithParams \in [Addr -> Words]
    BY <2>1 DEF WithParams, IInv, WordsTyped
  <2> QED
    BY <2>2 DEF IInv, WordsTyped
<1>3. ASSUME NEW a \in Addr, a >= sp + FrameWords(pc.fn) PROVE mem[a] = stack[a]
  <2>1. ~(a > sp /\ a <= sp + NParams[pc.fn])
    BY <1>1, <1>3 DEF Addr
  <2> QED
    BY <2>1 DEF WithParams
<1>4. \A a \in Addr : a >= sp + FrameWords(pc.fn) => a # sp
  BY <1>1, TopFacts, FrameWordsFacts DEF Addr
<1>5. WithLr(mem) = [mem EXCEPT ![sp] = lr]
  BY DEF WithLr
<1> HIDE DEF WithLr
<1>6. lr \in Words
  BY DEF IInv, WordsTyped
<1> QED
  BY <1>1, <1>2, <1>3, <1>4, <1>5, <1>6

LEMMA ArgsFacts ==
  ASSUME IInv, InJit, NEW f \in AllFuncs, NEW popped \in 0..1, CanCall(f, popped)
  PROVE  /\ ArgsInRegs(f, popped) \in [1..MaxParams -> Words]
         /\ popped + NParams[f] \in Nat
         /\ NParams[f] + popped <= pc.h
         /\ HeightAfter(f, popped) = pc.h - popped - NParams[f]
<1>1. NParams[f] \in Nat /\ pc.h \in Nat /\ Len(ops) \in Nat /\ Len(ops) >= pc.h
  BY TopFacts, SignaturesAssumption
<1>2. NParams[f] + popped <= pc.h
  BY <1>1 DEF CanCall, HeightAfter
<1>3. ASSUME NEW k \in 1..MaxParams, k <= NParams[f]
      PROVE  ops[Len(ops) - popped - NParams[f] + k] \in Words
  <2>1. Len(ops) - popped - NParams[f] + k \in 1..Len(ops)
    <3>1. k \in Nat /\ k > 0 /\ popped \in Nat
      BY SizeFacts
    <3> QED
      BY <1>1, <1>2, <1>3, <3>1
  <2> QED
    BY <2>1 DEF IInv, WordsTyped
<1>4. ArgsInRegs(f, popped) \in [1..MaxParams -> Words]
  BY <1>3 DEF ArgsInRegs, IInv, WordsTyped
<1> QED
  BY <1>1, <1>2, <1>4 DEF HeightAfter

\* The operands a call leaves are those of the callers and of the caller
\* itself, less the arguments.
LEMMA RestFacts ==
  ASSUME IInv, InJit, NEW f \in AllFuncs, NEW popped \in 0..1, CanCall(f, popped)
  PROVE  /\ Popped(popped + NParams[f]) \in Seq(Words)
         /\ Len(Popped(popped + NParams[f])) \in Nat
         /\ Len(Popped(popped + NParams[f])) - acts[Depth].base = HeightAfter(f, popped)
         /\ HeightAfter(f, popped) \in Nat
         /\ acts[Depth].base <= Len(Popped(popped + NParams[f]))
<1> DEFINE n == popped + NParams[f]
<1>1. /\ n \in Nat /\ n <= pc.h /\ HeightAfter(f, popped) = pc.h - n
  <2>1. NParams[f] \in Nat
    BY SignaturesAssumption
  <2> QED
    BY <2>1, ArgsFacts, TopFacts
<1>2. /\ Len(ops) \in Nat /\ acts[Depth].base \in Nat /\ pc.h \in Nat
      /\ Len(ops) = acts[Depth].base + pc.h
  BY TopFacts
<1> HIDE DEF n
<1>3. n <= Len(ops)
  BY <1>1, <1>2
<1>4. WordsTyped
  BY DEF IInv
<1>5. Popped(n) \in Seq(Words) /\ Len(Popped(n)) = Len(ops) - n
  BY <1>1, <1>3, <1>4, PoppedFacts
<1>6. /\ Len(Popped(n)) \in Nat
      /\ Len(Popped(n)) - acts[Depth].base = HeightAfter(f, popped)
      /\ HeightAfter(f, popped) \in Nat
      /\ acts[Depth].base <= Len(Popped(n))
  BY <1>1, <1>2, <1>5
<1> QED
  BY <1>5, <1>6 DEF n

\* A call to a function with a body.
LEMMA BodyCallPreserves ==
  ASSUME ProgramFits, IInv, InJit, NEW f \in Funcs, NEW popped \in 0..1,
         CanCall(f, popped), NEW mem \in {WithParams, stack},
         reg' = ArgsInRegs(f, popped),
         EnterBody(f, sp, WithLr(mem), Popped(popped + NParams[f]),
                   Continue(f, popped), acts)
  PROVE  IInv'
<1> DEFINE saved == WithLr(mem)
           rest  == Popped(popped + NParams[f])
           ra    == Continue(f, popped)
<1> USE TopFacts
<1>1. f \in AllFuncs /\ HasResult[f] \in BOOLEAN
  BY SignaturesAssumption DEF AllFuncs
<1>2. /\ saved \in [Addr -> Words] /\ saved[sp] = lr
      /\ \A a \in Addr : a >= sp + FrameWords(pc.fn) => saved[a] = stack[a]
  BY SavedFacts
<1>3. /\ rest \in Seq(Words) /\ Len(rest) \in Nat
      /\ Len(rest) - acts[Depth].base = HeightAfter(f, popped)
      /\ HeightAfter(f, popped) \in Nat
      /\ acts[Depth].base <= Len(rest)
  BY <1>1, RestFacts
<1>4. ra \in CodeAddress /\ ra = [fn |-> acts[Depth].fn,
                                  h |-> Len(rest) - acts[Depth].base,
                                  res |-> HasResult[f]]
  <2>1. pc.fn = acts[Depth].fn
    BY DEF IInv, ReturnChain
  <2> QED
    BY <1>1, <1>3, <2>1 DEF Continue, CodeAddress
<1>5. reg' \in [1..MaxParams -> Words]
  BY <1>1, ArgsFacts
<1> HIDE DEF saved, rest, ra
<1>6. Callers(acts, f, sp, saved, rest, ra)
  <2>1. /\ sp > 0 /\ sp <= WrapperSp
    BY FrameWordsFacts, SizeFacts DEF Addr
  <2>2. sp = CallerSp(acts, Len(acts) + 1)
    BY DEF CallerSp, IInv, FramesContiguous, Depth
  <2>3. saved[WrapperSp] = Host
    BY <1>2, SizeFacts DEF IInv, ReturnChain
  <2>4. ASSUME NEW i \in 1..Len(acts)
        PROVE  saved[acts[i].sp] = CallPoint(acts, i)
    <3>1. CASE i = Depth
      BY <1>2, <3>1 DEF IInv, ReturnChain, FramesContiguous
    <3>2. CASE i \in 1..(Depth - 1)
      BY <1>2, <3>2 DEF IInv, ReturnChain
    <3> QED
      BY <3>1, <3>2 DEF Depth
  <2>5. /\ acts[1].base = 0
        /\ \A i \in 2..Len(acts) : acts[i - 1].base <= acts[i].base
    BY DEF IInv, OperandsMatch, Depth
  <2>6. \A i \in 1..Len(acts) :
          /\ acts[i].sp > 0
          /\ acts[i].sp + FrameWords(acts[i].fn) = CallerSp(acts, i)
          /\ sp <= acts[i].sp
    BY DEF IInv, FramesContiguous, Depth
  <2>7. Ordered(acts) /\ BelowWrapper(acts)
    BY DEF IInv
  <2>8. Len(acts) > 0 /\ Len(acts) = Depth
    BY DEF Depth
  <2> QED
    BY <1>3, <1>4, <2>1, <2>2, <2>3, <2>4, <2>5, <2>6, <2>7, <2>8 DEF Callers
<1>7. EnterBody(f, sp, saved, rest, ra, acts)
  BY DEF saved, rest, ra
<1>8. WordsTyped /\ sp \in Int
  BY DEF IInv, WordsTyped
<1> QED
  BY <1>2, <1>3, <1>4, <1>5, <1>6, <1>7, <1>8, EnterPreserves

LEMMA CallPreserves ==
  ASSUME ProgramFits, IInv, NEW f \in Funcs, Call(f)
  PROVE  IInv'
<1>1. 0 + NParams[f] = NParams[f]
  BY SignaturesAssumption DEF AllFuncs
<1>2. /\ CanCall(f, 0) /\ InJit /\ reg' = ArgsInRegs(f, 0)
      /\ EnterBody(f, sp, WithLr(WithParams), Popped(0 + NParams[f]), Continue(f, 0), acts)
  BY <1>1 DEF Call, CanCall
<1> QED
  BY <1>2, BodyCallPreserves

\* Each of the three ends of the table check: out of range, a mismatched
\* signature, the call.
LEMMA CallIndirectPreserves ==
  ASSUME ProgramFits, IInv, NEW g \in Funcs, CallIndirect(Signature(g))
  PROVE  IInv'
<1>1. CASE \E code \in Kinds : Trap(code) /\ UNCHANGED <<lr, reg, stack, ops>>
  <2>1. WordsTyped'
    BY <1>1, SizeFacts DEF IInv, WordsTyped, Trap, Outcome
  <2> QED
    BY <1>1, <2>1, IdlePreserves DEF Trap, InJit
<1>2. CASE /\ TopWord \in DOMAIN Table
           /\ Signature(Table[TopWord]) = Signature(g)
           /\ CanCall(Table[TopWord], 1)
           /\ reg' = ArgsInRegs(Table[TopWord], 1)
           /\ EnterBody(Table[TopWord], sp, WithLr(stack), Popped(1 + Signature(g)[1]),
                        Continue(Table[TopWord], 1), acts)
  <2>1. PICK f \in Funcs : f = Table[TopWord]
    BY <1>2, ValuesAssumption
  <2>2. Signature(g)[1] = NParams[f]
    BY <1>2, <2>1 DEF Signature
  <2>3. InJit
    BY <1>2 DEF CanCall
  <2> QED
    BY <1>2, <2>1, <2>2, <2>3, BodyCallPreserves
<1> QED
  BY <1>1, <1>2 DEF CallIndirect, Kinds

LEMMA CallImportPreserves ==
  ASSUME IInv, NEW f \in Imports, NEW v \in Values, CallImport(f, v)
  PROVE  IInv'
<1> DEFINE mem == WithLr(WithParams)
<1>1. /\ InJit /\ CanCall(f, 0) /\ stack' = mem /\ lr' = mem[sp]
      /\ ops' = Popped(NParams[f]) \o Pushed(HasResult[f], v)
      /\ pc' = [pc EXCEPT !.h = HeightAfter(f, 0) + ResultWords(f)]
      /\ reg' = Reloaded(pc.fn, sp, mem, v, [k \in 1..MaxParams |-> Stale])
      /\ UNCHANGED <<sp, outcome, acts>>
  BY DEF CallImport, CanCall
<1>2. /\ mem \in [Addr -> Words] /\ mem[sp] = lr
      /\ \A a \in Addr : a >= sp + FrameWords(pc.fn) => mem[a] = stack[a]
  BY <1>1, SavedFacts
<1> HIDE DEF mem
<1>3. f \in AllFuncs /\ HasResult[f] \in BOOLEAN /\ 0 + NParams[f] = NParams[f] /\ v \in Words
  BY SignaturesAssumption DEF AllFuncs, Words
<1>4. /\ Popped(NParams[f]) \in Seq(Words) /\ Len(Popped(NParams[f])) \in Nat
      /\ Len(Popped(NParams[f])) - acts[Depth].base = HeightAfter(f, 0)
      /\ HeightAfter(f, 0) \in Nat
  BY <1>1, <1>3, RestFacts
<1>5. Pushed(HasResult[f], v) \in Seq(Words) /\ Len(Pushed(HasResult[f], v)) = ResultWords(f)
  BY <1>3 DEF Pushed, ResultWords
<1>6. /\ ops' \in Seq(Words)
      /\ Len(ops') = Len(Popped(NParams[f])) + ResultWords(f)
      /\ ResultWords(f) \in Nat
  <2>1. ResultWords(f) \in Nat
    BY DEF ResultWords
  <2> HIDE DEF Pushed, ResultWords
  <2> QED
    BY <1>1, <1>4, <1>5, <2>1, ConcatProperties
<1>7. pc' = [fn |-> pc.fn, h |-> HeightAfter(f, 0) + ResultWords(f)]
  BY <1>1, TopFacts
<1>8. reg' \in [1..MaxParams -> Words]
  <2>1. ASSUME NEW k \in 1..MaxParams, k <= NParams[pc.fn] PROVE mem[sp + k] \in Words
    <3>1. /\ k \in Nat \ {0} /\ k <= NVars(pc.fn)
      BY <1>1, <2>1, TopFrame
    <3> QED
      BY <1>1, <1>2, <3>1, SlotFacts
  <2> QED
    BY <1>1, <1>3, <2>1, SizeFacts DEF Reloaded
<1>9. WordsTyped'
  <2>1. pc' \in [fn: Funcs \cup {HostFn}, h: Nat]
    <3>1. pc.fn \in Funcs /\ HeightAfter(f, 0) + ResultWords(f) \in Nat
      BY <1>1, <1>4, <1>6, TopFacts
    <3> QED
      BY <1>7, <3>1
  <2>2. stack' \in [Addr -> Words] /\ lr' = lr
    BY <1>1, <1>2
  <2> QED
    BY <1>1, <1>6, <1>8, <2>1, <2>2 DEF IInv, WordsTyped
<1>10. Len(ops') - Len(ops) = pc'.h - pc.h
  <2> DEFINE rest == Len(Popped(NParams[f]))
             base == acts[Depth].base
             h    == HeightAfter(f, 0)
             r    == ResultWords(f)
  <2>1. Len(ops) = base + pc.h /\ pc.h \in Nat /\ base \in Nat /\ pc'.h = h + r
    BY <1>1, <1>7, TopFacts
  <2>2. rest \in Nat /\ h \in Nat /\ rest - base = h
    BY <1>4
  <2>3. Len(ops') = rest + r /\ r \in Nat
    BY <1>6
  <2> HIDE DEF rest, base, h, r
  <2> QED
    BY <2>1, <2>2, <2>3
<1>11. /\ InJit /\ pc'.fn = pc.fn /\ sp' = sp /\ lr' = lr /\ acts' = acts
       /\ \A a \in Addr : a >= sp + FrameWords(pc.fn) => stack'[a] = stack[a]
  BY <1>1, <1>2, <1>7
<1> QED
  BY <1>9, <1>10, <1>11, LocalStepPreserves

\* RET to the wrapper, or to the code behind the caller's BLR.
LEMMA ReturnPreserves ==
  ASSUME ProgramFits, IInv, Return
  PROVE  IInv'
<1> DEFINE f     == pc.fn
           n     == Depth
           r0    == IF HasResult[f] THEN TopWord ELSE reg[1]
           rest  == Popped(ResultWords(f))
           after == sp + FrameWords(f)
<1>1. /\ InJit /\ pc.h = ResultWords(f) /\ ResultWords(f) \in Nat
  BY DEF Return, ProgramFits, ResultWords
<1>2. /\ n \in Nat /\ n > 0 /\ f \in Funcs /\ HasResult[f] \in BOOLEAN
      /\ acts \in Seq(Activations) /\ sp \in Addr /\ n = Len(acts)
      /\ acts[n].base \in Nat /\ Len(ops) = acts[n].base + pc.h
      /\ f = acts[n].fn /\ lr = CallPoint(acts, n)
      /\ after = CallerSp(acts, n)
      /\ after <= WrapperSp
  <2>1. /\ n \in Nat /\ n > 0 /\ f \in Funcs /\ sp \in Addr
        /\ acts[n].base \in Nat /\ Len(ops) = acts[n].base + pc.h
        /\ after <= WrapperSp /\ acts \in Seq(Activations)
    BY <1>1, TopFacts
  <2>2. HasResult[f] \in BOOLEAN
    BY <2>1, SignaturesAssumption DEF AllFuncs
  <2>3. n = Len(acts)
    BY DEF Depth
  <2>4. n \in 1..n
    BY <2>1
  <2>5. f = acts[n].fn /\ lr = CallPoint(acts, n)
    BY <1>1 DEF IInv, ReturnChain
  <2>6. after = CallerSp(acts, n)
    <3>1. sp = acts[n].sp /\ acts[n].sp + FrameWords(acts[n].fn) = CallerSp(acts, n)
      BY <1>1, <2>4 DEF IInv, FramesContiguous
    <3> QED
      BY <2>5, <3>1
  <2> QED
    BY <2>1, <2>2, <2>3, <2>5, <2>6
<1>3. after \in Addr
  BY <1>2, FrameWordsFacts, SizesAssumption DEF Addr, WrapperSp, TopSp
<1>4. r0 \in Words
  <2>1. CASE HasResult[f]
    <3>1. Len(ops) \in Nat /\ Len(ops) >= 1
      BY <1>1, <1>2, <2>1 DEF ResultWords
    <3> QED
      BY <2>1, <3>1 DEF TopWord, IInv, WordsTyped
  <2>2. CASE ~HasResult[f]
    BY <2>2, SizeFacts DEF IInv, WordsTyped
  <2> QED
    BY <2>1, <2>2
<1>5. rest \in Seq(Words) /\ Len(rest) = acts[n].base
  <2>1. ResultWords(f) <= Len(ops) /\ WordsTyped
    BY <1>1, <1>2 DEF IInv
  <2>2. rest \in Seq(Words) /\ Len(rest) = Len(ops) - ResultWords(f)
    BY <1>1, <2>1, PoppedFacts
  <2> HIDE DEF rest
  <2> QED
    BY <1>1, <1>2, <2>2
<1>6. Imm(FrameWords(f)) = FrameWords(f)
  BY <1>2, FitsImm
<1>7. stack' = stack
  BY DEF Return
<1>8. CASE lr = Host
  <2>1. /\ pc' = [fn |-> HostFn, h |-> 0] /\ sp' = after + 2 /\ lr' = stack[after]
        /\ reg' = [reg EXCEPT ![1] = r0] /\ ops' = rest /\ acts' = <<>>
        /\ outcome' = IF HasResult[f] THEN Outcome("value", r0) ELSE Outcome("void", Zero)
    BY <1>6, <1>8 DEF Return
  <2> HIDE DEF r0, rest, after
  <2>2. outcome' \in [kind: Kinds, val: Words]
    BY <1>4, <2>1, SizeFacts DEF Outcome, Kinds
  <2>3. WordsTyped'
    <3>1. sp' \in Int /\ lr' \in Words
      BY <1>3, <2>1, SizesAssumption DEF IInv, WordsTyped, Addr
    <3>2. reg' \in [1..MaxParams -> Words]
      BY <1>4, <2>1 DEF IInv, WordsTyped
    <3>4. acts' \in Seq([fn: Funcs, sp: Int, base: Nat])
      BY <2>1
    <3>3. pc' \in [fn: Funcs \cup {HostFn}, h: Nat]
      BY <2>1
    <3> QED
      BY <1>5, <1>7, <2>1, <2>2, <3>1, <3>2, <3>3, <3>4 DEF IInv, WordsTyped
  <2> QED
    BY <2>1, <2>3, IdlePreserves DEF InJit
<1>9. CASE lr # Host
  <2>1. n > 1
    BY <1>2, <1>9 DEF CallPoint
  <2>2. /\ lr.fn = acts[n - 1].fn /\ lr.h = acts[n].base - acts[n - 1].base
        /\ lr.res = HasResult[f]
        /\ after = acts[n - 1].sp
    BY <1>2, <2>1 DEF CallPoint, CallerSp
  <2>3. /\ pc' = [fn |-> lr.fn, h |-> lr.h + (IF lr.res THEN 1 ELSE 0)]
        /\ sp' = after /\ lr' = stack[after]
        /\ reg' = Reloaded(lr.fn, after, stack, r0, reg)
        /\ ops' = rest \o Pushed(lr.res, r0)
        /\ acts' = SubSeq(acts, 1, Len(acts) - 1)
        /\ outcome' = outcome
    BY <1>6, <1>9 DEF Return
  <2> HIDE DEF r0, rest, after
  <2>4. /\ acts' \in Seq(Activations) /\ Len(acts') = n - 1
        /\ \A i \in 1..(n - 1) : acts'[i] = acts[i]
    <3>1. \A i \in 1..(n - 1) : acts[i] \in Activations
      BY <1>2
    <3> QED
      BY <1>2, <2>1, <2>3, <3>1, SubSeqProperties
  <2>5. /\ n - 1 \in 1..n /\ n - 1 \in 1..(n - 1) /\ n \in 2..n /\ n \in 1..n
    BY <1>2, <2>1
  <2>6. /\ acts[n - 1] \in Activations /\ acts[n - 1].fn \in Funcs
        /\ acts[n - 1].base \in Nat /\ acts[n - 1].sp \in Int
    <3>1. acts[n - 1] \in Activations
      BY <1>2, <2>5
    <3> QED
      BY <3>1 DEF Activations
  <2>7. acts[n - 1].base <= acts[n].base
    BY <1>1, <2>5 DEF IInv, OperandsMatch
  <2>8. pc' = [fn |-> acts[n - 1].fn,
               h |-> acts[n].base - acts[n - 1].base + ResultWords(f)]
    BY <2>2, <2>3 DEF ResultWords
  <2>9. pc'.h \in Nat /\ pc' \in [fn: Funcs \cup {HostFn}, h: Nat]
    BY <1>1, <1>2, <2>6, <2>7, <2>8
  <2>10. ops' \in Seq(Words) /\ Len(ops') = acts[n].base + ResultWords(f)
    <3> DEFINE result == Pushed(HasResult[f], r0)
    <3>1. result \in Seq(Words) /\ Len(result) = ResultWords(f)
      BY <1>4 DEF Pushed, ResultWords
    <3>2. ops' = rest \o result
      BY <2>2, <2>3
    <3> HIDE DEF result
    <3>3. rest \o result \in Seq(Words) /\ Len(rest \o result) = Len(rest) + Len(result)
      BY <1>5, <3>1, ConcatProperties
    <3> QED
      BY <1>5, <3>1, <3>2, <3>3
  <2>11. reg' \in [1..MaxParams -> Words]
    <3>1. ASSUME NEW k \in 1..MaxParams, k <= NParams[acts[n - 1].fn]
          PROVE  stack[after + k] \in Words
      <4>1. /\ after \in Nat /\ after > 0 /\ k \in Nat
            /\ k < FrameWords(acts[n - 1].fn) /\ FrameWords(acts[n - 1].fn) \in Nat
        BY <1>3, <2>6, <3>1, FrameWordsFacts, SizeFacts DEF Addr
      <4>2. after + FrameWords(acts[n - 1].fn) <= WrapperSp
        BY <1>2, <2>2, <2>5 DEF IInv, BelowWrapper
      <4>3. after + k \in Addr
        BY <4>1, <4>2, SizesAssumption DEF Addr, WrapperSp, TopSp
      <4> QED
        BY <4>3 DEF IInv, WordsTyped
    <3> QED
      BY <1>4, <2>2, <2>3, <3>1 DEF Reloaded, IInv, WordsTyped
  <2>12. WordsTyped'
    <3>1. sp' \in Int /\ lr' \in Words
      BY <1>3, <2>3, SizesAssumption DEF IInv, WordsTyped, Addr
    <3> QED
      BY <1>7, <2>3, <2>4, <2>9, <2>10, <2>11, <3>1 DEF IInv, WordsTyped, Activations
  <2>13. InJit' /\ pc'.fn = acts'[n - 1].fn
    BY <2>4, <2>5, <2>6, <2>8, SignaturesAssumption DEF InJit, AllFuncs
  <2>14. \A i \in 1..(n - 1) : /\ CallPoint(acts', i) = CallPoint(acts, i)
                              /\ CallerSp(acts', i) = CallerSp(acts, i)
    <3> TAKE i \in 1..(n - 1)
    <3>1. acts'[i] = acts[i] /\ (i # 1 => acts'[i - 1] = acts[i - 1])
      BY <1>2, <2>4
    <3> QED
      BY <3>1 DEF CallPoint, CallerSp
  <2>15. FramesContiguous'
    <3>1. sp' = acts'[n - 1].sp
      BY <2>2, <2>3, <2>4, <2>5
    <3>2. \A i \in 1..(n - 1) :
            /\ acts'[i].sp > 0
            /\ acts'[i].sp + FrameWords(acts'[i].fn) = CallerSp(acts', i)
      BY <1>1, <1>2, <2>4, <2>14 DEF IInv, FramesContiguous
    <3> QED
      BY <1>2, <2>1, <2>4, <3>1, <3>2 DEF FramesContiguous, Depth
  <2>16. ReturnChain'
    <3>1. lr' = CallPoint(acts', n - 1)
      BY <1>1, <2>2, <2>3, <2>5, <2>14 DEF IInv, ReturnChain
    <3>2. \A i \in 1..(n - 1) : stack'[acts'[i].sp] = CallPoint(acts', i)
      BY <1>1, <1>7, <2>4, <2>14 DEF IInv, ReturnChain
    <3>3. stack'[WrapperSp] = Host
      BY <1>1, <1>7 DEF IInv, ReturnChain
    <3> QED
      BY <1>2, <2>1, <2>4, <2>13, <3>1, <3>2, <3>3 DEF ReturnChain, Depth
  <2>17. OperandsMatch'
    <3>1. Len(ops') = acts'[n - 1].base + pc'.h
      BY <1>1, <1>2, <2>4, <2>5, <2>6, <2>8, <2>10
    <3>2. acts'[1].base = 0
      <4>1. acts'[1] = acts[1]
        BY <1>2, <2>1, <2>4
      <4> QED
        BY <1>1, <4>1 DEF IInv, OperandsMatch
    <3>3. ASSUME NEW i \in 2..(n - 1) PROVE acts'[i - 1].base <= acts'[i].base
      <4>1. acts'[i - 1] = acts[i - 1] /\ acts'[i] = acts[i] /\ i \in 2..n
        BY <1>2, <2>4
      <4> QED
        BY <1>1, <4>1 DEF IInv, OperandsMatch
    <3> QED
      BY <2>4, <3>1, <3>2, <3>3 DEF OperandsMatch, Depth
  <2>18. Ordered(acts') /\ BelowWrapper(acts')
    <3>1. \A i \in 1..(n - 1) : i \in 1..Len(acts)
      BY <1>2
    <3> QED
      BY <2>4, <3>1 DEF IInv, Ordered, BelowWrapper
  <2> QED
    BY <2>12, <2>15, <2>16, <2>17, <2>18 DEF IInv
<1> QED
  BY <1>8, <1>9

LEMMA InitEstablishes ==
  Init => IInv
<1> SUFFICES ASSUME Init PROVE IInv
  OBVIOUS
<1>1. WordsTyped
  <2>1. outcome \in [kind: Kinds, val: Words]
    BY SizeFacts DEF Init, Outcome, Kinds
  <2>2. sp \in Int /\ lr \in Words /\ pc \in [fn: Funcs \cup {HostFn}, h: Nat]
    BY SizeFacts DEF Init
  <2>3. reg \in [1..MaxParams -> Words] /\ stack \in [Addr -> Words]
    BY SizeFacts DEF Init
  <2>4. ops \in Seq(Words) /\ acts \in Seq([fn: Funcs, sp: Int, base: Nat])
    BY DEF Init
  <2> QED
    BY <2>1, <2>2, <2>3, <2>4 DEF WordsTyped
<1>2. ~InJit /\ acts = <<>>
  BY DEF Init, InJit
<1> QED
  BY <1>1, <1>2
     DEF IInv, FramesContiguous, ReturnChain, OperandsMatch, Ordered, BelowWrapper

\* Every instruction, call, return and trap preserves the invariant.
LEMMA NextPreserves ==
  ProgramFits /\ IInv /\ [Next]_vars => IInv'
<1> SUFFICES ASSUME ProgramFits, IInv, [Next]_vars PROVE IInv'
  OBVIOUS
<1>1. ASSUME NEW f \in Funcs, NEW args \in [1..NParams[f] -> Values], Invoke(f, args)
      PROVE  IInv'
  BY <1>1, InvokePreserves
<1>2. ASSUME NEW v \in Values, Const(v) PROVE IInv'
  BY <1>2, ConstPreserves DEF Const, Words
<1>3. ASSUME Drop PROVE IInv'
  BY <1>3, DropPreserves
<1>4. ASSUME NEW k \in 1..GuardWords, LocalGet(k) PROVE IInv'
  BY <1>4, LocalGetPreserves
<1>5. ASSUME NEW k \in 1..GuardWords, NEW tee \in BOOLEAN, LocalSet(k, tee) PROVE IInv'
  BY <1>5, LocalSetPreserves
<1>6. ASSUME NEW f \in Funcs, Call(f) PROVE IInv'
  BY <1>6, CallPreserves
<1>7. ASSUME NEW f \in Funcs, CallIndirect(Signature(f)) PROVE IInv'
  BY <1>7, CallIndirectPreserves
<1>8. ASSUME NEW f \in Imports, NEW v \in Values, CallImport(f, v) PROVE IInv'
  BY <1>8, CallImportPreserves
<1>9. ASSUME Return PROVE IInv'
  BY <1>9, ReturnPreserves
<1>10. ASSUME UNCHANGED vars PROVE IInv'
  BY <1>10 DEF vars, IInv, WordsTyped, FramesContiguous, ReturnChain, OperandsMatch,
              InJit, Depth, Ordered, BelowWrapper
<1> QED
  BY <1>1, <1>2, <1>3, <1>4, <1>5, <1>6, <1>7, <1>8, <1>9, <1>10 DEF Next

THEOREM Invariance == ProgramFits => (Spec => []IInv)
<1> SUFFICES ASSUME ProgramFits PROVE Spec => []IInv
  OBVIOUS
<1>1. Init => IInv
  BY InitEstablishes
<1>2. IInv /\ [Next]_vars => IInv'
  BY NextPreserves
<1> QED
  BY <1>1, <1>2, PTL DEF Spec

\* Values and code addresses apart: in the locals of the frames of s, in the
\* parameter registers of f, and everywhere.
HoldValues(s, mem) ==
  \A i \in 1..Len(s) : \A k \in 1..NVars(s[i].fn) : mem[s[i].sp + k] \in Values
Regs == [1..MaxParams -> Values \cup {Stale}]
ParamsHold(f, regs) == \A k \in 1..NParams[f] : regs[k] \in Values

Separated ==
  /\ lr \in CodeAddress
  /\ reg \in Regs
  /\ InJit => ParamsHold(pc.fn, reg)
  /\ HoldValues(acts, stack)
  /\ ops \in Seq(Values)
  /\ outcome \in [kind: Kinds, val: Values]

\* The locals of a waiting activation lie above the frame of the one
\* executing, those of the latter in its own frame.
LEMMA FrameSlots ==
  ASSUME IInv, InJit, NEW i \in 1..Depth, NEW k \in 1..NVars(acts[i].fn)
  PROVE  /\ acts[i].sp + k \in Addr
         /\ i # Depth => acts[i].sp + k >= sp + FrameWords(pc.fn)
         /\ i = Depth => acts[i].sp = sp /\ acts[i].fn = pc.fn
<1>1. /\ acts[i].fn \in Funcs /\ acts[i].sp \in Addr
      /\ Depth \in Nat /\ i \in Nat
  <2>1. acts \in Seq(Activations) /\ acts[i].sp \in Addr /\ Depth \in Nat
    BY TopFacts
  <2>2. acts[i] \in Activations
    BY <2>1 DEF Depth
  <2> QED
    BY <2>1, <2>2 DEF Activations
<1>2. /\ FrameWords(acts[i].fn) \in Nat /\ NVars(acts[i].fn) \in Nat
      /\ NVars(acts[i].fn) < FrameWords(acts[i].fn)
  BY <1>1, FrameWordsFacts
<1>3. acts[i].sp + FrameWords(acts[i].fn) <= WrapperSp
  BY DEF IInv, BelowWrapper, Depth
<1>4. acts[i].sp + k \in Addr
  BY <1>1, <1>2, <1>3, SizesAssumption DEF Addr, WrapperSp, TopSp
<1>5. i # Depth => sp + FrameWords(pc.fn) <= acts[i].sp
  <2>1. i # Depth => i \in 1..(Depth - 1)
    BY <1>1
  <2> QED
    BY <2>1, TopFacts
<1>6. sp + FrameWords(pc.fn) \in Int
  BY TopFrame
<1>7. i # Depth => acts[i].sp + k >= sp + FrameWords(pc.fn)
  BY <1>1, <1>2, <1>5, <1>6 DEF Addr
<1>8. i = Depth => acts[i].sp = sp /\ acts[i].fn = pc.fn
  BY DEF IInv, FramesContiguous, ReturnChain
<1> QED
  BY <1>4, <1>7, <1>8

\* Entering a body: its locals start at zero, the callers' words stay.
LEMMA EnterSeparates ==
  ASSUME ProgramFits,
         NEW f \in Funcs, NEW at \in Int, NEW mem \in [Addr -> Words],
         NEW rest \in Seq(Values), NEW ra \in CodeAddress,
         NEW before \in Seq(Activations),
         reg' \in Regs, ParamsHold(f, reg'),
         at > 0, at <= WrapperSp, BelowWrapper(before),
         \A i \in 1..Len(before) : at <= before[i].sp,
         HoldValues(before, mem),
         EnterBody(f, at, mem, rest, ra, before)
  PROVE  Separated'
<1>1. lr' = ra /\ ops' = rest
  BY DEF EnterBody
<1>2. CASE Overflows(at, f) /\ Trap("Stack_overflow") /\ stack' = mem
  <2>1. ~InJit' /\ acts' = <<>>
    BY <1>2 DEF Trap, InJit
  <2>2. outcome' \in [kind: Kinds, val: Values]
    BY <1>2, ValuesAssumption DEF Trap, Outcome, Kinds
  <2>3. HoldValues(acts', stack')
    BY <2>1 DEF HoldValues
  <2> QED
    BY <1>1, <2>1, <2>2, <2>3 DEF Separated
<1>3. CASE /\ ~Overflows(at, f)
           /\ pc' = [fn |-> f, h |-> 0]
           /\ sp' = LoweredSp(at, f)
           /\ stack' = Cleaned(mem, f, sp')
           /\ acts' = Append(before, Callee(f, sp', Len(rest)))
           /\ outcome' = Outcome("running", Zero)
  <2> DEFINE n == Len(before)
  <2>1. /\ sp' = at - FrameWords(f) /\ sp' \in Int /\ sp' > 0
        /\ FrameWords(f) \in Nat /\ NVars(f) \in Nat /\ NVars(f) < FrameWords(f)
    BY <1>3, FitsImm, FrameWordsFacts DEF Overflows, LoweredSp
  <2>2. /\ n \in Nat /\ Len(acts') = n + 1
        /\ acts'[n + 1] = Callee(f, sp', Len(rest))
        /\ \A i \in 1..n : acts'[i] = before[i]
    BY <1>3 DEF Callee, Activations
  <2>3. ASSUME NEW k \in 1..NVars(f) PROVE stack'[sp' + k] \in Values
    <3>1. sp' + k \in Addr /\ sp' + k >= sp' /\ sp' + k < sp' + FrameWords(f)
      BY <2>1, SizesAssumption DEF Addr, WrapperSp, TopSp
    <3> QED
      BY <1>3, <3>1, ValuesAssumption DEF Cleaned
  <2>4. ASSUME NEW i \in 1..n, NEW k \in 1..NVars(before[i].fn)
        PROVE  stack'[before[i].sp + k] \in Values
    <3>1. before[i].fn \in Funcs /\ before[i].sp \in Int
      <4>1. before[i] \in Activations
        OBVIOUS
      <4> QED
        BY <4>1 DEF Activations
    <3>2. /\ FrameWords(before[i].fn) \in Nat /\ NVars(before[i].fn) \in Nat
          /\ NVars(before[i].fn) < FrameWords(before[i].fn)
      BY <3>1, FrameWordsFacts
    <3>3. /\ before[i].sp + FrameWords(before[i].fn) <= WrapperSp
          /\ at <= before[i].sp
      BY DEF BelowWrapper
    <3>4. before[i].sp + k \in Addr /\ before[i].sp + k >= sp' + FrameWords(f)
      <4> DEFINE b == before[i].sp
                 w == FrameWords(before[i].fn)
                 v == NVars(before[i].fn)
      <4>1. /\ b \in Int /\ w \in Nat /\ v \in Nat /\ v < w /\ k \in 1..v
            /\ b + w <= WrapperSp /\ at <= b
        BY <3>1, <3>2, <3>3
      <4> HIDE DEF b, w, v
      <4>2. b + k \in Nat /\ b + k >= at /\ b + k <= WrapperSp /\ b + k > 0
        BY <4>1, SizeFacts
      <4>3. b + k \in Addr
        BY <4>2, SizesAssumption DEF Addr, WrapperSp, TopSp
      <4>4. at = sp' + FrameWords(f)
        BY <2>1
      <4> QED
        BY <4>2, <4>3, <4>4 DEF b
    <3>5. ~(before[i].sp + k < sp' + FrameWords(f))
      BY <2>1, <3>4 DEF Addr
    <3>6. stack'[before[i].sp + k] = mem[before[i].sp + k]
      BY <1>3, <3>4, <3>5 DEF Cleaned
    <3> QED
      BY <3>6 DEF HoldValues
  <2>5. HoldValues(acts', stack')
    <3> SUFFICES ASSUME NEW i \in 1..(n + 1), NEW k \in 1..NVars(acts'[i].fn)
                 PROVE  stack'[acts'[i].sp + k] \in Values
      BY <2>2 DEF HoldValues
    <3>1. CASE i = n + 1
      BY <3>1, <2>2, <2>3 DEF Callee
    <3>2. CASE i \in 1..n
      BY <3>2, <2>2, <2>4
    <3> QED
      BY <3>1, <3>2, <2>2
  <2>6. outcome' \in [kind: Kinds, val: Values]
    BY <1>3, ValuesAssumption DEF Outcome, Kinds
  <2> QED
    BY <1>1, <1>3, <2>5, <2>6 DEF Separated
<1> QED
  BY <1>2, <1>3 DEF EnterBody

LEMMA InvokeSeparates ==
  ASSUME ProgramFits, IInv, NEW f \in Funcs,
         NEW args \in [1..NParams[f] -> Values], Invoke(f, args)
  PROVE  Separated'
<1> DEFINE mem == [stack EXCEPT ![WrapperSp] = Host]
<1>1. mem \in [Addr -> Words]
  BY SizeFacts DEF IInv, WordsTyped
<1>2. NParams[f] \in Nat /\ NParams[f] <= MaxParams
  BY FrameWordsFacts, SizeFacts
<1>3. reg' \in Regs /\ ParamsHold(f, reg')
  <2>1. ASSUME NEW k \in 1..MaxParams, k <= NParams[f] PROVE args[k] \in Values
    BY <1>2, <2>1, SizeFacts
  <2>2. reg' = [k \in 1..MaxParams |-> IF k <= NParams[f] THEN args[k] ELSE Stale]
    BY DEF Invoke
  <2>3. \A k \in 1..NParams[f] : k \in 1..MaxParams /\ k <= NParams[f]
    BY <1>2, SizeFacts
  <2> QED
    BY <2>1, <2>2, <2>3 DEF Regs, ParamsHold
<1> DEFINE none == <<>>
<1>4. /\ none \in Seq(Activations) /\ none \in Seq(Values)
      /\ BelowWrapper(none) /\ HoldValues(none, mem)
      /\ \A i \in 1..Len(none) : WrapperSp <= none[i].sp
  BY DEF BelowWrapper, HoldValues
<1>5. EnterBody(f, WrapperSp, mem, none, Host, none)
  BY DEF Invoke
<1>6. WrapperSp \in Int /\ WrapperSp > 0 /\ WrapperSp <= WrapperSp /\ Host \in CodeAddress
  BY SizeFacts
<1> HIDE DEF mem, none
<1> QED
  BY <1>1, <1>3, <1>4, <1>5, <1>6, EnterSeparates

LEMMA ConstSeparates ==
  ASSUME IInv, Separated, NEW w \in Values, InJit, Push(w),
         UNCHANGED <<sp, lr, reg, stack, outcome, acts>>
  PROVE  Separated'
<1>1. ops' \in Seq(Values)
  BY DEF Separated, Push
<1>2. pc'.fn = pc.fn
  BY TopFacts DEF Push
<1> QED
  BY <1>1, <1>2 DEF Separated, InJit

LEMMA PoppedValues ==
  ASSUME IInv, Separated, NEW n \in Nat, n <= Len(ops)
  PROVE  Popped(n) \in Seq(Values)
<1>1. ops \in Seq(Values)
  BY DEF Separated
<1> QED
  BY <1>1, SubSeqProperties DEF Popped

LEMMA TopWordValue ==
  ASSUME IInv, Separated, InJit, pc.h >= 1
  PROVE  TopWord \in Values /\ Len(ops) >= 1 /\ 1 <= Len(ops)
<1>1. Len(ops) \in Nat /\ Len(ops) >= 1
  BY TopFacts
<1>2. ops \in Seq(Values)
  BY DEF Separated
<1> QED
  BY <1>1, <1>2 DEF TopWord

LEMMA DropSeparates ==
  ASSUME IInv, Separated, Drop
  PROVE  Separated'
<1>1. InJit /\ pc.h >= 1
  BY DEF Drop
<1>2. ops' \in Seq(Values)
  BY <1>1, TopWordValue, PoppedValues DEF Drop
<1>3. pc'.fn = pc.fn
  BY <1>1, TopFacts DEF Drop
<1> QED
  BY <1>2, <1>3 DEF Separated, InJit, Drop

\* A local of the function executing holds a value.
LEMMA LocalValue ==
  ASSUME IInv, Separated, InJit, NEW k \in Nat \ {0}, k <= NVars(pc.fn)
  PROVE  /\ ~IsParam(k) => stack[sp + k] \in Values
         /\ IsParam(k) => reg[k] \in Values
<1>1. Depth \in Nat /\ Depth > 0 /\ Depth \in 1..Depth
  BY TopFacts
<1>2. acts[Depth].sp = sp /\ acts[Depth].fn = pc.fn
  BY DEF IInv, FramesContiguous, ReturnChain
<1>3. NVars(pc.fn) \in Nat /\ NParams[pc.fn] \in Nat
  BY TopFrame
<1>4. k \in 1..NVars(acts[Depth].fn)
  BY <1>2, <1>3
<1>5. stack[acts[Depth].sp + k] \in Values
  BY <1>1, <1>4 DEF Separated, HoldValues, Depth
<1> QED
  BY <1>2, <1>3, <1>5 DEF Separated, ParamsHold, IsParam

LEMMA LocalGetSeparates ==
  ASSUME IInv, Separated, NEW k \in 1..GuardWords, LocalGet(k)
  PROVE  Separated'
<1>1. InJit /\ k <= NVars(pc.fn) /\ k \in Nat \ {0}
  BY SizesAssumption DEF LocalGet
<1>2. (IF IsParam(k) THEN reg[k] ELSE stack[sp + k]) \in Values
  BY <1>1, LocalValue
<1> QED
  BY <1>1, <1>2, ConstSeparates DEF LocalGet

LEMMA LocalSetSeparates ==
  ASSUME IInv, Separated, NEW k \in 1..GuardWords, NEW tee \in BOOLEAN, LocalSet(k, tee)
  PROVE  Separated'
<1>1. InJit /\ k <= NVars(pc.fn) /\ k \in Nat \ {0} /\ pc.h >= 1
  BY SizesAssumption DEF LocalSet
<1>2. TopWord \in Values /\ 1 <= Len(ops)
  BY <1>1, TopWordValue
<1>3. pc'.fn = pc.fn /\ ops' \in Seq(Values) /\ UNCHANGED <<sp, lr, outcome, acts>>
  <2>1. CASE tee
    BY <2>1 DEF LocalSet, Separated
  <2>2. CASE ~tee
    <3>1. ops' = Popped(1) /\ pc'.fn = pc.fn
      BY <2>2, <1>1, TopFacts DEF LocalSet
    <3> QED
      BY <3>1, <1>2, PoppedValues DEF LocalSet
  <2> QED
    BY <2>1, <2>2
<1>4. /\ reg' \in Regs /\ ParamsHold(pc.fn, reg')
      /\ HoldValues(acts, stack')
  <2>1. CASE IsParam(k)
    <3>1. reg' = [reg EXCEPT ![k] = TopWord] /\ stack' = stack
      BY <2>1 DEF LocalSet
    <3>2. \A j \in 1..NParams[pc.fn] : j \in 1..MaxParams
      BY <1>1, TopFrame
    <3> QED
      BY <1>1, <1>2, <3>1, <3>2 DEF Separated, ParamsHold, Regs
  <2>2. CASE ~IsParam(k)
    <3>1. stack' = [stack EXCEPT ![sp + k] = TopWord] /\ reg' = reg
      BY <2>2 DEF LocalSet
    <3>2. stack \in [Addr -> Words]
      BY DEF IInv, WordsTyped
    <3>3. ASSUME NEW i \in 1..Depth, NEW j \in 1..NVars(acts[i].fn)
          PROVE  stack'[acts[i].sp + j] \in Values
      <4>1. acts[i].sp + j \in Addr
        BY <1>1, FrameSlots
      <4>2. stack[acts[i].sp + j] \in Values
        BY DEF Separated, HoldValues, Depth
      <4> QED
        BY <1>2, <3>1, <3>2, <4>1, <4>2
    <3> QED
      BY <1>1, <3>1, <3>3 DEF Separated, HoldValues, Depth
  <2> QED
    BY <2>1, <2>2
<1> QED
  BY <1>1, <1>3, <1>4 DEF Separated, InJit

\* Saving LR and the parameters leaves values in every frame.
LEMMA SavedHold ==
  ASSUME IInv, Separated, InJit, NEW mem \in {WithParams, stack}
  PROVE  HoldValues(acts, WithLr(mem))
<1> SUFFICES ASSUME NEW i \in 1..Depth, NEW k \in 1..NVars(acts[i].fn)
             PROVE  WithLr(mem)[acts[i].sp + k] \in Values
  BY DEF HoldValues, Depth
<1> DEFINE a == acts[i].sp + k
<1>1. /\ a \in Addr /\ (i # Depth => a >= sp + FrameWords(pc.fn))
      /\ (i = Depth => a = sp + k /\ acts[i].fn = pc.fn)
  BY FrameSlots
<1>2. stack[a] \in Values
  BY DEF Separated, HoldValues, Depth
<1>3. /\ sp \in Nat /\ sp \in Addr /\ FrameWords(pc.fn) \in Nat
      /\ NVars(pc.fn) \in Nat /\ NVars(pc.fn) < FrameWords(pc.fn)
      /\ NParams[pc.fn] \in Nat /\ NParams[pc.fn] <= NVars(pc.fn)
  BY TopFrame
<1>4. /\ stack \in [Addr -> Words]
  BY DEF IInv, WordsTyped
<1>5. \A j \in 1..NParams[pc.fn] : reg[j] \in Values
  BY DEF Separated, ParamsHold
<1> HIDE DEF a
<1>6. CASE i # Depth
  <2>1. \A b \in Addr : b >= sp + FrameWords(pc.fn) => WithLr(mem)[b] = stack[b]
    BY SavedFacts
  <2> QED
    BY <1>1, <1>2, <1>6, <2>1 DEF a
<1>7. CASE i = Depth
  <2>1. a = sp + k /\ k \in 1..NVars(pc.fn) /\ a # sp /\ k \in Nat /\ k > 0
    BY <1>1, <1>3, <1>7
  <2>2. WithParams[a] \in Values
    <3>1. CASE a <= sp + NParams[pc.fn]
      <4>1. a - sp \in 1..NParams[pc.fn] /\ a > sp
        BY <2>1, <3>1, <1>3
      <4> QED
        BY <1>1, <1>5, <3>1, <4>1 DEF WithParams
    <3>2. CASE ~(a <= sp + NParams[pc.fn])
      BY <1>1, <1>2, <3>2 DEF WithParams
    <3> QED
      BY <3>1, <3>2
  <2>3. mem[a] \in Values
    BY <1>2, <2>2
  <2>4. WithLr(mem)[a] = mem[a]
    <3>1. DOMAIN mem = Addr
      BY <1>4 DEF WithParams
    <3>2. WithLr(mem) = [mem EXCEPT ![sp] = lr]
      BY DEF WithLr
    <3> QED
      BY <1>1, <2>1, <3>1, <3>2
  <2> QED
    BY <2>3, <2>4 DEF a
<1> QED
  BY <1>6, <1>7 DEF a

\* The arguments of a call are values.
LEMMA ArgsValues ==
  ASSUME IInv, Separated, InJit, NEW f \in AllFuncs, NEW popped \in 0..1,
         CanCall(f, popped)
  PROVE  /\ ArgsInRegs(f, popped) \in Regs
         /\ ParamsHold(f, ArgsInRegs(f, popped))
         /\ Popped(popped + NParams[f]) \in Seq(Values)
<1>1. NParams[f] \in 0..MaxParams /\ NParams[f] \in Nat /\ pc.h \in Nat
      /\ Len(ops) \in Nat /\ Len(ops) >= pc.h /\ popped \in Nat
  <2>1. pc.h \in Nat /\ Len(ops) \in Nat /\ Len(ops) >= pc.h
    BY TopFacts
  <2>2. NParams[f] \in 0..MaxParams /\ NParams[f] \in Nat
    BY SignaturesAssumption
  <2> QED
    BY <2>1, <2>2
<1>2. NParams[f] + popped <= pc.h
  BY ArgsFacts
<1>3. ASSUME NEW k \in 1..MaxParams, k <= NParams[f]
      PROVE  ops[Len(ops) - popped - NParams[f] + k] \in Values
  <2>1. Len(ops) - popped - NParams[f] + k \in 1..Len(ops)
    <3>1. k \in Nat /\ k > 0
      BY SizeFacts
    <3> QED
      BY <1>1, <1>2, <1>3, <3>1
  <2>2. ops \in Seq(Values)
    BY DEF Separated
  <2> QED
    BY <2>1, <2>2
<1>4. ArgsInRegs(f, popped) \in Regs
  BY <1>3 DEF ArgsInRegs, Regs, Separated
<1>5. ParamsHold(f, ArgsInRegs(f, popped))
  <2>1. \A k \in 1..NParams[f] : k \in 1..MaxParams /\ k <= NParams[f]
    BY <1>1, SizeFacts
  <2> QED
    BY <1>3, <2>1 DEF ArgsInRegs, ParamsHold
<1>6. Popped(popped + NParams[f]) \in Seq(Values)
  <2> DEFINE n == popped + NParams[f]
  <2>1. n \in Nat /\ n <= Len(ops)
    BY <1>1, <1>2
  <2> HIDE DEF n
  <2>2. Popped(n) \in Seq(Values)
    BY <2>1, PoppedValues
  <2> QED
    BY <2>2 DEF n
<1> QED
  BY <1>4, <1>5, <1>6

LEMMA BodyCallSeparates ==
  ASSUME ProgramFits, IInv, Separated, InJit, NEW f \in Funcs, NEW popped \in 0..1,
         CanCall(f, popped), NEW mem \in {WithParams, stack},
         reg' = ArgsInRegs(f, popped),
         EnterBody(f, sp, WithLr(mem), Popped(popped + NParams[f]),
                   Continue(f, popped), acts)
  PROVE  Separated'
<1> DEFINE saved == WithLr(mem)
           rest  == Popped(popped + NParams[f])
           ra    == Continue(f, popped)
<1>1. f \in AllFuncs /\ HasResult[f] \in BOOLEAN
  BY SignaturesAssumption DEF AllFuncs
<1>2. saved \in [Addr -> Words] /\ HoldValues(acts, saved)
  BY SavedFacts, SavedHold
<1>3. rest \in Seq(Values) /\ reg' \in Regs /\ ParamsHold(f, reg')
  BY <1>1, ArgsValues
<1>4. ra \in CodeAddress
  <2>1. HeightAfter(f, popped) \in Nat /\ pc.fn \in Funcs
    BY <1>1, RestFacts, TopFacts
  <2> QED
    BY <1>1, <2>1 DEF Continue, CodeAddress
<1>5. EnterBody(f, sp, saved, rest, ra, acts)
  OBVIOUS
<1> HIDE DEF saved, rest, ra
<1>6. /\ acts \in Seq(Activations) /\ sp \in Int /\ sp > 0 /\ sp <= WrapperSp
      /\ \A i \in 1..Len(acts) : sp <= acts[i].sp
  <2>1. /\ acts \in Seq(Activations) /\ sp > 0
        /\ \A i \in 1..Len(acts) : sp <= acts[i].sp
    BY TopFacts DEF Depth
  <2>2. sp \in Nat /\ FrameWords(pc.fn) \in Nat /\ sp + FrameWords(pc.fn) <= WrapperSp
    BY TopFrame
  <2> QED
    BY <2>1, <2>2, SizeFacts
<1>7. BelowWrapper(acts)
  BY DEF IInv
<1> QED
  BY <1>2, <1>3, <1>4, <1>5, <1>6, <1>7, EnterSeparates

LEMMA CallSeparates ==
  ASSUME ProgramFits, IInv, Separated, NEW f \in Funcs, Call(f)
  PROVE  Separated'
<1>1. 0 + NParams[f] = NParams[f]
  BY SignaturesAssumption DEF AllFuncs
<1>2. /\ CanCall(f, 0) /\ InJit /\ reg' = ArgsInRegs(f, 0)
      /\ EnterBody(f, sp, WithLr(WithParams), Popped(0 + NParams[f]), Continue(f, 0), acts)
  BY <1>1 DEF Call, CanCall
<1> QED
  BY <1>2, BodyCallSeparates

LEMMA CallIndirectSeparates ==
  ASSUME ProgramFits, IInv, Separated, NEW g \in Funcs, CallIndirect(Signature(g))
  PROVE  Separated'
<1>1. CASE \E code \in Kinds : Trap(code) /\ UNCHANGED <<lr, reg, stack, ops>>
  <2>1. outcome' \in [kind: Kinds, val: Values] /\ ~InJit' /\ acts' = <<>>
    BY <1>1, ValuesAssumption DEF Trap, Outcome, InJit
  <2>2. HoldValues(acts', stack')
    BY <2>1 DEF HoldValues
  <2> QED
    BY <1>1, <2>1, <2>2 DEF Separated
<1>2. CASE /\ TopWord \in DOMAIN Table
           /\ Signature(Table[TopWord]) = Signature(g)
           /\ CanCall(Table[TopWord], 1)
           /\ reg' = ArgsInRegs(Table[TopWord], 1)
           /\ EnterBody(Table[TopWord], sp, WithLr(stack), Popped(1 + Signature(g)[1]),
                        Continue(Table[TopWord], 1), acts)
  <2>1. PICK f \in Funcs : f = Table[TopWord]
    BY <1>2, ValuesAssumption
  <2>2. Signature(g)[1] = NParams[f]
    BY <1>2, <2>1 DEF Signature
  <2>3. InJit
    BY <1>2 DEF CanCall
  <2> QED
    BY <1>2, <2>1, <2>2, <2>3, BodyCallSeparates
<1> QED
  BY <1>1, <1>2 DEF CallIndirect, Kinds

\* A caller's parameters come back into the registers from its frame.
LEMMA ReloadedValues ==
  ASSUME NEW f \in Funcs, NEW at, NEW mem, NEW r0 \in Values \cup {Stale},
         NEW regs \in Regs,
         \A k \in 1..NVars(f) : mem[at + k] \in Values
  PROVE  /\ Reloaded(f, at, mem, r0, regs) \in Regs
         /\ ParamsHold(f, Reloaded(f, at, mem, r0, regs))
<1>1. /\ NParams[f] \in Nat /\ NParams[f] <= MaxParams /\ MaxParams \in Nat
      /\ NParams[f] <= NVars(f) /\ NVars(f) \in Nat
  BY FrameWordsFacts, SizeFacts
<1>2. ASSUME NEW k \in 1..MaxParams, k <= NParams[f] PROVE mem[at + k] \in Values
  BY <1>1, <1>2
<1> QED
  BY <1>1, <1>2 DEF Reloaded, Regs, ParamsHold

LEMMA CallImportSeparates ==
  ASSUME IInv, Separated, NEW f \in Imports, NEW v \in Values, CallImport(f, v)
  PROVE  Separated'
<1> DEFINE mem == WithLr(WithParams)
<1>1. /\ InJit /\ CanCall(f, 0) /\ stack' = mem /\ lr' = mem[sp]
      /\ ops' = Popped(NParams[f]) \o Pushed(HasResult[f], v)
      /\ pc' = [pc EXCEPT !.h = HeightAfter(f, 0) + ResultWords(f)]
      /\ reg' = Reloaded(pc.fn, sp, mem, v, [k \in 1..MaxParams |-> Stale])
      /\ UNCHANGED <<sp, outcome, acts>>
  BY DEF CallImport, CanCall
<1>2. mem[sp] = lr /\ HoldValues(acts, mem)
  BY <1>1, SavedFacts, SavedHold
<1> HIDE DEF mem
<1>3. f \in AllFuncs /\ 0 + NParams[f] = NParams[f] /\ pc.fn \in Funcs
  BY <1>1, TopFacts, SignaturesAssumption DEF AllFuncs
<1>4. Popped(NParams[f]) \in Seq(Values)
  BY <1>1, <1>3, ArgsValues
<1>5. Pushed(HasResult[f], v) \in Seq(Values)
  BY DEF Pushed
<1>6. ops' \in Seq(Values)
  BY <1>1, <1>4, <1>5, ConcatProperties
<1>7. \A k \in 1..NVars(pc.fn) : mem[sp + k] \in Values
  <2>1. Depth \in Nat /\ Depth > 0 /\ Depth \in 1..Depth
    BY <1>1, TopFacts
  <2>2. acts[Depth].sp = sp /\ acts[Depth].fn = pc.fn
    BY <1>1 DEF IInv, FramesContiguous, ReturnChain
  <2> QED
    BY <1>2, <2>1, <2>2 DEF HoldValues, Depth
<1>8. reg' \in Regs /\ ParamsHold(pc.fn, reg')
  <2>1. [k \in 1..MaxParams |-> Stale] \in Regs
    BY DEF Regs
  <2> QED
    BY <1>1, <1>3, <1>7, <2>1, ReloadedValues
<1>9. pc'.fn = pc.fn
  BY <1>1, TopFacts
<1> QED
  BY <1>1, <1>2, <1>6, <1>8, <1>9 DEF Separated

\* The return address into any caller is a code address.
LEMMA CallPointTyped ==
  ASSUME IInv, InJit, NEW i \in 1..Depth
  PROVE  CallPoint(acts, i) \in CodeAddress
<1>1. CASE i = 1
  BY <1>1, SizeFacts DEF CallPoint
<1>2. CASE i # 1
  <2>1. Depth \in Nat /\ acts \in Seq(Activations)
    BY TopFacts
  <2>2. i - 1 \in 1..Depth /\ i \in 2..Depth
    BY <1>2, <2>1
  <2>3. acts[i - 1] \in Activations /\ acts[i] \in Activations
    BY <2>1, <2>2 DEF Depth
  <2>4. acts[i].base - acts[i - 1].base \in Nat
    <3>1. acts[i - 1].base <= acts[i].base
      BY <2>2 DEF IInv, OperandsMatch
    <3> QED
      BY <2>3, <3>1 DEF Activations
  <2>5. HasResult[acts[i].fn] \in BOOLEAN
    BY <2>3, SignaturesAssumption DEF Activations, AllFuncs
  <2> QED
    BY <1>2, <2>3, <2>4, <2>5 DEF CallPoint, CodeAddress, Activations
<1> QED
  BY <1>1, <1>2

LEMMA ReturnSeparates ==
  ASSUME ProgramFits, IInv, Separated, Return
  PROVE  Separated'
<1> DEFINE f     == pc.fn
           n     == Depth
           r0    == IF HasResult[f] THEN TopWord ELSE reg[1]
           rest  == Popped(ResultWords(f))
           after == sp + FrameWords(f)
<1>1. /\ InJit /\ pc.h = ResultWords(f) /\ ResultWords(f) \in Nat
      /\ stack' = stack
  BY DEF Return, ProgramFits, ResultWords
<1>2. /\ n \in Nat /\ n > 0 /\ n = Len(acts) /\ f \in Funcs
      /\ acts \in Seq(Activations) /\ Len(ops) \in Nat /\ pc.h <= Len(ops)
  BY <1>1, TopFacts DEF Depth
<1>3. /\ sp = acts[n].sp /\ f = acts[n].fn /\ lr = CallPoint(acts, n)
      /\ after = CallerSp(acts, n) /\ stack[WrapperSp] = Host
      /\ \A i \in 1..(n - 1) : stack[acts[i].sp] = CallPoint(acts, i)
  BY <1>1, <1>2 DEF IInv, FramesContiguous, ReturnChain
<1>4. r0 \in Values \cup {Stale} /\ (HasResult[f] => r0 \in Values)
  <2>1. HasResult[f] => pc.h >= 1
    BY <1>1 DEF ResultWords
  <2>2. reg[1] \in Values \cup {Stale}
    BY SizeFacts DEF Separated, Regs
  <2> QED
    BY <1>1, <2>1, <2>2, TopWordValue
<1>5. rest \in Seq(Values)
  BY <1>1, <1>2, PoppedValues
<1>6. Imm(FrameWords(f)) = FrameWords(f)
  BY <1>2, FitsImm
<1>8. CASE lr = Host
  <2>1. /\ pc' = [fn |-> HostFn, h |-> 0] /\ lr' = stack[after]
        /\ reg' = [reg EXCEPT ![1] = r0] /\ ops' = rest /\ acts' = <<>>
        /\ outcome' = IF HasResult[f] THEN Outcome("value", r0) ELSE Outcome("void", Zero)
    BY <1>6, <1>8 DEF Return
  <2> HIDE DEF r0, rest, after
  <2>2. n = 1
    <3>1. CASE n # 1
      <4>1. lr.fn = acts[n - 1].fn
        BY <1>3, <3>1 DEF CallPoint
      <4>2. acts[n - 1] \in Activations
        <5>1. n - 1 \in 1..Len(acts)
          BY <1>2, <3>1
        <5> QED
          BY <1>2, <5>1
      <4> QED
        BY <4>1, <4>2, <1>8, SignaturesAssumption DEF Host, Activations, AllFuncs
    <3> QED
      BY <3>1
  <2>3. lr' = Host
    BY <1>3, <2>1, <2>2 DEF CallerSp
  <2>4. outcome' \in [kind: Kinds, val: Values]
    BY <1>4, <2>1, ValuesAssumption DEF Outcome, Kinds
  <2>5. reg' \in Regs
    BY <1>4, <2>1 DEF Separated, Regs
  <2>6. HoldValues(acts', stack')
    BY <2>1 DEF HoldValues
  <2>7. ~InJit'
    BY <2>1 DEF InJit
  <2> QED
    BY <1>5, <2>1, <2>3, <2>4, <2>5, <2>6, <2>7, SizeFacts DEF Separated
<1>9. CASE lr # Host
  <2>1. /\ pc' = [fn |-> lr.fn, h |-> lr.h + (IF lr.res THEN 1 ELSE 0)]
        /\ lr' = stack[after]
        /\ reg' = Reloaded(lr.fn, after, stack, r0, reg)
        /\ ops' = rest \o Pushed(lr.res, r0)
        /\ acts' = SubSeq(acts, 1, Len(acts) - 1)
        /\ outcome' = outcome
    BY <1>6, <1>9 DEF Return
  <2> HIDE DEF r0, rest, after
  <2>2. /\ n > 1 /\ lr.fn = acts[n - 1].fn /\ lr.res = HasResult[f]
        /\ after = acts[n - 1].sp
    BY <1>2, <1>3, <1>9 DEF CallPoint, CallerSp
  <2>3. n - 1 \in 1..n /\ n - 1 \in 1..(n - 1) /\ n - 1 \in 1..Len(acts)
    BY <1>2, <2>2
  <2>4. acts[n - 1] \in Activations /\ lr.fn \in Funcs
    <3>1. acts[n - 1] \in Activations
      BY <1>2, <2>3
    <3> QED
      BY <2>2, <3>1 DEF Activations
  <2>5. /\ Len(acts') = n - 1
        /\ \A i \in 1..(n - 1) : acts'[i] = acts[i]
    <3>1. \A i \in 1..(n - 1) : acts[i] \in Activations
      BY <1>2
    <3> QED
      BY <1>2, <2>1, <2>2, <3>1, SubSeqProperties
  <2>6. lr' \in CodeAddress
    <3>1. lr' = CallPoint(acts, n - 1)
      BY <1>3, <2>1, <2>2, <2>3
    <3> QED
      BY <1>1, <2>3, <3>1, CallPointTyped DEF Depth
  <2>7. HoldValues(acts', stack')
    <3> SUFFICES ASSUME NEW i \in 1..(n - 1), NEW k \in 1..NVars(acts'[i].fn)
                 PROVE  stack'[acts'[i].sp + k] \in Values
      BY <2>5 DEF HoldValues
    <3>1. acts'[i] = acts[i] /\ i \in 1..Len(acts)
      BY <1>2, <2>5
    <3> QED
      BY <1>1, <3>1 DEF Separated, HoldValues
  <2>8. \A k \in 1..NVars(lr.fn) : stack[after + k] \in Values
    BY <1>2, <2>2, <2>3 DEF Separated, HoldValues
  <2>9. reg' \in Regs /\ ParamsHold(lr.fn, reg')
    BY <1>4, <2>1, <2>4, <2>8, ReloadedValues DEF Separated
  <2>10. ops' \in Seq(Values)
    <3>1. Pushed(lr.res, r0) \in Seq(Values)
      BY <1>4, <2>2 DEF Pushed
    <3> QED
      BY <1>5, <2>1, <3>1, ConcatProperties
  <2>11. pc'.fn = lr.fn
    BY <2>1
  <2> QED
    BY <2>1, <2>6, <2>7, <2>9, <2>10, <2>11 DEF Separated
<1> QED
  BY <1>8, <1>9

LEMMA NextSeparates ==
  ProgramFits /\ IInv /\ Separated /\ [Next]_vars => Separated'
<1> SUFFICES ASSUME ProgramFits, IInv, Separated, [Next]_vars PROVE Separated'
  OBVIOUS
<1>1. ASSUME NEW f \in Funcs, NEW args \in [1..NParams[f] -> Values], Invoke(f, args)
      PROVE  Separated'
  BY <1>1, InvokeSeparates
<1>2. ASSUME NEW v \in Values, Const(v) PROVE Separated'
  BY <1>2, ConstSeparates DEF Const
<1>3. ASSUME Drop PROVE Separated'
  BY <1>3, DropSeparates
<1>4. ASSUME NEW k \in 1..GuardWords, LocalGet(k) PROVE Separated'
  BY <1>4, LocalGetSeparates
<1>5. ASSUME NEW k \in 1..GuardWords, NEW tee \in BOOLEAN, LocalSet(k, tee) PROVE Separated'
  BY <1>5, LocalSetSeparates
<1>6. ASSUME NEW f \in Funcs, Call(f) PROVE Separated'
  BY <1>6, CallSeparates
<1>7. ASSUME NEW f \in Funcs, CallIndirect(Signature(f)) PROVE Separated'
  BY <1>7, CallIndirectSeparates
<1>8. ASSUME NEW f \in Imports, NEW v \in Values, CallImport(f, v) PROVE Separated'
  BY <1>8, CallImportSeparates
<1>9. ASSUME Return PROVE Separated'
  BY <1>9, ReturnSeparates
<1>10. ASSUME UNCHANGED vars PROVE Separated'
  BY <1>10 DEF vars, Separated, InJit
<1> QED
  BY <1>1, <1>2, <1>3, <1>4, <1>5, <1>6, <1>7, <1>8, <1>9, <1>10 DEF Next

\* The machine state stays well typed: no code address or stale word reaches
\* a local, an operand or a result, and LR never holds a value.
THEOREM TypeCorrect == ProgramFits => (Spec => []TypeOK)
<1> SUFFICES ASSUME ProgramFits PROVE Spec => []TypeOK
  OBVIOUS
<1>1. Init => Separated
  <2> SUFFICES ASSUME Init PROVE Separated
    OBVIOUS
  <2>1. outcome \in [kind: Kinds, val: Values]
    BY ValuesAssumption DEF Init, Outcome, Kinds
  <2>2. reg \in Regs /\ lr \in CodeAddress /\ ops \in Seq(Values) /\ ~InJit
    BY SizeFacts DEF Init, Regs, InJit
  <2>3. HoldValues(acts, stack)
    BY DEF Init, HoldValues
  <2> QED
    BY <2>1, <2>2, <2>3 DEF Separated
<1>2. IInv /\ Separated /\ [Next]_vars => Separated'
  BY NextSeparates
<1>3. IInv /\ Separated => TypeOK
  BY DEF IInv, WordsTyped, Separated, Regs, ParamsHold, HoldValues, Depth, TypeOK
<1> QED
  BY <1>1, <1>2, <1>3, Invariance, PTL DEF Spec

\* Frames stay adjacent and above the stack guard, however deep the calls.
THEOREM FramesStayContiguous == ProgramFits => (Spec => []FramesContiguous)
<1>1. IInv => FramesContiguous
  BY DEF IInv
<1> QED
  BY <1>1, Invariance, PTL

\* Every RET finds its way back to the right call site of the right function.
THEOREM ReturnsFindTheirCallers == ProgramFits => (Spec => []ReturnChain)
<1>1. IInv => ReturnChain
  BY DEF IInv
<1> QED
  BY <1>1, Invariance, PTL

\* ROP agrees with the compile-time operand heights of all live activations.
THEOREM OperandStackMatches == ProgramFits => (Spec => []OperandsMatch)
<1>1. IInv => OperandsMatch
  BY DEF IInv
<1> QED
  BY <1>1, Invariance, PTL

-----------------------------------------------------------------------------
\* CALL_INDIRECT does not save the parameters of its function.
IndirectFits == \A f \in IndirectFrom : NParams[f] = 0

-----------------------------------------------------------------------------
\* Sequences: what lies above the first b elements.
Above(o, b) == SubSeq(o, b + 1, Len(o))

LEMMA AboveFacts ==
  ASSUME NEW S, NEW o \in Seq(S), NEW b \in Nat, b <= Len(o)
  PROVE  /\ Above(o, b) \in Seq(S)
         /\ Len(Above(o, b)) = Len(o) - b
         /\ \A j \in 1..(Len(o) - b) : Above(o, b)[j] = o[b + j]
<1>1. Len(o) \in Nat /\ b + 1 \in Int
  OBVIOUS
<1>2. \A i \in (b + 1)..Len(o) : o[i] \in S
  BY <1>1
<1>3. /\ SubSeq(o, b + 1, Len(o)) \in Seq(S)
      /\ Len(SubSeq(o, b + 1, Len(o))) = IF b + 1 <= Len(o) THEN Len(o) - (b + 1) + 1 ELSE 0
      /\ \A j \in 1..(Len(o) - (b + 1) + 1) : SubSeq(o, b + 1, Len(o))[j] = o[b + 1 + j - 1]
  BY <1>1, <1>2, SubSeqProperties
<1> QED
  BY <1>1, <1>3 DEF Above

LEMMA SameSubSeq ==
  ASSUME NEW S, NEW o \in Seq(S), NEW p \in Seq(S), NEW m \in Nat \ {0}, NEW e \in Nat,
         e <= Len(o), e <= Len(p), \A j \in m..e : p[j] = o[j]
  PROVE  SubSeq(p, m, e) = SubSeq(o, m, e)
<1>1. /\ \A i \in m..e : o[i] \in S
      /\ \A i \in m..e : p[i] \in S
  OBVIOUS
<1>2. /\ SubSeq(o, m, e) \in Seq(S) /\ Len(SubSeq(o, m, e)) = IF m <= e THEN e - m + 1 ELSE 0
      /\ \A i \in 1..(e - m + 1) : SubSeq(o, m, e)[i] = o[m + i - 1]
  BY <1>1, SubSeqProperties
<1>3. /\ SubSeq(p, m, e) \in Seq(S) /\ Len(SubSeq(p, m, e)) = IF m <= e THEN e - m + 1 ELSE 0
      /\ \A i \in 1..(e - m + 1) : SubSeq(p, m, e)[i] = p[m + i - 1]
  BY <1>1, SubSeqProperties
<1>4. ASSUME NEW i \in 1..Len(SubSeq(p, m, e)) PROVE SubSeq(p, m, e)[i] = SubSeq(o, m, e)[i]
  <2>1. i \in 1..(e - m + 1) /\ m + i - 1 \in m..e
    BY <1>3
  <2> QED
    BY <1>2, <1>3, <2>1
<1> QED
  BY <1>2, <1>3, <1>4, SeqEqual

\* Pushing, and popping what is above b, is the same from above b as from
\* the bottom.
LEMMA AboveConcat ==
  ASSUME NEW S, NEW o \in Seq(S), NEW r \in Seq(S), NEW b \in Nat, b <= Len(o)
  PROVE  Above(o \o r, b) = Above(o, b) \o r
<1> DEFINE u == o \o r
           a == Above(o, b)
<1>1. /\ u \in Seq(S) /\ Len(u) = Len(o) + Len(r) /\ Len(o) \in Nat /\ Len(r) \in Nat
      /\ \A i \in 1..(Len(o) + Len(r)) : u[i] = IF i <= Len(o) THEN o[i] ELSE r[i - Len(o)]
  BY ConcatProperties
<1>2. /\ a \in Seq(S) /\ Len(a) = Len(o) - b
      /\ \A j \in 1..(Len(o) - b) : a[j] = o[b + j]
  BY AboveFacts
<1> HIDE DEF a, u
<1>3. /\ a \o r \in Seq(S) /\ Len(a \o r) = Len(a) + Len(r)
      /\ \A j \in 1..(Len(a) + Len(r)) : (a \o r)[j] = IF j <= Len(a) THEN a[j] ELSE r[j - Len(a)]
  <2>1. a \in Seq(S)
    BY <1>2
  <2> QED
    BY <2>1, ConcatProperties
<1>4. /\ Above(u, b) \in Seq(S) /\ Len(Above(u, b)) = Len(u) - b
      /\ \A j \in 1..(Len(u) - b) : Above(u, b)[j] = u[b + j]
  <2>1. u \in Seq(S) /\ b <= Len(u)
    BY <1>1
  <2> QED
    BY <2>1, AboveFacts
<1>5. ASSUME NEW j \in 1..Len(Above(u, b)) PROVE Above(u, b)[j] = (a \o r)[j]
  <2>1. /\ j \in 1..(Len(u) - b) /\ b + j \in 1..(Len(o) + Len(r))
        /\ j \in 1..(Len(a) + Len(r))
    BY <1>1, <1>2, <1>4
  <2>2. Above(u, b)[j] = IF b + j <= Len(o) THEN o[b + j] ELSE r[b + j - Len(o)]
    BY <1>1, <1>4, <2>1
  <2>3. (a \o r)[j] = IF j <= Len(o) - b THEN o[b + j] ELSE r[j - (Len(o) - b)]
    BY <1>2, <1>3, <2>1
  <2>4. (b + j <= Len(o) <=> j <= Len(o) - b) /\ b + j - Len(o) = j - (Len(o) - b)
    BY <1>1, <2>1
  <2> QED
    BY <2>2, <2>3, <2>4
<1>6. Above(u, b) = a \o r
  <2>1. /\ Above(u, b) \in Seq(S) /\ a \o r \in Seq(S)
        /\ Len(Above(u, b)) = Len(a \o r)
    BY <1>1, <1>2, <1>3, <1>4
  <2> QED
    BY <2>1, <1>5, SeqEqual
<1> QED
  BY <1>6 DEF u, a

LEMMA AbovePopped ==
  ASSUME NEW S, NEW o \in Seq(S), NEW b \in Nat, NEW n \in Nat, b + n <= Len(o)
  PROVE  Above(SubSeq(o, 1, Len(o) - n), b) = SubSeq(Above(o, b), 1, Len(Above(o, b)) - n)
<1> DEFINE c == SubSeq(o, 1, Len(o) - n)
           a == Above(o, b)
<1>1. Len(o) \in Nat /\ Len(o) - n \in Nat /\ b <= Len(o)
  OBVIOUS
<1>2. /\ c \in Seq(S) /\ Len(c) = Len(o) - n
      /\ \A i \in 1..(Len(o) - n) : c[i] = o[i]
  BY <1>1, SubSeqProperties
<1>3. /\ a \in Seq(S) /\ Len(a) = Len(o) - b
      /\ \A j \in 1..(Len(o) - b) : a[j] = o[b + j]
  BY <1>1, AboveFacts
<1> HIDE DEF a, c
<1>4. /\ Above(c, b) \in Seq(S) /\ Len(Above(c, b)) = Len(o) - n - b
      /\ \A j \in 1..(Len(o) - n - b) : Above(c, b)[j] = c[b + j]
  <2>1. c \in Seq(S) /\ b <= Len(c)
    BY <1>1, <1>2
  <2>2. /\ Above(c, b) \in Seq(S) /\ Len(Above(c, b)) = Len(c) - b
        /\ \A j \in 1..(Len(c) - b) : Above(c, b)[j] = c[b + j]
    BY <2>1, AboveFacts
  <2> QED
    BY <1>2, <2>2
<1>5. \A i \in 1..(Len(a) - n) : a[i] \in S
  BY <1>1, <1>3
<1>6. /\ SubSeq(a, 1, Len(a) - n) \in Seq(S)
      /\ Len(SubSeq(a, 1, Len(a) - n)) = Len(o) - n - b
      /\ \A j \in 1..(Len(a) - n) : SubSeq(a, 1, Len(a) - n)[j] = a[j]
  BY <1>1, <1>3, <1>5, SubSeqProperties
<1>7. ASSUME NEW j \in 1..Len(Above(c, b)) PROVE Above(c, b)[j] = SubSeq(a, 1, Len(a) - n)[j]
  <2>1. j \in 1..(Len(o) - n - b) /\ b + j \in 1..(Len(o) - n) /\ j \in 1..(Len(a) - n)
        /\ j \in 1..(Len(o) - b)
    BY <1>1, <1>3, <1>4
  <2> QED
    BY <1>2, <1>3, <1>4, <1>6, <2>1
<1>8. Above(c, b) = SubSeq(a, 1, Len(a) - n)
  BY <1>4, <1>6, <1>7, SeqEqual
<1> QED
  BY <1>8 DEF a, c

-----------------------------------------------------------------------------
\* What the machine's words mean as Wasm activations, for any words.
LocalsOf(f, at, regs, mem) ==
  [k \in 1..NVars(f) |-> IF k <= NParams[f] THEN regs[k] ELSE mem[at + k]]
Active(f, at, regs, mem, own) ==
  [fn |-> f, locals |-> LocalsOf(f, at, regs, mem), ops |-> own]
Waiting(s, i, mem, o) ==
  [fn     |-> s[i].fn,
   locals |-> [k \in 1..NVars(s[i].fn) |-> mem[s[i].sp + k]],
   ops    |-> SubSeq(o, s[i].base + 1, s[i + 1].base)]
Frames(s, regs, mem, o) ==
  [i \in 1..Len(s) |->
     IF i = Len(s)
       THEN Active(s[i].fn, s[i].sp, regs, mem, Above(o, s[i].base))
       ELSE Waiting(s, i, mem, o)]

\* A function on 1..n is a sequence of length n.
LEMMA SeqOnRange ==
  ASSUME NEW n \in Nat, NEW q, q = [i \in 1..n |-> q[i]]
  PROVE  /\ q \in Seq({q[i] : i \in 1..n})
         /\ Len(q) = n /\ DOMAIN q = 1..n
<1> DEFINE S == {q[i] : i \in 1..n}
<1>1. \A i \in 1..n : q[i] \in S
  OBVIOUS
<1> HIDE DEF S
<1>2. q \in [1..n -> S]
  BY <1>1
<1>3. q \in Seq(S)
  BY <1>2, SeqDef
<1>4. Len(q) \in Nat /\ DOMAIN q = 1..Len(q) /\ DOMAIN q = 1..n
  BY <1>2, <1>3, LenProperties
<1>5. Len(q) = n
  BY <1>4
<1> QED
  BY <1>3, <1>4, <1>5 DEF S

LEMMA FramesEntries ==
  ASSUME NEW s \in Seq(Activations), NEW regs, NEW mem, NEW o
  PROVE  /\ Len(s) > 0 =>
              Frames(s, regs, mem, o)[Len(s)] =
                Active(s[Len(s)].fn, s[Len(s)].sp, regs, mem, Above(o, s[Len(s)].base))
         /\ \A i \in 1..(Len(s) - 1) : Frames(s, regs, mem, o)[i] = Waiting(s, i, mem, o)
<1>1. Len(s) \in Nat
  OBVIOUS
<1> QED
  BY <1>1 DEF Frames

LEMMA FramesLen ==
  ASSUME NEW s \in Seq(Activations), NEW regs, NEW mem, NEW o
  PROVE  /\ \E S : Frames(s, regs, mem, o) \in Seq(S)
         /\ Len(Frames(s, regs, mem, o)) = Len(s)
         /\ DOMAIN Frames(s, regs, mem, o) = 1..Len(s)
         /\ Frames(s, regs, mem, o) = [i \in 1..Len(s) |-> Frames(s, regs, mem, o)[i]]
<1> DEFINE q == Frames(s, regs, mem, o)
<1>1. q = [i \in 1..Len(s) |-> q[i]]
  BY DEF Frames
<1>2. Len(s) \in Nat
  OBVIOUS
<1> HIDE DEF q
<1>3. q \in Seq({q[i] : i \in 1..Len(s)}) /\ Len(q) = Len(s) /\ DOMAIN q = 1..Len(s)
  BY <1>1, <1>2, SeqOnRange
<1> QED
  BY <1>1, <1>3 DEF q

LEMMA WasmFramesAre ==
  /\ WasmFrames = Frames(acts, reg, stack, ops)
  /\ WasmFrames' = Frames(acts', reg', stack', ops')
<1>1. ASSUME NEW s, NEW regs, NEW mem, NEW o
      PROVE  Frames(s, regs, mem, o) =
               [i \in 1..Len(s) |->
                  [fn     |-> s[i].fn,
                   locals |-> [k \in 1..NVars(s[i].fn) |->
                                 IF i = Len(s) /\ k <= NParams[s[i].fn]
                                   THEN regs[k] ELSE mem[s[i].sp + k]],
                   ops    |-> SubSeq(o, s[i].base + 1,
                                     IF i = Len(s) THEN Len(o) ELSE s[i + 1].base)]]
  BY DEF Frames, Active, LocalsOf, Waiting, Above
<1>2. WasmFrames = Frames(acts, reg, stack, ops)
  BY <1>1 DEF WasmFrames, LocalWord, OpsEnd, Depth
<1>3. WasmFrames' = Frames(acts', reg', stack', ops')
  BY <1>1 DEF WasmFrames, LocalWord, OpsEnd, Depth
<1> QED
  BY <1>2, <1>3

\* An innermost activation that changed under unchanged waiting ones.
LEMMA TopChanges ==
  ASSUME NEW s \in Seq(Activations), Len(s) > 0,
         NEW regs, NEW mem, NEW o, NEW regs2, NEW mem2, NEW o2,
         \A i \in 1..(Len(s) - 1) : Waiting(s, i, mem2, o2) = Waiting(s, i, mem, o)
  PROVE  Frames(s, regs2, mem2, o2) =
           [Frames(s, regs, mem, o) EXCEPT ![Len(s)] =
              Active(s[Len(s)].fn, s[Len(s)].sp, regs2, mem2, Above(o2, s[Len(s)].base))]
<1> DEFINE q  == Frames(s, regs, mem, o)
           q2 == Frames(s, regs2, mem2, o2)
<1>1. /\ q[Len(s)] = Active(s[Len(s)].fn, s[Len(s)].sp, regs, mem, Above(o, s[Len(s)].base))
      /\ \A i \in 1..(Len(s) - 1) : q[i] = Waiting(s, i, mem, o)
  BY FramesEntries
<1>2. /\ q2[Len(s)] =
           Active(s[Len(s)].fn, s[Len(s)].sp, regs2, mem2, Above(o2, s[Len(s)].base))
      /\ \A i \in 1..(Len(s) - 1) : q2[i] = Waiting(s, i, mem2, o2)
  BY FramesEntries
<1>3. /\ q2 = [i \in 1..Len(s) |-> q2[i]] /\ q = [i \in 1..Len(s) |-> q[i]]
  BY DEF Frames
<1> DEFINE n == Len(s)
           T == Active(s[n].fn, s[n].sp, regs2, mem2, Above(o2, s[n].base))
<1>4. /\ n \in Nat /\ n \in 1..n
      /\ \A i \in 1..n : i = n \/ i \in 1..(n - 1)
  OBVIOUS
<1>5. \A i \in 1..(n - 1) : q2[i] = q[i]
  BY <1>1, <1>2
<1>6. q2[n] = T
  BY <1>2
<1> HIDE DEF q, q2, T
<1>7. q2 = [i \in 1..n |-> q2[i]] /\ q = [i \in 1..n |-> q[i]]
  BY <1>3
<1> HIDE DEF n
<1>8. q2 = [q EXCEPT ![n] = T]
  BY <1>4, <1>5, <1>6, <1>7
<1> QED
  BY <1>8 DEF q, q2, T, n

-----------------------------------------------------------------------------
\* The strengthening the refinement needs: the operands of every activation,
\* not only of a direct caller, start below those of the ones above it; and
\* the host has seen no result while one is running.
BasesOrdered(s) == \A i, j \in 1..Len(s) : i <= j => s[i].base <= s[j].base
RunningKnown == InJit => outcome = Outcome("running", Zero)

JInv == IInv /\ BasesOrdered(acts) /\ RunningKnown

LEMMA ActivationFacts ==
  ASSUME IInv, InJit, NEW i \in 1..Depth
  PROVE  /\ acts[i] \in Activations
         /\ acts[i].fn \in Funcs /\ acts[i].base \in Nat /\ acts[i].sp \in Addr
         /\ acts[i].sp + FrameWords(acts[i].fn) <= WrapperSp
         /\ \A k \in 1..NVars(acts[i].fn) : acts[i].sp + k \in Addr
<1>1. acts[i] \in Activations /\ acts[i].sp \in Addr
  BY TopFacts DEF Depth
<1>2. acts[i].fn \in Funcs /\ acts[i].base \in Nat
  BY <1>1 DEF Activations
<1>3. acts[i].sp + FrameWords(acts[i].fn) <= WrapperSp
  BY DEF IInv, BelowWrapper, Depth
<1>4. ASSUME NEW k \in 1..NVars(acts[i].fn) PROVE acts[i].sp + k \in Addr
  <2>1. /\ FrameWords(acts[i].fn) \in Nat /\ k < FrameWords(acts[i].fn) /\ k \in Nat \ {0}
        /\ acts[i].sp \in Nat
    BY <1>1, <1>2, FrameWordsFacts DEF Addr
  <2> QED
    BY <1>1, <1>3, <2>1, SizesAssumption DEF Addr, WrapperSp, TopSp
<1> QED
  BY <1>1, <1>2, <1>3, <1>4

\* The innermost activation, as a Wasm activation and in the machine.
LEMMA TopIs ==
  ASSUME IInv, InJit
  PROVE  acts[Depth].fn = pc.fn /\ acts[Depth].sp = sp
BY DEF IInv, ReturnChain, FramesContiguous

LEMMA TopOps ==
  ASSUME IInv, InJit
  PROVE  /\ ops \in Seq(Words) /\ Len(ops) \in Nat
         /\ acts[Depth].base \in Nat /\ pc.h \in Nat
         /\ Len(ops) = acts[Depth].base + pc.h
         /\ acts[Depth].base <= Len(ops)
<1>1. /\ Len(ops) \in Nat /\ acts[Depth].base \in Nat /\ pc.h \in Nat
      /\ Len(ops) = acts[Depth].base + pc.h
  BY TopFacts
<1>2. ops \in Seq(Words)
  BY DEF IInv, WordsTyped
<1> QED
  BY <1>1, <1>2

\* Nothing above the executing frame and nothing below its operands changed:
\* the waiting activations are the same.
LEMMA WaitingSame ==
  ASSUME IInv, InJit, BasesOrdered(acts), NEW mem, NEW o \in Seq(Words),
         \A a \in Addr : a >= sp + FrameWords(pc.fn) => mem[a] = stack[a],
         acts[Depth].base <= Len(o),
         \A j \in 1..acts[Depth].base : o[j] = ops[j],
         NEW i \in 1..(Depth - 1)
  PROVE  Waiting(acts, i, mem, o) = Waiting(acts, i, stack, ops)
<1>1. /\ i \in 1..Depth /\ i + 1 \in 1..Depth /\ Depth \in 1..Depth /\ Depth \in Nat
  BY TopFacts
<1>2. /\ acts[i].base \in Nat /\ acts[i + 1].base \in Nat /\ acts[Depth].base \in Nat
      /\ acts[i + 1].base <= acts[Depth].base
  <2>1. acts[i + 1].base <= acts[Depth].base
    BY <1>1 DEF BasesOrdered, Depth
  <2> QED
    BY <1>1, <2>1, ActivationFacts
<1>3. SubSeq(o, acts[i].base + 1, acts[i + 1].base)
        = SubSeq(ops, acts[i].base + 1, acts[i + 1].base)
  <2> DEFINE m == acts[i].base + 1
             e == acts[i + 1].base
  <2>1. /\ ops \in Seq(Words) /\ acts[Depth].base <= Len(ops) /\ Len(ops) \in Nat
        /\ Len(o) \in Nat
    BY TopOps
  <2>2. /\ m \in Nat \ {0} /\ e \in Nat /\ e <= Len(o) /\ e <= Len(ops)
        /\ \A j \in m..e : j \in 1..acts[Depth].base
    <3>1. /\ m \in Nat \ {0} /\ e \in Nat /\ e <= acts[Depth].base
          /\ acts[Depth].base \in Nat
      BY <1>2
    <3>2. /\ acts[Depth].base <= Len(o) /\ acts[Depth].base <= Len(ops)
          /\ Len(o) \in Nat /\ Len(ops) \in Nat
      BY <2>1
    <3> HIDE DEF m, e
    <3>3. \A j \in m..e : j \in 1..acts[Depth].base
      BY <3>1
    <3> QED
      BY <3>1, <3>2, <3>3
  <2>3. \A j \in m..e : o[j] = ops[j]
    BY <2>2
  <2> HIDE DEF m, e
  <2>4. SubSeq(o, m, e) = SubSeq(ops, m, e)
    BY <2>1, <2>2, <2>3, SameSubSeq
  <2> QED
    BY <2>4 DEF m, e
<1>4. ASSUME NEW k \in 1..NVars(acts[i].fn)
      PROVE  mem[acts[i].sp + k] = stack[acts[i].sp + k]
  <2>1. acts[i].sp + k \in Addr /\ acts[i].sp \in Addr
    BY <1>1, ActivationFacts
  <2>2. sp + FrameWords(pc.fn) <= acts[i].sp
    BY TopFacts
  <2>3. sp \in Addr /\ FrameWords(pc.fn) \in Nat /\ k \in Nat
    BY <1>1, ActivationFacts, TopFacts, FrameWordsFacts
  <2>4. acts[i].sp + k >= sp + FrameWords(pc.fn)
    BY <2>1, <2>2, <2>3 DEF Addr
  <2> QED
    BY <2>1, <2>4
<1>5. [k \in 1..NVars(acts[i].fn) |-> mem[acts[i].sp + k]]
        = [k \in 1..NVars(acts[i].fn) |-> stack[acts[i].sp + k]]
  BY <1>4
<1> QED
  BY <1>3, <1>5 DEF Waiting

Own == Above(ops, acts[Depth].base)

\* The innermost Wasm activation is the machine's.
LEMMA WasmTop ==
  ASSUME IInv, InJit
  PROVE  /\ Wasm!Running /\ Len(WasmFrames) = Depth
         /\ Wasm!Top = Active(pc.fn, sp, reg, stack, Own)
         /\ Wasm!Top.fn = pc.fn
         /\ Wasm!Top.locals = LocalsOf(pc.fn, sp, reg, stack)
         /\ Wasm!Top.ops = Own
         /\ Own \in Seq(Words) /\ Len(Own) = pc.h
         /\ \A j \in 1..pc.h : Own[j] = ops[acts[Depth].base + j]
<1>1. /\ acts \in Seq(Activations) /\ Depth \in Nat /\ Depth > 0 /\ Depth = Len(acts)
      /\ acts[Depth].fn = pc.fn /\ acts[Depth].sp = sp
  BY TopFacts, TopIs DEF Depth
<1>2. /\ Len(Frames(acts, reg, stack, ops)) = Len(acts)
      /\ \E S : Frames(acts, reg, stack, ops) \in Seq(S)
  BY <1>1, FramesLen
<1>3. Len(WasmFrames) = Depth /\ WasmFrames # <<>>
  <2>1. Len(Frames(acts, reg, stack, ops)) > 0
    BY <1>1, <1>2
  <2>2. Frames(acts, reg, stack, ops) # <<>>
    BY <2>1, EmptySeq
  <2> QED
    BY <1>1, <1>2, <2>2, WasmFramesAre
<1>4. Frames(acts, reg, stack, ops)[Len(acts)]
        = Active(acts[Len(acts)].fn, acts[Len(acts)].sp, reg, stack,
                 Above(ops, acts[Len(acts)].base))
  BY <1>1, FramesEntries
<1>5. WasmFrames[Depth] = Active(pc.fn, sp, reg, stack, Own)
  BY <1>1, <1>4, WasmFramesAre DEF Own
<1>6. Wasm!Running /\ Wasm!Top = Active(pc.fn, sp, reg, stack, Own)
  BY <1>3, <1>5 DEF Wasm!Running, Wasm!Top
<1>7. /\ Wasm!Top.fn = pc.fn
      /\ Wasm!Top.locals = LocalsOf(pc.fn, sp, reg, stack)
      /\ Wasm!Top.ops = Own
  BY <1>6 DEF Active
<1>8. /\ Own \in Seq(Words) /\ Len(Own) = Len(ops) - acts[Depth].base
      /\ \A j \in 1..(Len(ops) - acts[Depth].base) : Own[j] = ops[acts[Depth].base + j]
  BY TopOps, AboveFacts DEF Own
<1>9. Len(ops) - acts[Depth].base = pc.h
  BY TopOps
<1> QED
  BY <1>3, <1>6, <1>7, <1>8, <1>9

\* What CallersUntouched says of a step inside the JIT.
Kept ==
  /\ \A a \in Addr : a >= FirstKept => stack'[a] = stack[a]
  /\ \A i \in 1..acts[Depth].base : i <= Len(ops') /\ ops'[i] = ops[i]

\* A step of the innermost activation that leaves the others alone.
LEMMA StepOfTop ==
  ASSUME IInv, InJit, BasesOrdered(acts), acts' = acts,
         \A a \in Addr : a >= sp + FrameWords(pc.fn) => stack'[a] = stack[a],
         ops' \in Seq(Words), acts[Depth].base <= Len(ops'),
         \A j \in 1..acts[Depth].base : ops'[j] = ops[j]
  PROVE  /\ WasmFrames' = Wasm!WithTop(WasmFrames, LocalsOf(pc.fn, sp, reg', stack'),
                                       Above(ops', acts[Depth].base))
         /\ Kept
<1>1. /\ acts \in Seq(Activations) /\ Depth \in Nat /\ Depth > 0 /\ Depth = Len(acts)
      /\ acts[Depth].fn = pc.fn /\ acts[Depth].sp = sp
  BY TopFacts, TopIs DEF Depth
<1>2. \A i \in 1..(Len(acts) - 1) : Waiting(acts, i, stack', ops') = Waiting(acts, i, stack, ops)
  BY <1>1, WaitingSame
<1>3. Frames(acts, reg', stack', ops') =
        [Frames(acts, reg, stack, ops) EXCEPT ![Len(acts)] =
           Active(acts[Len(acts)].fn, acts[Len(acts)].sp, reg', stack',
                  Above(ops', acts[Len(acts)].base))]
  BY <1>1, <1>2, TopChanges
<1>4. WasmFrames' =
        [WasmFrames EXCEPT ![Depth] =
           Active(pc.fn, sp, reg', stack', Above(ops', acts[Depth].base))]
  BY <1>1, <1>3, WasmFramesAre
<1>5. Len(WasmFrames) = Depth /\ WasmFrames[Depth].fn = pc.fn
  BY WasmTop DEF Wasm!Top
<1>6. Kept
  <2>1. FirstKept = sp + FrameWords(pc.fn)
    BY <1>1 DEF FirstKept
  <2>2. Len(ops') \in Nat /\ acts[Depth].base \in Nat
    BY TopOps
  <2> QED
    BY <2>1, <2>2 DEF Kept
<1>7. WasmFrames' = Wasm!WithTop(WasmFrames, LocalsOf(pc.fn, sp, reg', stack'),
                                 Above(ops', acts[Depth].base))
  BY <1>4, <1>5 DEF Wasm!WithTop, Wasm!Frame, Active
<1> QED
  BY <1>6, <1>7

-----------------------------------------------------------------------------
\* Each instruction is the Wasm instruction of the same name.
LEMMA OwnAppend ==
  ASSUME IInv, InJit, NEW w \in Words
  PROVE  /\ Append(ops, w) \in Seq(Words) /\ acts[Depth].base <= Len(Append(ops, w))
         /\ \A j \in 1..acts[Depth].base : Append(ops, w)[j] = ops[j]
         /\ Above(Append(ops, w), acts[Depth].base) = Append(Own, w)
<1> DEFINE b == acts[Depth].base
<1>1. /\ ops \in Seq(Words) /\ Len(ops) \in Nat /\ b \in Nat /\ b <= Len(ops)
  BY TopOps
<1>2. Own \in Seq(Words)
  BY WasmTop
<1> HIDE DEF b
<1>3. /\ Append(ops, w) \in Seq(Words) /\ b <= Len(Append(ops, w))
      /\ \A j \in 1..b : Append(ops, w)[j] = ops[j]
  BY <1>1
<1>4. <<w>> \in Seq(Words)
  OBVIOUS
<1>5. Append(ops, w) = ops \o <<w>> /\ Append(Own, w) = Own \o <<w>>
  BY <1>1, <1>2
<1>6. Above(ops \o <<w>>, b) = Above(ops, b) \o <<w>>
  BY <1>1, <1>4, AboveConcat
<1> QED
  BY <1>3, <1>5, <1>6 DEF Own, b

LEMMA OwnPopped ==
  ASSUME IInv, InJit, NEW n \in Nat, n <= pc.h
  PROVE  /\ Popped(n) \in Seq(Words) /\ acts[Depth].base <= Len(Popped(n))
         /\ Len(Popped(n)) = Len(ops) - n
         /\ \A j \in 1..acts[Depth].base : Popped(n)[j] = ops[j]
         /\ Above(Popped(n), acts[Depth].base) = Wasm!Below(n)
<1> DEFINE b == acts[Depth].base
<1>1. /\ ops \in Seq(Words) /\ Len(ops) \in Nat /\ b \in Nat /\ pc.h \in Nat
      /\ Len(ops) = b + pc.h
  BY TopOps
<1>2. WordsTyped
  BY DEF IInv
<1> HIDE DEF b
<1>3. n <= Len(ops) /\ b + n <= Len(ops)
  BY <1>1
<1>4. /\ Popped(n) \in Seq(Words) /\ Len(Popped(n)) = Len(ops) - n
      /\ \A j \in 1..(Len(ops) - n) : Popped(n)[j] = ops[j]
  BY <1>2, <1>3, PoppedFacts
<1>5. b <= Len(Popped(n)) /\ \A j \in 1..b : j \in 1..(Len(ops) - n)
  BY <1>1, <1>3, <1>4
<1>6. Above(SubSeq(ops, 1, Len(ops) - n), b) = SubSeq(Above(ops, b), 1, Len(Above(ops, b)) - n)
  BY <1>1, <1>3, AbovePopped
<1>7. Wasm!Below(n) = SubSeq(Own, 1, Len(Own) - n)
  BY WasmTop DEF Wasm!Below
<1>8. Above(Popped(n), b) = Wasm!Below(n)
  BY <1>6, <1>7 DEF Popped, Own, b
<1> QED
  BY <1>4, <1>5, <1>8 DEF b

LEMMA OwnNewest ==
  ASSUME IInv, InJit, pc.h >= 1
  PROVE  Wasm!Newest = TopWord /\ TopWord \in Words /\ Wasm!Has(1)
<1>1. /\ Len(Own) = pc.h /\ pc.h \in Nat /\ Own[pc.h] = ops[acts[Depth].base + pc.h]
      /\ acts[Depth].base + pc.h = Len(ops) /\ Len(ops) \in Nat /\ Len(ops) >= 1
      /\ ops \in Seq(Words)
  BY WasmTop, TopOps
<1>2. Wasm!Newest = Own[pc.h] /\ Wasm!Has(1)
  BY <1>1, WasmTop DEF Wasm!Newest, Wasm!Has
<1>3. TopWord \in Words
  BY <1>1 DEF TopWord
<1> QED
  BY <1>1, <1>2, <1>3 DEF TopWord

LEMMA PushRefines ==
  ASSUME JInv, InJit, NEW w \in Words, Push(w),
         UNCHANGED <<sp, lr, reg, stack, outcome, acts>>
  PROVE  Wasm!Becomes(Wasm!Top.locals, Append(Wasm!Top.ops, w)) /\ Kept
<1>1. IInv /\ BasesOrdered(acts) /\ ops' = Append(ops, w)
  BY DEF JInv, Push
<1>2. /\ ops' \in Seq(Words) /\ acts[Depth].base <= Len(ops')
      /\ \A j \in 1..acts[Depth].base : ops'[j] = ops[j]
      /\ Above(ops', acts[Depth].base) = Append(Own, w)
  BY <1>1, OwnAppend
<1>3. /\ WasmFrames' = Wasm!WithTop(WasmFrames, LocalsOf(pc.fn, sp, reg', stack'),
                                    Above(ops', acts[Depth].base))
      /\ Kept
  BY <1>1, <1>2, StepOfTop
<1>4. Wasm!Top.locals = LocalsOf(pc.fn, sp, reg', stack') /\ Wasm!Top.ops = Own
  BY <1>1, WasmTop
<1> QED
  BY <1>2, <1>3, <1>4 DEF Wasm!Becomes

LEMMA ConstRefines ==
  ASSUME JInv, NEW v \in Values, Const(v)
  PROVE  Wasm!Const(v) /\ Kept
<1>1. /\ InJit /\ Push(v) /\ UNCHANGED <<sp, lr, reg, stack, outcome, acts>>
      /\ v \in Words /\ IInv
  BY DEF Const, Words, JInv
<1> QED
  BY <1>1, PushRefines, WasmTop DEF Wasm!Const

LEMMA LocalGetRefines ==
  ASSUME JInv, NEW k \in 1..GuardWords, LocalGet(k)
  PROVE  Wasm!LocalGet(k) /\ k \in 1..Len(Wasm!Top.locals) /\ Kept
<1>1. /\ InJit /\ k <= NVars(pc.fn) /\ k \in Nat \ {0} /\ IInv
      /\ Push(IF IsParam(k) THEN reg[k] ELSE stack[sp + k])
      /\ UNCHANGED <<sp, lr, reg, stack, outcome, acts>>
  BY SizesAssumption DEF LocalGet, JInv
<1>2. (IF IsParam(k) THEN reg[k] ELSE stack[sp + k]) \in Words
  BY <1>1, SlotFacts DEF IInv, WordsTyped
<1>3. NVars(pc.fn) \in Nat
  BY <1>1, TopFacts, FrameWordsFacts
<1>4. Wasm!Top.locals = LocalsOf(pc.fn, sp, reg, stack)
  BY <1>1, WasmTop
<1>5. /\ DOMAIN Wasm!Top.locals = 1..NVars(pc.fn) /\ k \in DOMAIN Wasm!Top.locals
      /\ Len(Wasm!Top.locals) = NVars(pc.fn)
      /\ Wasm!Top.locals[k] = IF IsParam(k) THEN reg[k] ELSE stack[sp + k]
  <2> DEFINE L == LocalsOf(pc.fn, sp, reg, stack)
  <2>1. L = [j \in 1..NVars(pc.fn) |-> L[j]]
    BY DEF LocalsOf
  <2>2. k \in 1..NVars(pc.fn)
    BY <1>1, <1>3
  <2>3. L[k] = IF IsParam(k) THEN reg[k] ELSE stack[sp + k]
    BY <2>2 DEF LocalsOf, IsParam
  <2> HIDE DEF L
  <2>4. Len(L) = NVars(pc.fn) /\ DOMAIN L = 1..NVars(pc.fn)
    BY <1>3, <2>1, SeqOnRange
  <2> QED
    BY <1>4, <2>2, <2>3, <2>4 DEF L
<1>6. Wasm!Becomes(Wasm!Top.locals, Append(Wasm!Top.ops, Wasm!Top.locals[k])) /\ Kept
  BY <1>1, <1>2, <1>5, PushRefines
<1>7. k \in 1..Len(Wasm!Top.locals) /\ Wasm!Running
  BY <1>1, <1>3, <1>5, WasmTop
<1> QED
  BY <1>5, <1>6, <1>7 DEF Wasm!LocalGet

LEMMA DropRefines ==
  ASSUME JInv, Drop
  PROVE  Wasm!Drop /\ Kept
<1>1. /\ InJit /\ pc.h >= 1 /\ ops' = Popped(1) /\ IInv /\ BasesOrdered(acts)
      /\ UNCHANGED <<sp, lr, reg, stack, outcome, acts>>
  BY DEF Drop, JInv
<1>2. 1 \in Nat /\ 1 <= pc.h
  BY <1>1, TopOps
<1>3. /\ ops' \in Seq(Words) /\ acts[Depth].base <= Len(ops')
      /\ \A j \in 1..acts[Depth].base : ops'[j] = ops[j]
      /\ Above(ops', acts[Depth].base) = Wasm!Below(1)
  BY <1>1, <1>2, OwnPopped
<1>4. /\ WasmFrames' = Wasm!WithTop(WasmFrames, LocalsOf(pc.fn, sp, reg', stack'),
                                    Above(ops', acts[Depth].base))
      /\ Kept
  BY <1>1, <1>3, StepOfTop
<1>5. Wasm!Top.locals = LocalsOf(pc.fn, sp, reg', stack') /\ Wasm!Has(1)
  BY <1>1, WasmTop, OwnNewest
<1> QED
  BY <1>1, <1>3, <1>4, <1>5 DEF Wasm!Becomes, Wasm!Drop

\* Where LOCAL_SET writes: a parameter register or a word of this frame.
LEMMA LocalSetEffect ==
  ASSUME IInv, NEW k \in 1..GuardWords, NEW tee \in BOOLEAN, LocalSet(k, tee)
  PROVE  /\ \A a \in Addr : a >= sp + FrameWords(pc.fn) => stack'[a] = stack[a]
         /\ k \in 1..NVars(pc.fn)
         /\ LocalsOf(pc.fn, sp, reg', stack') =
              [LocalsOf(pc.fn, sp, reg, stack) EXCEPT ![k] = TopWord]
<1>1. InJit /\ k <= NVars(pc.fn) /\ k \in Nat \ {0} /\ pc.h >= 1
  BY SizesAssumption DEF LocalSet
<1>2. /\ NVars(pc.fn) \in Nat /\ k \in 1..NVars(pc.fn) /\ NParams[pc.fn] \in Nat
      /\ NParams[pc.fn] <= MaxParams /\ MaxParams \in Nat
      /\ FrameWords(pc.fn) \in Nat /\ sp \in Addr /\ sp \in Nat
  BY <1>1, TopFrame
<1>3. reg \in [1..MaxParams -> Words] /\ stack \in [Addr -> Words]
  BY DEF IInv, WordsTyped
<1>4. \A j \in 1..NVars(pc.fn) : sp + j \in Addr /\ (IsParam(j) => j \in 1..MaxParams)
  <2> TAKE j \in 1..NVars(pc.fn)
  <2>1. j \in Nat \ {0} /\ j <= NVars(pc.fn)
    BY <1>2
  <2> QED
    BY <1>1, <2>1, SlotFacts
<1>5. CASE IsParam(k)
  <2>1. reg' = [reg EXCEPT ![k] = TopWord] /\ stack' = stack
    BY <1>5 DEF LocalSet
  <2>2. ASSUME NEW j \in 1..NVars(pc.fn)
        PROVE  LocalsOf(pc.fn, sp, reg', stack')[j] =
                 IF j = k THEN TopWord ELSE LocalsOf(pc.fn, sp, reg, stack)[j]
    <3>1. j <= NParams[pc.fn] => reg'[j] = IF j = k THEN TopWord ELSE reg[j]
      BY <1>3, <1>4, <2>1 DEF IsParam
    <3> QED
      BY <1>5, <2>1, <3>1 DEF LocalsOf, IsParam
  <2>3. LocalsOf(pc.fn, sp, reg', stack') =
          [LocalsOf(pc.fn, sp, reg, stack) EXCEPT ![k] = TopWord]
    BY <1>2, <2>2 DEF LocalsOf
  <2> QED
    BY <1>2, <2>1, <2>3
<1>6. CASE ~IsParam(k)
  <2>1. stack' = [stack EXCEPT ![sp + k] = TopWord] /\ reg' = reg
    BY <1>6 DEF LocalSet
  <2>2. sp + k \in Addr /\ sp + k < sp + FrameWords(pc.fn)
    BY <1>1, SlotFacts
  <2>3. \A a \in Addr : a >= sp + FrameWords(pc.fn) => a # sp + k
    BY <1>2, <2>2 DEF Addr
  <2>4. \A a \in Addr : a >= sp + FrameWords(pc.fn) => stack'[a] = stack[a]
    BY <1>3, <2>1, <2>3
  <2>5. ASSUME NEW j \in 1..NVars(pc.fn)
        PROVE  LocalsOf(pc.fn, sp, reg', stack')[j] =
                 IF j = k THEN TopWord ELSE LocalsOf(pc.fn, sp, reg, stack)[j]
    <3>1. stack'[sp + j] = IF j = k THEN TopWord ELSE stack[sp + j]
      <4>1. (sp + j = sp + k) <=> j = k
        BY <1>2
      <4> QED
        BY <1>3, <1>4, <2>1, <4>1
    <3> QED
      BY <1>6, <2>1, <3>1 DEF LocalsOf, IsParam
  <2>6. LocalsOf(pc.fn, sp, reg', stack') =
          [LocalsOf(pc.fn, sp, reg, stack) EXCEPT ![k] = TopWord]
    BY <1>2, <2>5 DEF LocalsOf
  <2> QED
    BY <1>2, <2>4, <2>6
<1> QED
  BY <1>5, <1>6

LEMMA LocalsDomain ==
  ASSUME IInv, InJit
  PROVE  /\ DOMAIN Wasm!Top.locals = 1..NVars(pc.fn)
         /\ Len(Wasm!Top.locals) = NVars(pc.fn)
<1> DEFINE L == LocalsOf(pc.fn, sp, reg, stack)
<1>1. L = [j \in 1..NVars(pc.fn) |-> L[j]]
  BY DEF LocalsOf
<1>2. NVars(pc.fn) \in Nat
  BY TopFacts, FrameWordsFacts
<1>3. Wasm!Top.locals = L
  BY WasmTop
<1> HIDE DEF L
<1>4. Len(L) = NVars(pc.fn) /\ DOMAIN L = 1..NVars(pc.fn)
  BY <1>1, <1>2, SeqOnRange
<1> QED
  BY <1>3, <1>4

LEMMA LocalSetRefines ==
  ASSUME JInv, NEW k \in 1..GuardWords, NEW tee \in BOOLEAN, LocalSet(k, tee)
  PROVE  Wasm!LocalSet(k, tee) /\ k \in 1..Len(Wasm!Top.locals) /\ Kept
<1>1. /\ InJit /\ pc.h >= 1 /\ IInv /\ BasesOrdered(acts)
      /\ acts' = acts /\ outcome' = outcome
      /\ ops' = IF tee THEN ops ELSE Popped(1)
  BY DEF LocalSet, JInv
<1>2. 1 \in Nat /\ 1 <= pc.h
  BY <1>1, TopOps
<1>3. /\ ops' \in Seq(Words) /\ acts[Depth].base <= Len(ops')
      /\ \A j \in 1..acts[Depth].base : ops'[j] = ops[j]
      /\ Above(ops', acts[Depth].base) = IF tee THEN Own ELSE Wasm!Below(1)
  <2>1. CASE tee
    BY <1>1, <2>1, TopOps DEF Own
  <2>2. CASE ~tee
    BY <1>1, <1>2, <2>2, OwnPopped
  <2> QED
    BY <2>1, <2>2
<1>4. /\ \A a \in Addr : a >= sp + FrameWords(pc.fn) => stack'[a] = stack[a]
      /\ k \in 1..NVars(pc.fn)
      /\ LocalsOf(pc.fn, sp, reg', stack') =
           [LocalsOf(pc.fn, sp, reg, stack) EXCEPT ![k] = TopWord]
  BY <1>1, LocalSetEffect
<1>5. /\ WasmFrames' = Wasm!WithTop(WasmFrames, LocalsOf(pc.fn, sp, reg', stack'),
                                    Above(ops', acts[Depth].base))
      /\ Kept
  BY <1>1, <1>3, <1>4, StepOfTop
<1>6. /\ Wasm!Top.locals = LocalsOf(pc.fn, sp, reg, stack) /\ Wasm!Top.ops = Own
      /\ Wasm!Newest = TopWord /\ Wasm!Has(1)
      /\ DOMAIN Wasm!Top.locals = 1..NVars(pc.fn)
      /\ Len(Wasm!Top.locals) = NVars(pc.fn)
  BY <1>1, WasmTop, OwnNewest, LocalsDomain
<1>7. Wasm!Becomes([Wasm!Top.locals EXCEPT ![k] = Wasm!Newest],
                   IF tee THEN Wasm!Top.ops ELSE Wasm!Below(1))
  BY <1>1, <1>3, <1>4, <1>5, <1>6 DEF Wasm!Becomes
<1> QED
  BY <1>4, <1>5, <1>6, <1>7 DEF Wasm!LocalSet

\* CALL stores the parameters: the frame holds every local of the caller.
LEMMA SavedLocals ==
  ASSUME IInv, InJit
  PROVE  [k \in 1..NVars(pc.fn) |-> WithLr(WithParams)[sp + k]]
           = LocalsOf(pc.fn, sp, reg, stack)
<1>1. /\ NVars(pc.fn) \in Nat /\ NParams[pc.fn] \in Nat /\ sp \in Addr /\ sp \in Nat
  BY TopFacts, FrameWordsFacts DEF Addr
<1>2. WithParams = [a \in Addr |-> IF a > sp /\ a <= sp + NParams[pc.fn]
                                     THEN reg[a - sp] ELSE stack[a]]
  BY DEF WithParams
<1>3. WithLr(WithParams) = [WithParams EXCEPT ![sp] = lr]
  BY DEF WithLr
<1>4. ASSUME NEW k \in 1..NVars(pc.fn)
      PROVE  WithLr(WithParams)[sp + k] = IF k <= NParams[pc.fn] THEN reg[k] ELSE stack[sp + k]
  <2>1. sp + k \in Addr /\ k \in Nat \ {0} /\ sp + k # sp /\ (sp + k) - sp = k
        /\ sp + k > sp /\ (sp + k <= sp + NParams[pc.fn] <=> k <= NParams[pc.fn])
    <3>1. k \in Nat \ {0} /\ k <= NVars(pc.fn)
      BY <1>1
    <3>2. sp + k \in Addr
      BY <3>1, SlotFacts
    <3> QED
      BY <1>1, <3>1, <3>2
  <2>2. WithParams[sp + k] = IF k <= NParams[pc.fn] THEN reg[k] ELSE stack[sp + k]
    BY <1>2, <2>1
  <2>3. WithLr(WithParams)[sp + k] = WithParams[sp + k]
    BY <1>2, <1>3, <2>1
  <2> QED
    BY <2>2, <2>3
<1> QED
  BY <1>4 DEF LocalsOf

LEMMA CallImportRefines ==
  ASSUME JInv, NEW f \in Imports, NEW v \in Values, CallImport(f, v)
  PROVE  Wasm!CallImport(f, v) /\ Kept
<1> DEFINE mem == WithLr(WithParams)
           res == Pushed(HasResult[f], v)
           n   == NParams[f]
<1>1. /\ InJit /\ CanCall(f, 0) /\ IInv /\ BasesOrdered(acts)
      /\ stack' = mem /\ ops' = Popped(n) \o res
      /\ reg' = Reloaded(pc.fn, sp, mem, v, [k \in 1..MaxParams |-> Stale])
      /\ acts' = acts /\ outcome' = outcome
  BY DEF CallImport, CanCall, JInv
<1>2. \A a \in Addr : a >= sp + FrameWords(pc.fn) => stack'[a] = stack[a]
  BY <1>1, SavedFacts
<1>3. n \in Nat /\ n <= pc.h /\ n <= Len(Own)
  <2>1. f \in AllFuncs /\ 0 \in 0..1
    BY DEF AllFuncs
  <2>2. NParams[f] + 0 <= pc.h
    BY <1>1, <2>1, ArgsFacts
  <2>3. n \in Nat /\ pc.h \in Nat /\ Len(Own) = pc.h
    BY <1>1, <2>1, SignaturesAssumption, WasmTop, TopOps
  <2> QED
    BY <2>2, <2>3
<1>4. /\ Popped(n) \in Seq(Words) /\ acts[Depth].base <= Len(Popped(n))
      /\ \A j \in 1..acts[Depth].base : Popped(n)[j] = ops[j]
      /\ Above(Popped(n), acts[Depth].base) = Wasm!Below(n)
  BY <1>1, <1>3, OwnPopped
<1>5. res \in Seq(Words)
  <2>1. v \in Words /\ <<v>> \in Seq(Words) /\ <<>> \in Seq(Words)
    BY DEF Words
  <2> QED
    BY <2>1 DEF Pushed
<1>6. acts[Depth].base \in Nat
  BY <1>1, TopOps
<1>7. LocalsOf(pc.fn, sp, reg', stack') = LocalsOf(pc.fn, sp, reg, stack)
  <2>1. /\ NVars(pc.fn) \in Nat /\ NParams[pc.fn] \in Nat /\ NParams[pc.fn] <= MaxParams
        /\ MaxParams \in Nat
    BY <1>1, TopFacts, FrameWordsFacts, SizeFacts
  <2>2. ASSUME NEW k \in 1..NVars(pc.fn)
        PROVE  LocalsOf(pc.fn, sp, reg', stack')[k] = mem[sp + k]
    <3>1. k <= NParams[pc.fn] => reg'[k] = mem[sp + k]
      BY <1>1, <2>1 DEF Reloaded
    <3> QED
      BY <1>1, <3>1 DEF LocalsOf
  <2>3. LocalsOf(pc.fn, sp, reg', stack') = [k \in 1..NVars(pc.fn) |-> mem[sp + k]]
    BY <2>2 DEF LocalsOf
  <2> QED
    BY <1>1, <2>3, SavedLocals
<1> HIDE DEF mem, res, n
<1>8. /\ ops' \in Seq(Words) /\ acts[Depth].base <= Len(ops')
      /\ \A j \in 1..acts[Depth].base : ops'[j] = ops[j]
  <2> DEFINE u == Popped(n)
             b == acts[Depth].base
  <2>1. u \in Seq(Words) /\ b <= Len(u) /\ b \in Nat /\ \A j \in 1..b : u[j] = ops[j]
    BY <1>4, <1>6
  <2> HIDE DEF u, b
  <2>2. /\ u \o res \in Seq(Words) /\ Len(u \o res) = Len(u) + Len(res)
        /\ \A i \in 1..(Len(u) + Len(res)) :
             (u \o res)[i] = IF i <= Len(u) THEN u[i] ELSE res[i - Len(u)]
    BY <1>5, <2>1, ConcatProperties
  <2>3. Len(u) \in Nat /\ Len(res) \in Nat
    BY <1>5, <2>1
  <2>4. b <= Len(u \o res) /\ \A j \in 1..b : (u \o res)[j] = ops[j]
    BY <2>1, <2>2, <2>3
  <2> QED
    BY <1>1, <2>2, <2>4 DEF u, b
<1>9. Above(ops', acts[Depth].base) = Wasm!Below(n) \o res
  <2>1. Above(Popped(n) \o res, acts[Depth].base) = Above(Popped(n), acts[Depth].base) \o res
    BY <1>4, <1>5, <1>6, AboveConcat
  <2> QED
    BY <1>1, <1>4, <2>1
<1>10. /\ WasmFrames' = Wasm!WithTop(WasmFrames, LocalsOf(pc.fn, sp, reg', stack'),
                                     Above(ops', acts[Depth].base))
       /\ Kept
  BY <1>1, <1>2, <1>8, StepOfTop
<1>11. /\ Wasm!Top.locals = LocalsOf(pc.fn, sp, reg, stack)
       /\ Wasm!Has(n)
  BY <1>1, <1>3, WasmTop DEF Wasm!Has
<1> QED
  BY <1>1, <1>7, <1>9, <1>10, <1>11 DEF Wasm!CallImport, Wasm!Becomes, Pushed, res, n

-----------------------------------------------------------------------------
\* Calls: one more activation, and traps: none.
Listed(q, n) == q = [i \in 1..n |-> q[i]]
AgreeUpTo(r, q, n) == \A i \in 1..n : r[i] = q[i]

LEMMA AppendIs ==
  ASSUME NEW n \in Nat, NEW q, Listed(q, n), NEW e,
         NEW r, Listed(r, n + 1), AgreeUpTo(r, q, n), r[n + 1] = e
  PROVE  r = Append(q, e)
<1> USE DEF Listed, AgreeUpTo
<1> DEFINE S == {r[i] : i \in 1..(n + 1)}
<1>1. \A i \in 1..(n + 1) : r[i] \in S
  OBVIOUS
<1>2. \A i \in 1..n : i \in 1..(n + 1)
  OBVIOUS
<1> HIDE DEF S
<1>3. \A i \in 1..n : q[i] \in S
  BY <1>1, <1>2
<1>4. n + 1 \in 1..(n + 1) /\ n + 1 \in Nat
  OBVIOUS
<1>5. q \in [1..n -> S] /\ r \in [1..(n + 1) -> S] /\ e \in S
  BY <1>1, <1>3, <1>4
<1>6. q \in Seq(S) /\ r \in Seq(S)
  BY <1>4, <1>5, SeqDef
<1>7. Len(q) = n
  BY <1>5, <1>6, LenProperties
<1>8. Len(r) = n + 1
  BY <1>5, <1>6, LenProperties
<1>9. /\ Append(q, e) \in Seq(S) /\ Len(Append(q, e)) = n + 1
      /\ \A i \in 1..(n + 1) : Append(q, e)[i] = IF i = n + 1 THEN e ELSE q[i]
  BY <1>5, <1>6, <1>7
<1>10. ASSUME NEW i \in 1..(n + 1) PROVE r[i] = Append(q, e)[i]
  <2>1. CASE i = n + 1
    BY <2>1, <1>9
  <2>2. CASE i \in 1..n
    BY <2>2, <1>9
  <2> QED
    BY <2>1, <2>2
<1> QED
  BY <1>6, <1>8, <1>9, <1>10, SeqEqual

LEMMA NoFrames ==
  /\ acts = <<>> => WasmFrames = <<>>
  /\ acts' = <<>> => WasmFrames' = <<>>
<1>1. ASSUME NEW regs, NEW mem, NEW o PROVE Frames(<<>>, regs, mem, o) = <<>>
  <2> DEFINE q == Frames(<<>>, regs, mem, o)
  <2>1. <<>> \in Seq(Activations) /\ Len(<<>>) = 0
    OBVIOUS
  <2>2. Len(q) = Len(<<>>) /\ \E S : q \in Seq(S)
    <3> DEFINE s == <<>>
    <3>1. s \in Seq(Activations)
      BY <2>1
    <3> HIDE DEF s
    <3>2. Len(Frames(s, regs, mem, o)) = Len(s) /\ \E S : Frames(s, regs, mem, o) \in Seq(S)
      BY <3>1, FramesLen
    <3> QED
      BY <3>2 DEF s
  <2> HIDE DEF q
  <2>3. q = <<>>
    BY <2>1, <2>2, EmptySeq
  <2> QED
    BY <2>3 DEF q
<1> QED
  BY <1>1, WasmFramesAre

LEMMA TrapRefines ==
  ASSUME NEW code, Trap(code)
  PROVE  Wasm!Trap(code)
BY NoFrames DEF Trap, Wasm!Trap, Outcome, Wasm!Outcome

\* The callee's frame: its arguments from the registers, zeros below.
LEMMA NewTop ==
  ASSUME ProgramFits, NEW f \in Funcs, NEW at \in Int, at <= WrapperSp,
         NEW mem \in [Addr -> Words], NEW rest \in Seq(Words), NEW args,
         ~Overflows(at, f), sp' = LoweredSp(at, f), stack' = Cleaned(mem, f, sp'),
         \A k \in 1..NParams[f] : reg'[k] = args[k]
  PROVE  /\ Active(f, sp', reg', stack', Above(rest, Len(rest))) = Wasm!Activation(f, args)
         /\ \A a \in Addr : a >= at => stack'[a] = mem[a]
         /\ sp' \in Int /\ sp' > 0
<1>1. /\ sp' = at - FrameWords(f) /\ sp' \in Int /\ sp' > 0
      /\ FrameWords(f) \in Nat /\ NVars(f) \in Nat /\ NVars(f) < FrameWords(f)
      /\ NParams[f] \in Nat
  BY FitsImm, FrameWordsFacts, SizeFacts DEF Overflows, LoweredSp
<1>2. \A a \in Addr : stack'[a] = IF a >= sp' /\ a < sp' + FrameWords(f) THEN Zero ELSE mem[a]
  BY DEF Cleaned
<1>3. \A a \in Addr : a >= at => stack'[a] = mem[a]
  BY <1>1, <1>2 DEF Addr
<1>4. ASSUME NEW k \in 1..NVars(f) PROVE stack'[sp' + k] = Zero
  <2>1. sp' + k \in Addr /\ sp' + k >= sp' /\ sp' + k < sp' + FrameWords(f)
    BY <1>1, SizesAssumption DEF Addr, WrapperSp, TopSp
  <2> QED
    BY <1>2, <2>1
<1>5. Above(rest, Len(rest)) = <<>>
  <2>1. Len(rest) + 1 \in Int /\ Len(rest) \in Int /\ Len(rest) < Len(rest) + 1
    OBVIOUS
  <2> QED
    BY <2>1, SubSeqEmpty DEF Above
<1>6. LocalsOf(f, sp', reg', stack') =
        [k \in 1..(NParams[f] + NLocals[f]) |-> IF k <= NParams[f] THEN args[k] ELSE Zero]
  <2>1. NVars(f) = NParams[f] + NLocals[f]
    BY DEF NVars
  <2>2. ASSUME NEW k \in 1..NVars(f)
        PROVE  (IF k <= NParams[f] THEN reg'[k] ELSE stack'[sp' + k]) =
                 IF k <= NParams[f] THEN args[k] ELSE Zero
    <3>1. k <= NParams[f] => k \in 1..NParams[f]
      BY <1>1
    <3> QED
      BY <1>4, <3>1
  <2> QED
    BY <2>1, <2>2 DEF LocalsOf
<1> QED
  BY <1>1, <1>3, <1>5, <1>6 DEF Active, Wasm!Activation, Wasm!Frame

\* A call to a function with a body, its parameters saved.
LEMMA EnterRefines ==
  ASSUME ProgramFits, JInv, InJit, NEW f \in Funcs, NEW popped \in 0..1,
         CanCall(f, popped), reg' = ArgsInRegs(f, popped),
         EnterBody(f, sp, WithLr(WithParams), Popped(popped + NParams[f]),
                   Continue(f, popped), acts)
  PROVE  Wasm!Enter(f, popped)
<1> DEFINE p    == popped + NParams[f]
           rest == Popped(p)
           mem  == WithLr(WithParams)
           b    == acts[Depth].base
           wb   == Len(Wasm!Top.ops) - popped - NParams[f]
           args == [k \in 1..NParams[f] |-> Wasm!Top.ops[wb + k]]
           X    == Wasm!WithTop(WasmFrames, Wasm!Top.locals, Wasm!Below(p))
           n    == Depth
<1>1. /\ IInv /\ BasesOrdered(acts) /\ f \in AllFuncs
      /\ outcome = Outcome("running", Zero)
  BY DEF JInv, RunningKnown, AllFuncs
<1>2. /\ p \in Nat /\ p <= pc.h /\ pc.h \in Nat /\ NParams[f] \in Nat
      /\ NParams[f] <= MaxParams /\ MaxParams \in Nat /\ popped \in Nat
  <2>1. NParams[f] + popped <= pc.h /\ popped + NParams[f] \in Nat
    BY <1>1, ArgsFacts
  <2>2. /\ NParams[f] \in Nat /\ popped \in Nat /\ pc.h \in Nat
        /\ NParams[f] <= MaxParams /\ MaxParams \in Nat
    BY <1>1, FrameWordsFacts, SizeFacts, TopOps
  <2> QED
    BY <2>1, <2>2
<1>3. /\ rest \in Seq(Words) /\ b <= Len(rest)
      /\ \A j \in 1..b : rest[j] = ops[j]
      /\ Above(rest, b) = Wasm!Below(p)
  BY <1>1, <1>2, OwnPopped
<1>4. /\ Wasm!Running /\ Len(WasmFrames) = Depth
      /\ Wasm!Top.fn = pc.fn /\ Wasm!Top.locals = LocalsOf(pc.fn, sp, reg, stack)
      /\ Wasm!Top.ops = Own /\ Len(Own) = pc.h
      /\ \A j \in 1..pc.h : Own[j] = ops[b + j]
      /\ Wasm!Has(p)
  BY <1>1, <1>2, WasmTop DEF Wasm!Has
<1>5. \A k \in 1..NParams[f] : reg'[k] = args[k]
  <2> TAKE k \in 1..NParams[f]
  <2>1. Len(ops) = b + pc.h /\ b \in Nat /\ Len(ops) \in Nat
    BY <1>1, TopOps
  <2>2. /\ k \in 1..MaxParams /\ k <= NParams[f]
        /\ pc.h - popped - NParams[f] + k \in 1..pc.h
        /\ Len(ops) - popped - NParams[f] + k = b + (pc.h - popped - NParams[f] + k)
    <3> DEFINE h  == pc.h
               np == NParams[f]
               l  == Len(ops)
    <3>1. /\ h \in Nat /\ np \in Nat /\ popped \in Nat /\ np <= MaxParams /\ MaxParams \in Nat
          /\ popped + np <= h /\ l = b + h /\ b \in Nat /\ l \in Nat /\ k \in 1..np
      BY <1>2, <2>1
    <3> HIDE DEF h, np, l, b
    <3>2. /\ k \in 1..MaxParams /\ k <= np /\ h - popped - np + k \in 1..h
          /\ l - popped - np + k = b + (h - popped - np + k)
      BY <3>1
    <3> QED
      BY <3>2 DEF h, np, l
  <2>3. reg'[k] = ops[b + (pc.h - popped - NParams[f] + k)]
    BY <2>2 DEF ArgsInRegs
  <2>4. args[k] = Own[pc.h - popped - NParams[f] + k]
    BY <1>4
  <2> QED
    BY <1>4, <2>2, <2>3, <2>4
<1>6. mem \in [Addr -> Words] /\ \A a \in Addr : a >= sp + FrameWords(pc.fn) => mem[a] = stack[a]
  BY <1>1, SavedFacts
<1>7. CASE /\ Overflows(sp, f) /\ Trap("Stack_overflow") /\ stack' = mem
  BY <1>4, <1>7, TrapRefines DEF Wasm!Enter
<1>8. CASE /\ ~Overflows(sp, f)
           /\ sp' = LoweredSp(sp, f)
           /\ stack' = Cleaned(mem, f, sp')
           /\ acts' = Append(acts, Callee(f, sp', Len(rest)))
           /\ outcome' = Outcome("running", Zero)
  <2>1. /\ n \in Nat /\ n > 0 /\ n = Len(acts) /\ acts \in Seq(Activations) /\ n \in 1..n
        /\ acts[n].fn = pc.fn /\ acts[n].sp = sp
        /\ sp \in Addr /\ sp \in Int /\ sp <= WrapperSp /\ FrameWords(pc.fn) \in Nat
    <3>1. /\ n \in Nat /\ n > 0 /\ acts \in Seq(Activations) /\ sp \in Addr
          /\ sp + FrameWords(pc.fn) <= WrapperSp /\ pc.fn \in Funcs
      BY <1>1, TopFacts
    <3>2. FrameWords(pc.fn) \in Nat
      BY <3>1, FrameWordsFacts
    <3>3. sp \in Int /\ sp <= WrapperSp
      BY <3>1, <3>2, SizeFacts DEF Addr
    <3> QED
      BY <1>1, <3>1, <3>2, <3>3, TopIs DEF Depth
  <2> HIDE DEF rest, mem, args
  <2>2. /\ Active(f, sp', reg', stack', Above(rest, Len(rest))) = Wasm!Activation(f, args)
        /\ \A a \in Addr : a >= sp => stack'[a] = mem[a]
        /\ sp' \in Int /\ sp' > 0
    <3>1. sp \in Int /\ sp <= WrapperSp
      BY <2>1
    <3>2. mem \in [Addr -> Words] /\ rest \in Seq(Words)
      BY <1>3, <1>6
    <3>3. ~Overflows(sp, f) /\ sp' = LoweredSp(sp, f) /\ stack' = Cleaned(mem, f, sp')
      BY <1>8
    <3> HIDE DEF b, n, p
    <3> QED
      BY <1>5, <3>1, <3>2, <3>3, NewTop
  <2>3. /\ acts' \in Seq(Activations) /\ Len(acts') = n + 1
        /\ acts'[n + 1] = Callee(f, sp', Len(rest))
        /\ \A i \in 1..n : acts'[i] = acts[i]
    <3>1. Callee(f, sp', Len(rest)) \in Activations
      BY <1>3, <2>2 DEF Callee, Activations
    <3> QED
      BY <1>8, <2>1, <3>1
  <2>4. ops' = rest
    BY DEF EnterBody, rest
  <2>5. ASSUME NEW i \in 1..(n - 1)
        PROVE  Waiting(acts', i, stack', ops') = Waiting(acts, i, stack, ops)
    <3>1. \A a \in Addr : a >= sp + FrameWords(pc.fn) => stack'[a] = stack[a]
      BY <1>6, <2>1, <2>2 DEF Addr
    <3>2. Waiting(acts, i, stack', rest) = Waiting(acts, i, stack, ops)
      BY <1>1, <1>3, <3>1, WaitingSame
    <3>3. acts'[i] = acts[i] /\ acts'[i + 1] = acts[i + 1]
      BY <2>1, <2>3
    <3> QED
      BY <2>4, <3>2, <3>3 DEF Waiting
  <2>6. Waiting(acts', n, stack', ops')
          = Active(pc.fn, sp, reg, stack, Wasm!Below(p))
    <3>1. acts'[n].fn = pc.fn /\ acts'[n].sp = sp /\ acts'[n].base = b
          /\ acts'[n + 1].base = Len(rest)
      BY <2>1, <2>3 DEF Callee
    <3>2. ASSUME NEW k \in 1..NVars(pc.fn) PROVE stack'[sp + k] = mem[sp + k]
      <4>1. sp + k \in Addr
        BY <1>1, <2>1, ActivationFacts
      <4>2. sp + k >= sp
        BY <2>1
      <4> QED
        BY <2>2, <4>1, <4>2
    <3>3. [k \in 1..NVars(pc.fn) |-> stack'[sp + k]] = LocalsOf(pc.fn, sp, reg, stack)
      <4>1. [k \in 1..NVars(pc.fn) |-> stack'[sp + k]] = [k \in 1..NVars(pc.fn) |-> mem[sp + k]]
        BY <3>2
      <4>2. [k \in 1..NVars(pc.fn) |-> mem[sp + k]] = LocalsOf(pc.fn, sp, reg, stack)
        BY <1>1, SavedLocals DEF mem
      <4> QED
        BY <4>1, <4>2
    <3>4. SubSeq(rest, b + 1, Len(rest)) = Wasm!Below(p)
      BY <1>3 DEF Above
    <3> QED
      BY <2>4, <3>1, <3>3, <3>4 DEF Waiting, Active
  <2> DEFINE q == WasmFrames
             r == WasmFrames'
  <2>7. /\ q = [i \in 1..n |-> q[i]] /\ Len(q) = n
        /\ \A i \in 1..(n - 1) : q[i] = Waiting(acts, i, stack, ops)
    <3> DEFINE z == Frames(acts, reg, stack, ops)
    <3>1. /\ z = [i \in 1..Len(acts) |-> z[i]] /\ Len(z) = Len(acts)
      BY <2>1, FramesLen
    <3>2. \A i \in 1..(Len(acts) - 1) : z[i] = Waiting(acts, i, stack, ops)
      BY <2>1, FramesEntries
    <3> HIDE DEF z
    <3>3. q = z
      BY WasmFramesAre DEF z
    <3> QED
      BY <2>1, <3>1, <3>2, <3>3
  <2>8. /\ r = [i \in 1..(n + 1) |-> r[i]]
        /\ r[n + 1] = Active(f, sp', reg', stack', Above(ops', Len(rest)))
        /\ \A i \in 1..n : r[i] = Waiting(acts', i, stack', ops')
    <3> DEFINE z == Frames(acts', reg', stack', ops')
    <3>1. /\ z = [i \in 1..Len(acts') |-> z[i]]
      BY <2>3, FramesLen
    <3>2. /\ Len(acts') > 0 =>
               z[Len(acts')] = Active(acts'[Len(acts')].fn, acts'[Len(acts')].sp, reg', stack',
                                      Above(ops', acts'[Len(acts')].base))
          /\ \A i \in 1..(Len(acts') - 1) : z[i] = Waiting(acts', i, stack', ops')
      BY <2>3, FramesEntries
    <3> HIDE DEF z
    <3>3. r = z
      BY WasmFramesAre DEF z
    <3>4. n + 1 > 0 /\ (n + 1) - 1 = n
      BY <2>1
    <3>5. /\ acts'[n + 1].fn = f /\ acts'[n + 1].sp = sp' /\ acts'[n + 1].base = Len(rest)
      BY <2>3 DEF Callee
    <3> HIDE DEF r, n, b, p
    <3>6. z[n + 1] = Active(f, sp', reg', stack', Above(ops', Len(rest)))
      BY <2>3, <3>2, <3>4, <3>5
    <3>7. \A i \in 1..n : z[i] = Waiting(acts', i, stack', ops')
      BY <2>3, <3>2, <3>4
    <3>8. z = [i \in 1..(n + 1) |-> z[i]]
      BY <2>3, <3>1
    <3> QED
      BY <3>3, <3>6, <3>7, <3>8
  <2>9. X = [q EXCEPT ![n] = Active(pc.fn, sp, reg, stack, Wasm!Below(p))]
    <3>1. WasmFrames[Len(WasmFrames)].fn = pc.fn
      BY <1>4 DEF Wasm!Top
    <3> QED
      BY <1>4, <3>1 DEF Wasm!WithTop, Wasm!Frame, Active
  <2> HIDE DEF q, r, X, n
  <2>10. X = [i \in 1..n |-> X[i]]
    BY <2>1, <2>7, <2>9
  <2>11. ASSUME NEW i \in 1..n PROVE r[i] = X[i]
    <3>1. CASE i = n
      BY <2>1, <2>6, <2>7, <2>8, <2>9, <3>1
    <3>2. CASE i \in 1..(n - 1)
      <4>1. i # n
        BY <2>1, <3>2
      <4> QED
        BY <2>5, <2>7, <2>8, <2>9, <3>2, <4>1
    <3> QED
      BY <2>1, <3>1, <3>2
  <2>12. r[n + 1] = Wasm!Activation(f, args)
    BY <2>2, <2>4, <2>8
  <2>13. n \in Nat
    BY <2>1
  <2>14. r = Append(X, Wasm!Activation(f, args))
    <3> DEFINE e == Wasm!Activation(f, args)
    <3>1. Listed(X, n) /\ Listed(r, n + 1)
      BY <2>8, <2>10 DEF Listed
    <3>2. AgreeUpTo(r, X, n)
      BY <2>11 DEF AgreeUpTo
    <3>3. r[n + 1] = e
      BY <2>12
    <3> HIDE DEF e
    <3>4. r = Append(X, e)
      BY <2>13, <3>1, <3>2, <3>3, AppendIs
    <3> QED
      BY <3>4 DEF e
  <2>15. WasmFrames' = Append(X, Wasm!Activation(f, args)) /\ outcome' = outcome
    BY <1>1, <1>8, <2>14 DEF r
  <2> QED
    BY <1>4, <2>15 DEF Wasm!Enter, X, args
<1> QED
  BY <1>7, <1>8 DEF EnterBody

LEMMA CallRefines ==
  ASSUME ProgramFits, JInv, NEW f \in Funcs, Call(f)
  PROVE  Wasm!Call(f)
<1>1. 0 + NParams[f] = NParams[f] /\ 0 \in 0..1
  BY SignaturesAssumption DEF AllFuncs
<1>2. /\ CanCall(f, 0) /\ InJit /\ reg' = ArgsInRegs(f, 0)
      /\ EnterBody(f, sp, WithLr(WithParams), Popped(0 + NParams[f]), Continue(f, 0), acts)
  BY <1>1 DEF Call, CanCall
<1>3. Wasm!Enter(f, 0)
  BY <1>1, <1>2, EnterRefines
<1> QED
  BY <1>3 DEF Wasm!Call

\* A function without parameters has none to save.
LEMMA CallIndirectRefines ==
  ASSUME ProgramFits, IndirectFits, JInv, NEW g \in Funcs, CallIndirect(Signature(g))
  PROVE  Wasm!CallIndirect(Signature(g))
<1>1. /\ InJit /\ IInv /\ pc.h >= 1 /\ NParams[pc.fn] = 0
  BY SignaturesAssumption DEF CallIndirect, JInv, InJit, AllFuncs, IndirectFits
<1>2. Wasm!Newest = TopWord /\ Wasm!Has(1)
  BY <1>1, OwnNewest
<1>3. CASE TopWord \notin DOMAIN Table /\ Trap("TableElement_out_of_range")
  BY <1>2, <1>3, TrapRefines DEF Wasm!CallIndirect
<1>4. CASE /\ TopWord \in DOMAIN Table /\ Signature(Table[TopWord]) # Signature(g)
           /\ Trap("IndirectCall_signature_mismatch")
  BY <1>2, <1>4, TrapRefines DEF Wasm!CallIndirect, Signature
<1>5. CASE /\ TopWord \in DOMAIN Table
           /\ Signature(Table[TopWord]) = Signature(g)
           /\ CanCall(Table[TopWord], 1)
           /\ reg' = ArgsInRegs(Table[TopWord], 1)
           /\ EnterBody(Table[TopWord], sp, WithLr(stack), Popped(1 + Signature(g)[1]),
                        Continue(Table[TopWord], 1), acts)
  <2>1. PICK f \in Funcs : f = Table[TopWord]
    BY <1>5, ValuesAssumption
  <2>2. Signature(g)[1] = NParams[f]
    BY <1>5, <2>1 DEF Signature
  <2>3. WithParams = stack
    <3>1. stack \in [Addr -> Words] /\ sp \in Int
      BY <1>1 DEF IInv, WordsTyped
    <3>2. \A a \in Addr : ~(a > sp /\ a <= sp + 0)
      BY <3>1 DEF Addr
    <3> QED
      BY <1>1, <3>1, <3>2 DEF WithParams
  <2>4. 1 \in 0..1 /\ CanCall(f, 1) /\ reg' = ArgsInRegs(f, 1)
        /\ EnterBody(f, sp, WithLr(WithParams), Popped(1 + NParams[f]), Continue(f, 1), acts)
    BY <1>5, <2>1, <2>2, <2>3
  <2>5. Wasm!Enter(f, 1)
    BY <1>1, <2>4, EnterRefines
  <2> QED
    BY <1>2, <1>5, <2>1, <2>5 DEF Wasm!CallIndirect, Signature
<1> QED
  BY <1>3, <1>4, <1>5 DEF CallIndirect

LEMMA InvokeRefines ==
  ASSUME ProgramFits, JInv, NEW f \in Funcs,
         NEW args \in [1..NParams[f] -> Values], Invoke(f, args)
  PROVE  Wasm!Invoke(f, args)
<1> DEFINE mem == [stack EXCEPT ![WrapperSp] = Host]
           c   == Callee(f, sp', 0)
           e   == Active(f, sp', reg', stack', Above(<<>>, 0))
<1>1. ~InJit /\ acts = <<>> /\ IInv
  BY DEF Invoke, JInv, IInv, ReturnChain
<1>2. ~Wasm!Running
  BY <1>1, NoFrames DEF Wasm!Running
<1>3. CASE Trap("Stack_overflow")
  BY <1>2, <1>3, TrapRefines DEF Wasm!Invoke
<1>4. CASE /\ ~Overflows(WrapperSp, f)
           /\ sp' = LoweredSp(WrapperSp, f)
           /\ stack' = Cleaned(mem, f, sp')
           /\ acts' = Append(<<>>, Callee(f, sp', Len(<<>>)))
           /\ outcome' = Outcome("running", Zero)
  <2>1. /\ ops' = <<>> /\ Len(<<>>) = 0 /\ <<>> \in Seq(Words)
        /\ acts' = <<c>>
    BY <1>4 DEF Invoke, EnterBody
  <2>2. mem \in [Addr -> Words] /\ WrapperSp \in Int /\ WrapperSp <= WrapperSp
    BY <1>1, SizeFacts DEF IInv, WordsTyped
  <2>3. \A k \in 1..NParams[f] : reg'[k] = args[k]
    <3>1. /\ reg' = [k \in 1..MaxParams |-> IF k <= NParams[f] THEN args[k] ELSE Stale]
          /\ NParams[f] \in Nat /\ NParams[f] <= MaxParams /\ MaxParams \in Nat
      BY FrameWordsFacts, SizeFacts DEF Invoke
    <3>2. \A k \in 1..NParams[f] : k \in 1..MaxParams /\ k <= NParams[f]
      BY <3>1
    <3> QED
      BY <3>1, <3>2
  <2> HIDE DEF mem, c
  <2>4. /\ e = Wasm!Activation(f, args) /\ sp' \in Int
    <3> DEFINE rest == <<>>
    <3>1. rest \in Seq(Words) /\ Len(rest) = 0
      BY <2>1
    <3>2. ~Overflows(WrapperSp, f) /\ sp' = LoweredSp(WrapperSp, f) /\ stack' = Cleaned(mem, f, sp')
      BY <1>4
    <3> HIDE DEF rest
    <3>3. /\ Active(f, sp', reg', stack', Above(rest, Len(rest))) = Wasm!Activation(f, args)
          /\ sp' \in Int
      BY <2>2, <2>3, <3>1, <3>2, NewTop
    <3> QED
      BY <3>1, <3>3 DEF rest
  <2>5. WasmFrames' = <<e>>
    <3> DEFINE z == Frames(acts', reg', stack', ops')
    <3>1. acts' \in Seq(Activations) /\ Len(acts') = 1 /\ acts'[1] = c
      BY <2>1, <2>4 DEF c, Callee, Activations
    <3>2. z = [i \in 1..Len(acts') |-> z[i]]
      BY <3>1, FramesLen
    <3>3. /\ Len(acts') > 0 =>
               z[Len(acts')] = Active(acts'[Len(acts')].fn, acts'[Len(acts')].sp, reg', stack',
                                      Above(ops', acts'[Len(acts')].base))
      <4> DEFINE s == acts'
      <4>1. s \in Seq(Activations)
        BY <3>1
      <4> HIDE DEF s
      <4>2. Len(s) > 0 =>
              Frames(s, reg', stack', ops')[Len(s)] =
                Active(s[Len(s)].fn, s[Len(s)].sp, reg', stack', Above(ops', s[Len(s)].base))
        BY <4>1, FramesEntries
      <4> QED
        BY <4>2 DEF s
    <3> HIDE DEF z
    <3>4. z = [i \in 1..1 |-> z[i]]
      BY <3>1, <3>2
    <3>5. z[1] = Active(acts'[1].fn, acts'[1].sp, reg', stack', Above(ops', acts'[1].base))
      BY <3>1, <3>3
    <3>6. z[1] = e
      BY <2>1, <3>1, <3>5 DEF c, Callee
    <3>7. <<e>> = [i \in 1..1 |-> e]
      OBVIOUS
    <3>8. z = <<e>>
      BY <3>4, <3>6, <3>7
    <3> QED
      BY <3>8, WasmFramesAre DEF z
  <2> QED
    BY <1>2, <1>4, <2>4, <2>5 DEF Wasm!Invoke, Outcome, Wasm!Outcome
<1> QED
  BY <1>3, <1>4 DEF Invoke, EnterBody

\* A return: the innermost activation is gone, its caller has the result.
LEMMA ReturnToHostRefines ==
  ASSUME ProgramFits, JInv, Return, lr = Host
  PROVE  Wasm!Return
<1> DEFINE f == pc.fn
<1>1. /\ InJit /\ IInv /\ pc.h = ResultWords(f) /\ acts' = <<>>
      /\ outcome' = IF HasResult[f] THEN Outcome("value", TopWord) ELSE Outcome("void", Zero)
  BY DEF Return, JInv, ProgramFits
<1>2. Depth = 1
  <2>1. Depth \in Nat /\ Depth > 0 /\ lr = CallPoint(acts, Depth)
    BY <1>1, TopFacts DEF IInv, ReturnChain
  <2>2. CASE Depth > 1
    <3>1. lr.fn = acts[Depth - 1].fn
      BY <2>2 , <2>1 DEF CallPoint
    <3>2. Depth - 1 \in 1..Depth
      BY <2>1, <2>2
    <3>3. lr.fn \in Funcs
      BY <1>1, <3>1, <3>2, ActivationFacts
    <3>4. HostFn \notin Funcs
      BY SignaturesAssumption DEF AllFuncs
    <3> QED
      BY <3>3, <3>4 DEF Host
  <2> QED
    BY <2>1, <2>2
<1>3. SubSeq(WasmFrames, 1, Len(WasmFrames) - 1) = <<>>
  <2>1. Len(WasmFrames) = 1
    BY <1>1, <1>2, WasmTop
  <2> QED
    BY <2>1, SubSeqEmpty
<1>4. WasmFrames' = <<>>
  BY <1>1, NoFrames
<1>5. Wasm!Running /\ Wasm!Top.fn = f /\ Wasm!Top.ops = Own /\ Len(Own) = pc.h
  BY <1>1, WasmTop
<1>6. Wasm!Has(Wasm!Results) /\ (HasResult[f] => Wasm!Newest = TopWord)
  <2>1. CASE HasResult[f]
    <3>1. pc.h = 1
      BY <1>1, <2>1 DEF ResultWords
    <3> QED
      BY <1>1, <1>5, <2>1, <3>1, OwnNewest DEF Wasm!Results
  <2>2. CASE ~HasResult[f]
    <3>1. pc.h = 0
      BY <1>1, <2>2 DEF ResultWords
    <3> QED
      BY <1>5, <2>2, <3>1 DEF Wasm!Results, Wasm!Has
  <2> QED
    BY <2>1, <2>2
<1> QED
  BY <1>1, <1>3, <1>4, <1>5, <1>6 DEF Wasm!Return, Outcome, Wasm!Outcome

LEMMA ReturnToCallerRefines ==
  ASSUME ProgramFits, JInv, Return, lr # Host
  PROVE  Wasm!Return /\ Kept
<1> DEFINE f     == pc.fn
           n     == Depth
           m     == n - 1
           r0    == IF HasResult[f] THEN TopWord ELSE reg[1]
           rest  == Popped(ResultWords(f))
           res   == Pushed(lr.res, r0)
           g     == acts[m].fn
           after == acts[m].sp
           b     == acts[m].base
<1>1. /\ InJit /\ IInv /\ BasesOrdered(acts) /\ pc.h = ResultWords(f) /\ ResultWords(f) \in Nat
      /\ stack' = stack /\ outcome' = outcome
  BY DEF Return, JInv, ProgramFits, ResultWords
<1>2. /\ n \in Nat /\ n > 1 /\ n = Len(acts) /\ acts \in Seq(Activations) /\ f \in Funcs
      /\ acts[n].fn = f /\ acts[n].sp = sp /\ lr = CallPoint(acts, n)
      /\ m \in 1..n /\ m \in 1..(n - 1) /\ n \in 1..n /\ m \in Nat /\ m + 1 = n
  <2>1. /\ n \in Nat /\ n > 0 /\ acts \in Seq(Activations) /\ lr = CallPoint(acts, n)
        /\ acts[n].fn = f /\ acts[n].sp = sp /\ f \in Funcs
    BY <1>1, TopFacts, TopIs DEF IInv, ReturnChain
  <2>2. n # 1
    BY <2>1 DEF CallPoint
  <2>3. n = Len(acts)
    BY DEF Depth
  <2> HIDE DEF n
  <2>4. /\ n > 1 /\ m \in 1..n /\ m \in 1..(n - 1) /\ n \in 1..n /\ m \in Nat /\ m + 1 = n
    BY <2>1, <2>2
  <2> QED
    BY <2>1, <2>3, <2>4
<1>3. /\ lr.fn = g /\ lr.res = HasResult[f] /\ after = sp + Imm(FrameWords(f))
  <2>1. lr = [fn |-> acts[n - 1].fn, h |-> acts[n].base - acts[n - 1].base,
              res |-> HasResult[acts[n].fn]]
    BY <1>2 DEF CallPoint
  <2>2. acts[n].sp + FrameWords(acts[n].fn) = CallerSp(acts, n)
    BY <1>1, <1>2 DEF IInv, FramesContiguous
  <2>3. CallerSp(acts, n) = acts[n - 1].sp
    BY <1>2 DEF CallerSp
  <2>4. Imm(FrameWords(f)) = FrameWords(f)
    BY <1>2, FitsImm
  <2> QED
    BY <1>2, <2>1, <2>2, <2>3, <2>4
<1>4. /\ reg' = Reloaded(g, after, stack, r0, reg) /\ ops' = rest \o res
      /\ acts' = SubSeq(acts, 1, Len(acts) - 1)
  BY <1>3 DEF Return
<1>5. /\ g \in Funcs /\ b \in Nat /\ NVars(g) \in Nat /\ NParams[g] \in Nat
      /\ NParams[g] <= MaxParams /\ MaxParams \in Nat
      /\ acts[n].base \in Nat /\ b <= acts[n].base
  <2>1. g \in Funcs /\ b \in Nat /\ acts[n].base \in Nat
    BY <1>1, <1>2, ActivationFacts
  <2>2. b <= acts[n].base
    BY <1>1, <1>2 DEF BasesOrdered
  <2> QED
    BY <2>1, <2>2, FrameWordsFacts, SizeFacts
<1>6. /\ acts' \in Seq(Activations) /\ Len(acts') = m
      /\ \A i \in 1..m : acts'[i] = acts[i]
  <2>1. \A i \in 1..m : acts[i] \in Activations
    BY <1>2
  <2>2. 1 \in Int /\ m \in Int /\ Len(acts) - 1 = m /\ m >= 1
    BY <1>2
  <2> HIDE DEF m
  <2>3. /\ SubSeq(acts, 1, m) \in Seq(Activations)
        /\ Len(SubSeq(acts, 1, m)) = IF 1 <= m THEN m - 1 + 1 ELSE 0
        /\ \A i \in 1..(m - 1 + 1) : SubSeq(acts, 1, m)[i] = acts[1 + i - 1]
    BY <2>1, <2>2, SubSeqProperties
  <2> QED
    BY <1>4, <2>2, <2>3
<1>7. /\ rest \in Seq(Words) /\ Len(rest) = acts[n].base
      /\ \A j \in 1..acts[n].base : rest[j] = ops[j]
  <2>1. ResultWords(f) <= pc.h
    BY <1>1
  <2>2. /\ rest \in Seq(Words) /\ Len(rest) = Len(ops) - ResultWords(f)
        /\ \A j \in 1..acts[n].base : rest[j] = ops[j]
    BY <1>1, <2>1, OwnPopped
  <2>3. Len(ops) = acts[n].base + pc.h /\ pc.h \in Nat /\ acts[n].base \in Nat
    BY <1>1, TopOps
  <2> HIDE DEF rest
  <2> QED
    BY <1>1, <2>2, <2>3
<1>8. /\ r0 \in Words
      /\ Wasm!Has(Wasm!Results) /\ (HasResult[f] => Wasm!Newest = r0)
  <2>1. CASE HasResult[f]
    <3>1. pc.h = 1 /\ pc.h >= 1
      BY <1>1, <2>1 DEF ResultWords
    <3>2. Wasm!Results = 1
      BY <1>1, <2>1, WasmTop DEF Wasm!Results
    <3> QED
      BY <1>1, <2>1, <3>1, <3>2, OwnNewest
  <2>2. CASE ~HasResult[f]
    <3>1. pc.h = 0
      BY <1>1, <2>2 DEF ResultWords
    <3>2. Wasm!Results = 0
      BY <1>1, <2>2, WasmTop DEF Wasm!Results
    <3>3. r0 \in Words
      BY <1>1, <2>2, SizeFacts DEF IInv, WordsTyped
    <3>4. Wasm!Has(0)
      BY <1>1, <3>1, WasmTop DEF Wasm!Has
    <3> QED
      BY <2>2, <3>2, <3>3, <3>4
  <2> QED
    BY <2>1, <2>2
<1>9. res \in Seq(Words) /\ res = IF HasResult[f] THEN <<r0>> ELSE <<>>
  <2>1. <<r0>> \in Seq(Words) /\ <<>> \in Seq(Words)
    BY <1>8
  <2> QED
    BY <1>3, <2>1 DEF Pushed
<1> HIDE DEF r0, rest, res
\* The waiting activations below the caller, and the caller itself.
<1>10. ASSUME NEW i \in 1..m, NEW o \in Seq(Words), acts[n].base <= Len(o),
              \A j \in 1..acts[n].base : o[j] = ops[j]
       PROVE  Waiting(acts, i, stack, o) = Waiting(acts, i, stack, ops)
  BY <1>1, <1>10, WaitingSame
<1>11. /\ ops' \in Seq(Words) /\ acts[n].base <= Len(ops')
       /\ \A j \in 1..acts[n].base : ops'[j] = ops[j]
  <2>1. /\ rest \o res \in Seq(Words) /\ Len(rest \o res) = Len(rest) + Len(res)
        /\ \A i \in 1..(Len(rest) + Len(res)) :
             (rest \o res)[i] = IF i <= Len(rest) THEN rest[i] ELSE res[i - Len(rest)]
    BY <1>7, <1>9, ConcatProperties
  <2>2. Len(rest) \in Nat /\ Len(res) \in Nat
    BY <1>7, <1>9
  <2> HIDE DEF n
  <2>3. /\ acts[n].base <= Len(rest \o res)
        /\ \A j \in 1..acts[n].base : (rest \o res)[j] = ops[j]
    BY <1>7, <2>1, <2>2
  <2> QED
    BY <1>4, <2>1, <2>3
<1>12. Above(ops', b) = SubSeq(ops, b + 1, acts[n].base) \o res
  <2>1. Above(rest \o res, b) = Above(rest, b) \o res
    BY <1>5, <1>7, <1>9, AboveConcat
  <2>2. Above(rest, b) = SubSeq(rest, b + 1, acts[n].base)
    BY <1>7 DEF Above
  <2>3. SubSeq(rest, b + 1, acts[n].base) = SubSeq(ops, b + 1, acts[n].base)
    <3> DEFINE e == acts[n].base
               p == b + 1
    <3>1. /\ ops \in Seq(Words) /\ e \in Nat /\ e <= Len(ops) /\ e <= Len(rest) /\ p \in Nat \ {0}
      BY <1>1, <1>5, <1>7, TopOps
    <3>2. \A j \in p..e : rest[j] = ops[j]
      BY <1>5, <1>7
    <3>4. rest \in Seq(Words)
      BY <1>7
    <3> HIDE DEF e, p
    <3>3. SubSeq(rest, p, e) = SubSeq(ops, p, e)
      BY <3>1, <3>2, <3>4, SameSubSeq
    <3> QED
      BY <3>3 DEF e, p
  <2> QED
    BY <1>4, <2>1, <2>2, <2>3
<1>13. LocalsOf(g, after, reg', stack') = [k \in 1..NVars(g) |-> stack[after + k]]
  <2>1. ASSUME NEW k \in 1..NVars(g), k <= NParams[g] PROVE reg'[k] = stack[after + k]
    <3>1. k \in 1..MaxParams
      BY <1>5, <2>1
    <3> QED
      BY <1>4, <2>1, <3>1 DEF Reloaded
  <2> QED
    BY <1>1, <2>1 DEF LocalsOf
<1> DEFINE q == WasmFrames
           z == WasmFrames'
           X == SubSeq(q, 1, Len(q) - 1)
           W == Waiting(acts, m, stack, ops)
<1>14. /\ Len(q) = n /\ \A i \in 1..m : q[i] = Waiting(acts, i, stack, ops)
  <2>1. \A i \in 1..(Len(acts) - 1) : Frames(acts, reg, stack, ops)[i] = Waiting(acts, i, stack, ops)
    BY <1>2, FramesEntries
  <2> QED
    BY <1>1, <1>2, <2>1, WasmTop, WasmFramesAre
<1>15. /\ z = [i \in 1..m |-> z[i]]
       /\ z[m] = Active(g, after, reg', stack', Above(ops', b))
       /\ \A i \in 1..(m - 1) : z[i] = Waiting(acts', i, stack', ops')
  <2> DEFINE s == acts'
  <2>1. s \in Seq(Activations) /\ Len(s) = m /\ s[m] = acts[m]
    BY <1>2, <1>6
  <2>2. z = Frames(s, reg', stack', ops')
    BY WasmFramesAre
  <2> HIDE DEF s, z, m
  <2>3. Frames(s, reg', stack', ops') = [i \in 1..Len(s) |-> Frames(s, reg', stack', ops')[i]]
    BY <2>1, FramesLen
  <2>4. /\ Len(s) > 0 =>
             Frames(s, reg', stack', ops')[Len(s)] =
               Active(s[Len(s)].fn, s[Len(s)].sp, reg', stack', Above(ops', s[Len(s)].base))
        /\ \A i \in 1..(Len(s) - 1) : Frames(s, reg', stack', ops')[i] = Waiting(s, i, stack', ops')
    BY <2>1, FramesEntries
  <2>5. m > 0
    BY <1>2
  <2> QED
    BY <2>1, <2>2, <2>3, <2>4, <2>5 DEF s
<1>16. \A i \in 1..(m - 1) : z[i] = q[i]
  <2> TAKE i \in 1..(m - 1)
  <2>1. i \in 1..m /\ i + 1 \in 1..m
    BY <1>2
  <2>2. acts'[i] = acts[i] /\ acts'[i + 1] = acts[i + 1]
    BY <1>6, <2>1
  <2>3. Waiting(acts', i, stack', ops') = Waiting(acts, i, stack, ops')
    BY <1>1, <2>2 DEF Waiting
  <2>4. Waiting(acts, i, stack, ops') = Waiting(acts, i, stack, ops)
    BY <1>10, <1>11, <2>1
  <2> QED
    BY <1>14, <1>15, <2>1, <2>3, <2>4
<1>17. z[m] = Wasm!Frame(W.fn, W.locals, W.ops \o res)
  <2>1. W.fn = g /\ W.locals = [k \in 1..NVars(g) |-> stack[after + k]]
        /\ W.ops = SubSeq(ops, b + 1, acts[n].base)
    BY <1>2 DEF Waiting
  <2> HIDE DEF W
  <2> QED
    BY <1>12, <1>13, <1>15, <2>1 DEF Active, Wasm!Frame
<1> HIDE DEF q, z, W
<1>18. /\ X = [i \in 1..m |-> X[i]] /\ Len(X) = m /\ X # <<>>
       /\ \A i \in 1..m : X[i] = q[i]
  <2> DEFINE S == {q[i] : i \in 1..m}
  <2>1. \A i \in 1..m : q[i] \in S
    OBVIOUS
  <2>2. 1 \in Int /\ m \in Int /\ m >= 1 /\ Len(q) - 1 = m
    BY <1>2, <1>14
  <2> HIDE DEF S, m
  <2>3. /\ SubSeq(q, 1, m) \in Seq(S)
        /\ Len(SubSeq(q, 1, m)) = IF 1 <= m THEN m - 1 + 1 ELSE 0
        /\ \A i \in 1..(m - 1 + 1) : SubSeq(q, 1, m)[i] = q[1 + i - 1]
    BY <2>1, <2>2, SubSeqProperties
  <2>4. X = SubSeq(q, 1, m)
    BY <2>2
  <2> HIDE DEF X
  <2>5. /\ X \in Seq(S) /\ Len(X) = m /\ \A i \in 1..m : X[i] = q[i]
    BY <2>2, <2>3, <2>4
  <2>6. X \in [1..m -> S]
    BY <2>5, LenProperties
  <2>7. X # <<>>
    BY <2>2, <2>5, EmptySeq
  <2> QED
    BY <2>5, <2>6, <2>7
<1> HIDE DEF X
<1>19. X[m] = W
  BY <1>2, <1>14, <1>18 DEF W
<1>20. z = Wasm!WithTop(X, W.locals, W.ops \o res)
  <2> DEFINE T == Wasm!Frame(W.fn, W.locals, W.ops \o res)
  <2>1. \A i \in 1..m : i = m \/ i \in 1..(m - 1)
    BY <1>2
  <2>2. z[m] = T
    BY <1>17
  <2>3. \A i \in 1..(m - 1) : i \in 1..m /\ i # m /\ z[i] = X[i]
    BY <1>2, <1>16, <1>18
  <2>4. z = [i \in 1..m |-> z[i]] /\ X = [i \in 1..m |-> X[i]]
    BY <1>15, <1>18
  <2>5. m \in 1..m
    BY <1>2
  <2> HIDE DEF T, m
  <2>6. z = [X EXCEPT ![m] = T]
    BY <2>1, <2>2, <2>3, <2>4, <2>5
  <2> QED
    BY <1>18, <1>19, <2>6 DEF Wasm!WithTop, T
<1>21. /\ Wasm!Running /\ Wasm!Top.fn = f
       /\ res = IF HasResult[Wasm!Top.fn] THEN <<Wasm!Newest>> ELSE <<>>
  BY <1>1, <1>8, <1>9, WasmTop
<1>22. Kept
  <2>1. ~(Len(acts') > Depth)
    BY <1>2, <1>6
  <2>2. Len(ops') \in Nat /\ acts[n].base \in Nat
    BY <1>5, <1>11
  <2>3. \A i \in 1..acts[n].base : i <= Len(ops') /\ ops'[i] = ops[i]
    BY <1>11, <2>2
  <2> QED
    BY <1>1, <2>3 DEF Kept
<1> QED
  BY <1>1, <1>8, <1>18, <1>19, <1>20, <1>21, <1>22 DEF Wasm!Return, X, q, z

-----------------------------------------------------------------------------
\* No call writes above the words it saves, with or without the parameters.
LEMMA EnterKept ==
  ASSUME ProgramFits, IInv, InJit, InJit', NEW f \in Funcs, NEW popped \in 0..1,
         CanCall(f, popped), NEW mem \in {WithParams, stack},
         EnterBody(f, sp, WithLr(mem), Popped(popped + NParams[f]),
                   Continue(f, popped), acts)
  PROVE  Kept
<1> DEFINE rest == Popped(popped + NParams[f])
           np   == NParams[pc.fn]
           b    == acts[Depth].base
           c    == Callee(f, sp', Len(rest))
<1>1. /\ sp' = LoweredSp(sp, f) /\ stack' = Cleaned(WithLr(mem), f, sp')
      /\ acts' = Append(acts, c) /\ ops' = rest
  BY DEF EnterBody, Trap, InJit
<1>2. /\ FrameWords(f) \in Nat /\ sp' = sp - FrameWords(f) /\ np \in Nat
      /\ sp \in Int /\ acts \in Seq(Activations) /\ Depth = Len(acts)
      /\ stack \in [Addr -> Words] /\ b \in Nat
  <2>1. FrameWords(f) \in Nat /\ sp' = sp - FrameWords(f)
    BY <1>1, FitsImm, FrameWordsFacts DEF LoweredSp
  <2>2. np \in Nat /\ acts \in Seq(Activations) /\ Depth = Len(acts) /\ b \in Nat
    BY TopFacts, FrameWordsFacts DEF Depth
  <2>3. sp \in Int /\ stack \in [Addr -> Words]
    BY DEF IInv, WordsTyped
  <2> QED
    BY <2>1, <2>2, <2>3
<1>3. /\ rest \in Seq(Words) /\ b <= Len(rest) /\ \A j \in 1..b : rest[j] = ops[j]
  <2>1. f \in AllFuncs
    BY DEF AllFuncs
  <2>2. NParams[f] + popped <= pc.h /\ popped + NParams[f] \in Nat
    BY <2>1, ArgsFacts
  <2>3. popped + NParams[f] <= pc.h
    <3>1. popped \in Nat /\ NParams[f] \in Nat
      BY FrameWordsFacts, SizeFacts
    <3> QED
      BY <2>2, <3>1
  <2> QED
    BY <2>2, <2>3, OwnPopped
<1> HIDE DEF rest, np, b, c
<1>4. FirstKept = sp + 1 + np
  <2>1. c \in Activations
    BY <1>2, <1>3 DEF c, Callee, Activations
  <2>2. Len(acts') > Depth
    BY <1>1, <1>2, <2>1
  <2> QED
    BY <2>2 DEF FirstKept, np
<1>5. ASSUME NEW a \in Addr, a >= sp + 1 + np PROVE stack'[a] = stack[a]
  <2>1. a \in Int /\ a >= sp /\ a # sp /\ ~(a > sp /\ a <= sp + np)
    BY <1>2, <1>5 DEF Addr
  <2>2. ~(a < sp' + FrameWords(f))
    BY <1>2, <2>1
  <2>3. Cleaned(WithLr(mem), f, sp')[a] = WithLr(mem)[a]
    BY <2>2 DEF Cleaned
  <2>4. WithParams[a] = stack[a] /\ WithParams \in [Addr -> {WithParams[x] : x \in Addr}]
    BY <2>1 DEF WithParams, np
  <2>5. mem[a] = stack[a]
    BY <2>4
  <2>6. WithLr(mem)[a] = mem[a]
    BY <1>2, <2>1, <2>4 DEF WithLr
  <2> QED
    BY <1>1, <2>3, <2>5, <2>6
<1>6. \A i \in 1..b : i <= Len(ops') /\ ops'[i] = ops[i]
  BY <1>1, <1>2, <1>3
<1> QED
  BY <1>4, <1>5, <1>6 DEF Kept, b

-----------------------------------------------------------------------------
\* The strengthened invariant.
LEMMA OrderedAppend ==
  ASSUME NEW s \in Seq(Activations), NEW c \in Activations, BasesOrdered(s),
         \A i \in 1..Len(s) : s[i].base <= c.base
  PROVE  BasesOrdered(Append(s, c))
<1> DEFINE n == Len(s)
           t == Append(s, c)
<1>1. /\ n \in Nat /\ Len(t) = n + 1 /\ t[n + 1] = c /\ \A i \in 1..n : t[i] = s[i]
  OBVIOUS
<1>2. c.base <= c.base
  BY DEF Activations
<1> HIDE DEF t, n
<1>3. ASSUME NEW i \in 1..(n + 1), NEW j \in 1..(n + 1), i <= j
      PROVE  t[i].base <= t[j].base
  <2>1. CASE j \in 1..n
    <3>1. i \in 1..n
      BY <1>1, <1>3, <2>1
    <3> QED
      BY <1>1, <1>3, <2>1, <3>1 DEF BasesOrdered, n
  <2>2. CASE i \in 1..n /\ j = n + 1
    BY <1>1, <2>2 DEF n
  <2>3. CASE i = n + 1 /\ j = n + 1
    BY <1>1, <1>2, <2>3
  <2> QED
    BY <1>1, <1>3, <2>1, <2>2, <2>3
<1> QED
  BY <1>1, <1>3 DEF BasesOrdered, t

LEMMA JInvInit == Init => JInv
<1> SUFFICES ASSUME Init PROVE JInv
  OBVIOUS
<1>1. acts = <<>> /\ ~InJit
  BY DEF Init, InJit
<1>2. BasesOrdered(acts)
  BY <1>1 DEF BasesOrdered
<1> QED
  BY <1>1, <1>2, InitEstablishes DEF JInv, RunningKnown

\* A body entered on top of `before`, whose bases are all below rest's end.
LEMMA EnterOrdered ==
  ASSUME NEW f \in Funcs, NEW at \in Int, NEW mem, NEW rest \in Seq(Words), NEW ra,
         NEW before \in Seq(Activations), BasesOrdered(before), IInv',
         \A i \in 1..Len(before) : before[i].base <= Len(rest),
         EnterBody(f, at, mem, rest, ra, before)
  PROVE  BasesOrdered(acts') /\ RunningKnown'
<1>1. CASE Trap("Stack_overflow")
  <2>1. acts' = <<>> /\ ~InJit'
    BY <1>1 DEF Trap, InJit
  <2> QED
    BY <2>1 DEF BasesOrdered, RunningKnown
<1>2. CASE /\ sp' = LoweredSp(at, f)
           /\ acts' = Append(before, Callee(f, sp', Len(rest)))
           /\ outcome' = Outcome("running", Zero)
  <2> DEFINE c == Callee(f, sp', Len(rest))
  <2>1. c \in Activations /\ c.base = Len(rest)
    BY DEF IInv, WordsTyped, Callee, Activations
  <2> HIDE DEF c
  <2>2. \A i \in 1..Len(before) : before[i].base <= c.base
    BY <2>1
  <2>3. BasesOrdered(Append(before, c))
    BY <2>1, <2>2, OrderedAppend
  <2> QED
    BY <1>2, <2>3 DEF RunningKnown, c
<1> QED
  BY <1>1, <1>2 DEF EnterBody

LEMMA CallOrdered ==
  ASSUME JInv, InJit, IInv', NEW f \in Funcs, NEW popped \in 0..1, CanCall(f, popped),
         NEW mem,
         EnterBody(f, sp, mem, Popped(popped + NParams[f]), Continue(f, popped), acts)
  PROVE  BasesOrdered(acts') /\ RunningKnown'
<1> DEFINE rest == Popped(popped + NParams[f])
<1>1. IInv /\ BasesOrdered(acts) /\ f \in AllFuncs
  BY DEF JInv, AllFuncs
<1>2. rest \in Seq(Words) /\ acts[Depth].base <= Len(rest) /\ Len(rest) \in Nat
  BY <1>1, RestFacts
<1>3. /\ acts \in Seq(Activations) /\ Depth = Len(acts) /\ Depth \in 1..Depth /\ sp \in Int
  BY <1>1, TopFacts DEF Depth, IInv, WordsTyped
<1> HIDE DEF rest
<1>4. ASSUME NEW i \in 1..Len(acts) PROVE acts[i].base <= Len(rest)
  <2>1. acts[i].base \in Nat /\ acts[Depth].base \in Nat
    BY <1>1, <1>3, ActivationFacts
  <2>2. i <= Depth
    BY <1>3
  <2>3. acts[i].base <= acts[Depth].base
    BY <1>1, <1>3, <2>2 DEF BasesOrdered
  <2> QED
    BY <1>2, <2>1, <2>3
<1>5. EnterBody(f, sp, mem, rest, Continue(f, popped), acts)
  BY DEF rest
<1> QED
  BY <1>1, <1>2, <1>3, <1>4, <1>5, EnterOrdered

LEMMA ReturnOrdered ==
  ASSUME ProgramFits, JInv, Return
  PROVE  BasesOrdered(acts') /\ RunningKnown'
<1>1. IInv /\ InJit /\ BasesOrdered(acts)
  BY DEF JInv, Return
<1>2. CASE lr = Host
  <2>1. acts' = <<>> /\ ~InJit'
    BY <1>2 DEF Return, InJit
  <2> QED
    BY <2>1 DEF BasesOrdered, RunningKnown
<1>3. CASE lr # Host
  <2> DEFINE m == Len(acts) - 1
  <2>1. acts' = SubSeq(acts, 1, m) /\ outcome' = outcome
    BY <1>3 DEF Return
  <2>2. acts \in Seq(Activations) /\ Len(acts) \in Nat /\ m \in Nat /\ 1 \in Int /\ m \in Int
    BY <1>1, TopFacts DEF Depth
  <2>3. \A i \in 1..m : acts[i] \in Activations /\ i \in 1..Len(acts)
    BY <2>2
  <2> HIDE DEF m
  <2>4. /\ Len(SubSeq(acts, 1, m)) = IF 1 <= m THEN m - 1 + 1 ELSE 0
        /\ \A i \in 1..(m - 1 + 1) : SubSeq(acts, 1, m)[i] = acts[1 + i - 1]
    BY <2>2, <2>3, SubSeqProperties
  <2>5. Len(acts') = m /\ \A i \in 1..m : acts'[i] = acts[i]
    BY <2>1, <2>2, <2>4
  <2>6. BasesOrdered(acts')
    BY <1>1, <2>3, <2>5 DEF BasesOrdered
  <2> QED
    BY <1>1, <2>1, <2>6 DEF RunningKnown, JInv
<1> QED
  BY <1>2, <1>3

LEMMA JInvNext ==
  ProgramFits /\ JInv /\ [Next]_vars => JInv'
<1> SUFFICES ASSUME ProgramFits, JInv, [Next]_vars PROVE JInv'
  OBVIOUS
<1>1. IInv /\ BasesOrdered(acts) /\ RunningKnown
  BY DEF JInv
<1>2. IInv'
  BY <1>1, NextPreserves
<1>3. ASSUME acts' = acts, outcome' = outcome, InJit' => InJit PROVE BasesOrdered(acts') /\ RunningKnown'
  BY <1>1, <1>3 DEF RunningKnown
<1>4. ASSUME NEW f \in Funcs, NEW args \in [1..NParams[f] -> Values], Invoke(f, args)
      PROVE  BasesOrdered(acts') /\ RunningKnown'
  <2> DEFINE mem    == [stack EXCEPT ![WrapperSp] = Host]
             rest   == <<>>
             before == <<>>
  <2>1. EnterBody(f, WrapperSp, mem, rest, Host, before)
    BY <1>4 DEF Invoke
  <2>2. /\ rest \in Seq(Words) /\ before \in Seq(Activations) /\ WrapperSp \in Int
        /\ BasesOrdered(before) /\ \A i \in 1..Len(before) : before[i].base <= Len(rest)
    BY SizeFacts DEF BasesOrdered
  <2> HIDE DEF mem, rest, before
  <2> QED
    BY <1>2, <2>1, <2>2, EnterOrdered
<1>5. ASSUME NEW f \in Funcs, Call(f) PROVE BasesOrdered(acts') /\ RunningKnown'
  <2>1. 0 + NParams[f] = NParams[f] /\ 0 \in 0..1
    BY SignaturesAssumption DEF AllFuncs
  <2>2. /\ CanCall(f, 0) /\ InJit
        /\ EnterBody(f, sp, WithLr(WithParams), Popped(0 + NParams[f]), Continue(f, 0), acts)
    BY <1>5, <2>1 DEF Call, CanCall
  <2> QED
    BY <1>2, <2>1, <2>2, CallOrdered
<1>6. ASSUME NEW g \in Funcs, CallIndirect(Signature(g)) PROVE BasesOrdered(acts') /\ RunningKnown'
  <2>1. CASE \E code \in Kinds : Trap(code)
    <3>1. acts' = <<>> /\ ~InJit'
      BY <2>1 DEF Trap, InJit
    <3> QED
      BY <3>1 DEF BasesOrdered, RunningKnown
  <2>2. CASE /\ TopWord \in DOMAIN Table
             /\ Signature(Table[TopWord]) = Signature(g)
             /\ CanCall(Table[TopWord], 1)
             /\ EnterBody(Table[TopWord], sp, WithLr(stack), Popped(1 + Signature(g)[1]),
                          Continue(Table[TopWord], 1), acts)
    <3>1. PICK f \in Funcs : f = Table[TopWord]
      BY <2>2, ValuesAssumption
    <3>2. /\ Signature(g)[1] = NParams[f] /\ 1 \in 0..1
      BY <2>2, <3>1 DEF Signature
    <3>3. /\ CanCall(f, 1) /\ InJit
          /\ EnterBody(f, sp, WithLr(stack), Popped(1 + NParams[f]), Continue(f, 1), acts)
      BY <2>2, <3>1, <3>2 DEF CanCall
    <3> QED
      BY <1>2, <3>2, <3>3, CallOrdered
  <2> QED
    BY <1>6, <2>1, <2>2 DEF CallIndirect, Kinds
<1>7. ASSUME Return PROVE BasesOrdered(acts') /\ RunningKnown'
  BY <1>7, ReturnOrdered
<1>8. ASSUME \/ \E v \in Values : Const(v)
             \/ Drop
             \/ \E k \in 1..GuardWords : LocalGet(k)
             \/ \E k \in 1..GuardWords, tee \in BOOLEAN : LocalSet(k, tee)
             \/ \E f \in Imports, v \in Values : CallImport(f, v)
      PROVE  BasesOrdered(acts') /\ RunningKnown'
  <2>1. acts' = acts /\ outcome' = outcome /\ InJit
    BY <1>8 DEF Const, Drop, LocalGet, LocalSet, CallImport, CanCall
  <2> QED
    BY <1>3, <2>1
<1>9. ASSUME UNCHANGED vars PROVE BasesOrdered(acts') /\ RunningKnown'
  <2>1. acts' = acts /\ outcome' = outcome /\ (InJit' => InJit)
    BY <1>9 DEF vars, InJit
  <2> QED
    BY <1>3, <2>1
<1>10. BasesOrdered(acts') /\ RunningKnown'
  BY <1>4, <1>5, <1>6, <1>7, <1>8, <1>9 DEF Next
<1> QED
  BY <1>2, <1>10 DEF JInv, BasesOrdered

LEMMA JInvariance == ProgramFits => (Spec => []JInv)
<1> SUFFICES ASSUME ProgramFits PROVE Spec => []JInv
  OBVIOUS
<1> QED
  BY JInvInit, JInvNext, PTL DEF Spec

-----------------------------------------------------------------------------
\* What a step inside the JIT leaves alone.
LEMMA StepKeeps ==
  ASSUME ProgramFits, JInv, InJit, InJit', [Next]_vars
  PROVE  Kept
<1>1. IInv
  BY DEF JInv
<1>2. ASSUME NEW f \in Funcs, NEW args \in [1..NParams[f] -> Values], Invoke(f, args)
      PROVE  Kept
  BY <1>2 DEF Invoke
<1>3. ASSUME NEW v \in Values, Const(v) PROVE Kept
  BY <1>3, ConstRefines
<1>4. ASSUME Drop PROVE Kept
  BY <1>4, DropRefines
<1>5. ASSUME NEW k \in 1..GuardWords, LocalGet(k) PROVE Kept
  BY <1>5, LocalGetRefines
<1>6. ASSUME NEW k \in 1..GuardWords, NEW tee \in BOOLEAN, LocalSet(k, tee) PROVE Kept
  BY <1>6, LocalSetRefines
<1>7. ASSUME NEW f \in Funcs, Call(f) PROVE Kept
  <2>1. 0 + NParams[f] = NParams[f] /\ 0 \in 0..1 /\ WithParams \in {WithParams, stack}
    BY SignaturesAssumption DEF AllFuncs
  <2>2. /\ CanCall(f, 0)
        /\ EnterBody(f, sp, WithLr(WithParams), Popped(0 + NParams[f]), Continue(f, 0), acts)
    BY <1>7, <2>1 DEF Call
  <2> QED
    BY <1>1, <2>1, <2>2, EnterKept
<1>8. ASSUME NEW g \in Funcs, CallIndirect(Signature(g)) PROVE Kept
  <2>1. /\ TopWord \in DOMAIN Table
        /\ Signature(Table[TopWord]) = Signature(g)
        /\ CanCall(Table[TopWord], 1)
        /\ EnterBody(Table[TopWord], sp, WithLr(stack), Popped(1 + Signature(g)[1]),
                     Continue(Table[TopWord], 1), acts)
    BY <1>8 DEF CallIndirect, Trap, InJit
  <2>2. PICK f \in Funcs : f = Table[TopWord]
    BY <2>1, ValuesAssumption
  <2>3. Signature(g)[1] = NParams[f] /\ 1 \in 0..1 /\ stack \in {WithParams, stack}
    BY <2>1, <2>2 DEF Signature
  <2>4. /\ CanCall(f, 1)
        /\ EnterBody(f, sp, WithLr(stack), Popped(1 + NParams[f]), Continue(f, 1), acts)
    BY <2>1, <2>2, <2>3
  <2> QED
    BY <1>1, <2>3, <2>4, EnterKept
<1>9. ASSUME NEW f \in Imports, NEW v \in Values, CallImport(f, v) PROVE Kept
  BY <1>9, CallImportRefines
<1>10. ASSUME Return PROVE Kept
  <2>1. CASE lr = Host
    BY <1>10, <2>1 DEF Return, InJit
  <2>2. CASE lr # Host
    BY <1>10, <2>2, ReturnToCallerRefines
  <2> QED
    BY <2>1, <2>2
<1>11. ASSUME UNCHANGED vars PROVE Kept
  <2>1. /\ acts' = acts /\ stack' = stack /\ ops' = ops
    BY <1>11 DEF vars
  <2>2. acts[Depth].base \in Nat /\ acts[Depth].base <= Len(ops) /\ Len(ops) \in Nat
    BY <1>1, TopOps
  <2>3. \A i \in 1..acts[Depth].base : i <= Len(ops)
    BY <2>2
  <2> QED
    BY <2>1, <2>3 DEF Kept
<1> QED
  BY <1>2, <1>3, <1>4, <1>5, <1>6, <1>7, <1>8, <1>9, <1>10, <1>11 DEF Next

\* Whatever a function does, and however deep it calls, no word of a waiting
\* caller's frame and no operand of a caller changes.
THEOREM CallersStayUntouched == ProgramFits => (Spec => CallersUntouched)
<1> SUFFICES ASSUME ProgramFits PROVE Spec => CallersUntouched
  OBVIOUS
<1>1. JInv /\ [Next]_vars =>
        [InJit /\ InJit' =>
           /\ \A a \in Addr : a >= FirstKept => stack'[a] = stack[a]
           /\ \A i \in 1..acts[Depth].base : i <= Len(ops') /\ ops'[i] = ops[i]]_vars
  BY StepKeeps DEF Kept
<1> QED
  BY JInvariance, <1>1, PTL DEF Spec, CallersUntouched

-----------------------------------------------------------------------------
(* The refinement *)

LEMMA InitMaps == Init => Wasm!Init
<1> SUFFICES ASSUME Init PROVE Wasm!Init
  OBVIOUS
<1>1. acts = <<>> /\ outcome = Outcome("none", Zero)
  BY DEF Init
<1> QED
  BY <1>1, NoFrames DEF Wasm!Init, Outcome, Wasm!Outcome

LEMMA StepMaps ==
  ASSUME ProgramFits, IndirectFits, JInv, [Next]_vars
  PROVE  [Wasm!Next]_(Wasm!vars)
<1>1. ASSUME NEW f \in Funcs, NEW args \in [1..NParams[f] -> Values], Invoke(f, args)
      PROVE  Wasm!Next
  BY <1>1, InvokeRefines DEF Wasm!Next
<1>2. ASSUME NEW v \in Values, Const(v) PROVE Wasm!Next
  BY <1>2, ConstRefines DEF Wasm!Next
<1>3. ASSUME Drop PROVE Wasm!Next
  BY <1>3, DropRefines DEF Wasm!Next
<1>4. ASSUME NEW k \in 1..GuardWords, LocalGet(k) PROVE Wasm!Next
  <2>1. Wasm!LocalGet(k) /\ k \in 1..Len(Wasm!Top.locals)
    BY <1>4, LocalGetRefines
  <2>2. Wasm!Running
    BY <2>1 DEF Wasm!LocalGet
  <2> QED
    BY <2>1, <2>2 DEF Wasm!Next
<1>5. ASSUME NEW k \in 1..GuardWords, NEW tee \in BOOLEAN, LocalSet(k, tee) PROVE Wasm!Next
  <2>1. Wasm!LocalSet(k, tee) /\ k \in 1..Len(Wasm!Top.locals)
    BY <1>5, LocalSetRefines
  <2>2. Wasm!Running
    BY <2>1 DEF Wasm!LocalSet, Wasm!Has
  <2> QED
    BY <2>1, <2>2 DEF Wasm!Next
<1>6. ASSUME NEW f \in Funcs, Call(f) PROVE Wasm!Next
  BY <1>6, CallRefines DEF Wasm!Next
<1>7. ASSUME NEW f \in Funcs, CallIndirect(Signature(f)) PROVE Wasm!Next
  BY <1>7, CallIndirectRefines DEF Wasm!Next, Signature
<1>8. ASSUME NEW f \in Imports, NEW v \in Values, CallImport(f, v) PROVE Wasm!Next
  BY <1>8, CallImportRefines DEF Wasm!Next
<1>9. ASSUME Return PROVE Wasm!Next
  BY <1>9, ReturnToHostRefines, ReturnToCallerRefines DEF Wasm!Next
<1>10. ASSUME UNCHANGED vars PROVE UNCHANGED Wasm!vars
  BY <1>10, WasmFramesAre DEF vars, Wasm!vars
<1> QED
  BY <1>1, <1>2, <1>3, <1>4, <1>5, <1>6, <1>7, <1>8, <1>9, <1>10 DEF Next

\* Locals survive calls, start at zero, and a call's only effect on its
\* caller is its result: for every such program the generated code does, step
\* by step, what Wasm does.
THEOREM Refinement == ProgramFits /\ IndirectFits => (Spec => ImplementsWasmCalls)
<1> SUFFICES ASSUME ProgramFits, IndirectFits PROVE Spec => ImplementsWasmCalls
  OBVIOUS
<1>1. JInv /\ [Next]_vars => [Wasm!Next]_(Wasm!vars)
  BY StepMaps
<1> QED
  BY InitMaps, JInvariance, <1>1, PTL DEF Spec, ImplementsWasmCalls, Wasm!Spec
=============================================================================
