----------------------------- MODULE ControlFlow -----------------------------
(***************************************************************************)
(* One-pass compilation of Wasm's structured control flow: the compiler's  *)
(* validation stack (common/stack.cpp), the LabelManager that collects br  *)
(* and br_if for patching when a function ends, and the branches that IF   *)
(* and ELSE leave behind as placeholders.                                  *)
(*                                                                         *)
(* The bytecode is arbitrary valid Wasm: frames is Wasm's own validation   *)
(* stack, and each action is guarded by it.  A code address is the number  *)
(* of an emitted instruction; what an instruction does beside branching    *)
(* and moving ROP is left out, and so are value types (one type, or none). *)
(***************************************************************************)
EXTENDS Integers, Sequences, FiniteSets

CONSTANTS
  FnArity,            \* results (0 or 1) of each function of the module
  MaxOps,             \* bound: instructions in the module, END not counted
  MaxDepth,           \* bound: nested frames, the function's included
  Features            \* what else the bytecode may contain:
                      \*   "branch out of if"    a branch leaving an IF or ELSE
                      \*   "branch to function"  a branch to the function's label
                      \*   "excess operands"     a branch or RETURN above others

ASSUME ProgramAssumption ==
  /\ FnArity \in Seq(0..1) /\ FnArity # <<>>
  /\ MaxOps \in Nat /\ MaxDepth \in Nat
  /\ Features \subseteq {"branch out of if", "branch to function", "excess operands"}

VARIABLES
  status,  \* "compiling", "compiled" or "rejected" (a confirm failed)
  fn,      \* the function being compiled
  stack,   \* Stack::v_
  labels,  \* LabelManager::labels_
  brs,     \* LabelManager::brIfInfos_
  code,    \* the emitted instructions, with the addresses branches go to
  rop,     \* ROP where the code just emitted ends, relative to its entry
  frames,  \* Wasm: the frames open at this point of the bytecode
  live,    \* Wasm: can control reach this point?
  ops,     \* Wasm: instructions so far
  wanted,  \* Wasm: where each live branch must go
  lands    \* Wasm: the address of each place branches go to

compiler == <<status, fn, stack, labels, brs, code, rop>>
wasm == <<frames, live, ops, wanted, lands>>
vars == <<compiler, wasm>>

\* Elements of the validation stack.
Value == [el |-> "value"]
FuncStart == [el |-> "FUNC_START"]
IfElement(arity, at) == [el |-> "IF", arity |-> arity, patch |-> at]
ElseElementOfIf(ifElement, at) ==
  [el |-> "ELSE", arity |-> ifElement.arity, patch |-> ifElement.patch]
ElseElement(ifElement, at) == [el |-> "ELSE", arity |-> ifElement.arity, patch |-> at]
BlockElement(arity, label, isLoop) ==
  [el |-> "BLOCK", arity |-> arity, label |-> label, loop |-> isLoop, unreachable |-> FALSE]

\* A Wasm frame: h operands of its own above base, dead after a branch; an ELSE
\* also knows whether its true branch ended dead.
Frame(op, arity, base, id) ==
  [op |-> op, arity |-> arity, base |-> base, h |-> 0, dead |-> FALSE, deadIf |-> FALSE,
   id |-> id]
NewId == <<fn, ops>>
NewFunction(f) == <<Frame("func", FnArity[f], 0, <<f, -1>>)>>

Init ==
  /\ status = "compiling" /\ fn = 1
  /\ stack = <<FuncStart>> /\ labels = <<>> /\ brs = <<>> /\ code = <<>> /\ rop = 0
  /\ frames = NewFunction(1) /\ live = TRUE /\ ops = 0
  /\ wanted = {} /\ lands = {}

-----------------------------------------------------------------------------
\* The code buffer.  A placeholder branch has offset 0, and goes to itself.
Here == Len(code) + 1
Emit(kind) == Append(code, [kind |-> kind, to |-> Here])

\* set_b_off and set_b_cond_off OR the offset in.
Corrupt == -1
Linked(at, to, target) ==
  IF to = at THEN target ELSE IF target \in {at, to} THEN to ELSE Corrupt
Link(c, at, target) == [c[at] EXCEPT !.to = Linked(at, c[at].to, target)]
Patch(c, at, target) == [c EXCEPT ![at] = Link(c, at, target)]

\* Stack::top, lastControlFlowElement, and what a pop of n elements leaves.
Below(n) == SubSeq(stack, 1, Len(stack) - n)
Top == stack[Len(stack)]
LastControl ==
  CHOOSE i \in DOMAIN stack :
    /\ stack[i] # Value
    /\ \A j \in DOMAIN stack : j > i => stack[j] = Value
ValuesAbove == Len(stack) - LastControl
Results(arity) == IF arity = 1 THEN <<Value>> ELSE <<>>

\* Stack::findTargetBlock: IF and ELSE do not count.
Blocks == {i \in DOMAIN stack : stack[i].el = "BLOCK"}
BlocksAbove(i) == Cardinality({j \in Blocks : j > i})
TargetsOutermost(depth) == {i \in Blocks : Cardinality({j \in Blocks : j < i}) = depth}
Targets(depth) == {i \in Blocks : BlocksAbove(i) = depth}

\* Stack::setCurrentFrameFrontBlocksUnreachable.
WithBlocksUnreachable ==
  LET start == CHOOSE i \in DOMAIN stack :
                 /\ stack[i] = FuncStart
                 /\ \A j \in DOMAIN stack : j > i => stack[j] # FuncStart
  IN  [i \in DOMAIN stack |->
         IF i > start /\ i \in Blocks THEN [stack[i] EXCEPT !.unreachable = TRUE]
                                      ELSE stack[i]]

Reject ==
  /\ status' = "rejected"
  /\ UNCHANGED <<fn, stack, labels, brs, code, rop, wasm>>

-----------------------------------------------------------------------------
\* What Wasm says of the bytecode.
Current == frames[Len(frames)]
Has(n) == Current.h >= n \/ Current.dead
Height == Current.base + Current.h
Without(n) == IF Current.h >= n THEN Current.h - n ELSE 0
WithCurrent(f) == [frames EXCEPT ![Len(frames)] = f]
CanEnd == Current.h = Current.arity \/ (Current.dead /\ Current.h <= Current.arity)
More == status = "compiling" /\ ops < MaxOps
\* Where MaxOps is reached, a module still ends as a valid one must: no frame is
\* opened, and the operands of the open ones are made what END asks for.
Ending == status = "compiling" /\ ops = MaxOps
Counted == ops' = IF ops < MaxOps THEN ops + 1 ELSE ops

\* The frame a branch of the given depth leaves for, and what it needs.
Target(depth) == frames[Len(frames) - depth]
LabelArity(f) == IF f.op = "loop" THEN 0 ELSE f.arity
Place(f) == <<f.id, IF f.op = "loop" THEN "start" ELSE "end">>
Wanting(at, place, h) ==
  IF live THEN wanted \cup {[at |-> at, place |-> place, h |-> h, fn |-> fn]} ELSE wanted
Landing(place, at, h) == {[place |-> place, at |-> at, h |-> h]}
Branching(place) == {w \in wanted : w.place = place}
\* ROP at a place control reaches by falling through or by branches.
RopAt(place) ==
  IF live \/ Branching(place) = {} THEN rop ELSE (CHOOSE w \in Branching(place) : TRUE).h

ThroughIf(depth) ==
  \E i \in (Len(frames) - depth)..Len(frames) : frames[i].op \in {"if", "else"}
CanBranch(depth, popped) ==
  LET f == Target(depth)
  IN  /\ Has(LabelArity(f) + popped)
      /\ "branch to function" \in Features \/ f.op # "func"
      /\ "branch out of if" \in Features \/ ~ThroughIf(depth)
      /\ "excess operands" \in Features \/ ~live \/ Height - popped = f.base + LabelArity(f)

-----------------------------------------------------------------------------
\* Straight-line instructions: I32_CONST stands for all that push.
Const ==
  /\ More \/ (Ending /\ ~Current.dead /\ Current.h < Current.arity)
  /\ Counted
  /\ frames' = WithCurrent([Current EXCEPT !.h = @ + 1])
  /\ stack' = Append(stack, Value)
  /\ code' = Emit("other") /\ rop' = rop + 1
  /\ UNCHANGED <<status, fn, labels, brs, live, wanted, lands>>

Drop ==
  /\ More \/ (Ending /\ Current.h > Current.arity)
  /\ Has(1)
  /\ IF Top # Value THEN Reject
     ELSE /\ Counted
          /\ frames' = WithCurrent([Current EXCEPT !.h = Without(1)])
          /\ stack' = Below(1)
          /\ code' = Emit("other") /\ rop' = rop - 1
          /\ UNCHANGED <<status, fn, labels, brs, live, wanted, lands>>

-----------------------------------------------------------------------------
\* BLOCK and LOOP emit nothing; a loop's label is filled at once.
LoopLabelUnfilled(isLoop) == 0
LabelFor(isLoop) == IF isLoop THEN Here ELSE 0

Block(arity, isLoop) ==
  LET f == Frame(IF isLoop THEN "loop" ELSE "block", arity, Height, NewId)
  IN  /\ More /\ Len(frames) < MaxDepth /\ ops' = ops + 1
      /\ frames' = Append(frames, f)
      /\ labels' = Append(labels, LabelFor(isLoop))
      /\ stack' = Append(stack, BlockElement(arity, Len(labels'), isLoop))
      /\ lands' = IF isLoop THEN lands \cup Landing(Place(f), Here, Height) ELSE lands
      /\ UNCHANGED <<status, fn, brs, code, rop, live, wanted>>

\* IF pops the condition and leaves a conditional branch to be linked.
If(arity) ==
  LET at == Here + 1
  IN  /\ More /\ Len(frames) < MaxDepth /\ Has(1)
      /\ IF Top # Value THEN Reject
         ELSE /\ ops' = ops + 1
              /\ frames' = Append(WithCurrent([Current EXCEPT !.h = Without(1)]),
                                  Frame("if", arity, Current.base + Without(1), NewId))
              /\ code' = Emit("other") \o <<[kind |-> "b.cond", to |-> at]>>
              /\ rop' = rop - 1
              /\ stack' = Append(Below(1), IfElement(arity, at))
              /\ wanted' = Wanting(at, <<NewId, "else">>, rop')
              /\ UNCHANGED <<status, fn, labels, brs, live, lands>>

\* ELSE ends the true branch with a jump, and links the IF behind it.
Else ==
  LET f == Current
      e == stack[LastControl]
  IN  /\ More \/ (Ending /\ f.arity = 1)
      /\ f.op = "if" /\ CanEnd
      /\ IF e.el # "IF" THEN Reject
         ELSE /\ Counted
              /\ frames' = WithCurrent([f EXCEPT !.op = "else", !.h = 0,
                                                !.dead = FALSE, !.deadIf = f.dead])
              /\ code' = Patch(Emit("b"), e.patch, Here + 1)
              /\ stack' = Append(stack, ElseElement(e, Here))
              /\ wanted' = Wanting(Here, <<f.id, "end">>, rop)
              /\ lands' = lands \cup Landing(<<f.id, "else">>, Here + 1, f.base)
              /\ live' = (Branching(<<f.id, "else">>) # {})
              /\ rop' = IF live' THEN (CHOOSE w \in Branching(<<f.id, "else">>) : TRUE).h
                                 ELSE rop
              /\ UNCHANGED <<status, fn, labels, brs>>

-----------------------------------------------------------------------------
\* END, by the last control element.  Each case: what the compiler confirms,
\* and the stack it leaves.
ExactlyResult(arity) == ValuesAbove = arity
EndsIf(e) == e.el = "IF" /\ ExactlyResult(e.arity)

\* The true branch's result still lies between IF and ELSE.
IfOfWithoutResult(e) == LastControl - 1
IfOf(e) == LastControl - 1 - e.arity
EndsElse(e) ==
  /\ e.el = "ELSE" /\ ExactlyResult(e.arity)
  /\ IfOf(e) > 0 /\ stack[IfOf(e)].el = "IF"
  /\ \A i \in (IfOf(e) + 1)..(LastControl - 1) : stack[i] = Value
EndsBlock(e) == e.el = "BLOCK" /\ (e.unreachable \/ ExactlyResult(e.arity))

\* Where the stack is cut before the result is pushed again.
StartOfIgnoringIf(e) == LastControl
StartOf(e) == IF e.el = "ELSE" THEN IfOf(e) ELSE LastControl

End ==
  LET f == Current
      e == stack[LastControl]
      outer == frames[Len(frames) - 1]
      exit == <<f.id, "end">>
      skipped == IF f.op = "if" THEN Branching(<<f.id, "else">>) ELSE {}
  IN  /\ status = "compiling" /\ Len(frames) > 1 /\ CanEnd
      /\ f.op = "if" => f.arity = 0
      /\ IF ~(EndsIf(e) \/ EndsElse(e) \/ EndsBlock(e)) THEN Reject
         ELSE /\ frames' = [SubSeq(frames, 1, Len(frames) - 1)
                              EXCEPT ![Len(frames) - 1] = [outer EXCEPT !.h = @ + f.arity]]
              /\ lands' = lands \cup Landing(exit, Here, f.base + f.arity)
                            \cup (IF f.op = "if" THEN Landing(<<f.id, "else">>, Here, f.base)
                                                 ELSE {})
              /\ live' = (live \/ Branching(exit) # {} \/ skipped # {})
              /\ rop' = IF ~live /\ Branching(exit) = {} /\ skipped # {}
                          THEN (CHOOSE w \in skipped : TRUE).h ELSE RopAt(exit)
              /\ stack' = SubSeq(stack, 1, StartOf(e) - 1) \o Results(e.arity)
              /\ labels' = IF e.el = "BLOCK" /\ ~e.loop
                             THEN [labels EXCEPT ![e.label] = Here] ELSE labels
              /\ code' = IF e.el = "BLOCK" THEN code ELSE Patch(code, e.patch, Here)
              /\ UNCHANGED <<status, fn, brs, ops, wanted>>

-----------------------------------------------------------------------------
\* BR and BR_IF are registered for patching.
RegisterBr(kind, label) ==
  brs' = Append(brs, [kind |-> kind, label |-> label, at |-> Len(code')])

\* The compiler asks for the target block's result, of a loop too.
Accepts(depth, rest) ==
  /\ Targets(depth) # {}
  /\ \A i \in Targets(depth) :
       stack[i].arity = 1 => rest # <<>> /\ rest[Len(rest)] = Value

Br(depth) ==
  /\ More /\ CanBranch(depth, 0)
  /\ IF ~Accepts(depth, stack) THEN Reject
     ELSE /\ ops' = ops + 1
          /\ frames' = WithCurrent([Current EXCEPT !.h = 0, !.dead = TRUE])
          /\ live' = FALSE
          /\ code' = Emit("b")
          /\ \E i \in Targets(depth) : RegisterBr("b", stack[i].label)
          /\ wanted' = Wanting(Here, Place(Target(depth)), rop)
          /\ UNCHANGED <<status, fn, stack, labels, rop, lands>>

BrIf(depth) ==
  /\ More /\ CanBranch(depth, 1)
  /\ IF Top # Value \/ ~Accepts(depth, Below(1)) THEN Reject
     ELSE /\ ops' = ops + 1
          /\ frames' = WithCurrent([Current EXCEPT !.h = Without(1)])
          /\ code' = Emit("other") \o <<[kind |-> "b.cond", to |-> Here + 1]>>
          /\ \E i \in Targets(depth) : RegisterBr("b.cond", stack[i].label)
          /\ stack' = Below(1) /\ rop' = rop - 1
          /\ wanted' = Wanting(Here + 1, Place(Target(depth)), rop')
          /\ UNCHANGED <<status, fn, labels, live, lands>>

\* RETURN leaves its operand on the validation stack.
Return ==
  /\ More /\ Has(FnArity[fn])
  /\ "excess operands" \in Features \/ ~live \/ Height = FnArity[fn]
  /\ IF FnArity[fn] = 1 /\ Top # Value THEN Reject
     ELSE /\ ops' = ops + 1
          /\ frames' = WithCurrent([Current EXCEPT !.h = 0, !.dead = TRUE])
          /\ live' = FALSE
          /\ code' = Emit("return") /\ rop' = rop - FnArity[fn]
          /\ stack' = WithBlocksUnreachable
          /\ UNCHANGED <<status, fn, labels, brs, wanted, lands>>

\* LabelManager::relpatchAllLabels.  No two entries of brs are at one address.
RegisteredBeforeLast(at) == {i \in DOMAIN brs : i < Len(brs) /\ brs[i].at = at}
Registered(at) == {i \in DOMAIN brs : brs[i].at = at}
Relpatched(c) ==
  [at \in DOMAIN c |->
     IF Registered(at) = {} THEN c[at]
     ELSE Link(c, at, labels[brs[CHOOSE i \in Registered(at) : TRUE].label])]

\* END of the function: the return sequence, the patches, and the next one.
\* FUNC_START or the result stays behind on the validation stack; the next
\* function has a LabelManager of its own.
LeftBehind(arity) ==
  IF arity = 1 THEN SubSeq(stack, 1, LastControl - 1) \o <<Value>> ELSE stack

EndFunction ==
  LET f == Current
      arity == FnArity[fn]
  IN  /\ status = "compiling" /\ Len(frames) = 1 /\ CanEnd
      /\ IF arity = 1 /\ Top # Value THEN Reject
         ELSE /\ code' = Relpatched(Emit("ret"))
              /\ lands' = lands \cup Landing(<<f.id, "end">>, Here, arity)
              /\ labels' = <<>> /\ brs' = <<>>
              /\ IF fn = Len(FnArity)
                   THEN /\ status' = "compiled" /\ stack' = LeftBehind(arity)
                        /\ UNCHANGED <<frames, live, rop>>
                   ELSE /\ stack' = Append(LeftBehind(arity), FuncStart)
                        /\ frames' = NewFunction(fn + 1) /\ live' = TRUE /\ rop' = 0
                        /\ UNCHANGED status
              /\ fn' = fn + 1
              /\ UNCHANGED <<ops, wanted>>

Next ==
  \/ Const \/ Drop \/ Else \/ End \/ Return \/ EndFunction
  \/ \E arity \in 0..1, isLoop \in BOOLEAN : Block(arity, isLoop)
  \/ \E arity \in 0..1 : If(arity)
  \/ \E depth \in 0..(Len(frames) - 1) : Br(depth) \/ BrIf(depth)

\* The compiler is one loop over finite bytecode: it goes on until it is done.
Spec == Init /\ [][Next]_vars /\ WF_vars(Next)

-----------------------------------------------------------------------------
(* Properties *)

\* The type invariant.  Every branch stays inside the code of the module: it
\* goes to itself (a placeholder), to an instruction or to the one that comes
\* next, so that no two offsets were ever merged into one instruction.
TypeOK ==
  /\ status \in {"compiling", "compiled", "rejected"}
  /\ fn \in 1..(Len(FnArity) + 1) /\ rop \in Int /\ live \in BOOLEAN /\ ops \in 0..MaxOps
  /\ \A i \in DOMAIN stack : stack[i].el \in {"value", "FUNC_START", "IF", "ELSE", "BLOCK"}
  /\ labels \in Seq(0..Here)
  /\ \A i \in DOMAIN code : code[i].kind \in {"other", "b", "b.cond", "return", "ret"}
                             /\ code[i].to \in 1..Here
  /\ \A i \in DOMAIN brs : /\ brs[i].label \in DOMAIN labels
                            /\ code[brs[i].at].kind = brs[i].kind

\* Once a function is compiled, each of its branches that can be taken goes
\* where Wasm says, and arrives with ROP at the height the code there expects:
\* findTargetBlock, the labels, the patches of IF, ELSE and relpatchAllLabels.
Landed(w) == \E l \in lands : l.place = w.place /\ code[w.at].to = l.at /\ w.h = l.h
BranchesLand == status # "rejected" => \A w \in wanted : w.fn < fn => Landed(w)

\* No placeholder is forgotten: unless the module is refused, compilation comes
\* to an end, and from some point on every branch that can be taken goes where
\* Wasm says, however deeply its block was nested when it was emitted.
BranchesEventuallyLand ==
  <>[](status = "rejected" \/ (status = "compiled" /\ \A w \in wanted : Landed(w)))

\* The validation stack is Wasm's: above the last FUNC_START there is one
\* control element per open frame, of its kind (an ELSE stands on the IF it
\* belongs to and the result of its true branch), with the frame's operands
\* above it, whatever earlier functions left below; and where control can
\* come, ROP is at the height of all those operands.
Starting == {i \in DOMAIN stack : \A j \in DOMAIN stack : stack[j] = FuncStart => j <= i}
Controls == {i \in Starting : stack[i] # Value}
NextControl(i) ==
  CHOOSE n \in (i + 1)..(Len(stack) + 1) :
    /\ n = Len(stack) + 1 \/ stack[n] # Value
    /\ \A j \in (i + 1)..(n - 1) : stack[j] = Value
UnderElse(i) ==
  /\ stack[i].el = "IF" /\ NextControl(i) \in Controls
  /\ stack[NextControl(i)].el = "ELSE"
Opening == {i \in Controls : ~UnderElse(i)}
FrameOf(i) == frames[Cardinality({j \in Opening : j <= i})]
Kinds(op) ==
  CASE op = "func" -> "FUNC_START" [] op = "if" -> "IF" [] op = "else" -> "ELSE"
    [] OTHER -> "BLOCK"
StackMirrorsWasm ==
  status = "compiling" =>
    /\ Cardinality(Opening) = Len(frames)
    /\ \A i \in Opening : /\ stack[i].el = Kinds(FrameOf(i).op)
                          /\ FrameOf(i).dead \/ NextControl(i) - i - 1 = FrameOf(i).h
    /\ live => rop = Height

\* A branch is linked once: no later END, ELSE or relpatchAllLabels, of this
\* function or another, ORs a second offset into it.
LinkedOnce ==
  [][\A i \in DOMAIN code : code[i].to # i => code'[i] = code[i]]_vars

\* Valid bytecode is refused in three places only: in the code after a BR or
\* RETURN of the innermost frame, at an instruction that finds too few operands
\* (Wasm types such code at will); at that frame's END, or the END of an ELSE
\* whose true branch was such code, which find other values than the result; and
\* at a branch that is asked for the result of the loop it goes back to (843-848).
Lacking(n) == Current.dead /\ Current.h < n
LackingAt(depth, popped) ==
  LET f == Target(depth)
  IN  Current.h < f.arity + popped /\ (Current.dead \/ f.op = "loop")
Excused ==
  /\ Drop => Lacking(1)
  /\ \A arity \in 0..1 : If(arity) => Lacking(1)
  /\ ~Else
  /\ End => Current.dead \/ Current.deadIf
  /\ Return \/ EndFunction => Lacking(FnArity[fn])
  /\ \A depth \in 0..(Len(frames) - 1) :
       /\ Br(depth) => LackingAt(depth, 0)
       /\ BrIf(depth) => LackingAt(depth, 1)
ValidAccepted == [][status' = "rejected" => Excused]_vars
=============================================================================
