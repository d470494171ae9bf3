------------------------- MODULE ControlFlow_proofs --------------------------
(***************************************************************************)
(* For every bytecode of any length, nesting and number of functions: the  *)
(* types and LinkedOnce, whatever the Features; and where bytecode has     *)
(* none of them, that branches land, that the validation stack is Wasm's   *)
(* and that only what Excused names is refused.                            *)
(*                                                                         *)
(* Base says where each of Wasm's frames stands on the validation stack,   *)
(* and that each placeholder has exactly one owner: an open IF or ELSE, or *)
(* an entry of brs, whose label is unfilled just as long as its block is   *)
(* open.  Flow adds the way of each branch to its place, Operands what     *)
(* lies between the control elements.                                      *)
(***************************************************************************)
EXTENDS ControlFlow, FiniteSetTheorems, FunctionTheorems, SequenceTheorems, TLAPS

\* The values of the variables.
Elements ==
  {Value, FuncStart}
    \cup [el : {"IF", "ELSE"}, arity : 0..1, patch : Nat]
    \cup [el : {"BLOCK"}, arity : 0..1, label : Nat, loop : BOOLEAN, unreachable : BOOLEAN]
Instructions == [kind : {"other", "b", "b.cond", "return", "ret"}, to : Nat]
Branches == [kind : {"b", "b.cond"}, label : Nat, at : Nat]
WasmFrames ==
  [op : {"func", "if", "else", "block", "loop"}, arity : 0..1, base : Nat, h : Nat,
   dead : BOOLEAN, deadIf : BOOLEAN, id : Nat \X Int]
Places == (Nat \X Int) \X {"start", "else", "end"}
Wanted == [at : Nat, place : Places, h : Int, fn : Nat]

Typed ==
  /\ stack \in Seq(Elements) /\ frames \in Seq(WasmFrames) /\ Len(frames) > 0
  /\ code \in Seq(Instructions) /\ labels \in Seq(0..Here) /\ brs \in Seq(Branches)
  /\ rop \in Int /\ live \in BOOLEAN /\ ops \in 0..MaxOps /\ wanted \subseteq Wanted
  /\ fn \in 1..Len(FnArity)
  /\ \A i \in 1..Len(code) : code[i].to \in 1..Here

\* Frame k of Wasm is opened at c[k] on the validation stack: its control element
\* is there.  Its part of the stack begins at d[k], where the IF of an ELSE is.
Op(k) == frames[k].op
Ctl(c, k) == stack[c[k]]
N == Len(frames)

Positions(c, d) ==
  /\ c \in [1..N -> 1..Len(stack)] /\ d \in [1..N -> 1..Len(stack)]
  /\ \A k \in 1..N :
       /\ Ctl(c, k).el = Kinds(Op(k))
       /\ Op(k) = "func" <=> k = 1
       /\ IF Op(k) = "else" THEN d[k] < c[k] /\ stack[d[k]].el = "IF" ELSE d[k] = c[k]
       /\ Op(k) = "loop" => Ctl(c, k).loop
       /\ Op(k) = "block" => ~Ctl(c, k).loop
       /\ k > 1 => Ctl(c, k).arity = frames[k].arity
       /\ Op(k) = "else" => stack[d[k]].arity = frames[k].arity
  /\ \A j, k \in 1..N : j < k => c[j] < d[k]

\* Every other element is an operand, or what an earlier function left.
Others(c, d) ==
  \A i \in 1..Len(stack) :
    \/ stack[i] = Value
    \/ i < c[1] /\ stack[i] = FuncStart
    \/ \E k \in 1..N : i \in {c[k], d[k]}

\* The placeholders: of open IFs and ELSEs, and of registered branches.
Conditional(k) == Op(k) \in {"if", "else"}
Placeholder(at, kinds) == at \in 1..Len(code) /\ code[at].to = at /\ code[at].kind \in kinds
Placeholders(c) ==
  /\ \A k \in 1..N : Conditional(k) =>
       /\ Placeholder(Ctl(c, k).patch, {"b", "b.cond"})
       /\ \A j \in 1..N : Conditional(j) /\ j # k => Ctl(c, j).patch # Ctl(c, k).patch
       /\ \A b \in 1..Len(brs) : brs[b].at # Ctl(c, k).patch
  /\ \A b \in 1..Len(brs) :
       /\ Placeholder(brs[b].at, {brs[b].kind}) /\ brs[b].label \in 1..Len(labels)
       /\ \A a \in 1..Len(brs) : a # b => brs[a].at # brs[b].at

\* A label is unfilled as long as its block is open.
IsBlock(k) == Op(k) \in {"block", "loop"}
Label(c, k) == Ctl(c, k).label
LabelsFilled(c) ==
  /\ \A k \in 1..N : IsBlock(k) =>
       /\ Label(c, k) \in 1..Len(labels)
       /\ \A j \in 1..N : IsBlock(j) /\ j # k => Label(c, j) # Label(c, k)
       /\ Op(k) = "block" => labels[Label(c, k)] = 0
  /\ \A l \in 1..Len(labels) :
       labels[l] = 0 => \E k \in 1..N : Op(k) = "block" /\ Label(c, k) = l

Base(c, d) == Typed /\ Positions(c, d) /\ Others(c, d) /\ Placeholders(c) /\ LabelsFilled(c)

\* Wasm's frames: their operands lie on one another, and where control can come
\* none of them is dead.
Exit(k) == <<frames[k].id, "end">>
Otherwise(k) == <<frames[k].id, "else">>
Start(k) == <<frames[k].id, "start">>
Number(k) == frames[k].id[2]
Stacked ==
  /\ frames[1].arity = FnArity[fn]
  /\ \A k \in 1..N : /\ Number(k) < ops
                     /\ k > 1 => /\ frames[k].base = frames[k - 1].base + frames[k - 1].h
                                 /\ Number(k) >= 0
  /\ \A j, k \in 1..N : j < k => Number(j) < Number(k)
  /\ live => /\ \A k \in 1..N : ~frames[k].dead
             /\ rop = frames[N].base + frames[N].h

\* What the branches to the places of open frames have in common.
Expected(w) == w.place[1][2] \in 0..(ops - 1) /\ w.fn <= fn /\ w.at \in 1..Len(code)
Agrees(w, k) ==
  /\ w.place = Exit(k) => w.h = frames[k].base + frames[k].arity
  /\ w.place \in {Otherwise(k), Start(k)} => w.h = frames[k].base
  /\ w.place[1] = frames[k].id => \A j \in 1..(k - 1) : ~frames[j].dead
Heights == \A w \in wanted : Expected(w) /\ \A k \in 1..N : Agrees(w, k)

\* A branch is on its way: linked, registered with a label, or the placeholder
\* of an open IF or ELSE.
At(l, place, h) == \E x \in lands : x.place = place /\ x.at = l /\ x.h = h
Labelled(c, l, w) ==
  \/ \E k \in 1..N : Op(k) = "block" /\ Label(c, k) = l /\ w.place = Exit(k)
  \/ labels[l] # 0 /\ At(labels[l], w.place, w.h)
IsLinked(w) == Landed(w) /\ code[w.at].to # w.at
IsRegistered(c, w) == \E b \in 1..Len(brs) : brs[b].at = w.at /\ Labelled(c, brs[b].label, w)
IsOpen(c, w) ==
  \E k \in 1..N : /\ Conditional(k) /\ w.at = Ctl(c, k).patch
                  /\ w.place = IF Op(k) = "if" THEN Otherwise(k) ELSE Exit(k)
Finished(c, w) ==
  /\ Landed(w)
  /\ \A b \in 1..Len(brs) : brs[b].at # w.at
  /\ \A k \in 1..N : Conditional(k) => Ctl(c, k).patch # w.at
Way(c, w) ==
  IF w.fn = fn THEN IsLinked(w) \/ IsRegistered(c, w) \/ IsOpen(c, w) ELSE Finished(c, w)
LoopLabel(c, k) ==
  Op(k) = "loop" => /\ labels[Label(c, k)] # 0
                    /\ At(labels[Label(c, k)], Start(k), frames[k].base)
Ways(c) == (\A w \in wanted : Way(c, w)) /\ (\A k \in 1..N : LoopLabel(c, k))
Flow(c) == Stacked /\ Heights /\ Ways(c)

\* The operands between two control elements: at least Wasm's, and just those
\* unless a branch has left the frame, or the true branch of the ELSE.
Above(d, k) == IF k < N THEN d[k + 1] ELSE Len(stack) + 1
Operands(c, d) ==
  \A k \in 1..N :
    /\ Above(d, k) - c[k] - 1 >= frames[k].h
    /\ ~frames[k].dead => Above(d, k) - c[k] - 1 = frames[k].h
    /\ Op(k) = "else" /\ ~frames[k].deadIf => c[k] - d[k] - 1 = frames[k].arity

-----------------------------------------------------------------------------
(* Elements, and the innermost control element. *)

\* What the kind of an element says of it.
LEMMA ElementFacts ==
  ASSUME NEW e \in Elements
  PROVE  /\ e = Value <=> e.el = "value"
         /\ e = FuncStart <=> e.el = "FUNC_START"
         /\ e.el \in {"value", "FUNC_START", "IF", "ELSE", "BLOCK"}
         /\ e.el \in {"IF", "ELSE", "BLOCK"} => e.arity \in 0..1
         /\ e.el \in {"IF", "ELSE"} => e.patch \in Nat
         /\ e.el = "BLOCK" => e.label \in Nat /\ e.loop \in BOOLEAN
BY DEF Elements, Value, FuncStart

\* The elements the actions push are elements.
LEMMA NewElements ==
  /\ Value \in Elements /\ FuncStart \in Elements
  /\ \A arity \in 0..1, at \in Nat : IfElement(arity, at) \in Elements
  /\ \A e \in Elements, at \in Nat : e.el = "IF" => ElseElement(e, at) \in Elements
  /\ \A arity \in 0..1, l \in Nat, isLoop \in BOOLEAN :
       BlockElement(arity, l, isLoop) \in Elements
BY DEF Elements, Value, FuncStart, IfElement, ElseElement, BlockElement

\* The control element of each kind of frame.
LEMMA KindsAre ==
  /\ Kinds("func") = "FUNC_START" /\ Kinds("if") = "IF" /\ Kinds("else") = "ELSE"
  /\ Kinds("block") = "BLOCK" /\ Kinds("loop") = "BLOCK"
BY DEF Kinds

\* The last control element is the innermost frame's, with values above it.
LEMMA LastControlIs ==
  ASSUME NEW c, NEW d, Base(c, d)
  PROVE  /\ LastControl = c[N] /\ c[N] \in 1..Len(stack)
         /\ \A i \in 1..Len(stack) : i > c[N] => stack[i] = Value
         /\ \A k \in 1..N : c[k] \in 1..Len(stack) /\ c[k] <= c[N] /\ d[k] <= c[k]
                            /\ d[k] \in 1..Len(stack) /\ c[k] >= c[1] /\ d[k] >= c[1]
         /\ \A k \in 1..N : stack[c[k]] # Value /\ stack[d[k]] # Value
<1>1. /\ N \in Nat /\ N > 0 /\ Len(stack) \in Nat /\ DOMAIN stack = 1..Len(stack)
      /\ \A i \in 1..Len(stack) : stack[i] \in Elements
  BY DEF Base, Typed, N
<1>2. /\ c \in [1..N -> 1..Len(stack)] /\ d \in [1..N -> 1..Len(stack)]
      /\ \A k \in 1..N : d[k] <= c[k] /\ (d[k] = c[k] \/ stack[d[k]].el = "IF")
      /\ \A j, k \in 1..N : j < k => c[j] < d[k]
  BY <1>1 DEF Base, Positions
<1>3. \A k \in 1..N : Ctl(c, k).el = Kinds(Op(k)) /\ Op(k) \in {"func", "if", "else", "block", "loop"}
  <2>1. \A k \in 1..N : frames[k] \in WasmFrames
    BY <1>1 DEF Base, Typed, N
  <2>2. \A f \in WasmFrames : f.op \in {"func", "if", "else", "block", "loop"}
    BY DEF WasmFrames
  <2> QED
    BY <2>1, <2>2 DEF Base, Positions, Op
<1>4. \A k \in 1..N : stack[c[k]].el # "value" /\ stack[d[k]].el # "value"
  BY <1>2, <1>3, KindsAre DEF Ctl
<1>5. \A k \in 1..N : c[k] <= c[N] /\ c[k] >= c[1] /\ d[k] >= c[1]
  <2>1. ASSUME NEW k \in 1..N PROVE c[k] <= c[N]
    <3>1. CASE k = N
      BY <1>1, <1>2, <3>1
    <3>2. CASE k < N
      BY <1>1, <1>2, <3>2
    <3> QED
      BY <1>1, <3>1, <3>2
  <2>2. d[1] = c[1]
    BY <1>1 DEF Base, Positions
  <2>3. ASSUME NEW k \in 1..N PROVE c[k] >= c[1] /\ d[k] >= c[1]
    <3>1. CASE k = 1
      BY <1>1, <1>2, <2>2, <3>1
    <3>2. CASE 1 < k
      BY <1>1, <1>2, <3>2
    <3> QED
      BY <1>1, <3>1, <3>2
  <2> QED
    BY <2>1, <2>3
<1>6. \A k \in 1..N : stack[c[k]] # Value /\ stack[d[k]] # Value
  BY <1>1, <1>2, <1>4, ElementFacts
<1>7. \A i \in 1..Len(stack) : i > c[N] => stack[i] = Value
  <2>1. SUFFICES ASSUME NEW i \in 1..Len(stack), i > c[N], stack[i] # Value PROVE FALSE
    OBVIOUS
  <2>2. i < c[1] \/ \E k \in 1..N : i \in {c[k], d[k]}
    BY <2>1 DEF Base, Others
  <2>3. CASE i < c[1]
    BY <1>1, <1>2, <1>5, <2>1, <2>3
  <2>4. ASSUME NEW k \in 1..N, i \in {c[k], d[k]} PROVE FALSE
    <3>1. c[k] <= c[N] /\ d[k] <= c[k] /\ c[k] \in Nat /\ d[k] \in Nat /\ c[N] \in Nat
      BY <1>1, <1>2, <1>5
    <3> QED
      BY <2>1, <2>4, <3>1
  <2> QED
    BY <2>2, <2>3, <2>4
<1>8. LastControl = c[N]
  <2>1. c[N] \in DOMAIN stack /\ stack[c[N]] # Value
    BY <1>1, <1>2, <1>6
  <2>2. \A i \in DOMAIN stack : /\ stack[i] # Value
                                /\ \A j \in DOMAIN stack : j > i => stack[j] = Value
                                => i = c[N]
    BY <1>1, <1>2, <1>7, <2>1
  <2>3. \A j \in DOMAIN stack : j > c[N] => stack[j] = Value
    BY <1>1, <1>7
  <2> QED
    BY <2>1, <2>2, <2>3 DEF LastControl
<1> QED
  BY <1>1, <1>2, <1>5, <1>6, <1>7, <1>8

-----------------------------------------------------------------------------
(* Steps that open and close nothing: only operands come and go above the    *)
(* innermost control element, code is appended, and a branch is registered.  *)

Alike(a, b) ==
  /\ a.el = b.el
  /\ a.el \in {"IF", "ELSE"} => a.arity = b.arity /\ a.patch = b.patch
  /\ a.el = "BLOCK" => a.arity = b.arity /\ a.label = b.label /\ a.loop = b.loop
SameFrames ==
  /\ Len(frames') = N
  /\ \A k \in 1..N : frames'[k].op = frames[k].op /\ frames'[k].arity = frames[k].arity
SameStackUpTo(n) ==
  /\ Len(stack') >= n /\ \A i \in 1..n : Alike(stack'[i], stack[i])
  /\ \A i \in 1..Len(stack') : i > n => stack'[i] = Value
CodeGrows == Len(code') >= Len(code) /\ \A i \in 1..Len(code) : code'[i] = code[i]
Registers ==
  \/ brs' = brs
  \/ \E b \in Branches : /\ brs' = Append(brs, b) /\ b.label \in 1..Len(labels)
                         /\ b.at > Len(code) /\ b.at \in 1..Len(code')
                         /\ code'[b.at].to = b.at /\ code'[b.at].kind = b.kind
Straight(c) ==
  Typed' /\ SameFrames /\ SameStackUpTo(c[N]) /\ CodeGrows /\ labels' = labels /\ Registers

\* The frames stay where they are.
LEMMA StraightPositions ==
  ASSUME NEW c, NEW d, Base(c, d), Straight(c)
  PROVE  Positions(c, d)' /\ Others(c, d)'
<1> DEFINE n == N
<1>1. /\ n \in Nat /\ n > 0 /\ N' = n /\ Len(stack) \in Nat /\ Len(stack') \in Nat
      /\ \A i \in 1..Len(stack) : stack[i] \in Elements
      /\ \A i \in 1..Len(stack') : stack'[i] \in Elements
  BY DEF Base, Straight, SameFrames, Typed, N
<1>2. /\ c[n] \in 1..Len(stack)
      /\ \A k \in 1..n : /\ c[k] \in 1..Len(stack) /\ d[k] \in 1..Len(stack)
                         /\ c[k] <= c[n] /\ d[k] <= c[k]
  BY LastControlIs
<1>3. /\ c[n] <= Len(stack') /\ \A i \in 1..c[n] : Alike(stack'[i], stack[i])
      /\ \A i \in 1..Len(stack') : i > c[n] => stack'[i] = Value
  BY DEF Straight, SameStackUpTo
<1>4. \A k \in 1..n : Op(k)' = Op(k) /\ frames'[k].arity = frames[k].arity
  BY DEF Straight, SameFrames, Op
<1>5. /\ c \in [1..n -> 1..Len(stack)] /\ d \in [1..n -> 1..Len(stack)]
      /\ \A j, k \in 1..n : j < k => c[j] < d[k]
      /\ \A k \in 1..n :
           /\ stack[c[k]].el = Kinds(Op(k))
           /\ Op(k) = "func" <=> k = 1
           /\ IF Op(k) = "else" THEN d[k] < c[k] /\ stack[d[k]].el = "IF" ELSE d[k] = c[k]
           /\ Op(k) = "loop" => stack[c[k]].loop
           /\ Op(k) = "block" => ~stack[c[k]].loop
           /\ k > 1 => stack[c[k]].arity = frames[k].arity
           /\ Op(k) = "else" => stack[d[k]].arity = frames[k].arity
  BY DEF Base, Positions, Ctl
<1> HIDE DEF n
<1>6. \A k \in 1..n : /\ c[k] \in 1..c[n] /\ d[k] \in 1..c[n]
                      /\ c[k] \in 1..Len(stack') /\ d[k] \in 1..Len(stack')
  BY <1>1, <1>2, <1>3
<1>7. /\ c \in [1..n -> 1..Len(stack')] /\ d \in [1..n -> 1..Len(stack')]
  BY <1>5, <1>6
<1>8. ASSUME NEW k \in 1..n
      PROVE  /\ stack'[c[k]].el = Kinds(Op(k)') /\ (Op(k)' = "func" <=> k = 1)
             /\ IF Op(k)' = "else" THEN d[k] < c[k] /\ stack'[d[k]].el = "IF" ELSE d[k] = c[k]
             /\ Op(k)' = "loop" => stack'[c[k]].loop
             /\ Op(k)' = "block" => ~stack'[c[k]].loop
             /\ k > 1 => stack'[c[k]].arity = frames'[k].arity
             /\ Op(k)' = "else" => stack'[d[k]].arity = frames'[k].arity
  <2>1. Alike(stack'[c[k]], stack[c[k]]) /\ Alike(stack'[d[k]], stack[d[k]])
    BY <1>3, <1>6
  <2>2. Op(k) \in {"func", "if", "else", "block", "loop"}
    <3>1. \A f \in WasmFrames : f.op \in {"func", "if", "else", "block", "loop"}
      BY DEF WasmFrames
    <3>2. frames[k] \in WasmFrames
      BY DEF Base, Typed, N, n
    <3> QED
      BY <3>1, <3>2 DEF Op
  <2> QED
    BY <1>4, <1>5, <2>1, <2>2, KindsAre DEF Alike
<1>9. Positions(c, d)'
  BY <1>1, <1>5, <1>7, <1>8 DEF Positions, Ctl
<1>10. Others(c, d)'
  <2>1. SUFFICES ASSUME NEW i \in 1..Len(stack'), stack'[i] # Value,
                        ~(i < c[1] /\ stack'[i] = FuncStart)
                 PROVE  \E k \in 1..n : i \in {c[k], d[k]}
    BY <1>1 DEF Others
  <2>2. i \in 1..c[n] /\ i \in 1..Len(stack)
    BY <1>1, <1>2, <1>3, <2>1
  <2>3. stack'[i].el = stack[i].el
    BY <1>3, <2>2 DEF Alike
  <2>4. stack[i] # Value /\ ~(i < c[1] /\ stack[i] = FuncStart)
    BY <1>1, <2>1, <2>2, <2>3, ElementFacts
  <2> QED
    BY <2>2, <2>4 DEF Base, Others, n
<1> QED
  BY <1>9, <1>10

LEMMA ControlsAlike ==
  ASSUME NEW c, NEW d, Base(c, d), Straight(c), NEW k \in 1..N
  PROVE  /\ Op(k)' = Op(k)
         /\ Conditional(k) => Ctl(c, k)'.patch = Ctl(c, k).patch
         /\ IsBlock(k) => Ctl(c, k)'.label = Ctl(c, k).label
<1>1. c[k] \in 1..c[N]
  <2>1. c[N] \in 1..Len(stack) /\ c[k] \in 1..Len(stack) /\ c[k] <= c[N]
    BY LastControlIs
  <2>2. Len(stack) \in Nat
    BY DEF Base, Typed
  <2> QED
    BY <2>1, <2>2
<1>2. Alike(stack'[c[k]], stack[c[k]])
  BY <1>1 DEF Straight, SameStackUpTo
<1>3. Op(k)' = Op(k) /\ stack[c[k]].el = Kinds(Op(k))
  BY DEF Straight, SameFrames, Op, Base, Positions, Ctl
<1> QED
  BY <1>2, <1>3, KindsAre DEF Alike, Conditional, IsBlock, Ctl

\* Straight-line code keeps Base.
LEMMA StraightBase ==
  ASSUME NEW c, NEW d, Base(c, d), Straight(c)
  PROVE  Base(c, d)'
<1> DEFINE n == N
<1>1. /\ n \in Nat /\ N' = n /\ Len(code) \in Nat /\ Len(code') \in Nat /\ Len(brs) \in Nat
      /\ Len(code') >= Len(code) /\ \A i \in 1..Len(code) : code'[i] = code[i]
  <2>1. Len(frames) \in Nat /\ Len(code) \in Nat /\ Len(brs) \in Nat
    BY DEF Base, Typed
  <2>2. Len(code') \in Nat
    BY DEF Straight, Typed
  <2> QED
    BY <2>1, <2>2 DEF Straight, SameFrames, CodeGrows, N
<1>2. \A k \in 1..n : /\ Op(k)' = Op(k)
                      /\ Conditional(k) => Ctl(c, k)'.patch = Ctl(c, k).patch
                      /\ IsBlock(k) => Ctl(c, k)'.label = Ctl(c, k).label
  BY ControlsAlike
<1> HIDE DEF n
<1>3. \A at, kinds : Placeholder(at, kinds) => Placeholder(at, kinds)' /\ at <= Len(code)
  BY <1>1 DEF Placeholder
<1>4. \A k \in 1..n : (Conditional(k)' <=> Conditional(k)) /\ (IsBlock(k)' <=> IsBlock(k))
  BY <1>2 DEF Conditional, IsBlock
<1>5. ASSUME NEW k \in 1..n, Conditional(k)
      PROVE  /\ Placeholder(Ctl(c, k).patch, {"b", "b.cond"})
             /\ \A j \in 1..n : Conditional(j) /\ j # k => Ctl(c, j).patch # Ctl(c, k).patch
             /\ \A b \in 1..Len(brs) : brs[b].at # Ctl(c, k).patch
  BY <1>5 DEF Base, Placeholders, n
<1>6. ASSUME NEW b \in 1..Len(brs)
      PROVE  /\ Placeholder(brs[b].at, {brs[b].kind}) /\ brs[b].label \in 1..Len(labels)
             /\ \A a \in 1..Len(brs) : a # b => brs[a].at # brs[b].at
  BY <1>6 DEF Base, Placeholders
<1>7. ASSUME brs' = brs PROVE Placeholders(c)'
  <2>1. labels' = labels
    BY DEF Straight
  <2>2. ASSUME NEW k \in 1..n, Conditional(k)'
        PROVE  /\ Placeholder(Ctl(c, k).patch, {"b", "b.cond"})'
               /\ \A j \in 1..n : Conditional(j)' /\ j # k => Ctl(c, j)'.patch # Ctl(c, k)'.patch
               /\ \A b \in 1..Len(brs) : brs[b].at # Ctl(c, k)'.patch
    <3>1. Conditional(k) /\ Ctl(c, k)'.patch = Ctl(c, k).patch
      BY <1>2, <1>4, <2>2
    <3>2. Placeholder(Ctl(c, k).patch, {"b", "b.cond"})'
      BY <1>3, <1>5, <3>1
    <3> QED
      BY <1>2, <1>4, <1>5, <3>1, <3>2
  <2>3. \A b \in 1..Len(brs) : Placeholder(brs[b].at, {brs[b].kind})'
    BY <1>3, <1>6, <1>7
  <2> QED
    BY <1>1, <1>6, <1>7, <2>1, <2>2, <2>3 DEF Placeholders
<1>8. ASSUME NEW b \in Branches, brs' = Append(brs, b), b.label \in 1..Len(labels),
             b.at > Len(code), b.at \in 1..Len(code'), code'[b.at].to = b.at,
             code'[b.at].kind = b.kind
      PROVE  Placeholders(c)'
  <2> DEFINE m == Len(brs)
  <2>1. /\ Len(brs') = m + 1 /\ brs'[m + 1] = b /\ \A a \in 1..m : brs'[a] = brs[a]
        /\ m \in Nat /\ \A a \in 1..(m + 1) : a \in 1..m \/ a = m + 1
    <3>1. brs \in Seq(Branches)
      BY DEF Base, Typed
    <3> QED
      BY <1>8, <3>1
  <2>2. b.at \in Nat /\ labels' = labels
    BY DEF Branches, Straight
  <2> HIDE DEF m
  <2>0. Placeholder(b.at, {b.kind})'
    BY <1>8 DEF Placeholder
  <2>3. \A a \in 1..m : brs[a].at # b.at
    BY <1>1, <1>3, <1>6, <1>8, <2>2 DEF Placeholder, m
  <2>4. \A k \in 1..n : Conditional(k) => Ctl(c, k).patch # b.at
    BY <1>1, <1>3, <1>5, <1>8, <2>2 DEF Placeholder
  <2>5. ASSUME NEW k \in 1..n, Conditional(k)'
        PROVE  /\ Placeholder(Ctl(c, k).patch, {"b", "b.cond"})'
               /\ \A j \in 1..n : Conditional(j)' /\ j # k => Ctl(c, j)'.patch # Ctl(c, k)'.patch
               /\ \A a \in 1..Len(brs') : brs'[a].at # Ctl(c, k)'.patch
    <3>1. Conditional(k) /\ Ctl(c, k)'.patch = Ctl(c, k).patch
      BY <1>2, <1>4, <2>5
    <3>2. Placeholder(Ctl(c, k).patch, {"b", "b.cond"})'
      BY <1>3, <1>5, <3>1
    <3>3. \A j \in 1..n : Conditional(j)' /\ j # k => Ctl(c, j)'.patch # Ctl(c, k)'.patch
      BY <1>2, <1>4, <1>5, <3>1
    <3>4. \A a \in 1..Len(brs') : brs'[a].at # Ctl(c, k)'.patch
      BY <1>5, <2>1, <2>4, <3>1 DEF m
    <3> QED
      BY <3>2, <3>3, <3>4
  <2>6. ASSUME NEW a \in 1..Len(brs')
        PROVE  /\ Placeholder(brs[a].at, {brs[a].kind})' /\ brs'[a].label \in 1..Len(labels')
               /\ \A e \in 1..Len(brs') : e # a => brs'[e].at # brs'[a].at
    <3>1. CASE a \in 1..m
      BY <1>3, <1>6, <2>1, <2>2, <2>3, <3>1 DEF m
    <3>2. CASE a = m + 1
      BY <1>8, <2>0, <2>1, <2>2, <2>3, <3>2
    <3> QED
      BY <2>1, <3>1, <3>2
  <2> QED
    BY <1>1, <2>5, <2>6 DEF Placeholders
<1>9. Placeholders(c)'
  BY <1>7, <1>8 DEF Straight, Registers
<1>10. LabelsFilled(c)'
  <2>1. labels' = labels
    BY DEF Straight
  <2>2. \A k \in 1..n : IsBlock(k) => Label(c, k)' = Label(c, k)
    BY <1>2 DEF Label
  <2>3. /\ \A k \in 1..n : IsBlock(k) =>
             /\ Label(c, k) \in 1..Len(labels)
             /\ \A j \in 1..n : IsBlock(j) /\ j # k => Label(c, j) # Label(c, k)
             /\ Op(k) = "block" => labels[Label(c, k)] = 0
        /\ \A l \in 1..Len(labels) :
             labels[l] = 0 => \E k \in 1..n : Op(k) = "block" /\ Label(c, k) = l
    BY DEF Base, LabelsFilled, n
  <2>4. \A k \in 1..n : Op(k) = "block" => IsBlock(k)
    BY DEF IsBlock
  <2>5. ASSUME NEW k \in 1..n, IsBlock(k)'
        PROVE  /\ Label(c, k)' \in 1..Len(labels')
               /\ \A j \in 1..n : IsBlock(j)' /\ j # k => Label(c, j)' # Label(c, k)'
               /\ Op(k)' = "block" => labels'[Label(c, k)'] = 0
    BY <1>2, <1>4, <2>1, <2>2, <2>3, <2>5
  <2>6. ASSUME NEW l \in 1..Len(labels'), labels'[l] = 0
        PROVE  \E k \in 1..n : Op(k)' = "block" /\ Label(c, k)' = l
    BY <1>2, <2>1, <2>2, <2>3, <2>4, <2>6
  <2> QED
    BY <1>1, <2>5, <2>6 DEF LabelsFilled
<1>11. Typed'
  BY DEF Straight
<1> QED
  BY <1>9, <1>10, <1>11, StraightPositions DEF Base

-----------------------------------------------------------------------------
(* What the steps are made of. *)

LEMMA CurrentFacts ==
  ASSUME Typed
  PROVE  /\ N \in Nat /\ N > 0 /\ N \in 1..N /\ Current = frames[N] /\ Current \in WasmFrames
         /\ Current.h \in Nat /\ Current.arity \in 0..1 /\ Current.base \in Nat
         /\ Current.dead \in BOOLEAN /\ Without(1) \in Nat
         /\ FnArity[fn] \in 0..1
<1>1. N \in Nat /\ N > 0 /\ Current = frames[N] /\ Current \in WasmFrames
  BY DEF Typed, N, Current
<1>2. /\ Current.h \in Nat /\ Current.arity \in 0..1 /\ Current.base \in Nat
      /\ Current.dead \in BOOLEAN
  BY <1>1 DEF WasmFrames
<1>3. FnArity[fn] \in 0..1
  <2>1. fn \in 1..Len(FnArity)
    BY DEF Typed
  <2>2. FnArity \in Seq(0..1)
    BY ProgramAssumption
  <2> QED
    BY <2>1, <2>2
<1> QED
  BY <1>1, <1>2, <1>3 DEF Without

LEMMA ReplaceCurrent ==
  ASSUME Typed, NEW f \in WasmFrames, f.op = Current.op, f.arity = Current.arity,
         frames' = WithCurrent(f)
  PROVE  /\ frames' \in Seq(WasmFrames) /\ Len(frames') > 0 /\ SameFrames
         /\ N' = N /\ frames'[N] = f /\ \A k \in 1..N : k # N => frames'[k] = frames[k]
<1>1. /\ frames \in Seq(WasmFrames) /\ N = Len(frames) /\ N \in 1..N /\ Current = frames[N]
      /\ frames' = [frames EXCEPT ![N] = f]
  BY CurrentFacts DEF Typed, WithCurrent, N
<1>2. /\ frames' \in Seq(WasmFrames) /\ Len(frames') = Len(frames) /\ frames'[N] = f
      /\ \A k \in 1..N : k # N => frames'[k] = frames[k]
  BY <1>1
<1>3. N' = N
  BY <1>1, <1>2 DEF N
<1> QED
  BY <1>1, <1>2, <1>3, CurrentFacts DEF SameFrames

InstructionKinds == {"other", "b", "b.cond", "return", "ret"}
\* An emitted instruction goes to itself and moves no other.
LEMMA Emitted ==
  ASSUME Typed, NEW kind \in InstructionKinds
  PROVE  /\ Emit(kind) \in Seq(Instructions) /\ Len(Emit(kind)) = Len(code) + 1
         /\ \A i \in 1..Len(code) : Emit(kind)[i] = code[i]
         /\ Emit(kind)[Len(code) + 1].kind = kind
         /\ Emit(kind)[Len(code) + 1].to = Len(code) + 1
<1>1. code \in Seq(Instructions) /\ Len(code) \in Nat
  BY DEF Typed
<1>2. [kind |-> kind, to |-> Len(code) + 1] \in Instructions
  BY <1>1 DEF Instructions, InstructionKinds
<1> QED
  BY <1>1, <1>2 DEF Emit, Here

\* So the code grows, and nothing in it goes beyond its end.
LEMMA EmittedGrows ==
  ASSUME Typed, NEW kind \in InstructionKinds, code' = Emit(kind)
  PROVE  /\ code' \in Seq(Instructions) /\ CodeGrows
         /\ \A i \in 1..Len(code') : i > Len(code) => code'[i].to \in 1..(Len(code') + 1)
         /\ Len(code') \in Nat /\ Len(code') > Len(code)
         /\ code'[Len(code')].kind = kind /\ code'[Len(code')].to = Len(code')
<1>1. /\ code' \in Seq(Instructions) /\ Len(code') = Len(code) + 1
      /\ \A i \in 1..Len(code) : code'[i] = code[i]
      /\ code'[Len(code) + 1].kind = kind /\ code'[Len(code) + 1].to = Len(code) + 1
  BY Emitted
<1>2. Len(code) \in Nat
  BY DEF Typed
<1>3. Len(code') \in Nat /\ Len(code') > Len(code)
  BY <1>1, <1>2
<1>4. \A i \in 1..Len(code') : i > Len(code) => i = Len(code) + 1
  BY <1>1, <1>2
<1> QED
  BY <1>1, <1>2, <1>3, <1>4 DEF CodeGrows

LEMMA Appended ==
  ASSUME NEW S, NEW q \in Seq(S), NEW x \in S
  PROVE  /\ Append(q, x) \in Seq(S) /\ Len(Append(q, x)) = Len(q) + 1
         /\ \A i \in 1..Len(q) : Append(q, x)[i] = q[i]
         /\ Append(q, x)[Len(q) + 1] = x
OBVIOUS

LEMMA AppendedAfter ==
  ASSUME NEW S, NEW m \in Nat, NEW q \in Seq(S), Len(q) = m + 1, NEW x \in S,
         NEW s, s = Append(q, x)
  PROVE  /\ s \in Seq(S) /\ Len(s) = m + 2 /\ s[m + 2] = x
         /\ \A i \in 1..(m + 1) : s[i] = q[i]
OBVIOUS

EmitConditional == Emit("other") \o <<[kind |-> "b.cond", to |-> Here + 1]>>
LEMMA EmittedTwo ==
  ASSUME Typed, NEW s, s = EmitConditional
  PROVE  /\ s \in Seq(Instructions) /\ Len(s) = Len(code) + 2
         /\ \A i \in 1..Len(code) : s[i] = code[i]
         /\ s[Len(code) + 1].kind = "other" /\ s[Len(code) + 1].to = Len(code) + 1
         /\ s[Len(code) + 2].kind = "b.cond" /\ s[Len(code) + 2].to = Len(code) + 2
<1> DEFINE e == Emit("other")
           x == [kind |-> "b.cond", to |-> Here + 1]
<1>1. /\ e \in Seq(Instructions) /\ Len(e) = Len(code) + 1 /\ Len(code) \in Nat
      /\ \A i \in 1..Len(code) : e[i] = code[i]
      /\ e[Len(code) + 1].kind = "other" /\ e[Len(code) + 1].to = Len(code) + 1
  BY Emitted DEF Typed, InstructionKinds
<1>2. x \in Instructions /\ x.kind = "b.cond" /\ x.to = Len(code) + 2
  BY <1>1 DEF Instructions, Here
<1> HIDE DEF e, x
<1>3. s = Append(e, x)
  BY <1>1, <1>2, AppendIsConcat DEF e, x, EmitConditional
<1>4. /\ s \in Seq(Instructions) /\ Len(s) = Len(code) + 2 /\ s[Len(code) + 2] = x
      /\ \A i \in 1..(Len(code) + 1) : s[i] = e[i]
  BY <1>1, <1>2, <1>3, AppendedAfter
<1> QED
  BY <1>1, <1>2, <1>4

LEMMA CodeTyped ==
  ASSUME Typed, code' \in Seq(Instructions), CodeGrows,
         \A i \in 1..Len(code') : i > Len(code) => code'[i].to \in 1..(Len(code') + 1)
  PROVE  /\ \A i \in 1..Len(code') : code'[i].to \in 1..Here'
         /\ labels \in Seq(0..Here')
<1>1. Len(code) \in Nat /\ Len(code') \in Nat /\ Here = Len(code) + 1 /\ Here' = Len(code') + 1
  BY DEF Typed, Here
<1>2. \A i \in 1..Len(code') : code'[i].to \in 1..Here'
  <2>1. \A i \in 1..Len(code) : code[i].to \in 1..Here
    BY DEF Typed
  <2> QED
    BY <1>1, <2>1 DEF CodeGrows
<1>3. labels \in Seq(0..Here) /\ 0..Here \subseteq 0..Here'
  BY <1>1 DEF Typed, CodeGrows
<1>4. labels \in Seq(0..Here')
  BY <1>3, SeqMonotonic
<1> QED
  BY <1>2, <1>4

\* The top of the validation stack is taken, when it is a value, or gets another.
LEMMA Popping ==
  ASSUME NEW c, NEW d, Base(c, d), Top = Value
  PROVE  /\ Below(1) \in Seq(Elements) /\ Len(Below(1)) = Len(stack) - 1
         /\ Len(stack) > c[N]
         /\ \A i \in 1..(Len(stack) - 1) : Below(1)[i] = stack[i]
<1>1. stack \in Seq(Elements) /\ Len(stack) \in Nat /\ N \in 1..N
  BY CurrentFacts DEF Base, Typed
<1>2. c[N] \in 1..Len(stack) /\ stack[c[N]] # Value
  BY <1>1, LastControlIs
<1>3. Len(stack) > c[N]
  BY <1>1, <1>2 DEF Top
<1> QED
  BY <1>1, <1>2, <1>3 DEF Below

LEMMA AlikeItself == \A e : Alike(e, e)
BY DEF Alike

LEMMA PoppingSame ==
  ASSUME NEW c, NEW d, Base(c, d), Top = Value, stack' = Below(1)
  PROVE  SameStackUpTo(c[N])
<1>1. c[N] \in Nat /\ Len(stack) \in Nat /\ N \in 1..N
  BY CurrentFacts, LastControlIs DEF Base, Typed
<1>2. \A i \in 1..Len(stack) : i > c[N] => stack[i] = Value
  BY LastControlIs
<1> QED
  BY <1>1, <1>2, Popping, AlikeItself DEF SameStackUpTo

LEMMA PushingSame ==
  ASSUME NEW c, NEW d, Base(c, d), stack' = Append(stack, Value)
  PROVE  SameStackUpTo(c[N]) /\ stack' \in Seq(Elements)
<1>1. c[N] \in 1..Len(stack) /\ stack \in Seq(Elements) /\ N \in 1..N
  BY CurrentFacts, LastControlIs DEF Base, Typed
<1>2. \A i \in 1..Len(stack) : i > c[N] => stack[i] = Value
  BY LastControlIs
<1>3. /\ stack' \in Seq(Elements) /\ Len(stack') = Len(stack) + 1 /\ Len(stack) \in Nat
      /\ \A i \in 1..Len(stack) : stack'[i] = stack[i]
      /\ stack'[Len(stack) + 1] = Value
  BY <1>1, NewElements
<1>4. \A i \in 1..c[N] : Alike(stack'[i], stack[i])
  BY <1>1, <1>3, AlikeItself
<1>5. \A i \in 1..Len(stack') : i > c[N] => stack'[i] = Value
  BY <1>1, <1>2, <1>3
<1> QED
  BY <1>1, <1>3, <1>4, <1>5 DEF SameStackUpTo

LEMMA Counting ==
  ASSUME Typed, Counted \/ (More /\ ops' = ops + 1)
  PROVE  ops' \in 0..MaxOps /\ ops' >= ops
<1>1. MaxOps \in Nat /\ ops \in 0..MaxOps
  BY ProgramAssumption DEF Typed
<1> QED
  BY <1>1 DEF Counted, More

\* A wanted branch has the type of one.
LEMMA WantingTyped ==
  ASSUME Typed, NEW at \in Nat, NEW place \in Places, NEW h \in Int
  PROVE  Wanting(at, place, h) \subseteq Wanted
<1>1. fn \in Nat /\ wanted \subseteq Wanted
  BY DEF Typed
<1>2. [at |-> at, place |-> place, h |-> h, fn |-> fn] \in Wanted
  BY <1>1 DEF Wanted
<1> QED
  BY <1>1, <1>2 DEF Wanting

LEMMA PlacesOf ==
  ASSUME NEW f \in WasmFrames
  PROVE  /\ Place(f) \in Places
         /\ <<f.id, "end">> \in Places /\ <<f.id, "else">> \in Places
BY DEF WasmFrames, Places, Place

\* A step that leaves the rest alone.
LEMMA TypedStep ==
  ASSUME Typed, frames' \in Seq(WasmFrames), Len(frames') > 0, stack' \in Seq(Elements),
         code' \in Seq(Instructions), CodeGrows,
         \A i \in 1..Len(code') : i > Len(code) => code'[i].to \in 1..(Len(code') + 1),
         labels' = labels, brs' \in Seq(Branches), rop' \in Int, live' \in BOOLEAN,
         ops' \in 0..MaxOps, wanted' \subseteq Wanted, fn' = fn
  PROVE  Typed'
<1>1. /\ \A i \in 1..Len(code') : code'[i].to \in 1..Here'
      /\ labels' \in Seq(0..Here')
  BY CodeTyped
<1>2. fn' \in 1..Len(FnArity)
  BY DEF Typed
<1> QED
  BY <1>1, <1>2 DEF Typed

\* The parts of Typed.
LEMMA Facts ==
  ASSUME Typed
  PROVE  /\ stack \in Seq(Elements) /\ frames \in Seq(WasmFrames) /\ code \in Seq(Instructions)
         /\ brs \in Seq(Branches) /\ labels \in Seq(0..Here) /\ rop \in Int /\ live \in BOOLEAN
         /\ ops \in 0..MaxOps /\ wanted \subseteq Wanted /\ Len(code) \in Nat /\ Here = Len(code) + 1
         /\ Len(stack) \in Nat /\ Len(labels) \in Nat /\ Len(brs) \in Nat /\ fn \in Nat
         /\ DOMAIN stack = 1..Len(stack) /\ DOMAIN code = 1..Len(code) /\ fn \in 1..Len(FnArity)
<1>1. /\ stack \in Seq(Elements) /\ frames \in Seq(WasmFrames) /\ code \in Seq(Instructions)
      /\ brs \in Seq(Branches) /\ labels \in Seq(0..Here) /\ rop \in Int /\ live \in BOOLEAN
      /\ ops \in 0..MaxOps /\ wanted \subseteq Wanted /\ fn \in 1..Len(FnArity)
  BY DEF Typed
<1>2. /\ Len(code) \in Nat /\ Len(stack) \in Nat /\ Len(labels) \in Nat /\ Len(brs) \in Nat
      /\ fn \in Nat
  BY <1>1
<1>3. DOMAIN stack = 1..Len(stack) /\ DOMAIN code = 1..Len(code)
  BY <1>1
<1> QED
  BY <1>1, <1>2, <1>3 DEF Here

LEMMA ConstStraight ==
  ASSUME NEW c, NEW d, Base(c, d), Const
  PROVE  Straight(c)
<1>1. Typed
  BY DEF Base
<1> DEFINE f == [Current EXCEPT !.h = @ + 1]
<1>2. f \in WasmFrames /\ f.op = Current.op /\ f.arity = Current.arity
  BY <1>1, CurrentFacts DEF WasmFrames
<1> HIDE DEF f
<1>3. frames' \in Seq(WasmFrames) /\ Len(frames') > 0 /\ SameFrames
  <2>1. frames' = WithCurrent(f)
    BY DEF Const, f
  <2> QED
    BY <1>1, <1>2, <2>1, ReplaceCurrent
<1>4. stack' \in Seq(Elements) /\ SameStackUpTo(c[N])
  BY PushingSame DEF Const
<1>5. /\ code' \in Seq(Instructions) /\ CodeGrows
      /\ \A i \in 1..Len(code') : i > Len(code) => code'[i].to \in 1..(Len(code') + 1)
  <2>1. code' = Emit("other") /\ "other" \in InstructionKinds
    BY <1>1 DEF Const, InstructionKinds
  <2> QED
    BY <1>1, <2>1, EmittedGrows
<1>6. ops' \in 0..MaxOps
  BY <1>1, Counting DEF Const
<1>7. /\ labels' = labels /\ brs' = brs /\ fn' = fn /\ live' = live /\ wanted' = wanted
      /\ rop' = rop + 1
  BY DEF Const
<1>8. Typed'
  BY <1>1, <1>3, <1>4, <1>5, <1>6, <1>7, Facts, TypedStep
<1> QED
  BY <1>3, <1>4, <1>5, <1>7, <1>8 DEF Straight, Registers

LEMMA DropStraight ==
  ASSUME NEW c, NEW d, Base(c, d), Drop, status' # "rejected"
  PROVE  Straight(c)
<1>1. Typed /\ Top = Value
  BY DEF Base, Drop, Reject
<1> DEFINE f == [Current EXCEPT !.h = Without(1)]
<1>2. f \in WasmFrames /\ f.op = Current.op /\ f.arity = Current.arity
  BY <1>1, CurrentFacts DEF WasmFrames
<1> HIDE DEF f
<1>3. frames' \in Seq(WasmFrames) /\ Len(frames') > 0 /\ SameFrames
  <2>1. frames' = WithCurrent(f)
    BY <1>1 DEF Drop, f
  <2> QED
    BY <1>1, <1>2, <2>1, ReplaceCurrent
<1>4. stack' \in Seq(Elements) /\ SameStackUpTo(c[N])
  BY <1>1, Popping, PoppingSame DEF Drop
<1>5. /\ code' \in Seq(Instructions) /\ CodeGrows
      /\ \A i \in 1..Len(code') : i > Len(code) => code'[i].to \in 1..(Len(code') + 1)
  <2>1. code' = Emit("other") /\ "other" \in InstructionKinds
    BY <1>1 DEF Drop, InstructionKinds
  <2> QED
    BY <1>1, <2>1, EmittedGrows
<1>6. ops' \in 0..MaxOps
  BY <1>1, Counting DEF Drop
<1>7. /\ labels' = labels /\ brs' = brs /\ fn' = fn /\ live' = live /\ wanted' = wanted
      /\ rop' = rop - 1
  BY <1>1 DEF Drop
<1>8. Typed'
  BY <1>1, <1>3, <1>4, <1>5, <1>6, <1>7, Facts, TypedStep
<1> QED
  BY <1>3, <1>4, <1>5, <1>7, <1>8 DEF Straight, Registers

\* The blocks of the validation stack are the open ones.
LEMMA BlocksAreOpen ==
  ASSUME NEW c, NEW d, Base(c, d), NEW i \in Blocks
  PROVE  \E k \in 1..N : IsBlock(k) /\ i = c[k] /\ stack[i].label \in 1..Len(labels)
                         /\ stack[i].label = Label(c, k)
<1>1. Typed
  BY DEF Base
<1>2. i \in 1..Len(stack) /\ stack[i].el = "BLOCK" /\ stack[i] \in Elements
  BY <1>1, Facts DEF Blocks
<1>3. stack[i] # Value /\ stack[i] # FuncStart
  BY <1>2, ElementFacts
<1>4. PICK k \in 1..N : i \in {c[k], d[k]}
  BY <1>2, <1>3 DEF Base, Others
<1>5. /\ Ctl(c, k).el = Kinds(Op(k))
      /\ IF Op(k) = "else" THEN d[k] < c[k] /\ stack[d[k]].el = "IF" ELSE d[k] = c[k]
  BY DEF Base, Positions
<1>6. i = c[k]
  BY <1>2, <1>4, <1>5
<1>7. frames[k] \in WasmFrames
  BY <1>1, Facts DEF N
<1>8. Op(k) \in {"func", "if", "else", "block", "loop"}
  BY <1>7 DEF Op, WasmFrames
<1>9. IsBlock(k)
  BY <1>2, <1>5, <1>6, <1>8, KindsAre DEF Ctl, IsBlock
<1>10. Label(c, k) \in 1..Len(labels)
  BY <1>9 DEF Base, LabelsFilled
<1> QED
  BY <1>6, <1>9, <1>10 DEF Label, Ctl

\* A branch that is registered is a placeholder of its own.
LEMMA Registering ==
  ASSUME NEW c, NEW d, Base(c, d), NEW kind \in {"b", "b.cond"}, NEW depth,
         \E i \in Targets(depth) : RegisterBr(kind, stack[i].label),
         Len(code') \in Nat, Len(code') > Len(code),
         code'[Len(code')].kind = kind, code'[Len(code')].to = Len(code')
  PROVE  /\ brs' \in Seq(Branches) /\ Registers
         /\ \E i \in Targets(depth) :
              brs' = Append(brs, [kind |-> kind, label |-> stack[i].label, at |-> Len(code')])
<1>1. PICK i \in Targets(depth) : RegisterBr(kind, stack[i].label)
  OBVIOUS
<1> DEFINE b == [kind |-> kind, label |-> stack[i].label, at |-> Len(code')]
<1>2. stack[i].label \in 1..Len(labels)
  BY BlocksAreOpen DEF Targets
<1>3. Len(labels) \in Nat /\ brs \in Seq(Branches) /\ Len(code) \in Nat
  BY Facts DEF Base
<1>4. b \in Branches /\ b.label = stack[i].label /\ b.at = Len(code') /\ b.kind = kind
  BY <1>2, <1>3 DEF Branches
<1>5. brs' = Append(brs, b)
  BY <1>1 DEF RegisterBr
<1>6. (\E j \in Targets(depth) :
         brs' = Append(brs, [kind |-> kind, label |-> stack[j].label, at |-> Len(code')]))
  BY <1>5
<1> HIDE DEF b
<1>7. /\ b.at > Len(code) /\ b.at \in 1..Len(code')
      /\ code'[b.at].to = b.at /\ code'[b.at].kind = b.kind
  BY <1>3, <1>4
<1>8. brs' \in Seq(Branches)
  BY <1>3, <1>4, <1>5
<1> QED
  BY <1>2, <1>3, <1>4, <1>5, <1>6, <1>7, <1>8 DEF Registers

LEMMA StackStays ==
  ASSUME NEW c, NEW d, Base(c, d), stack' = stack
  PROVE  SameStackUpTo(c[N])
<1>1. c[N] \in 1..Len(stack) /\ Len(stack) \in Nat /\ N \in 1..N
  BY CurrentFacts, LastControlIs, Facts DEF Base
<1>2. \A i \in 1..Len(stack) : i > c[N] => stack[i] = Value
  BY LastControlIs
<1> QED
  BY <1>1, <1>2, AlikeItself DEF SameStackUpTo

LEMMA TargetIn ==
  ASSUME Typed, NEW depth \in 0..(Len(frames) - 1)
  PROVE  Target(depth) \in WasmFrames /\ Place(Target(depth)) \in Places
<1>1. Len(frames) - depth \in 1..Len(frames) /\ frames \in Seq(WasmFrames)
  BY Facts
<1>2. Target(depth) \in WasmFrames
  BY <1>1 DEF Target
<1> QED
  BY <1>2, PlacesOf

LEMMA BrStraight ==
  ASSUME NEW c, NEW d, Base(c, d), NEW depth \in 0..(Len(frames) - 1), Br(depth),
         status' # "rejected"
  PROVE  /\ Straight(c)
         /\ \E i \in Targets(depth) :
              brs' = Append(brs, [kind |-> "b", label |-> stack[i].label, at |-> Len(code')])
<1>1. Typed /\ Accepts(depth, stack)
  BY DEF Base, Br, Reject
<1> DEFINE f == [Current EXCEPT !.h = 0, !.dead = TRUE]
<1>2. f \in WasmFrames /\ f.op = Current.op /\ f.arity = Current.arity
  BY <1>1, CurrentFacts DEF WasmFrames
<1> HIDE DEF f
<1>3. frames' \in Seq(WasmFrames) /\ Len(frames') > 0 /\ SameFrames
  <2>1. frames' = WithCurrent(f)
    BY <1>1 DEF Br, f
  <2> QED
    BY <1>1, <1>2, <2>1, ReplaceCurrent
<1>4. stack' = stack /\ stack' \in Seq(Elements) /\ SameStackUpTo(c[N])
  BY <1>1, Facts, StackStays DEF Br
<1>5. code' = Emit("b") /\ Len(code) \in Nat
  BY <1>1, Facts DEF Br
<1>6. /\ code' \in Seq(Instructions) /\ CodeGrows
      /\ \A i \in 1..Len(code') : i > Len(code) => code'[i].to \in 1..(Len(code') + 1)
      /\ Len(code') \in Nat /\ Len(code') > Len(code)
      /\ code'[Len(code')].kind = "b" /\ code'[Len(code')].to = Len(code')
  <2>1. "b" \in InstructionKinds
    BY DEF InstructionKinds
  <2> QED
    BY <1>1, <1>5, <2>1, EmittedGrows
<1>7. /\ labels' = labels /\ fn' = fn /\ live' = FALSE /\ rop' = rop
      /\ wanted' = Wanting(Here, Place(Target(depth)), rop) /\ ops' = ops + 1 /\ More
      /\ \E i \in Targets(depth) : RegisterBr("b", stack[i].label)
  BY <1>1 DEF Br
<1>8. brs' \in Seq(Branches) /\ Registers
      /\ \E i \in Targets(depth) :
           brs' = Append(brs, [kind |-> "b", label |-> stack[i].label, at |-> Len(code')])
  BY <1>6, <1>7, Registering
<1>9. wanted' \subseteq Wanted /\ ops' \in 0..MaxOps
  BY <1>1, <1>7, Facts, TargetIn, WantingTyped, Counting
<1>10. Typed'
  BY <1>1, <1>3, <1>4, <1>6, <1>7, <1>8, <1>9, Facts, TypedStep
<1> QED
  BY <1>3, <1>4, <1>6, <1>7, <1>8, <1>10 DEF Straight

LEMMA BrIfStraight ==
  ASSUME NEW c, NEW d, Base(c, d), NEW depth \in 0..(Len(frames) - 1), BrIf(depth),
         status' # "rejected"
  PROVE  /\ Straight(c)
         /\ \E i \in Targets(depth) :
              brs' = Append(brs, [kind |-> "b.cond", label |-> stack[i].label,
                                  at |-> Len(code')])
<1>1. Typed /\ Top = Value /\ Accepts(depth, Below(1))
  BY DEF Base, BrIf, Reject
<1> DEFINE f == [Current EXCEPT !.h = Without(1)]
<1>2. f \in WasmFrames /\ f.op = Current.op /\ f.arity = Current.arity
  BY <1>1, CurrentFacts DEF WasmFrames
<1> HIDE DEF f
<1>3. frames' \in Seq(WasmFrames) /\ Len(frames') > 0 /\ SameFrames
  <2>1. frames' = WithCurrent(f)
    BY <1>1 DEF BrIf, f
  <2> QED
    BY <1>1, <1>2, <2>1, ReplaceCurrent
<1>4. stack' \in Seq(Elements) /\ SameStackUpTo(c[N])
  BY <1>1, Popping, PoppingSame DEF BrIf
<1>5. code' = EmitConditional /\ Len(code) \in Nat
  BY <1>1, Facts DEF BrIf, EmitConditional
<1>6. /\ code' \in Seq(Instructions) /\ CodeGrows
      /\ \A i \in 1..Len(code') : i > Len(code) => code'[i].to \in 1..(Len(code') + 1)
      /\ Len(code') \in Nat /\ Len(code') > Len(code)
      /\ code'[Len(code')].kind = "b.cond" /\ code'[Len(code')].to = Len(code')
  <2>1. /\ EmitConditional \in Seq(Instructions) /\ Len(EmitConditional) = Len(code) + 2
        /\ \A i \in 1..Len(code) : EmitConditional[i] = code[i]
        /\ EmitConditional[Len(code) + 1].to = Len(code) + 1
        /\ EmitConditional[Len(code) + 2].kind = "b.cond"
        /\ EmitConditional[Len(code) + 2].to = Len(code) + 2
    BY <1>1, EmittedTwo
  <2> QED
    BY <1>5, <2>1 DEF CodeGrows
<1>7. /\ labels' = labels /\ fn' = fn /\ live' = live /\ rop' = rop - 1
      /\ wanted' = Wanting(Here + 1, Place(Target(depth)), rop') /\ ops' = ops + 1 /\ More
      /\ \E i \in Targets(depth) : RegisterBr("b.cond", stack[i].label)
  BY <1>1 DEF BrIf
<1>8. brs' \in Seq(Branches) /\ Registers
      /\ \E i \in Targets(depth) :
           brs' = Append(brs, [kind |-> "b.cond", label |-> stack[i].label, at |-> Len(code')])
  BY <1>6, <1>7, Registering
<1>9. wanted' \subseteq Wanted /\ ops' \in 0..MaxOps /\ rop' \in Int
  <2>1. rop' \in Int /\ Here + 1 \in Nat
    <3>1. rop \in Int /\ Here \in Nat
      BY <1>1, Facts
    <3> QED
      BY <1>7, <3>1
  <2> QED
    BY <1>1, <1>7, <2>1, TargetIn, WantingTyped, Counting
<1>10. Typed'
  BY <1>1, <1>3, <1>4, <1>6, <1>7, <1>8, <1>9, Facts, TypedStep
<1> QED
  BY <1>3, <1>4, <1>6, <1>7, <1>8, <1>10 DEF Straight

LEMMA UnreachableAlike ==
  ASSUME NEW e \in Elements, e.el = "BLOCK"
  PROVE  [e EXCEPT !.unreachable = TRUE] \in Elements /\ Alike([e EXCEPT !.unreachable = TRUE], e)
BY DEF Elements, Alike, Value, FuncStart

LEMMA UnreachableSame ==
  ASSUME NEW c, NEW d, Base(c, d), stack' = WithBlocksUnreachable
  PROVE  /\ stack' \in Seq(Elements) /\ SameStackUpTo(c[N]) /\ Len(stack') = Len(stack)
<1>1. /\ c[N] \in 1..Len(stack) /\ Len(stack) \in Nat /\ N \in 1..N
      /\ stack \in Seq(Elements) /\ DOMAIN stack = 1..Len(stack)
  BY CurrentFacts, LastControlIs, Facts DEF Base
<1> DEFINE q == WithBlocksUnreachable
<1>2. /\ q = [i \in 1..Len(stack) |-> q[i]]
      /\ \A i \in 1..Len(stack) : \/ q[i] = stack[i]
                                  \/ /\ i \in Blocks
                                     /\ q[i] = [stack[i] EXCEPT !.unreachable = TRUE]
  BY <1>1 DEF WithBlocksUnreachable
<1> HIDE DEF q
<1>3. ASSUME NEW i \in 1..Len(stack)
      PROVE  q[i] \in Elements /\ Alike(q[i], stack[i]) /\ (stack[i] = Value => q[i] = Value)
  <2>1. stack[i] \in Elements
    BY <1>1
  <2>2. CASE q[i] = stack[i]
    BY <2>1, <2>2, AlikeItself
  <2>3. CASE i \in Blocks /\ q[i] = [stack[i] EXCEPT !.unreachable = TRUE]
    <3>1. stack[i].el = "BLOCK"
      BY <2>3 DEF Blocks
    <3>2. stack[i] # Value
      BY <2>1, <3>1, ElementFacts
    <3> QED
      BY <2>1, <2>3, <3>1, <3>2, UnreachableAlike
  <2> QED
    BY <1>2, <2>2, <2>3
<1>4. q \in Seq(Elements) /\ Len(q) = Len(stack)
  <2>1. q \in [1..Len(stack) -> Elements]
    BY <1>2, <1>3
  <2>2. q \in Seq(Elements)
    BY <1>1, <2>1, IsASeq
  <2> QED
    BY <1>1, <2>1, <2>2, LenProperties
<1>5. \A i \in 1..Len(stack) : i > c[N] => stack[i] = Value
  BY LastControlIs
<1>6. stack' = q
  BY DEF q
<1> QED
  BY <1>1, <1>3, <1>4, <1>5, <1>6 DEF SameStackUpTo

LEMMA ReturnStraight ==
  ASSUME NEW c, NEW d, Base(c, d), Return, status' # "rejected"
  PROVE  Straight(c)
<1>1. Typed /\ ~(FnArity[fn] = 1 /\ Top # Value)
  BY DEF Base, Return, Reject
<1> DEFINE f == [Current EXCEPT !.h = 0, !.dead = TRUE]
<1>2. f \in WasmFrames /\ f.op = Current.op /\ f.arity = Current.arity
  BY <1>1, CurrentFacts DEF WasmFrames
<1> HIDE DEF f
<1>3. frames' \in Seq(WasmFrames) /\ Len(frames') > 0 /\ SameFrames
  <2>1. frames' = WithCurrent(f)
    BY <1>1 DEF Return, f
  <2> QED
    BY <1>1, <1>2, <2>1, ReplaceCurrent
<1>4. stack' \in Seq(Elements) /\ SameStackUpTo(c[N])
  BY <1>1, UnreachableSame DEF Return
<1>5. code' = Emit("return") /\ Len(code) \in Nat
  BY <1>1, Facts DEF Return
<1>6. /\ code' \in Seq(Instructions) /\ CodeGrows
      /\ \A i \in 1..Len(code') : i > Len(code) => code'[i].to \in 1..(Len(code') + 1)
  <2>1. "return" \in InstructionKinds
    BY DEF InstructionKinds
  <2> QED
    BY <1>1, <1>5, <2>1, EmittedGrows
<1>7. /\ labels' = labels /\ brs' = brs /\ fn' = fn /\ live' = FALSE /\ wanted' = wanted
      /\ rop' = rop - FnArity[fn] /\ ops' = ops + 1 /\ More
  BY <1>1 DEF Return
<1>8. ops' \in 0..MaxOps /\ rop' \in Int
  BY <1>1, <1>7, Facts, CurrentFacts, Counting
<1>9. Typed'
  BY <1>1, <1>3, <1>4, <1>6, <1>7, <1>8, Facts, TypedStep
<1> QED
  BY <1>3, <1>4, <1>6, <1>7, <1>9 DEF Straight, Registers

-----------------------------------------------------------------------------
(* Steps that open a frame. *)

Extended(c, at) == [k \in 1..(N + 1) |-> IF k <= N THEN c[k] ELSE at]

\* A control element above the first m of the stack, and its frame.
Opens(c, m) ==
  /\ m \in c[N]..Len(stack) /\ Len(stack') = m + 1
  /\ \A i \in 1..m : stack'[i] = stack[i]
  /\ Len(frames') = N + 1
  /\ \A k \in 1..N : frames'[k].op = frames[k].op /\ frames'[k].arity = frames[k].arity
  /\ frames'[N + 1].op \in {"if", "block", "loop"}
  /\ stack'[m + 1].el = Kinds(frames'[N + 1].op)
  /\ stack'[m + 1].arity = frames'[N + 1].arity
  /\ frames'[N + 1].op = "loop" => stack'[m + 1].loop
  /\ frames'[N + 1].op = "block" => ~stack'[m + 1].loop

\* Where the frames are once another is opened.
LEMMA ExtendedFacts ==
  ASSUME NEW c, NEW d, Base(c, d), NEW m, Opens(c, m),
         NEW c2, c2 = Extended(c, m + 1)
  PROVE  /\ m \in Nat /\ N \in Nat /\ N > 0 /\ N' = N + 1 /\ c2[N + 1] = m + 1
         /\ \A k \in 1..N : c2[k] = c[k] /\ c[k] \in 1..m /\ Op(k)' = Op(k)
                            /\ Ctl(c2, k)' = Ctl(c, k)
         /\ frames'[N + 1].op \in {"if", "block", "loop"}
<1>1. /\ N \in Nat /\ N > 0 /\ Len(stack) \in Nat
      /\ c[N] \in 1..Len(stack) /\ \A k \in 1..N : c[k] \in 1..Len(stack) /\ c[k] <= c[N]
  BY CurrentFacts, Facts, LastControlIs DEF Base
<1>2. m \in Nat /\ m >= c[N] /\ N' = N + 1
  BY <1>1 DEF Opens, N
<1>3. \A k \in 1..N : c2[k] = c[k] /\ c[k] \in 1..m /\ Op(k)' = Op(k)
  BY <1>1, <1>2 DEF Extended, Opens, Op
<1>4. c2[N + 1] = m + 1 /\ frames'[N + 1].op \in {"if", "block", "loop"}
  BY <1>1, <1>2 DEF Extended, Opens, Op
<1> QED
  BY <1>1, <1>2, <1>3, <1>4 DEF Ctl, Opens

\* An opened frame stands above the others.
LEMMA OpenedPositions ==
  ASSUME NEW c, NEW d, Base(c, d), Typed', NEW m, Opens(c, m),
         NEW c2, c2 = Extended(c, m + 1), NEW d2, d2 = Extended(d, m + 1)
  PROVE  Positions(c2, d2)' /\ Others(c2, d2)'
<1> DEFINE n == N
<1>1. /\ n \in Nat /\ n > 0 /\ m \in Nat /\ N' = n + 1 /\ c2[n + 1] = m + 1
      /\ \A k \in 1..n : c2[k] = c[k] /\ c[k] \in 1..m /\ Op(k)' = Op(k)
                         /\ stack'[c2[k]] = stack[c[k]]
      /\ frames'[n + 1].op \in {"if", "block", "loop"}
  BY ExtendedFacts DEF Ctl
<1>2. /\ \A k \in 1..n : d[k] \in 1..Len(stack) /\ d[k] <= c[k]
      /\ c2 \in [1..(n + 1) -> Nat \cup {c[k] : k \in 1..n}]
  BY <1>1, LastControlIs DEF Extended
<1>3. /\ m <= Len(stack) /\ Len(stack') = m + 1 /\ \A i \in 1..m : stack'[i] = stack[i]
      /\ m >= c[n] /\ Len(stack) \in Nat
      /\ \A k \in 1..n : frames'[k].arity = frames[k].arity
  <2>1. Typed
    BY DEF Base
  <2>2. Len(stack) \in Nat
    BY <2>1, Facts
  <2>3. /\ m <= Len(stack) /\ Len(stack') = m + 1 /\ \A i \in 1..m : stack'[i] = stack[i]
        /\ m >= c[n] /\ \A k \in 1..n : frames'[k].arity = frames[k].arity
    BY DEF Opens
  <2> QED
    BY <2>2, <2>3
<1>4. /\ stack'[m + 1].el = Kinds(frames'[n + 1].op)
      /\ stack'[m + 1].arity = frames'[n + 1].arity
      /\ frames'[n + 1].op = "loop" => stack'[m + 1].loop
      /\ frames'[n + 1].op = "block" => ~stack'[m + 1].loop
  BY DEF Opens, Op
<1>5. /\ \A j, k \in 1..n : j < k => c[j] < d[k]
      /\ \A k \in 1..n :
           /\ stack[c[k]].el = Kinds(Op(k))
           /\ Op(k) = "func" <=> k = 1
           /\ IF Op(k) = "else" THEN d[k] < c[k] /\ stack[d[k]].el = "IF" ELSE d[k] = c[k]
           /\ Op(k) = "loop" => stack[c[k]].loop
           /\ Op(k) = "block" => ~stack[c[k]].loop
           /\ k > 1 => stack[c[k]].arity = frames[k].arity
           /\ Op(k) = "else" => stack[d[k]].arity = frames[k].arity
  BY DEF Base, Positions, Ctl
<1>6. d2[n + 1] = m + 1 /\ \A k \in 1..n : d2[k] = d[k]
  BY <1>1 DEF Extended
<1>7. c2 \in [1..(n + 1) -> 1..(m + 1)] /\ d2 \in [1..(n + 1) -> 1..(m + 1)]
  <2>1. \A k \in 1..(n + 1) : k \in 1..n \/ k = n + 1
    BY <1>1
  <2>2. ASSUME NEW k \in 1..(n + 1) PROVE c2[k] \in 1..(m + 1) /\ d2[k] \in 1..(m + 1)
    <3> HIDE DEF n
    <3>1. CASE k = n + 1
      BY <1>1, <1>6, <3>1
    <3>2. CASE k \in 1..n
      <4>1. c[k] \in 1..m /\ d[k] <= c[k] /\ d[k] \in 1..Len(stack) /\ c2[k] = c[k] /\ d2[k] = d[k]
        BY <1>1, <1>2, <1>6, <3>2
      <4> QED
        BY <1>1, <1>3, <4>1
    <3> QED
      BY <2>1, <3>1, <3>2
  <2>3. /\ c2 = [k \in 1..(n + 1) |-> IF k <= n THEN c[k] ELSE m + 1]
        /\ d2 = [k \in 1..(n + 1) |-> IF k <= n THEN d[k] ELSE m + 1]
    BY DEF Extended
  <2> QED
    BY <2>2, <2>3
<1> HIDE DEF n
<1>8. ASSUME NEW k \in 1..(n + 1)
      PROVE  /\ stack'[c2[k]].el = Kinds(Op(k)') /\ (Op(k)' = "func" <=> k = 1)
             /\ IF Op(k)' = "else" THEN d2[k] < c2[k] /\ stack'[d2[k]].el = "IF"
                                   ELSE d2[k] = c2[k]
             /\ Op(k)' = "loop" => stack'[c2[k]].loop
             /\ Op(k)' = "block" => ~stack'[c2[k]].loop
             /\ k > 1 => stack'[c2[k]].arity = frames'[k].arity
             /\ Op(k)' = "else" => stack'[d2[k]].arity = frames'[k].arity
  <2>1. CASE k = n + 1
    <3>1. Op(k)' = frames'[n + 1].op
      BY <2>1 DEF Op
    <3> QED
      BY <1>1, <1>4, <1>6, <2>1, <3>1
  <2>2. CASE k \in 1..n
    <3>1. stack'[d2[k]] = stack[d[k]]
      BY <1>1, <1>2, <1>3, <1>6, <2>2
    <3> QED
      BY <1>1, <1>3, <1>5, <1>6, <2>2, <3>1
  <2> QED
    BY <1>1, <2>1, <2>2
<1>9. ASSUME NEW j \in 1..(n + 1), NEW k \in 1..(n + 1), j < k PROVE c2[j] < d2[k]
  <2>1. CASE k = n + 1
    BY <1>1, <1>6, <1>9, <2>1
  <2>2. CASE k \in 1..n
    BY <1>1, <1>5, <1>6, <1>9, <2>2
  <2> QED
    BY <1>1, <2>1, <2>2
<1>10. Positions(c2, d2)'
  BY <1>1, <1>3, <1>7, <1>8, <1>9 DEF Positions, Ctl
<1>11. Others(c2, d2)'
  <2>1. SUFFICES ASSUME NEW i \in 1..(m + 1), stack'[i] # Value,
                        ~(i < c2[1] /\ stack'[i] = FuncStart)
                 PROVE  \E k \in 1..(n + 1) : i \in {c2[k], d2[k]}
    BY <1>1, <1>3 DEF Others
  <2>2. CASE i = m + 1
    BY <1>1, <2>2
  <2>3. CASE i \in 1..m
    <3>1. stack[i] # Value /\ ~(i < c[1] /\ stack[i] = FuncStart) /\ i \in 1..Len(stack)
      BY <1>1, <1>3, <2>1, <2>3
    <3>2. PICK k \in 1..n : i \in {c[k], d[k]}
      BY <3>1 DEF Base, Others, n
    <3> QED
      BY <1>1, <1>6, <3>2
  <2> QED
    BY <1>1, <2>2, <2>3
<1> QED
  BY <1>10, <1>11

LEMMA FramesOpened ==
  ASSUME Typed, NEW g \in WasmFrames, g.op = Current.op, g.arity = Current.arity,
         NEW f \in WasmFrames, frames' = Append(WithCurrent(g), f)
  PROVE  /\ frames' \in Seq(WasmFrames) /\ Len(frames') = N + 1 /\ frames'[N + 1] = f
         /\ \A k \in 1..N : /\ frames'[k].op = frames[k].op
                            /\ frames'[k].arity = frames[k].arity
                            /\ frames'[k] = IF k = N THEN g ELSE frames[k]
<1>1. /\ frames \in Seq(WasmFrames) /\ N = Len(frames) /\ N \in 1..N /\ Current = frames[N]
      /\ WithCurrent(g) = [frames EXCEPT ![N] = g]
  BY CurrentFacts, Facts DEF WithCurrent, N
<1> DEFINE q == WithCurrent(g)
<1>2. /\ q \in Seq(WasmFrames) /\ Len(q) = N /\ N \in Nat
      /\ \A k \in 1..N : q[k] = IF k = N THEN g ELSE frames[k]
  BY <1>1
<1> HIDE DEF q
<1>3. /\ frames' \in Seq(WasmFrames) /\ Len(frames') = N + 1 /\ frames'[N + 1] = f
      /\ \A k \in 1..N : frames'[k] = q[k]
  <2>1. frames' = Append(q, f)
    BY DEF q
  <2> QED
    BY <1>2, <2>1, Appended
<1>4. \A k \in 1..N : /\ q[k].op = frames[k].op /\ q[k].arity = frames[k].arity
  BY <1>1, <1>2
<1> QED
  BY <1>2, <1>3, <1>4

LEMMA CurrentItself ==
  ASSUME Typed
  PROVE  WithCurrent(Current) = frames
<1>1. frames \in Seq(WasmFrames) /\ Current = frames[Len(frames)] /\ Len(frames) \in 1..Len(frames)
  BY Facts DEF Typed, Current
<1> QED
  BY <1>1 DEF WithCurrent

LEMMA BlockOpens ==
  ASSUME NEW c, NEW d, Base(c, d), NEW arity \in 0..1, NEW isLoop \in BOOLEAN,
         Block(arity, isLoop)
  PROVE  /\ Typed' /\ Opens(c, Len(stack))
         /\ labels' = Append(labels, LabelFor(isLoop)) /\ LabelFor(isLoop) \in 0..Here
         /\ stack'[Len(stack) + 1] = BlockElement(arity, Len(labels) + 1, isLoop)
         /\ frames'[N + 1] = Frame(IF isLoop THEN "loop" ELSE "block", arity, Height, NewId)
         /\ \A k \in 1..N : frames'[k] = frames[k]
<1>1. Typed
  BY DEF Base
<1> DEFINE f == Frame(IF isLoop THEN "loop" ELSE "block", arity, Height, NewId)
           e == BlockElement(arity, Len(labels) + 1, isLoop)
<1>2. f \in WasmFrames /\ f.op = (IF isLoop THEN "loop" ELSE "block") /\ f.arity = arity
  <2>1. Height \in Nat /\ NewId \in Nat \X Int
    <3>1. ops \in Int /\ fn \in Nat
      <4>1. ops \in 0..MaxOps /\ fn \in Nat
        BY <1>1, Facts
      <4>2. MaxOps \in Nat
        BY ProgramAssumption
      <4> QED
        BY <4>1, <4>2
    <3>2. Current.base \in Nat /\ Current.h \in Nat
      BY <1>1, CurrentFacts
    <3> QED
      BY <3>1, <3>2 DEF Height, NewId
  <2> QED
    BY <2>1 DEF Frame, WasmFrames
<1>3. LabelFor(isLoop) \in 0..Here
  BY <1>1, Facts DEF LabelFor
<1>4. /\ labels' = Append(labels, LabelFor(isLoop)) /\ labels' \in Seq(0..Here)
      /\ Len(labels') = Len(labels) + 1
  BY <1>1, <1>3, Facts DEF Block
<1>5. e \in Elements /\ e.el = "BLOCK" /\ e.arity = arity /\ e.loop = isLoop
  <2>1. Len(labels) + 1 \in Nat
    BY <1>1, Facts
  <2> QED
    BY <2>1, NewElements DEF BlockElement
<1>6. frames' = Append(frames, f)
  BY DEF Block
<1>7. stack' = Append(stack, e)
  BY <1>4 DEF Block
<1>8. /\ code' = code /\ brs' = brs /\ rop' = rop /\ live' = live /\ wanted' = wanted
      /\ fn' = fn /\ More /\ ops' = ops + 1
  BY DEF Block
<1> HIDE DEF e, f
<1>9. /\ frames' \in Seq(WasmFrames) /\ Len(frames') = N + 1 /\ frames'[N + 1] = f
      /\ \A k \in 1..N : frames'[k] = frames[k]
  <2>1. frames' = Append(WithCurrent(Current), f) /\ Current \in WasmFrames
    BY <1>1, <1>6, CurrentFacts, CurrentItself
  <2>2. Current = frames[N]
    BY <1>1, CurrentFacts
  <2>3. /\ frames' \in Seq(WasmFrames) /\ Len(frames') = N + 1 /\ frames'[N + 1] = f
        /\ \A k \in 1..N : frames'[k] = IF k = N THEN Current ELSE frames[k]
    BY <1>1, <1>2, <2>1, FramesOpened
  <2> QED
    BY <2>2, <2>3
<1>10. /\ stack' \in Seq(Elements) /\ Len(stack') = Len(stack) + 1
       /\ stack'[Len(stack) + 1] = e /\ \A i \in 1..Len(stack) : stack'[i] = stack[i]
  BY <1>1, <1>5, <1>7, Facts, Appended
<1>11. Typed'
  <2>1. ops' \in 0..MaxOps
    BY <1>1, <1>8, Counting
  <2>2. Here' = Here
    BY <1>8 DEF Here
  <2>3. Len(frames') > 0
    BY <1>1, <1>9, CurrentFacts
  <2>4. /\ code' \in Seq(Instructions) /\ brs' \in Seq(Branches) /\ rop' \in Int
        /\ live' \in BOOLEAN /\ wanted' \subseteq Wanted /\ fn' \in 1..Len(FnArity)
        /\ \A i \in 1..Len(code') : code'[i].to \in 1..Here'
    BY <1>1, <1>8, <2>2, Facts DEF Typed
  <2> QED
    BY <1>4, <1>9, <1>10, <2>1, <2>2, <2>3, <2>4 DEF Typed
<1>12. Opens(c, Len(stack))
  <2>1. Len(stack) \in c[N]..Len(stack)
    BY <1>1, LastControlIs, Facts, CurrentFacts
  <2> QED
    BY <1>2, <1>5, <1>9, <1>10, <2>1, KindsAre DEF Opens
<1> QED
  BY <1>3, <1>4, <1>9, <1>10, <1>11, <1>12 DEF e, f

\* BLOCK and LOOP keep Base: their label is a new one.
LEMMA BlockBase ==
  ASSUME NEW c, NEW d, Base(c, d), NEW arity \in 0..1, NEW isLoop \in BOOLEAN,
         Block(arity, isLoop), NEW n, n = N,
         NEW c2, c2 = Extended(c, Len(stack) + 1), NEW d2, d2 = Extended(d, Len(stack) + 1)
  PROVE  Base(c2, d2)'
<1>1. /\ Typed' /\ Opens(c, Len(stack))
      /\ labels' = Append(labels, LabelFor(isLoop)) /\ LabelFor(isLoop) \in 0..Here
      /\ stack'[Len(stack) + 1] = BlockElement(arity, Len(labels) + 1, isLoop)
      /\ frames'[n + 1] = Frame(IF isLoop THEN "loop" ELSE "block", arity, Height, NewId)
  BY BlockOpens
<1>2. Positions(c2, d2)' /\ Others(c2, d2)'
  BY <1>1, OpenedPositions
<1>3. /\ n \in Nat /\ N' = n + 1 /\ c2[n + 1] = Len(stack) + 1
      /\ \A k \in 1..n : Op(k)' = Op(k) /\ Ctl(c2, k)' = Ctl(c, k)
  BY <1>1, ExtendedFacts
<1>4. /\ Op(n + 1)' = (IF isLoop THEN "loop" ELSE "block")
      /\ Ctl(c2, n + 1)'.label = Len(labels) + 1
  BY <1>1, <1>3 DEF Op, Ctl, Frame, BlockElement
<1>5. code' = code /\ brs' = brs
  BY DEF Block
<1>6. /\ labels \in Seq(0..Here) /\ Len(labels) \in Nat /\ Here \in Nat
      /\ LabelFor(isLoop) \in 0..Here
      /\ Len(labels') = Len(labels) + 1 /\ labels'[Len(labels) + 1] = LabelFor(isLoop)
      /\ \A l \in 1..Len(labels) : labels'[l] = labels[l]
  <2>1. labels \in Seq(0..Here) /\ Len(labels) \in Nat /\ Here \in Nat
    BY Facts DEF Base
  <2> QED
    BY <1>1, <2>1, Appended
<1>7. Placeholders(c2)'
  <2>1. ~Conditional(n + 1)'
    BY <1>4 DEF Conditional
  <2>2. \A k \in 1..n : Conditional(k)' <=> Conditional(k)
    BY <1>3 DEF Conditional
  <2>3. \A at, kinds : Placeholder(at, kinds)' <=> Placeholder(at, kinds)
    BY <1>5 DEF Placeholder
  <2>4. \A k \in 1..(n + 1) : Conditional(k)' => k \in 1..n
    BY <1>3, <2>1
  <2>5. /\ \A k \in 1..n : Conditional(k) =>
             /\ Placeholder(Ctl(c, k).patch, {"b", "b.cond"})
             /\ \A j \in 1..n : Conditional(j) /\ j # k => Ctl(c, j).patch # Ctl(c, k).patch
             /\ \A b \in 1..Len(brs) : brs[b].at # Ctl(c, k).patch
        /\ \A b \in 1..Len(brs) :
             /\ Placeholder(brs[b].at, {brs[b].kind}) /\ brs[b].label \in 1..Len(labels)
             /\ \A a \in 1..Len(brs) : a # b => brs[a].at # brs[b].at
    BY DEF Base, Placeholders
  <2>6. ASSUME NEW k \in 1..(n + 1), Conditional(k)'
        PROVE  /\ Placeholder(Ctl(c2, k).patch, {"b", "b.cond"})'
               /\ \A j \in 1..(n + 1) : Conditional(j)' /\ j # k =>
                    Ctl(c2, j)'.patch # Ctl(c2, k)'.patch
               /\ \A b \in 1..Len(brs') : brs'[b].at # Ctl(c2, k)'.patch
    <3>1. k \in 1..n /\ Conditional(k) /\ Ctl(c2, k)'.patch = Ctl(c, k).patch
      BY <1>3, <2>2, <2>4, <2>6
    <3>2. Placeholder(Ctl(c2, k).patch, {"b", "b.cond"})'
      BY <2>3, <2>5, <3>1
    <3>3. \A j \in 1..(n + 1) : Conditional(j)' /\ j # k => Ctl(c2, j)'.patch # Ctl(c2, k)'.patch
      BY <1>3, <2>2, <2>4, <2>5, <3>1
    <3> QED
      BY <1>5, <2>5, <3>1, <3>2, <3>3
  <2>7. ASSUME NEW b \in 1..Len(brs')
        PROVE  /\ Placeholder(brs[b].at, {brs[b].kind})' /\ brs'[b].label \in 1..Len(labels')
               /\ \A a \in 1..Len(brs') : a # b => brs'[a].at # brs'[b].at
    <3>1. /\ Placeholder(brs[b].at, {brs[b].kind}) /\ brs[b].label \in 1..Len(labels)
          /\ \A a \in 1..Len(brs) : a # b => brs[a].at # brs[b].at
      BY <1>5, <2>5
    <3>2. Placeholder(brs[b].at, {brs[b].kind})'
      BY <1>5, <3>1 DEF Placeholder
    <3> QED
      <4>1. brs'[b] = brs[b] /\ \A a \in 1..Len(brs') : a \in 1..Len(brs) /\ brs'[a] = brs[a]
        BY <1>5
      <4>2. brs[b].label \in 1..Len(labels')
        BY <1>6, <3>1
      <4> QED
        BY <3>1, <3>2, <4>1, <4>2
  <2> QED
    BY <1>3, <2>6, <2>7 DEF Placeholders
<1>8. LabelsFilled(c2)'
  <2>1. /\ \A k \in 1..n : IsBlock(k) =>
             /\ Label(c, k) \in 1..Len(labels)
             /\ \A j \in 1..n : IsBlock(j) /\ j # k => Label(c, j) # Label(c, k)
             /\ Op(k) = "block" => labels[Label(c, k)] = 0
        /\ \A l \in 1..Len(labels) :
             labels[l] = 0 => \E k \in 1..n : Op(k) = "block" /\ Label(c, k) = l
    BY DEF Base, LabelsFilled
  <2>2. /\ \A k \in 1..n : (IsBlock(k)' <=> IsBlock(k)) /\ Label(c2, k)' = Label(c, k)
        /\ Label(c2, n + 1)' = Len(labels) + 1
    BY <1>3, <1>4 DEF IsBlock, Label
  <2>3. \A k \in 1..(n + 1) : k \in 1..n \/ k = n + 1
    BY <1>3
  <2>4. ASSUME NEW k \in 1..(n + 1), IsBlock(k)'
        PROVE  /\ Label(c2, k)' \in 1..Len(labels')
               /\ \A j \in 1..(n + 1) : IsBlock(j)' /\ j # k => Label(c2, j)' # Label(c2, k)'
               /\ Op(k)' = "block" => labels'[Label(c2, k)'] = 0
    <3>1. CASE k \in 1..n
      <4>1. IsBlock(k) /\ Label(c2, k)' = Label(c, k) /\ Label(c, k) \in 1..Len(labels)
        BY <2>1, <2>2, <2>4, <3>1
      <4>2. \A j \in 1..(n + 1) : IsBlock(j)' /\ j # k => Label(c2, j)' # Label(c2, k)'
        BY <1>6, <2>1, <2>2, <2>3, <3>1, <4>1
      <4> QED
        <5>1. Label(c2, k)' = Label(c, k) /\ Label(c, k) \in 1..Len(labels)
          BY <4>1
        <5>2. Label(c2, k)' \in 1..Len(labels')
          BY <1>6, <5>1
        <5>3. Op(k)' = "block" => labels[Label(c, k)] = 0
          BY <1>3, <2>1, <3>1, <4>1
        <5>4. labels'[Label(c, k)] = labels[Label(c, k)]
          BY <1>6, <5>1
        <5> QED
          BY <4>2, <5>1, <5>2, <5>3, <5>4
    <3>2. CASE k = n + 1
      <4>1. Label(c2, k)' = Len(labels) + 1
        BY <2>2, <3>2
      <4>2. \A j \in 1..n : IsBlock(j)' => Label(c2, j)' # Len(labels) + 1
        BY <1>6, <2>1, <2>2
      <4>3. Op(k)' = "block" => labels'[Len(labels) + 1] = 0
        BY <1>4, <1>6, <3>2 DEF LabelFor
      <4> QED
        BY <1>6, <2>3, <3>2, <4>1, <4>2, <4>3
    <3> QED
      BY <2>3, <3>1, <3>2
  <2>5. ASSUME NEW l \in 1..Len(labels'), labels'[l] = 0
        PROVE  \E k \in 1..(n + 1) : Op(k)' = "block" /\ Label(c2, k)' = l
    <3>1. CASE l \in 1..Len(labels)
      <4>1. PICK k \in 1..n : Op(k) = "block" /\ Label(c, k) = l
        BY <1>6, <2>1, <2>5, <3>1
      <4> QED
        BY <1>3, <2>2, <4>1
    <3>2. CASE l = Len(labels) + 1
      <4>1. ~isLoop
        BY <1>6, <2>5, <3>2, Facts DEF LabelFor, Base
      <4>2. Op(n + 1)' = "block" /\ Label(c2, n + 1)' = l /\ n + 1 \in 1..(n + 1)
        BY <1>3, <1>4, <2>2, <3>2, <4>1
      <4> QED
        BY <4>2
    <3> QED
      BY <1>6, <3>1, <3>2
  <2> QED
    BY <1>3, <2>4, <2>5 DEF LabelsFilled
<1> QED
  BY <1>1, <1>2, <1>7, <1>8 DEF Base

\* The number of a new frame, and its base, have their types.
LEMMA IdIsNew ==
  ASSUME Typed
  PROVE  NewId \in Nat \X Int /\ ops \in Int /\ Height \in Nat
<1>1. ops \in 0..MaxOps /\ fn \in Nat
  BY Facts
<1>2. MaxOps \in Nat
  BY ProgramAssumption
<1>3. Current.base \in Nat /\ Current.h \in Nat
  BY CurrentFacts
<1> QED
  BY <1>1, <1>2, <1>3 DEF NewId, Height

LEMMA IfOpens ==
  ASSUME NEW c, NEW d, Base(c, d), NEW arity \in 0..1, If(arity), status' # "rejected"
  PROVE  /\ Typed' /\ Opens(c, Len(stack) - 1) /\ CodeGrows /\ labels' = labels /\ brs' = brs
         /\ stack'[Len(stack)] = IfElement(arity, Len(code) + 2)
         /\ frames'[N + 1] = Frame("if", arity, Current.base + Without(1), NewId)
         /\ \A k \in 1..N :
              frames'[k] = IF k = N THEN [Current EXCEPT !.h = Without(1)] ELSE frames[k]
         /\ Len(code') = Len(code) + 2
         /\ code'[Len(code) + 2].kind = "b.cond" /\ code'[Len(code) + 2].to = Len(code) + 2
<1>1. Typed /\ Top = Value /\ Len(code) \in Nat /\ Here + 1 = Len(code) + 2
      /\ stack \in Seq(Elements) /\ Len(stack) \in Nat
  BY Facts DEF Base, If, Reject
<1> DEFINE f == Frame("if", arity, Current.base + Without(1), NewId)
           e == IfElement(arity, Len(code) + 2)
           g == [Current EXCEPT !.h = Without(1)]
<1>2. f \in WasmFrames /\ f.op = "if" /\ f.arity = arity
  <2>1. Current.base + Without(1) \in Nat /\ NewId \in Nat \X Int
    BY <1>1, CurrentFacts, IdIsNew
  <2> QED
    BY <2>1 DEF Frame, WasmFrames
<1>3. g \in WasmFrames /\ g.op = Current.op /\ g.arity = Current.arity
  BY <1>1, CurrentFacts DEF WasmFrames
<1>4. e \in Elements /\ e.el = "IF" /\ e.arity = arity
  BY <1>1, NewElements DEF IfElement
<1>5. /\ frames' = Append(WithCurrent(g), f) /\ stack' = Append(Below(1), e)
      /\ code' = EmitConditional
      /\ labels' = labels /\ brs' = brs /\ live' = live /\ fn' = fn
      /\ rop' = rop - 1 /\ More /\ ops' = ops + 1
      /\ wanted' = Wanting(Here + 1, <<NewId, "else">>, rop')
  BY <1>1 DEF If, EmitConditional
<1> HIDE DEF e, f, g
<1>6. /\ frames' \in Seq(WasmFrames) /\ Len(frames') = N + 1 /\ frames'[N + 1] = f
      /\ \A k \in 1..N : /\ frames'[k].op = frames[k].op
                         /\ frames'[k].arity = frames[k].arity
                         /\ frames'[k] = IF k = N THEN g ELSE frames[k]
  BY <1>1, <1>2, <1>3, <1>5, FramesOpened
<1>7. /\ stack' \in Seq(Elements) /\ Len(stack') = Len(stack) /\ Len(stack) > c[N]
      /\ stack'[Len(stack)] = e /\ \A i \in 1..(Len(stack) - 1) : stack'[i] = stack[i]
  <2> DEFINE q == Below(1)
  <2>1. /\ q \in Seq(Elements) /\ Len(q) = Len(stack) - 1 /\ Len(stack) > c[N]
        /\ \A i \in 1..(Len(stack) - 1) : q[i] = stack[i]
    BY <1>1, Popping
  <2> HIDE DEF q
  <2>2. stack' = Append(q, e)
    BY <1>5 DEF q
  <2>3. /\ stack' \in Seq(Elements) /\ Len(stack') = Len(q) + 1 /\ stack'[Len(q) + 1] = e
        /\ \A i \in 1..Len(q) : stack'[i] = q[i]
    BY <1>4, <2>1, <2>2, Appended
  <2> QED
    <3>1. Len(stack) \in Nat /\ Len(q) + 1 = Len(stack)
      BY <1>1, <2>1
    <3> QED
      BY <2>1, <2>3, <3>1
<1>8. /\ code' \in Seq(Instructions) /\ CodeGrows /\ Len(code') = Len(code) + 2
      /\ \A i \in 1..Len(code') : i > Len(code) => code'[i].to \in 1..(Len(code') + 1)
      /\ code'[Len(code) + 2].kind = "b.cond" /\ code'[Len(code) + 2].to = Len(code) + 2
  <2>1. /\ EmitConditional \in Seq(Instructions) /\ Len(EmitConditional) = Len(code) + 2
        /\ \A i \in 1..Len(code) : EmitConditional[i] = code[i]
        /\ EmitConditional[Len(code) + 1].to = Len(code) + 1
        /\ EmitConditional[Len(code) + 2].kind = "b.cond"
        /\ EmitConditional[Len(code) + 2].to = Len(code) + 2
    BY <1>1, EmittedTwo
  <2>2. code' = EmitConditional /\ Len(code) \in Nat
    BY <1>1, <1>5
  <2> QED
    BY <2>1, <2>2 DEF CodeGrows
<1>9. Typed'
  <2>1. ops' \in 0..MaxOps
    BY <1>1, <1>5, Counting
  <2>2. rop' \in Int /\ Here + 1 \in Nat /\ <<NewId, "else">> \in Places
    <3>1. rop \in Int /\ NewId \in Nat \X Int
      BY <1>1, Facts, IdIsNew
    <3>2. rop' \in Int /\ Here + 1 \in Nat
      BY <1>1, <1>5, <3>1
    <3> QED
      BY <3>1, <3>2 DEF Places
  <2>3. wanted' \subseteq Wanted
    BY <1>1, <1>5, <2>2, WantingTyped
  <2>4. Len(frames') > 0
    BY <1>1, <1>6, CurrentFacts
  <2> QED
    BY <1>1, <1>5, <1>6, <1>7, <1>8, <2>1, <2>2, <2>3, <2>4, Facts, TypedStep
<1>10. Opens(c, Len(stack) - 1)
  <2>1. /\ Len(stack) - 1 \in c[N]..Len(stack) /\ Len(stack') = (Len(stack) - 1) + 1
        /\ (Len(stack) - 1) + 1 = Len(stack)
    BY <1>1, <1>7, LastControlIs, CurrentFacts
  <2> QED
    BY <1>2, <1>4, <1>6, <1>7, <2>1, KindsAre DEF Opens
<1> QED
  BY <1>5, <1>6, <1>7, <1>8, <1>9, <1>10 DEF e, f, g

\* IF keeps Base: its placeholder is a new one.
LEMMA IfBase ==
  ASSUME NEW c, NEW d, Base(c, d), NEW arity \in 0..1, If(arity), status' # "rejected",
         NEW n, n = N,
         NEW c2, c2 = Extended(c, Len(stack)), NEW d2, d2 = Extended(d, Len(stack))
  PROVE  Base(c2, d2)'
<1>1. /\ Typed' /\ Opens(c, Len(stack) - 1) /\ CodeGrows /\ labels' = labels /\ brs' = brs
      /\ stack'[Len(stack)] = IfElement(arity, Len(code) + 2)
      /\ frames'[n + 1] = Frame("if", arity, Current.base + Without(1), NewId)
      /\ Len(code') = Len(code) + 2
      /\ code'[Len(code) + 2].kind = "b.cond" /\ code'[Len(code) + 2].to = Len(code) + 2
  BY IfOpens
<1>2. /\ Len(code) \in Nat /\ Len(stack) \in Nat /\ (Len(stack) - 1) + 1 = Len(stack)
  BY Facts DEF Base
<1>3. Positions(c2, d2)' /\ Others(c2, d2)'
  <2> DEFINE m == Len(stack) - 1
  <2>1. Opens(c, m) /\ m + 1 = Len(stack)
    BY <1>1, <1>2
  <2> HIDE DEF m
  <2> QED
    BY <1>1, <2>1, OpenedPositions
<1>4. /\ n \in Nat /\ N' = n + 1 /\ c2[n + 1] = Len(stack)
      /\ \A k \in 1..n : Op(k)' = Op(k) /\ Ctl(c2, k)' = Ctl(c, k)
  <2> DEFINE m == Len(stack) - 1
  <2>1. Opens(c, m) /\ m + 1 = Len(stack)
    BY <1>1, <1>2
  <2> HIDE DEF m
  <2> QED
    BY <2>1, ExtendedFacts
<1>5. Op(n + 1)' = "if" /\ Ctl(c2, n + 1)'.patch = Len(code) + 2
  BY <1>1, <1>4 DEF Op, Ctl, Frame, IfElement
<1>6. \A k \in 1..(n + 1) : k \in 1..n \/ k = n + 1
  BY <1>4
<1>7. \A at, kinds : Placeholder(at, kinds) => Placeholder(at, kinds)' /\ at <= Len(code)
  BY <1>1, <1>2 DEF Placeholder, CodeGrows
<1>8. /\ \A k \in 1..n : Conditional(k)' <=> Conditional(k)
      /\ Conditional(n + 1)'
      /\ \A k \in 1..n : (IsBlock(k)' <=> IsBlock(k)) /\ Label(c2, k)' = Label(c, k)
      /\ ~IsBlock(n + 1)'
  BY <1>4, <1>5 DEF Conditional, IsBlock, Label
<1>9. Placeholders(c2)'
  <2>1. /\ \A k \in 1..n : Conditional(k) =>
             /\ Placeholder(Ctl(c, k).patch, {"b", "b.cond"})
             /\ \A j \in 1..n : Conditional(j) /\ j # k => Ctl(c, j).patch # Ctl(c, k).patch
             /\ \A b \in 1..Len(brs) : brs[b].at # Ctl(c, k).patch
        /\ \A b \in 1..Len(brs) :
             /\ Placeholder(brs[b].at, {brs[b].kind}) /\ brs[b].label \in 1..Len(labels)
             /\ \A a \in 1..Len(brs) : a # b => brs[a].at # brs[b].at
    BY DEF Base, Placeholders
  <2>2. /\ \A k \in 1..n : Conditional(k) => Ctl(c2, k)'.patch # Len(code) + 2
        /\ \A b \in 1..Len(brs) : brs[b].at # Len(code) + 2
    <3>1. \A at, kinds : Placeholder(at, kinds) => at # Len(code) + 2
      BY <1>2, <1>7
    <3> QED
      BY <1>4, <2>1, <3>1
  <2>3. ASSUME NEW k \in 1..(n + 1), Conditional(k)'
        PROVE  /\ Placeholder(Ctl(c2, k).patch, {"b", "b.cond"})'
               /\ \A j \in 1..(n + 1) : Conditional(j)' /\ j # k =>
                    Ctl(c2, j)'.patch # Ctl(c2, k)'.patch
               /\ \A b \in 1..Len(brs') : brs'[b].at # Ctl(c2, k)'.patch
    <3>1. CASE k \in 1..n
      <4>1. Conditional(k) /\ Ctl(c2, k)'.patch = Ctl(c, k).patch
        BY <1>4, <1>8, <2>3, <3>1
      <4>2. Placeholder(Ctl(c2, k).patch, {"b", "b.cond"})'
        BY <1>7, <2>1, <3>1, <4>1
      <4>3. \A j \in 1..(n + 1) : Conditional(j)' /\ j # k => Ctl(c2, j)'.patch # Ctl(c2, k)'.patch
        BY <1>4, <1>5, <1>6, <1>8, <2>1, <2>2, <3>1, <4>1
      <4> QED
        BY <1>1, <2>1, <3>1, <4>1, <4>2, <4>3
    <3>2. CASE k = n + 1
      <4>1. Placeholder(Ctl(c2, k).patch, {"b", "b.cond"})'
        BY <1>1, <1>2, <1>5, <3>2 DEF Placeholder
      <4>2. \A j \in 1..(n + 1) : Conditional(j)' /\ j # k => Ctl(c2, j)'.patch # Ctl(c2, k)'.patch
        BY <1>5, <1>6, <1>8, <2>2, <3>2
      <4> QED
        BY <1>1, <1>5, <2>2, <3>2, <4>1, <4>2
    <3> QED
      BY <1>6, <3>1, <3>2
  <2>4. ASSUME NEW b \in 1..Len(brs')
        PROVE  /\ Placeholder(brs[b].at, {brs[b].kind})' /\ brs'[b].label \in 1..Len(labels')
               /\ \A a \in 1..Len(brs') : a # b => brs'[a].at # brs'[b].at
    <3>1. /\ Placeholder(brs[b].at, {brs[b].kind}) /\ brs[b].label \in 1..Len(labels)
          /\ \A a \in 1..Len(brs) : a # b => brs[a].at # brs[b].at
      BY <1>1, <2>1
    <3>2. Placeholder(brs[b].at, {brs[b].kind})'
      BY <1>1, <1>2, <3>1 DEF Placeholder, CodeGrows
    <3> QED
      BY <1>1, <3>1, <3>2
  <2> QED
    BY <1>4, <2>3, <2>4 DEF Placeholders
<1>10. LabelsFilled(c2)'
  <2>1. /\ \A k \in 1..n : IsBlock(k) =>
             /\ Label(c, k) \in 1..Len(labels)
             /\ \A j \in 1..n : IsBlock(j) /\ j # k => Label(c, j) # Label(c, k)
             /\ Op(k) = "block" => labels[Label(c, k)] = 0
        /\ \A l \in 1..Len(labels) :
             labels[l] = 0 => \E k \in 1..n : Op(k) = "block" /\ Label(c, k) = l
    BY DEF Base, LabelsFilled
  <2>2. ASSUME NEW k \in 1..(n + 1), IsBlock(k)'
        PROVE  /\ Label(c2, k)' \in 1..Len(labels')
               /\ \A j \in 1..(n + 1) : IsBlock(j)' /\ j # k => Label(c2, j)' # Label(c2, k)'
               /\ Op(k)' = "block" => labels'[Label(c2, k)'] = 0
    <3>1. k \in 1..n /\ IsBlock(k) /\ \A j \in 1..(n + 1) : IsBlock(j)' => j \in 1..n
      BY <1>6, <1>8, <2>2
    <3> QED
      BY <1>1, <1>4, <1>8, <2>1, <3>1
  <2>3. ASSUME NEW l \in 1..Len(labels'), labels'[l] = 0
        PROVE  \E k \in 1..(n + 1) : Op(k)' = "block" /\ Label(c2, k)' = l
    <3>1. PICK k \in 1..n : Op(k) = "block" /\ Label(c, k) = l
      BY <1>1, <2>1, <2>3
    <3> QED
      BY <1>4, <1>8, <3>1
  <2> QED
    BY <1>4, <2>2, <2>3 DEF LabelsFilled
<1> QED
  BY <1>1, <1>3, <1>9, <1>10 DEF Base

-----------------------------------------------------------------------------
(* ELSE: the innermost control element moves up, and its IF is linked. *)

\* Code that grows, but for the instruction at p.
GrowsBut(p) == Len(code') >= Len(code) /\ \A i \in 1..Len(code) : i # p => code'[i] = code[i]

\* A placeholder is linked to its target, and no other instruction changes.
LEMMA Linking ==
  ASSUME NEW q \in Seq(Instructions), NEW p \in 1..Len(q), q[p].to = p, NEW target \in Nat
  PROVE  /\ Patch(q, p, target) \in Seq(Instructions) /\ Len(Patch(q, p, target)) = Len(q)
         /\ Patch(q, p, target)[p].to = target /\ Patch(q, p, target)[p].kind = q[p].kind
         /\ \A i \in 1..Len(q) : i # p => Patch(q, p, target)[i] = q[i]
<1> DEFINE x == Link(q, p, target)
<1>1. q[p] \in Instructions
  OBVIOUS
<1>2. x = [q[p] EXCEPT !.to = target]
  BY DEF Link, Linked
<1>3. x \in Instructions /\ x.to = target /\ x.kind = q[p].kind
  BY <1>1, <1>2 DEF Instructions
<1> HIDE DEF x
<1>4. Patch(q, p, target) = [q EXCEPT ![p] = x]
  BY DEF Patch, x
<1> QED
  BY <1>3, <1>4

\* An open IF or ELSE owns a placeholder.
LEMMA OpenPatch ==
  ASSUME NEW c, NEW d, Base(c, d), NEW k \in 1..N, Conditional(k)
  PROVE  /\ Ctl(c, k).patch \in 1..Len(code) /\ code[Ctl(c, k).patch].to = Ctl(c, k).patch
         /\ code[Ctl(c, k).patch].kind \in {"b", "b.cond"}
BY DEF Base, Placeholders, Placeholder

LEMMA BranchingHeight ==
  ASSUME Typed, NEW place, Branching(place) # {}
  PROVE  /\ (CHOOSE w \in Branching(place) : TRUE) \in Branching(place)
         /\ (CHOOSE w \in Branching(place) : TRUE).h \in Int
<1>1. (CHOOSE w \in Branching(place) : TRUE) \in Branching(place)
  OBVIOUS
<1>2. Branching(place) \subseteq Wanted
  BY Facts DEF Branching
<1> QED
  BY <1>1, <1>2 DEF Wanted

IsLinkedBehind(p) == code'[p].to = Len(code) + 2 /\ code'[p].kind = code[p].kind

\* What ELSE does: the IF's placeholder p is linked, the ELSE's own comes after it.
ElseFacts(c, n, p) ==
  /\ Typed' /\ Op(n) = "if" /\ p \in 1..Len(code) /\ code[p].to = p
  /\ n \in Nat /\ n > 0 /\ N' = n
  /\ frames'[n].op = "else" /\ frames'[n].arity = frames[n].arity
  /\ frames'[n].h = 0 /\ frames'[n].dead = FALSE /\ frames'[n].deadIf = frames[n].dead
  /\ frames'[n].base = frames[n].base
  /\ frames'[n].id = frames[n].id
  /\ \A k \in 1..n : k # n => frames'[k] = frames[k]
  /\ Len(stack') = Len(stack) + 1 /\ \A i \in 1..Len(stack) : stack'[i] = stack[i]
  /\ stack'[Len(stack) + 1].el = "ELSE"
  /\ stack'[Len(stack) + 1].arity = Ctl(c, n).arity
  /\ stack'[Len(stack) + 1].patch = Len(code) + 1
  /\ GrowsBut(p) /\ Len(code') = Len(code) + 1
  /\ IsLinkedBehind(p)
  /\ code'[Len(code) + 1].to = Len(code) + 1 /\ code'[Len(code) + 1].kind = "b"
  /\ labels' = labels /\ brs' = brs

\* What ELSE does to the compiler.
LEMMA ElseMoves ==
  ASSUME NEW c, NEW d, Base(c, d), Else, status' # "rejected", NEW n, n = N,
         NEW p, p = Ctl(c, n).patch
  PROVE  ElseFacts(c, n, p)
<1>1. /\ Typed /\ Len(code) \in Nat /\ Here = Len(code) + 1 /\ Len(stack) \in Nat
      /\ stack \in Seq(Elements)
  BY Facts DEF Base
<1>2. /\ n \in Nat /\ n > 0 /\ n \in 1..n /\ Current = frames[n] /\ Current \in WasmFrames
      /\ LastControl = c[n] /\ c[n] \in 1..Len(stack)
  BY <1>1, CurrentFacts, LastControlIs
<1> DEFINE e == stack[LastControl]
<1>3. e = Ctl(c, n) /\ e \in Elements /\ e.patch = p
  BY <1>1, <1>2 DEF Ctl
<1>4. e.el = "IF" /\ Current.op = "if" /\ (More \/ Ending)
  BY DEF Else, Reject
<1> DEFINE g == [Current EXCEPT !.op = "else", !.h = 0,
                                !.dead = FALSE, !.deadIf = Current.dead]
<1>5. /\ g \in WasmFrames /\ g.op = "else" /\ g.arity = Current.arity /\ g.h = 0
      /\ g.dead = FALSE /\ g.deadIf = Current.dead /\ g.base = Current.base
      /\ g.id = Current.id
  BY <1>2 DEF WasmFrames
<1> DEFINE x == ElseElement(e, Here)
<1>6. x \in Elements /\ x.el = "ELSE" /\ x.arity = Ctl(c, n).arity /\ x.patch = Len(code) + 1
  <2>1. x \in Elements
    <3>1. Here \in Nat
      BY <1>1
    <3> QED
      BY <1>3, <1>4, <3>1, NewElements
  <2> QED
    BY <1>1, <1>3, <2>1 DEF ElseElement
<1>7. /\ frames' = WithCurrent(g) /\ stack' = Append(stack, x)
      /\ code' = Patch(Emit("b"), e.patch, Here + 1) /\ Counted
      /\ wanted' = Wanting(Here, <<Current.id, "end">>, rop)
      /\ live' = (Branching(<<Current.id, "else">>) # {})
      /\ rop' = IF live' THEN (CHOOSE w \in Branching(<<Current.id, "else">>) : TRUE).h
                         ELSE rop
      /\ fn' = fn /\ labels' = labels /\ brs' = brs
  BY <1>4 DEF Else
<1> HIDE DEF g, x, e
<1>8. Op(n) = "if" /\ Conditional(n)
  BY <1>2, <1>4 DEF Op, Conditional
<1>9. p \in 1..Len(code) /\ code[p].to = p
  BY <1>2, <1>8, OpenPatch
<1>10. /\ code' \in Seq(Instructions) /\ Len(code') = Len(code) + 1 /\ GrowsBut(p)
       /\ code'[p].to = Len(code) + 2 /\ code'[p].kind = code[p].kind
       /\ code'[Len(code) + 1].to = Len(code) + 1 /\ code'[Len(code) + 1].kind = "b"
  <2> DEFINE q == Emit("b")
  <2>1. /\ q \in Seq(Instructions) /\ Len(q) = Len(code) + 1
        /\ \A i \in 1..Len(code) : q[i] = code[i]
        /\ q[Len(code) + 1].kind = "b" /\ q[Len(code) + 1].to = Len(code) + 1
    BY <1>1, Emitted DEF InstructionKinds
  <2> HIDE DEF q
  <2>2. code' = Patch(q, p, Len(code) + 2)
    BY <1>1, <1>3, <1>7 DEF q
  <2>3. p \in 1..Len(q) /\ q[p].to = p /\ Len(code) + 2 \in Nat /\ p # Len(code) + 1
    BY <1>1, <1>9, <2>1
  <2>4. /\ code' \in Seq(Instructions) /\ Len(code') = Len(q) /\ code'[p].to = Len(code) + 2
        /\ code'[p].kind = q[p].kind /\ \A i \in 1..Len(q) : i # p => code'[i] = q[i]
    BY <2>1, <2>2, <2>3, Linking
  <2> QED
    BY <1>1, <1>9, <2>1, <2>3, <2>4 DEF GrowsBut
<1>11. /\ frames' \in Seq(WasmFrames) /\ Len(frames') = n /\ frames'[n] = g
       /\ \A k \in 1..n : k # n => frames'[k] = frames[k]
  <2>1. frames \in Seq(WasmFrames) /\ Len(frames) = n
    BY <1>1, Facts DEF N
  <2>2. frames' = [frames EXCEPT ![n] = g]
    BY <1>7, <2>1 DEF WithCurrent
  <2> QED
    BY <1>2, <1>5, <2>1, <2>2
<1>12. /\ stack' \in Seq(Elements) /\ Len(stack') = Len(stack) + 1
       /\ stack'[Len(stack) + 1] = x /\ \A i \in 1..Len(stack) : stack'[i] = stack[i]
  BY <1>1, <1>6, <1>7, Appended
<1>13. Typed'
  <2>1. ops' \in 0..MaxOps
    BY <1>1, <1>7, Counting
  <2>2. wanted' \subseteq Wanted
    <3>1. <<Current.id, "end">> \in Places /\ rop \in Int /\ Here \in Nat
      <4>1. <<Current.id, "end">> \in Places
        BY <1>2, PlacesOf
      <4> QED
        BY <1>1, <4>1, Facts
    <3> QED
      BY <1>1, <1>7, <3>1, WantingTyped
  <2>3. rop' \in Int /\ live' \in BOOLEAN
    BY <1>1, <1>7, BranchingHeight, Facts
  <2>4. \A i \in 1..Len(code') : code'[i].to \in 1..(Len(code') + 1)
    <3>1. \A i \in 1..Len(code) : code[i].to \in 1..(Len(code) + 1)
      BY <1>1 DEF Typed
    <3> QED
      BY <1>1, <1>10, <3>1 DEF GrowsBut
  <2>5. labels \in Seq(0..Here')
    <3>1. labels \in Seq(0..Here) /\ 0..Here \subseteq 0..Here'
      BY <1>1, <1>10, Facts DEF Here
    <3> QED
      BY <3>1, SeqMonotonic
  <2>6. Here' = Len(code') + 1 /\ fn' \in 1..Len(FnArity) /\ brs' \in Seq(Branches)
    BY <1>1, <1>7, Facts DEF Here
  <2> QED
    BY <1>2, <1>7, <1>10, <1>11, <1>12, <2>1, <2>2, <2>3, <2>4, <2>5, <2>6 DEF Typed
<1>14. N' = n
  BY <1>11 DEF N
<1>15. IsLinkedBehind(p)
  BY <1>10 DEF IsLinkedBehind
<1> QED
  BY <1>2, <1>5, <1>6, <1>7, <1>8, <1>9, <1>10, <1>11, <1>12, <1>13, <1>14, <1>15
     DEF ElseFacts

\* ELSE keeps Base: the IF's placeholder is linked, its own is new.
LEMMA ElseBase ==
  ASSUME NEW c, NEW d, Base(c, d), Else, status' # "rejected", NEW n, n = N,
         NEW p, p = Ctl(c, n).patch, NEW c2, c2 = [c EXCEPT ![n] = Len(stack) + 1]
  PROVE  Base(c2, d)'
<1> DEFINE e == Ctl(c, n)
           y == stack'[Len(stack) + 1]
<1>1. /\ Typed' /\ Op(n) = "if" /\ p \in 1..Len(code) /\ code[p].to = p
      /\ n \in Nat /\ n > 0 /\ N' = n
      /\ frames'[n].op = "else" /\ frames'[n].arity = frames[n].arity
      /\ \A k \in 1..n : k # n => frames'[k] = frames[k]
      /\ Len(stack') = Len(stack) + 1 /\ \A i \in 1..Len(stack) : stack'[i] = stack[i]
      /\ y.el = "ELSE" /\ y.arity = e.arity /\ y.patch = Len(code) + 1
      /\ GrowsBut(p) /\ Len(code') = Len(code) + 1
      /\ code'[Len(code) + 1].to = Len(code) + 1 /\ code'[Len(code) + 1].kind = "b"
      /\ labels' = labels /\ brs' = brs
  <2>9. ElseFacts(c, n, p)
    BY ElseMoves
  <2>4. Typed'
    BY <2>9 DEF ElseFacts
  <2>5. N' = n
    BY <2>9 DEF ElseFacts
  <2>6. Op(n) = "if"
    BY <2>9 DEF ElseFacts
  <2>7. n \in Nat /\ n > 0
    BY <2>9 DEF ElseFacts
  <2>8. p \in 1..Len(code) /\ code[p].to = p
    <3>1. Conditional(n) /\ n \in 1..N
      BY <2>6, <2>7 DEF Conditional
    <3> QED
      BY <3>1, OpenPatch
  <2>1. /\ frames'[n].op = "else" /\ frames'[n].arity = frames[n].arity
        /\ \A k \in 1..n : k # n => frames'[k] = frames[k]
    BY <2>9 DEF ElseFacts
  <2>2. /\ Len(stack') = Len(stack) + 1 /\ \A i \in 1..Len(stack) : stack'[i] = stack[i]
        /\ y.el = "ELSE" /\ y.arity = e.arity /\ y.patch = Len(code) + 1
    BY <2>9 DEF ElseFacts
  <2>3. /\ GrowsBut(p) /\ Len(code') = Len(code) + 1
        /\ code'[Len(code) + 1].to = Len(code) + 1 /\ code'[Len(code) + 1].kind = "b"
        /\ labels' = labels /\ brs' = brs
    BY <2>9 DEF ElseFacts
  <2> QED
    BY <2>1, <2>2, <2>3, <2>4, <2>5, <2>6, <2>7, <2>8
<1>2. /\ Len(code) \in Nat /\ Len(stack) \in Nat
      /\ \A i \in 1..Len(stack) : stack[i] \in Elements
  BY Facts DEF Base
<1>3. /\ c \in [1..n -> 1..Len(stack)] /\ d \in [1..n -> 1..Len(stack)]
      /\ \A j, k \in 1..n : j < k => c[j] < d[k]
      /\ \A k \in 1..n :
           /\ stack[c[k]].el = Kinds(Op(k))
           /\ Op(k) = "func" <=> k = 1
           /\ IF Op(k) = "else" THEN d[k] < c[k] /\ stack[d[k]].el = "IF" ELSE d[k] = c[k]
           /\ Op(k) = "loop" => stack[c[k]].loop
           /\ Op(k) = "block" => ~stack[c[k]].loop
           /\ k > 1 => stack[c[k]].arity = frames[k].arity
           /\ Op(k) = "else" => stack[d[k]].arity = frames[k].arity
  BY DEF Base, Positions, Ctl
<1>4. e = stack[c[n]]
  BY DEF Ctl
<1> HIDE DEF e, y
<1>5. /\ n \in 1..n /\ n > 1 /\ d[n] = c[n] /\ stack[c[n]].el = "IF"
      /\ stack[c[n]].arity = frames[n].arity
  BY <1>1, <1>3, KindsAre
<1>6. /\ c2 \in [1..n -> 1..(Len(stack) + 1)] /\ c2[n] = Len(stack) + 1
      /\ \A k \in 1..n : k # n => c2[k] = c[k]
  BY <1>2, <1>3, <1>5
<1>7. \A k \in 1..n : k # n => /\ Op(k)' = Op(k) /\ frames'[k].arity = frames[k].arity
                               /\ Ctl(c2, k)' = Ctl(c, k) /\ stack'[d[k]] = stack[d[k]]
                               /\ stack'[c2[k]] = stack[c[k]]
  BY <1>1, <1>3, <1>6 DEF Op, Ctl
<1>8. Op(n)' = "else" /\ Ctl(c2, n)' = y /\ stack'[c2[n]] = y /\ stack'[d[n]] = stack[c[n]]
  BY <1>1, <1>3, <1>5, <1>6 DEF Op, Ctl, y
<1>9. Positions(c2, d)'
  <2>1. ASSUME NEW k \in 1..n
        PROVE  /\ stack'[c2[k]].el = Kinds(Op(k)') /\ (Op(k)' = "func" <=> k = 1)
               /\ IF Op(k)' = "else" THEN d[k] < c2[k] /\ stack'[d[k]].el = "IF"
                                     ELSE d[k] = c2[k]
               /\ Op(k)' = "loop" => stack'[c2[k]].loop
               /\ Op(k)' = "block" => ~stack'[c2[k]].loop
               /\ k > 1 => stack'[c2[k]].arity = frames'[k].arity
               /\ Op(k)' = "else" => stack'[d[k]].arity = frames'[k].arity
    <3>1. CASE k = n
      <4>1. d[n] < c2[n]
        BY <1>2, <1>3, <1>5, <1>6
      <4> QED
        BY <1>1, <1>4, <1>5, <1>8, <3>1, <4>1, KindsAre
    <3>2. CASE k # n
      <4>1. Op(k)' = Op(k) /\ frames'[k].arity = frames[k].arity
        BY <1>7, <3>2
      <4>2. stack'[d[k]] = stack[d[k]] /\ stack'[c2[k]] = stack[c[k]]
        BY <1>7, <3>2
      <4>3. c2[k] = c[k]
        BY <1>6, <3>2
      <4> QED
        BY <1>3, <4>1, <4>2, <4>3
    <3> QED
      BY <3>1, <3>2
  <2>2. \A j, k \in 1..n : j < k => c2[j] < d[k]
    BY <1>1, <1>3, <1>6
  <2>3. d \in [1..n -> 1..(Len(stack) + 1)]
    BY <1>2, <1>3
  <2> QED
    BY <1>1, <1>6, <2>1, <2>2, <2>3 DEF Positions, Ctl
<1>10. Others(c2, d)'
  <2>1. SUFFICES ASSUME NEW i \in 1..(Len(stack) + 1), stack'[i] # Value,
                        ~(i < c2[1] /\ stack'[i] = FuncStart)
                 PROVE  \E k \in 1..n : i \in {c2[k], d[k]}
    BY <1>1 DEF Others
  <2>2. CASE i = Len(stack) + 1
    BY <1>5, <1>6, <2>2
  <2>3. CASE i \in 1..Len(stack)
    <3>1. c2[1] = c[1]
      BY <1>5, <1>6
    <3>2. stack[i] # Value /\ ~(i < c[1] /\ stack[i] = FuncStart)
      BY <1>1, <2>1, <2>3, <3>1
    <3>3. PICK k \in 1..n : i \in {c[k], d[k]}
      BY <2>3, <3>2 DEF Base, Others
    <3> QED
      BY <1>5, <1>6, <3>3
  <2> QED
    BY <1>2, <2>2, <2>3
<1>11. /\ \A k \in 1..n : k # n => (Conditional(k)' <=> Conditional(k))
       /\ Conditional(n)' /\ Conditional(n) /\ ~IsBlock(n) /\ ~IsBlock(n)'
       /\ \A k \in 1..n : (IsBlock(k)' <=> IsBlock(k))
       /\ \A k \in 1..n : IsBlock(k) => Label(c2, k)' = Label(c, k) /\ k # n
  BY <1>1, <1>7, <1>8 DEF Conditional, IsBlock, Label
<1>12. Placeholders(c2)'
  <2>1. /\ \A k \in 1..n : Conditional(k) =>
             /\ Placeholder(Ctl(c, k).patch, {"b", "b.cond"})
             /\ \A j \in 1..n : Conditional(j) /\ j # k => Ctl(c, j).patch # Ctl(c, k).patch
             /\ \A b \in 1..Len(brs) : brs[b].at # Ctl(c, k).patch
        /\ \A b \in 1..Len(brs) :
             /\ Placeholder(brs[b].at, {brs[b].kind}) /\ brs[b].label \in 1..Len(labels)
             /\ \A a \in 1..Len(brs) : a # b => brs[a].at # brs[b].at
    BY DEF Base, Placeholders
  <2>2. /\ \A k \in 1..n : k # n /\ Conditional(k) => Ctl(c, k).patch # p
        /\ \A b \in 1..Len(brs) : brs[b].at # p
    BY <1>5, <1>11, <2>1 DEF e
  <2>3. \A at, kinds : Placeholder(at, kinds) /\ at # p => Placeholder(at, kinds)' /\ at <= Len(code)
    BY <1>1, <1>2 DEF Placeholder, GrowsBut
  <2>4. /\ \A k \in 1..n : k # n /\ Conditional(k) => Ctl(c, k).patch # Len(code) + 1
        /\ \A b \in 1..Len(brs) : brs[b].at # Len(code) + 1
    <3>1. \A at, kinds : Placeholder(at, kinds) => at # Len(code) + 1
      BY <1>2 DEF Placeholder
    <3> QED
      BY <2>1, <3>1
  <2>5. Ctl(c2, n)'.patch = Len(code) + 1
    BY <1>1, <1>8
  <2>6. ASSUME NEW k \in 1..n, Conditional(k)'
        PROVE  /\ Placeholder(Ctl(c2, k).patch, {"b", "b.cond"})'
               /\ \A j \in 1..n : Conditional(j)' /\ j # k => Ctl(c2, j)'.patch # Ctl(c2, k)'.patch
               /\ \A b \in 1..Len(brs') : brs'[b].at # Ctl(c2, k)'.patch
    <3>1. CASE k = n
      <4>1. Placeholder(Ctl(c2, k).patch, {"b", "b.cond"})'
        BY <1>1, <1>2, <2>5, <3>1 DEF Placeholder
      <4>2. \A j \in 1..n : Conditional(j)' /\ j # k => Ctl(c2, j)'.patch # Ctl(c2, k)'.patch
        <5> SUFFICES ASSUME NEW j \in 1..n, Conditional(j)', j # k
                     PROVE  Ctl(c2, j)'.patch # Ctl(c2, k)'.patch
          OBVIOUS
        <5>1. j # n /\ Ctl(c2, k)'.patch = Len(code) + 1
          BY <2>5, <3>1
        <5>2. Conditional(j) /\ Ctl(c2, j)' = Ctl(c, j)
          BY <1>7, <1>11, <5>1
        <5>3. Ctl(c, j).patch # Len(code) + 1
          BY <2>4, <5>1, <5>2
        <5> QED
          BY <5>1, <5>2, <5>3
      <4> QED
        BY <1>1, <2>4, <2>5, <3>1, <4>1, <4>2
    <3>2. CASE k # n
      <4>1. Conditional(k) /\ Ctl(c2, k)'.patch = Ctl(c, k).patch
        BY <1>7, <1>11, <2>6, <3>2
      <4>2. Placeholder(Ctl(c2, k).patch, {"b", "b.cond"})'
        BY <2>1, <2>2, <2>3, <3>2, <4>1
      <4>3. ASSUME NEW j \in 1..n, Conditional(j)', j # k
            PROVE  Ctl(c2, j)'.patch # Ctl(c2, k)'.patch
        <5>1. CASE j = n
          BY <2>4, <2>5, <3>2, <4>1, <5>1
        <5>2. CASE j # n
          <6>1. Conditional(j) /\ Ctl(c2, j)'.patch = Ctl(c, j).patch
            BY <1>7, <1>11, <4>3, <5>2
          <6> QED
            BY <2>1, <4>1, <4>3, <6>1
        <5> QED
          BY <5>1, <5>2
      <4> QED
        <5>1. \A b \in 1..Len(brs) : brs[b].at # Ctl(c, k).patch
          BY <2>1, <4>1
        <5>2. \A b \in 1..Len(brs') : brs'[b].at # Ctl(c2, k)'.patch
          BY <1>1, <4>1, <5>1
        <5> QED
          BY <4>2, <4>3, <5>2
    <3> QED
      BY <3>1, <3>2
  <2>7. ASSUME NEW b \in 1..Len(brs')
        PROVE  /\ Placeholder(brs[b].at, {brs[b].kind})' /\ brs'[b].label \in 1..Len(labels')
               /\ \A a \in 1..Len(brs') : a # b => brs'[a].at # brs'[b].at
    <3>1. /\ Placeholder(brs[b].at, {brs[b].kind}) /\ brs[b].label \in 1..Len(labels)
          /\ \A a \in 1..Len(brs) : a # b => brs[a].at # brs[b].at
          /\ brs[b].at # p
      BY <1>1, <2>1, <2>2
    <3>2. Placeholder(brs[b].at, {brs[b].kind})'
      BY <1>1, <1>2, <3>1 DEF Placeholder, GrowsBut
    <3> QED
      BY <1>1, <3>1, <3>2
  <2> QED
    BY <1>1, <2>6, <2>7 DEF Placeholders
<1>13. LabelsFilled(c2)'
  <2>1. /\ \A k \in 1..n : IsBlock(k) =>
             /\ Label(c, k) \in 1..Len(labels)
             /\ \A j \in 1..n : IsBlock(j) /\ j # k => Label(c, j) # Label(c, k)
             /\ Op(k) = "block" => labels[Label(c, k)] = 0
        /\ \A l \in 1..Len(labels) :
             labels[l] = 0 => \E k \in 1..n : Op(k) = "block" /\ Label(c, k) = l
    BY DEF Base, LabelsFilled
  <2>2. ASSUME NEW k \in 1..n, IsBlock(k)'
        PROVE  /\ Label(c2, k)' \in 1..Len(labels')
               /\ \A j \in 1..n : IsBlock(j)' /\ j # k => Label(c2, j)' # Label(c2, k)'
               /\ Op(k)' = "block" => labels'[Label(c2, k)'] = 0
    <3>1. IsBlock(k) /\ k # n /\ Label(c2, k)' = Label(c, k) /\ Op(k)' = Op(k)
      BY <1>7, <1>11, <2>2
    <3>2. \A j \in 1..n : IsBlock(j)' /\ j # k => Label(c2, j)' # Label(c2, k)'
      <4>1. ASSUME NEW j \in 1..n, IsBlock(j)', j # k PROVE Label(c2, j)' # Label(c2, k)'
        <5>1. IsBlock(j) /\ Label(c2, j)' = Label(c, j)
          BY <1>11, <4>1
        <5> QED
          BY <2>1, <3>1, <4>1, <5>1
      <4> QED
        BY <4>1
    <3> QED
      BY <1>1, <2>1, <3>1, <3>2
  <2>3. ASSUME NEW l \in 1..Len(labels'), labels'[l] = 0
        PROVE  \E k \in 1..n : Op(k)' = "block" /\ Label(c2, k)' = l
    <3>1. PICK k \in 1..n : Op(k) = "block" /\ Label(c, k) = l
      BY <1>1, <2>1, <2>3
    <3>2. IsBlock(k)
      BY <3>1 DEF IsBlock
    <3> QED
      BY <1>7, <1>11, <3>1, <3>2
  <2> QED
    BY <1>1, <2>2, <2>3 DEF LabelsFilled
<1> QED
  BY <1>1, <1>9, <1>10, <1>12, <1>13 DEF Base

-----------------------------------------------------------------------------
(* END of a block: the stack is cut where the frame began. *)

\* Frames have one of five kinds.
LEMMA OpsAre ==
  ASSUME Typed, NEW k \in 1..N
  PROVE  Op(k) \in {"func", "if", "else", "block", "loop"} /\ frames[k] \in WasmFrames
<1>1. frames[k] \in WasmFrames
  BY Facts DEF N
<1> QED
  BY <1>1 DEF Op, WasmFrames

\* The IF that is found below the result of the true branch is the right one.
LEMMA IfIsFound ==
  ASSUME NEW c, NEW d, Base(c, d), NEW n, n = N, EndsElse(Ctl(c, n))
  PROVE  IfOf(Ctl(c, n)) = d[n] /\ Op(n) = "else"
<1> DEFINE e == Ctl(c, n)
           i == IfOf(e)
<1>1. /\ Typed /\ n \in Nat /\ n > 0 /\ n \in 1..n /\ LastControl = c[n]
      /\ Len(stack) \in Nat /\ \A j \in 1..Len(stack) : stack[j] \in Elements
      /\ c[n] \in 1..Len(stack) /\ d[n] \in 1..Len(stack)
      /\ stack[c[n]] # Value /\ stack[d[n]] # Value
  <2>1. Typed
    BY DEF Base
  <2>2. n \in Nat /\ n > 0 /\ n \in 1..n
    BY <2>1, CurrentFacts
  <2>3. Len(stack) \in Nat /\ \A j \in 1..Len(stack) : stack[j] \in Elements
    BY <2>1, Facts
  <2>4. /\ LastControl = c[n] /\ c[n] \in 1..Len(stack) /\ d[n] \in 1..Len(stack)
        /\ stack[c[n]] # Value /\ stack[d[n]] # Value
    BY <2>2, LastControlIs
  <2> QED
    BY <2>1, <2>2, <2>3, <2>4
<1>2. /\ e.el = "ELSE" /\ i > 0 /\ stack[i].el = "IF" /\ i = c[n] - 1 - e.arity
      /\ \A j \in (i + 1)..(c[n] - 1) : stack[j] = Value
  BY <1>1 DEF EndsElse, IfOf
<1>3. e \in Elements /\ e.arity \in 0..1
  <2>1. e \in Elements
    BY <1>1 DEF Ctl
  <2> QED
    BY <1>2, <2>1, ElementFacts
<1>4. Op(n) = "else" /\ d[n] < c[n]
  <2>1. e.el = Kinds(Op(n)) /\ Op(n) \in {"func", "if", "else", "block", "loop"}
    BY <1>1, OpsAre DEF Base, Positions
  <2>2. Op(n) = "else"
    BY <1>2, <2>1, KindsAre
  <2> QED
    BY <1>1, <2>2 DEF Base, Positions
<1> HIDE DEF e, i
<1>5. i \in 1..Len(stack) /\ i < c[n] /\ i \in Int
  BY <1>1, <1>2, <1>3
<1>6. d[n] <= i
  BY <1>1, <1>2, <1>4, <1>5
<1>7. stack[i] # Value /\ stack[i] # FuncStart
  BY <1>1, <1>2, <1>5, ElementFacts
<1>8. PICK k \in 1..n : i \in {c[k], d[k]}
  BY <1>5, <1>7 DEF Base, Others
<1>9. CASE k = n
  BY <1>5, <1>8, <1>9, <1>4 DEF i, e
<1>10. CASE k < n
  <2>1. c[k] < d[n] /\ d[k] <= c[k] /\ c[k] \in 1..Len(stack) /\ d[k] \in 1..Len(stack)
    <3>1. c[k] < d[n]
      BY <1>1, <1>10 DEF Base, Positions
    <3> QED
      BY <3>1, LastControlIs
  <2> QED
    BY <1>1, <1>5, <1>6, <1>8, <2>1
<1> QED
  BY <1>1, <1>9, <1>10

\* END cuts the stack where the frame began.
LEMMA EndStarts ==
  ASSUME NEW c, NEW d, Base(c, d), NEW n, n = N, n > 1,
         NEW e, e = Ctl(c, n), EndsIf(e) \/ EndsElse(e) \/ EndsBlock(e)
  PROVE  /\ StartOf(e) = d[n] /\ e.arity = frames[n].arity /\ e.arity \in 0..1
         /\ e.el = "BLOCK" <=> IsBlock(n)
         /\ e.el # "BLOCK" <=> Conditional(n)
         /\ e.el = "BLOCK" => (e.loop <=> Op(n) = "loop")
         /\ d[n] - 1 >= c[n - 1] /\ d[n] - 1 <= Len(stack)
<1>1. /\ Typed /\ n \in Nat /\ n \in 1..n /\ LastControl = c[n] /\ d[n] \in 1..Len(stack)
      /\ Op(n) \in {"func", "if", "else", "block", "loop"} /\ frames[n] \in WasmFrames
      /\ n - 1 \in 1..n /\ c[n - 1] \in 1..Len(stack)
  <2>1. Typed
    BY DEF Base
  <2>2. n \in Nat /\ n \in 1..n /\ n - 1 \in 1..n
    BY <2>1, CurrentFacts
  <2> QED
    BY <2>1, <2>2, CurrentFacts, Facts, LastControlIs, OpsAre
<1>2. /\ e.el = Kinds(Op(n)) /\ (Op(n) = "func" <=> n = 1)
      /\ (Op(n) # "else" => d[n] = c[n]) /\ e.arity = frames[n].arity
      /\ (Op(n) = "loop" => e.loop) /\ (Op(n) = "block" => ~e.loop)
      /\ c[n - 1] < d[n]
  BY <1>1 DEF Base, Positions
<1>3. e.arity \in 0..1
  BY <1>1, <1>2 DEF WasmFrames
<1>4. /\ e.el = "BLOCK" <=> IsBlock(n)
      /\ e.el # "BLOCK" <=> Conditional(n)
      /\ e.el = "BLOCK" => (e.loop <=> Op(n) = "loop")
  BY <1>1, <1>2, KindsAre DEF IsBlock, Conditional
<1>5. StartOf(e) = d[n]
  <2>1. CASE e.el = "ELSE"
    <3>1. EndsElse(e)
      BY <2>1 DEF EndsIf, EndsBlock
    <3> QED
      BY <2>1, <3>1, IfIsFound DEF StartOf
  <2>2. CASE e.el # "ELSE"
    BY <1>1, <1>2, <2>2, KindsAre DEF StartOf
  <2> QED
    BY <2>1, <2>2
<1>6. d[n] - 1 >= c[n - 1] /\ d[n] - 1 <= Len(stack)
  <2>1. d[n] \in 1..Len(stack) /\ c[n - 1] \in 1..Len(stack) /\ c[n - 1] < d[n]
    BY <1>1, <1>2
  <2> QED
    BY <2>1
<1> QED
  BY <1>2, <1>3, <1>4, <1>5, <1>6

CutAt(m, arity) == SubSeq(stack, 1, m) \o Results(arity)
\* What is left of a stack that is cut, with the result pushed.
LEMMA CutStack ==
  ASSUME stack \in Seq(Elements), NEW m \in Nat, m <= Len(stack), NEW arity \in 0..1,
         stack' = CutAt(m, arity)
  PROVE  /\ stack' \in Seq(Elements) /\ Len(stack') = m + arity
         /\ \A i \in 1..m : stack'[i] = stack[i]
         /\ \A i \in 1..Len(stack') : i > m => stack'[i] = Value
<1> DEFINE q == SubSeq(stack, 1, m)
<1>1. q \in Seq(Elements) /\ Len(q) = m /\ \A i \in 1..m : q[i] = stack[i]
  OBVIOUS
<1> HIDE DEF q
<1>2. CASE arity = 0
  <2>1. stack' = q
    BY <1>1, <1>2, ConcatEmptySeq DEF CutAt, Results, q
  <2> QED
    BY <1>1, <1>2, <2>1
<1>3. CASE arity = 1
  <2>1. stack' = Append(q, Value)
    <3>1. Value \in Elements /\ stack' = q \o <<Value>>
      BY <1>3, NewElements DEF CutAt, Results, q
    <3> QED
      BY <1>1, <3>1, AppendIsConcat
  <2>2. Value \in Elements
    BY NewElements
  <2>3. /\ stack' \in Seq(Elements) /\ Len(stack') = m + 1 /\ stack'[m + 1] = Value
        /\ \A i \in 1..m : stack'[i] = q[i]
    BY <1>1, <2>1, <2>2, Appended
  <2> QED
    BY <1>1, <1>3, <2>3
<1> QED
  BY <1>2, <1>3

EndFacts(d, n, e) ==
  /\ Typed' /\ n \in Nat /\ n > 1 /\ N' = n - 1
  /\ EndsIf(e) \/ EndsElse(e) \/ EndsBlock(e)
  /\ \A k \in 1..(n - 1) : /\ frames'[k].op = frames[k].op
                           /\ frames'[k].arity = frames[k].arity
  /\ \A k \in 1..(n - 2) : frames'[k] = frames[k]
  /\ frames'[n - 1] = [frames[n - 1] EXCEPT !.h = @ + frames[n].arity]
  /\ Len(stack') = (d[n] - 1) + e.arity
  /\ \A i \in 1..(d[n] - 1) : stack'[i] = stack[i]
  /\ \A i \in 1..Len(stack') : i > d[n] - 1 => stack'[i] = Value
  /\ labels' = IF e.el = "BLOCK" /\ ~e.loop THEN [labels EXCEPT ![e.label] = Here]
                                            ELSE labels
  /\ brs' = brs /\ Len(code') = Len(code)
  /\ e.el = "BLOCK" => code' = code
  /\ e.el # "BLOCK" =>
       /\ GrowsBut(e.patch) /\ e.patch \in 1..Len(code) /\ code[e.patch].to = e.patch
       /\ code'[e.patch].to = Len(code) + 1 /\ code'[e.patch].kind = code[e.patch].kind

\* What END does to the compiler.
LEMMA EndCuts ==
  ASSUME NEW c, NEW d, Base(c, d), End, status' # "rejected", NEW n, n = N,
         NEW e, e = Ctl(c, n)
  PROVE  EndFacts(d, n, e)
<1>1. /\ Typed /\ n \in Nat /\ n > 1 /\ Len(frames) = n /\ Current = frames[n]
      /\ n - 1 \in 1..n /\ n \in 1..n /\ frames \in Seq(WasmFrames)
      /\ LastControl = c[n] /\ Here = Len(code) + 1 /\ Len(code) \in Nat
      /\ stack \in Seq(Elements) /\ labels \in Seq(0..Here) /\ code \in Seq(Instructions)
      /\ c[n] \in 1..Len(stack)
  <2>1. Typed /\ Len(frames) > 1
    BY DEF Base, End
  <2>2. n \in Nat /\ n > 1 /\ Len(frames) = n
    BY <2>1, CurrentFacts DEF N
  <2> QED
    <3>1. n - 1 \in 1..n /\ n \in 1..n
      BY <2>2
    <3>2. frames \in Seq(WasmFrames) /\ Here = Len(code) + 1 /\ Len(code) \in Nat
      BY <2>1, Facts
    <3>3. stack \in Seq(Elements) /\ labels \in Seq(0..Here) /\ code \in Seq(Instructions)
      BY <2>1, Facts
    <3>4. Current = frames[n]
      BY <2>1, CurrentFacts
    <3>5. LastControl = c[n] /\ c[n] \in 1..Len(stack)
      BY LastControlIs
    <3> QED
      BY <2>1, <2>2, <3>1, <3>2, <3>3, <3>4, <3>5
<1>2. stack[LastControl] = e /\ e \in Elements
  BY <1>1 DEF Ctl
<1>3. EndsIf(e) \/ EndsElse(e) \/ EndsBlock(e)
  BY <1>2 DEF End, Reject
<1>4. /\ StartOf(e) = d[n] /\ e.arity = frames[n].arity /\ e.arity \in 0..1
      /\ e.el = "BLOCK" <=> IsBlock(n)
      /\ e.el # "BLOCK" <=> Conditional(n)
      /\ d[n] - 1 >= c[n - 1] /\ d[n] - 1 <= Len(stack)
  <2>1. StartOf(e) = d[n]
    BY <1>1, <1>3, EndStarts
  <2>5. e.arity = frames[n].arity
    BY <1>1, <1>3, EndStarts
  <2>6. e.arity \in 0..1
    BY <1>1, <1>3, EndStarts
  <2>2. e.el = "BLOCK" <=> IsBlock(n)
    BY <1>1, <1>3, EndStarts
  <2>3. e.el # "BLOCK" <=> Conditional(n)
    BY <1>1, <1>3, EndStarts
  <2>4. d[n] - 1 >= c[n - 1] /\ d[n] - 1 <= Len(stack)
    BY <1>1, <1>3, EndStarts
  <2> QED
    BY <2>1, <2>2, <2>3, <2>4, <2>5, <2>6
<1> DEFINE outer == frames[n - 1]
           g == [outer EXCEPT !.h = @ + frames[n].arity]
           exit == <<frames[n].id, "end">>
           skipped == IF frames[n].op = "if" THEN Branching(<<frames[n].id, "else">>) ELSE {}
<1>5. /\ frames' = [SubSeq(frames, 1, n - 1) EXCEPT ![n - 1] = g]
      /\ stack' = SubSeq(stack, 1, d[n] - 1) \o Results(e.arity)
      /\ labels' = IF e.el = "BLOCK" /\ ~e.loop THEN [labels EXCEPT ![e.label] = Here]
                                                ELSE labels
      /\ code' = IF e.el = "BLOCK" THEN code ELSE Patch(code, e.patch, Here)
      /\ live' = (live \/ Branching(exit) # {} \/ skipped # {})
      /\ rop' = IF ~live /\ Branching(exit) = {} /\ skipped # {}
                  THEN (CHOOSE w \in skipped : TRUE).h ELSE RopAt(exit)
      /\ fn' = fn /\ brs' = brs /\ ops' = ops /\ wanted' = wanted
  BY <1>1, <1>2, <1>3, <1>4 DEF End
<1>6. g \in WasmFrames /\ g.op = outer.op /\ g.arity = outer.arity
  <2>1. outer \in WasmFrames /\ frames[n] \in WasmFrames
    BY <1>1
  <2> QED
    BY <2>1 DEF WasmFrames
<1>7. rop' \in Int /\ live' \in BOOLEAN
  <2>1. ASSUME skipped # {} PROVE (CHOOSE w \in skipped : TRUE).h \in Int
    <3>1. skipped = Branching(<<frames[n].id, "else">>)
      BY <2>1
    <3> HIDE DEF skipped
    <3> QED
      BY <1>1, <2>1, <3>1, BranchingHeight
  <2>2. RopAt(exit) \in Int
    <3> HIDE DEF exit
    <3> QED
      BY <1>1, BranchingHeight, Facts DEF RopAt
  <2>3. live' \in BOOLEAN
    BY <1>1, <1>5, Facts
  <2> HIDE DEF skipped, exit
  <2> QED
    BY <1>5, <2>1, <2>2, <2>3
<1> HIDE DEF g, exit, skipped
<1>8. /\ frames' \in Seq(WasmFrames) /\ Len(frames') = n - 1 /\ frames'[n - 1] = g
      /\ \A k \in 1..(n - 2) : frames'[k] = frames[k]
  <2> DEFINE q == SubSeq(frames, 1, n - 1)
  <2>1. q \in Seq(WasmFrames) /\ Len(q) = n - 1 /\ \A k \in 1..(n - 1) : q[k] = frames[k]
    BY <1>1
  <2>2. frames' = [q EXCEPT ![n - 1] = g]
    BY <1>5
  <2> HIDE DEF q
  <2> QED
    BY <1>1, <1>6, <2>1, <2>2
<1>9. \A k \in 1..(n - 1) : frames'[k].op = frames[k].op /\ frames'[k].arity = frames[k].arity
  <2>1. \A k \in 1..(n - 1) : k = n - 1 \/ k \in 1..(n - 2)
    BY <1>1
  <2> QED
    BY <1>6, <1>8, <2>1
<1>10. /\ stack' \in Seq(Elements) /\ Len(stack') = (d[n] - 1) + e.arity
       /\ \A i \in 1..(d[n] - 1) : stack'[i] = stack[i]
       /\ \A i \in 1..Len(stack') : i > d[n] - 1 => stack'[i] = Value
  <2>1. d[n] - 1 \in Nat
    <3>1. c[n - 1] \in 1..Len(stack) /\ d[n] \in 1..Len(stack)
      BY <1>1, LastControlIs
    <3> QED
      BY <1>1, <1>4, <3>1
  <2> DEFINE m == d[n] - 1
  <2> HIDE DEF m
  <2>2. m \in Nat /\ m <= Len(stack) /\ stack' = CutAt(m, e.arity)
    BY <1>4, <1>5, <2>1 DEF m, CutAt
  <2>3. /\ stack' \in Seq(Elements) /\ Len(stack') = m + e.arity
        /\ \A i \in 1..m : stack'[i] = stack[i]
        /\ \A i \in 1..Len(stack') : i > m => stack'[i] = Value
    BY <1>1, <1>4, <2>2, CutStack
  <2> QED
    BY <2>3 DEF m
<1>11. ASSUME e.el # "BLOCK"
       PROVE  /\ code' \in Seq(Instructions) /\ Len(code') = Len(code)
              /\ GrowsBut(e.patch) /\ e.patch \in 1..Len(code) /\ code[e.patch].to = e.patch
              /\ code'[e.patch].to = Len(code) + 1 /\ code'[e.patch].kind = code[e.patch].kind
  <2>1. e.patch \in 1..Len(code) /\ code[e.patch].to = e.patch
    BY <1>1, <1>4, <1>11, OpenPatch
  <2>2. code' = Patch(code, e.patch, Here) /\ Here \in Nat
    BY <1>1, <1>5, <1>11
  <2> DEFINE p == e.patch
  <2> HIDE DEF p
  <2>3. /\ code' \in Seq(Instructions) /\ Len(code') = Len(code)
        /\ code'[p].to = Here /\ code'[p].kind = code[p].kind
        /\ \A i \in 1..Len(code) : i # p => code'[i] = code[i]
    BY <1>1, <2>1, <2>2, Linking DEF p
  <2> QED
    BY <1>1, <2>1, <2>3 DEF p, GrowsBut
<1>12. /\ code' \in Seq(Instructions) /\ Len(code') = Len(code) /\ Here' = Here
       /\ \A i \in 1..Len(code') : code'[i].to \in 1..Here'
  <2>1. \A i \in 1..Len(code) : code[i].to \in 1..Here
    BY <1>1 DEF Typed
  <2>2. CASE e.el = "BLOCK"
    <3>1. code' = code
      BY <1>5, <2>2
    <3> QED
      BY <1>1, <2>1, <3>1 DEF Here
  <2>3. CASE e.el # "BLOCK"
    <3>1. Here' = Here
      BY <1>1, <1>11, <2>3 DEF Here
    <3> QED
      <4>1. /\ code' \in Seq(Instructions) /\ Len(code') = Len(code)
            /\ code'[e.patch].to = Here /\ Here \in 1..Here
            /\ \A i \in 1..Len(code) : i # e.patch => code'[i] = code[i]
        BY <1>1, <1>11, <2>3 DEF GrowsBut
      <4>2. \A i \in 1..Len(code) : code'[i].to \in 1..Here
        BY <2>1, <4>1
      <4> QED
        BY <3>1, <4>1, <4>2
  <2> QED
    BY <2>2, <2>3
<1>13. labels' \in Seq(0..Here')
  <2>1. CASE e.el = "BLOCK" /\ ~e.loop
    <3>1. labels' = [labels EXCEPT ![e.label] = Here] /\ Here \in 0..Here
      BY <1>1, <1>5, <2>1
    <3>2. e.label \in 1..Len(labels)
      BY <1>1, <1>4, <2>1 DEF Base, LabelsFilled, Label
    <3>3. labels' \in Seq(0..Here)
      BY <1>1, <3>1, <3>2
    <3> QED
      BY <1>12, <3>3
  <2>2. CASE ~(e.el = "BLOCK" /\ ~e.loop)
    BY <1>1, <1>5, <1>12, <2>2
  <2> QED
    BY <2>1, <2>2
<1>14. Typed'
  <2>1. /\ fn' \in 1..Len(FnArity) /\ brs' \in Seq(Branches) /\ ops' \in 0..MaxOps
        /\ wanted' \subseteq Wanted /\ Len(frames') > 0
    BY <1>1, <1>5, <1>8, Facts
  <2> QED
    BY <1>7, <1>8, <1>10, <1>12, <1>13, <2>1 DEF Typed
<1>15. N' = n - 1
  BY <1>8 DEF N
<1>16. brs' = brs /\ (e.el = "BLOCK" => code' = code)
       /\ labels' = IF e.el = "BLOCK" /\ ~e.loop THEN [labels EXCEPT ![e.label] = Here]
                                                 ELSE labels
  BY <1>5
<1> QED
  BY <1>1, <1>3, <1>8, <1>9, <1>10, <1>11, <1>12, <1>14, <1>15, <1>16 DEF g, EndFacts

Shortened(c, n) == [k \in 1..(n - 1) |-> c[k]]

\* END keeps Base: the frame's placeholder is linked, or its label filled.
LEMMA EndBase ==
  ASSUME NEW c, NEW d, Base(c, d), End, status' # "rejected", NEW n, n = N,
         NEW c2, c2 = Shortened(c, n), NEW d2, d2 = Shortened(d, n),
         NEW e, e = Ctl(c, n), NEW m, m = d[n] - 1
  PROVE  Base(c2, d2)'
<1>0. EndFacts(d, n, e)
  BY EndCuts
<1>1. /\ Typed' /\ n \in Nat /\ n > 1 /\ N' = n - 1
      /\ EndsIf(e) \/ EndsElse(e) \/ EndsBlock(e)
      /\ \A k \in 1..(n - 1) : /\ frames'[k].op = frames[k].op
                               /\ frames'[k].arity = frames[k].arity
  BY <1>0 DEF EndFacts
<1>2. /\ Len(stack') = m + e.arity
      /\ \A i \in 1..m : stack'[i] = stack[i]
      /\ \A i \in 1..Len(stack') : i > m => stack'[i] = Value
  <2>1. Len(stack') = m + e.arity
    BY <1>0 DEF EndFacts
  <2>2. \A i \in 1..m : stack'[i] = stack[i]
    BY <1>0 DEF EndFacts
  <2>3. \A i \in 1..Len(stack') : i > m => stack'[i] = Value
    BY <1>0 DEF EndFacts
  <2> QED
    BY <2>1, <2>2, <2>3
<1>3. /\ labels' = IF e.el = "BLOCK" /\ ~e.loop THEN [labels EXCEPT ![e.label] = Here]
                                                ELSE labels
      /\ brs' = brs /\ Len(code') = Len(code)
      /\ e.el = "BLOCK" => code' = code
  <2>1. labels' = IF e.el = "BLOCK" /\ ~e.loop THEN [labels EXCEPT ![e.label] = Here]
                                                ELSE labels
    BY <1>0 DEF EndFacts
  <2>2. brs' = brs /\ Len(code') = Len(code)
    BY <1>0 DEF EndFacts
  <2>3. e.el = "BLOCK" => code' = code
    BY <1>0 DEF EndFacts
  <2> QED
    BY <2>1, <2>2, <2>3
<1>4. e.el # "BLOCK" => GrowsBut(e.patch) /\ e.patch \in 1..Len(code)
  BY <1>0 DEF EndFacts
<1>5. e.arity \in 0..1
  BY <1>1, EndStarts
<1>6. e.el = "BLOCK" <=> IsBlock(n)
  BY <1>1, EndStarts
<1>7. e.el # "BLOCK" <=> Conditional(n)
  BY <1>1, EndStarts
<1>8. e.el = "BLOCK" => (e.loop <=> Op(n) = "loop")
  BY <1>1, EndStarts
<1>9. m >= c[n - 1] /\ m <= Len(stack)
  BY <1>1, EndStarts
<1>10. /\ Len(stack) \in Nat /\ n \in 1..n /\ n - 1 \in 1..(n - 1) /\ d[n] \in 1..Len(stack)
       /\ \A k \in 1..(n - 1) : k \in 1..n /\ k < n
       /\ Len(code) \in Nat /\ Here = Len(code) + 1 /\ Len(labels) \in Nat
       /\ labels \in Seq(0..Here)
  BY <1>1, LastControlIs, Facts DEF Base
<1>11. m \in Nat
  BY <1>10
<1>12. /\ c \in [1..n -> 1..Len(stack)] /\ d \in [1..n -> 1..Len(stack)]
       /\ \A j, k \in 1..n : j < k => c[j] < d[k]
       /\ \A k \in 1..n :
            /\ stack[c[k]].el = Kinds(Op(k))
            /\ Op(k) = "func" <=> k = 1
            /\ IF Op(k) = "else" THEN d[k] < c[k] /\ stack[d[k]].el = "IF" ELSE d[k] = c[k]
            /\ Op(k) = "loop" => stack[c[k]].loop
            /\ Op(k) = "block" => ~stack[c[k]].loop
            /\ k > 1 => stack[c[k]].arity = frames[k].arity
            /\ Op(k) = "else" => stack[d[k]].arity = frames[k].arity
  BY DEF Base, Positions, Ctl
<1>13. \A k \in 1..(n - 1) : /\ c[k] \in 1..m /\ d[k] \in 1..m /\ c2[k] = c[k] /\ d2[k] = d[k]
                             /\ c[k] < d[n]
  <2> SUFFICES ASSUME NEW k \in 1..(n - 1)
               PROVE  c[k] \in 1..m /\ d[k] \in 1..m /\ c2[k] = c[k] /\ d2[k] = d[k] /\ c[k] < d[n]
    OBVIOUS
  <2>1. d[k] <= c[k] /\ c[k] \in 1..Len(stack) /\ d[k] \in 1..Len(stack)
    BY <1>10, LastControlIs
  <2>2. c[k] < d[n]
    BY <1>10, <1>12
  <2>3. c2[k] = c[k] /\ d2[k] = d[k]
    BY DEF Shortened
  <2> QED
    BY <1>10, <2>1, <2>2, <2>3
<1>14. \A k \in 1..(n - 1) : /\ Op(k)' = Op(k) /\ Ctl(c2, k)' = Ctl(c, k)
                             /\ stack'[c2[k]] = stack[c[k]] /\ stack'[d2[k]] = stack[d[k]]
  BY <1>1, <1>2, <1>13 DEF Op, Ctl
<1>15. Positions(c2, d2)'
  <2>1. /\ c2 \in [1..(n - 1) -> 1..Len(stack')] /\ d2 \in [1..(n - 1) -> 1..Len(stack')]
    <3>1. \A k \in 1..(n - 1) : c[k] \in 1..Len(stack') /\ d[k] \in 1..Len(stack')
      BY <1>2, <1>5, <1>11, <1>13
    <3> QED
      BY <3>1 DEF Shortened
  <2>2. \A j, k \in 1..(n - 1) : j < k => c2[j] < d2[k]
    <3>1. \A j, k \in 1..(n - 1) : j < k => c[j] < d[k]
      BY <1>10, <1>12
    <3> QED
      BY <1>13, <3>1
  <2>3. ASSUME NEW k \in 1..(n - 1)
        PROVE  /\ stack'[c2[k]].el = Kinds(Op(k)') /\ (Op(k)' = "func" <=> k = 1)
               /\ IF Op(k)' = "else" THEN d2[k] < c2[k] /\ stack'[d2[k]].el = "IF"
                                     ELSE d2[k] = c2[k]
               /\ Op(k)' = "loop" => stack'[c2[k]].loop
               /\ Op(k)' = "block" => ~stack'[c2[k]].loop
               /\ k > 1 => stack'[c2[k]].arity = frames'[k].arity
               /\ Op(k)' = "else" => stack'[d2[k]].arity = frames'[k].arity
    <3>1. /\ k \in 1..n /\ Op(k)' = Op(k) /\ stack'[c2[k]] = stack[c[k]]
          /\ stack'[d2[k]] = stack[d[k]] /\ frames'[k].arity = frames[k].arity
          /\ c2[k] = c[k] /\ d2[k] = d[k]
      BY <1>1, <1>10, <1>13, <1>14
    <3> QED
      BY <1>12, <3>1
  <2> QED
    BY <1>1, <2>1, <2>2, <2>3 DEF Positions, Ctl
<1>16. Others(c2, d2)'
  <2>1. SUFFICES ASSUME NEW i \in 1..Len(stack'), stack'[i] # Value,
                        ~(i < c2[1] /\ stack'[i] = FuncStart)
                 PROVE  \E k \in 1..(n - 1) : i \in {c2[k], d2[k]}
    BY <1>1 DEF Others
  <2>2. i \in 1..m /\ stack'[i] = stack[i] /\ i \in 1..Len(stack) /\ i < d[n]
    <3>1. i \in 1..m
      BY <1>2, <1>5, <1>11, <2>1
    <3> QED
      BY <1>2, <1>9, <1>10, <1>11, <3>1
  <2>3. c2[1] = c[1]
    BY <1>10, <1>13
  <2>4. PICK k \in 1..n : i \in {c[k], d[k]}
    BY <2>1, <2>2, <2>3 DEF Base, Others
  <2>5. k # n
    <3>1. d[n] <= c[n] /\ c[n] \in 1..Len(stack)
      BY <1>10, LastControlIs
    <3> QED
      BY <1>10, <2>2, <2>4, <3>1
  <2>6. k \in 1..(n - 1)
    BY <1>10, <2>5
  <2> QED
    BY <1>13, <2>4, <2>6
<1>17. \A k \in 1..(n - 1) : /\ Conditional(k)' <=> Conditional(k)
                             /\ IsBlock(k)' <=> IsBlock(k)
                             /\ Label(c2, k)' = Label(c, k)
  BY <1>14 DEF Conditional, IsBlock, Label
<1>18. Placeholders(c2)'
  <2>1. /\ \A k \in 1..n : Conditional(k) =>
             /\ Placeholder(Ctl(c, k).patch, {"b", "b.cond"})
             /\ \A j \in 1..n : Conditional(j) /\ j # k => Ctl(c, j).patch # Ctl(c, k).patch
             /\ \A b \in 1..Len(brs) : brs[b].at # Ctl(c, k).patch
        /\ \A b \in 1..Len(brs) :
             /\ Placeholder(brs[b].at, {brs[b].kind}) /\ brs[b].label \in 1..Len(labels)
             /\ \A a \in 1..Len(brs) : a # b => brs[a].at # brs[b].at
    BY DEF Base, Placeholders
  <2>2. Len(labels') = Len(labels)
    BY <1>3, <1>10
  <2>3. \A at \in 1..Len(code) : (Conditional(n) => at # e.patch) => code'[at] = code[at]
    BY <1>3, <1>4, <1>7 DEF GrowsBut
  <2>4. ASSUME NEW k \in 1..(n - 1), Conditional(k)'
        PROVE  /\ Placeholder(Ctl(c2, k).patch, {"b", "b.cond"})'
               /\ \A j \in 1..(n - 1) : Conditional(j)' /\ j # k =>
                    Ctl(c2, j)'.patch # Ctl(c2, k)'.patch
               /\ \A b \in 1..Len(brs') : brs'[b].at # Ctl(c2, k)'.patch
    <3>1. Conditional(k) /\ Ctl(c2, k)'.patch = Ctl(c, k).patch /\ k \in 1..n /\ k # n
      BY <1>10, <1>14, <1>17, <2>4
    <3>2. Placeholder(Ctl(c2, k).patch, {"b", "b.cond"})'
      <4>1. Placeholder(Ctl(c, k).patch, {"b", "b.cond"})
        BY <2>1, <3>1
      <4>2. Conditional(n) => Ctl(c, k).patch # e.patch
        BY <1>10, <2>1, <3>1
      <4> QED
        BY <1>3, <2>3, <3>1, <4>1, <4>2 DEF Placeholder
    <3>3. ASSUME NEW j \in 1..(n - 1), Conditional(j)', j # k
          PROVE  Ctl(c2, j)'.patch # Ctl(c2, k)'.patch
      <4>1. Conditional(j) /\ Ctl(c2, j)'.patch = Ctl(c, j).patch /\ j \in 1..n
        BY <1>10, <1>14, <1>17, <3>3
      <4> QED
        BY <2>1, <3>1, <3>3, <4>1
    <3> QED
      BY <1>3, <2>1, <3>1, <3>2, <3>3
  <2>5. ASSUME NEW b \in 1..Len(brs')
        PROVE  /\ Placeholder(brs[b].at, {brs[b].kind})' /\ brs'[b].label \in 1..Len(labels')
               /\ \A a \in 1..Len(brs') : a # b => brs'[a].at # brs'[b].at
    <3>1. /\ Placeholder(brs[b].at, {brs[b].kind}) /\ brs[b].label \in 1..Len(labels)
          /\ \A a \in 1..Len(brs) : a # b => brs[a].at # brs[b].at
      BY <1>3, <2>1
    <3>2. Conditional(n) => brs[b].at # e.patch
      BY <1>3, <1>10, <2>1
    <3>3. Placeholder(brs[b].at, {brs[b].kind})'
      BY <1>3, <2>3, <3>1, <3>2 DEF Placeholder
    <3> QED
      BY <1>3, <2>2, <3>1, <3>3
  <2> QED
    BY <1>1, <2>4, <2>5 DEF Placeholders
<1>19. LabelsFilled(c2)'
  <2>1. /\ \A k \in 1..n : IsBlock(k) =>
             /\ Label(c, k) \in 1..Len(labels)
             /\ \A j \in 1..n : IsBlock(j) /\ j # k => Label(c, j) # Label(c, k)
             /\ Op(k) = "block" => labels[Label(c, k)] = 0
        /\ \A l \in 1..Len(labels) :
             labels[l] = 0 => \E k \in 1..n : Op(k) = "block" /\ Label(c, k) = l
    BY DEF Base, LabelsFilled
  <2>2. Len(labels') = Len(labels)
    BY <1>3, <1>10
  <2>3. \A l \in 1..Len(labels) : (IsBlock(n) => l # Label(c, n)) => labels'[l] = labels[l]
    BY <1>3, <1>6, <1>10 DEF Label
  <2>4. ASSUME Op(n) = "block" PROVE labels'[Label(c, n)] # 0
    <3>1. IsBlock(n) /\ e.el = "BLOCK" /\ ~e.loop /\ e.label = Label(c, n)
      BY <1>6, <1>8, <2>4 DEF IsBlock, Label
    <3>2. Label(c, n) \in 1..Len(labels)
      BY <1>10, <2>1, <3>1
    <3> QED
      BY <1>3, <1>10, <3>1, <3>2
  <2>5. ASSUME NEW k \in 1..(n - 1), IsBlock(k)'
        PROVE  /\ Label(c2, k)' \in 1..Len(labels')
               /\ \A j \in 1..(n - 1) : IsBlock(j)' /\ j # k => Label(c2, j)' # Label(c2, k)'
               /\ Op(k)' = "block" => labels'[Label(c2, k)'] = 0
    <3>1. IsBlock(k) /\ Label(c2, k)' = Label(c, k) /\ k \in 1..n /\ k # n /\ Op(k)' = Op(k)
      BY <1>10, <1>14, <1>17, <2>5
    <3>2. ASSUME NEW j \in 1..(n - 1), IsBlock(j)', j # k PROVE Label(c2, j)' # Label(c2, k)'
      <4>1. IsBlock(j) /\ Label(c2, j)' = Label(c, j) /\ j \in 1..n
        BY <1>10, <1>17, <3>2
      <4> QED
        BY <2>1, <3>1, <3>2, <4>1
    <3>3. IsBlock(n) => Label(c, k) # Label(c, n)
      BY <1>10, <2>1, <3>1
    <3> QED
      BY <2>1, <2>2, <2>3, <3>1, <3>2, <3>3
  <2>6. ASSUME NEW l \in 1..Len(labels'), labels'[l] = 0
        PROVE  \E k \in 1..(n - 1) : Op(k)' = "block" /\ Label(c2, k)' = l
    <3>1. labels[l] = 0 /\ l \in 1..Len(labels)
      <4>1. CASE l = Label(c, n) /\ e.el = "BLOCK" /\ ~e.loop
        <5>1. labels'[l] = Here
          BY <1>3, <1>10, <2>2, <2>6, <4>1 DEF Label
        <5> QED
          BY <1>10, <2>6, <5>1
      <4>2. CASE ~(l = Label(c, n) /\ e.el = "BLOCK" /\ ~e.loop)
        BY <1>3, <1>10, <2>2, <2>6, <4>2 DEF Label
      <4> QED
        BY <4>1, <4>2
    <3>2. PICK k \in 1..n : Op(k) = "block" /\ Label(c, k) = l
      BY <2>1, <3>1
    <3>3. k # n
      BY <2>4, <2>6, <3>2
    <3>4. k \in 1..(n - 1)
      BY <1>10, <3>3
    <3> QED
      BY <1>14, <1>17, <3>2, <3>4
  <2> QED
    BY <1>1, <2>5, <2>6 DEF LabelsFilled
<1> QED
  BY <1>1, <1>15, <1>16, <1>18, <1>19 DEF Base

-----------------------------------------------------------------------------
(* END of a function: all placeholders are linked, and the next one begins. *)

\* With no block open every label is filled.
LEMMA AllFilled ==
  ASSUME NEW c, NEW d, Base(c, d), N = 1
  PROVE  /\ \A l \in 1..Len(labels) : labels[l] \in 1..Here
         /\ \A i \in 1..Len(stack) : stack[i] \in {Value, FuncStart}
<1>1. /\ Typed /\ labels \in Seq(0..Here) /\ Here \in Nat
      /\ \A i \in 1..Len(stack) : stack[i] \in Elements
  BY Facts DEF Base
<1>2. Op(1) = "func" /\ Ctl(c, 1).el = Kinds(Op(1)) /\ d[1] = c[1] /\ c[1] \in 1..Len(stack)
  <2>1. 1 \in 1..N
    OBVIOUS
  <2>2. Op(1) = "func" /\ Ctl(c, 1).el = Kinds(Op(1))
    BY <2>1 DEF Base, Positions
  <2> QED
    BY <2>1, <2>2, LastControlIs DEF Base, Positions
<1>3. \A l \in 1..Len(labels) : labels[l] # 0
  BY <1>2 DEF Base, LabelsFilled
<1>4. stack[c[1]] = FuncStart
  BY <1>1, <1>2, ElementFacts, KindsAre DEF Ctl
<1>5. \A i \in 1..Len(stack) : stack[i] \in {Value, FuncStart}
  <2>1. \A i \in 1..Len(stack) : stack[i] = Value \/ stack[i] = FuncStart \/ i \in {c[1], d[1]}
    BY DEF Base, Others
  <2> QED
    BY <1>2, <1>4, <2>1
<1> QED
  BY <1>1, <1>3, <1>5

FunctionFacts ==
  /\ code' \in Seq(Instructions) /\ Len(code') = Len(code) + 1
  /\ \A i \in 1..Len(code) : (\A b \in 1..Len(brs) : brs[b].at # i) => code'[i] = code[i]
  /\ \A b \in 1..Len(brs) : code'[brs[b].at].to = labels[brs[b].label]
  /\ \A i \in 1..Len(code) : code'[i].kind = code[i].kind
  /\ code'[Len(code) + 1].kind = "ret"
  /\ \A i \in 1..Len(code') : code'[i].to \in 1..Here'

\* relpatchAllLabels links each registered branch to its label, once.
LEMMA Relpatching ==
  ASSUME NEW c, NEW d, Base(c, d), N = 1, code' = Relpatched(Emit("ret"))
  PROVE  FunctionFacts
<1> DEFINE q == Emit("ret")
<1>1. /\ Typed /\ code \in Seq(Instructions) /\ Len(code) \in Nat /\ Here = Len(code) + 1
      /\ brs \in Seq(Branches) /\ DOMAIN brs = 1..Len(brs)
      /\ \A l \in 1..Len(labels) : labels[l] \in 1..Here
      /\ \A i \in 1..Len(code) : code[i].to \in 1..Here
  <2>1. Typed
    BY DEF Base
  <2>2. brs \in Seq(Branches)
    BY <2>1, Facts
  <2>3. \A i \in 1..Len(code) : code[i].to \in 1..Here
    BY <2>1 DEF Typed
  <2> QED
    BY <2>1, <2>2, <2>3, Facts, AllFilled
<1>2. /\ q \in Seq(Instructions) /\ Len(q) = Len(code) + 1
      /\ \A i \in 1..Len(code) : q[i] = code[i]
      /\ q[Len(code) + 1].kind = "ret" /\ q[Len(code) + 1].to = Len(code) + 1
  BY <1>1, Emitted DEF InstructionKinds
<1> HIDE DEF q
<1>3. \A b \in 1..Len(brs) :
        /\ brs[b].at \in 1..Len(code) /\ code[brs[b].at].to = brs[b].at
        /\ brs[b].label \in 1..Len(labels)
        /\ \A a \in 1..Len(brs) : a # b => brs[a].at # brs[b].at
  BY DEF Base, Placeholders, Placeholder
<1> DEFINE r == Relpatched(q)
<1>4. /\ r = [i \in 1..Len(q) |-> r[i]]
      /\ \A i \in 1..Len(q) :
           r[i] = IF Registered(i) = {} THEN q[i]
                  ELSE Link(q, i, labels[brs[CHOOSE b \in Registered(i) : TRUE].label])
  <2>1. DOMAIN q = 1..Len(q)
    BY <1>2
  <2> QED
    BY <2>1 DEF Relpatched
<1> HIDE DEF r
<1>5. ASSUME NEW b \in 1..Len(brs)
      PROVE  r[brs[b].at] = [q[brs[b].at] EXCEPT !.to = labels[brs[b].label]]
  <2> DEFINE i == brs[b].at
  <2>1. Registered(i) = {b}
    BY <1>1, <1>3 DEF Registered
  <2>2. i \in 1..Len(q) /\ q[i].to = i
    BY <1>1, <1>2, <1>3
  <2> HIDE DEF i
  <2>3. r[i] = Link(q, i, labels[brs[b].label])
    <3>1. (CHOOSE a \in Registered(i) : TRUE) = b /\ Registered(i) # {}
      BY <2>1
    <3> QED
      BY <1>4, <2>2, <3>1
  <2>4. r[i] = [q[i] EXCEPT !.to = labels[brs[b].label]]
    BY <2>2, <2>3 DEF Link, Linked
  <2> QED
    BY <2>4 DEF i
<1>6. \A i \in 1..Len(q) : (\A b \in 1..Len(brs) : brs[b].at # i) => r[i] = q[i]
  BY <1>1, <1>4 DEF Registered
<1>7. ASSUME NEW i \in 1..Len(q)
      PROVE  r[i] \in Instructions /\ r[i].to \in 1..(Len(code) + 1) /\ r[i].kind = q[i].kind
  <2>1. q[i] \in Instructions /\ q[i].to \in 1..(Len(code) + 1)
    <3>1. q[i] \in Instructions
      BY <1>2
    <3>2. q[i].to \in 1..(Len(code) + 1)
      <4>1. CASE i = Len(code) + 1
        BY <1>1, <1>2, <4>1
      <4>2. CASE i \in 1..Len(code)
        BY <1>1, <1>2, <4>2
      <4> QED
        BY <1>1, <1>2, <4>1, <4>2
    <3> QED
      BY <3>1, <3>2
  <2>2. CASE \A b \in 1..Len(brs) : brs[b].at # i
    <3>1. r[i] = q[i]
      BY <1>6, <2>2
    <3> QED
      BY <2>1, <3>1
  <2>3. ASSUME NEW b \in 1..Len(brs), brs[b].at = i
        PROVE  r[i] \in Instructions /\ r[i].to \in 1..(Len(code) + 1) /\ r[i].kind = q[i].kind
    <3> DEFINE x == labels[brs[b].label]
    <3>1. x \in 1..(Len(code) + 1) /\ x \in Nat
      BY <1>1, <1>3
    <3>2. r[i] = [q[i] EXCEPT !.to = x]
      BY <1>5, <2>3
    <3> HIDE DEF x
    <3> QED
      BY <2>1, <3>1, <3>2 DEF Instructions
  <2> QED
    BY <2>2, <2>3
<1>8. ASSUME NEW b \in 1..Len(brs) PROVE r[brs[b].at].to = labels[brs[b].label]
  <2>1. q[brs[b].at] \in Instructions
    BY <1>1, <1>2, <1>3
  <2>2. r[brs[b].at] = [q[brs[b].at] EXCEPT !.to = labels[brs[b].label]]
    BY <1>5
  <2> QED
    BY <2>1, <2>2 DEF Instructions
<1>9. r \in Seq(Instructions) /\ Len(r) = Len(code) + 1
  <2>1. r \in [1..Len(q) -> Instructions] /\ Len(q) \in Nat
    BY <1>1, <1>2, <1>4, <1>7
  <2>2. r \in Seq(Instructions)
    BY <2>1, IsASeq
  <2> QED
    BY <1>2, <2>1, <2>2, LenProperties
<1>10. code' = r
  BY DEF r, q
<1>11. Here' = Len(code) + 2
  BY <1>1, <1>9, <1>10 DEF Here
<1>12. \A i \in 1..Len(r) : r[i].to \in 1..Here'
  BY <1>1, <1>2, <1>7, <1>9, <1>11
<1>13. /\ \A i \in 1..Len(code) : (\A b \in 1..Len(brs) : brs[b].at # i) => r[i] = code[i]
       /\ \A i \in 1..Len(code) : r[i].kind = code[i].kind
       /\ r[Len(code) + 1].kind = "ret"
  BY <1>1, <1>2, <1>6, <1>7
<1> QED
  BY <1>8, <1>9, <1>10, <1>12, <1>13 DEF FunctionFacts

NextFunction ==
  /\ FunctionFacts /\ labels' = <<>> /\ brs' = <<>> /\ fn' = fn + 1 /\ ops' = ops
  /\ wanted' = wanted /\ stack' \in Seq(Elements)
  /\ \A i \in 1..Len(stack') : stack'[i] \in {Value, FuncStart}
  /\ status' = "compiling" =>
       /\ fn < Len(FnArity) /\ frames' = NewFunction(fn + 1) /\ live' = TRUE /\ rop' = 0
       /\ Len(stack') > 0 /\ stack'[Len(stack')] = FuncStart
  /\ status' # "compiling" => UNCHANGED <<frames, live, rop>> /\ status' = "compiled"

\* What the END of a function does to the compiler.
LEMMA EndFunctionNext ==
  ASSUME NEW c, NEW d, Base(c, d), EndFunction, status' # "rejected"
  PROVE  NextFunction /\ N = 1
<1>1. /\ Typed /\ N = 1 /\ fn \in 1..Len(FnArity) /\ stack \in Seq(Elements)
      /\ LastControl = c[1] /\ c[1] \in 1..Len(stack) /\ Len(stack) \in Nat
  <2>1. Typed /\ N = 1
    BY DEF Base, EndFunction, N
  <2> QED
    BY <2>1, Facts, LastControlIs
<1>2. /\ code' = Relpatched(Emit("ret")) /\ labels' = <<>> /\ brs' = <<>> /\ fn' = fn + 1
      /\ ops' = ops /\ wanted' = wanted
      /\ \/ /\ fn = Len(FnArity) /\ status' = "compiled" /\ stack' = LeftBehind(FnArity[fn])
            /\ UNCHANGED <<frames, live, rop>>
         \/ /\ fn # Len(FnArity) /\ stack' = Append(LeftBehind(FnArity[fn]), FuncStart)
            /\ frames' = NewFunction(fn + 1) /\ live' = TRUE /\ rop' = 0
            /\ status' = status /\ status = "compiling"
  BY DEF EndFunction, Reject
<1>3. FunctionFacts
  BY <1>1, <1>2, Relpatching
<1>4. \A i \in 1..Len(stack) : stack[i] \in {Value, FuncStart}
  BY <1>1, AllFilled
<1> DEFINE q == LeftBehind(FnArity[fn])
<1>5. q \in Seq({Value, FuncStart})
  <2>1. stack \in Seq({Value, FuncStart})
    BY <1>1, <1>4
  <2>2. SubSeq(stack, 1, c[1] - 1) \in Seq({Value, FuncStart})
    BY <1>1, <2>1
  <2>3. SubSeq(stack, 1, c[1] - 1) \o <<Value>> \in Seq({Value, FuncStart})
    BY <2>2
  <2> QED
    BY <1>1, <2>1, <2>3 DEF LeftBehind
<1> HIDE DEF q
<1>6. Value \in Elements /\ FuncStart \in Elements
  BY NewElements
<1>7. Seq({Value, FuncStart}) \subseteq Seq(Elements)
  BY <1>6
<1>8. CASE status' = "compiling"
  <2>1. /\ fn # Len(FnArity) /\ stack' = Append(q, FuncStart)
        /\ frames' = NewFunction(fn + 1) /\ live' = TRUE /\ rop' = 0
    BY <1>2, <1>8 DEF q
  <2>2. /\ stack' \in Seq({Value, FuncStart}) /\ Len(stack') = Len(q) + 1
        /\ stack'[Len(q) + 1] = FuncStart /\ Len(q) \in Nat
    BY <1>5, <2>1, Appended
  <2>3. fn < Len(FnArity)
    <3>1. Len(FnArity) \in Nat
      <4>1. FnArity \in Seq(0..1)
        BY ProgramAssumption
      <4> QED
        BY <4>1
    <3> QED
      BY <1>1, <2>1, <3>1
  <2>4. /\ stack' \in Seq(Elements) /\ Len(stack') > 0 /\ stack'[Len(stack')] = FuncStart
        /\ \A i \in 1..Len(stack') : stack'[i] \in {Value, FuncStart}
    <3> DEFINE s == stack'
    <3>1. s \in Seq({Value, FuncStart}) /\ Len(s) = Len(q) + 1 /\ s[Len(q) + 1] = FuncStart
          /\ Len(q) \in Nat
      BY <2>2
    <3> HIDE DEF s
    <3>2. \A i \in 1..Len(s) : s[i] \in {Value, FuncStart}
      BY <3>1
    <3>3. s \in Seq(Elements)
      BY <1>7, <3>1
    <3>4. Len(s) > 0 /\ s[Len(s)] = FuncStart
      BY <3>1
    <3> QED
      BY <3>2, <3>3, <3>4 DEF s
  <2>5. /\ labels' = <<>> /\ brs' = <<>> /\ fn' = fn + 1 /\ ops' = ops /\ wanted' = wanted
    BY <1>2
  <2> QED
    BY <1>1, <1>3, <1>8, <2>1, <2>3, <2>4, <2>5 DEF NextFunction
<1>9. CASE status' # "compiling"
  <2>1. /\ stack' = q /\ UNCHANGED <<frames, live, rop>> /\ status' = "compiled"
    BY <1>2, <1>9 DEF q
  <2> QED
    BY <1>1, <1>2, <1>3, <1>5, <1>7, <1>9, <2>1 DEF NextFunction
<1> QED
  BY <1>8, <1>9

\* The next function begins with Base, above what is left behind.
LEMMA EndFunctionBase ==
  ASSUME Typed, NextFunction, status' = "compiling",
         NEW m, m = Len(stack'), NEW c2, c2 = [k \in 1..1 |-> m]
  PROVE  Base(c2, c2)'
<1> DEFINE f == Frame("func", FnArity[fn + 1], 0, <<fn + 1, -1>>)
<1>1. /\ fn + 1 \in 1..Len(FnArity) /\ fn \in Nat /\ FnArity[fn + 1] \in 0..1
  <2>1. fn \in 1..Len(FnArity) /\ fn < Len(FnArity)
    BY Facts DEF NextFunction
  <2>2. FnArity \in Seq(0..1)
    BY ProgramAssumption
  <2> QED
    BY <2>1, <2>2
<1>2. f \in WasmFrames /\ f.op = "func"
  BY <1>1 DEF Frame, WasmFrames
<1>3. frames' = <<f>>
  BY DEF NextFunction, NewFunction
<1> HIDE DEF f
<1>4. frames' \in Seq(WasmFrames) /\ Len(frames') = 1 /\ frames'[1] = f
  BY <1>2, <1>3
<1>5. /\ stack' \in Seq(Elements) /\ m \in Nat /\ m > 0 /\ stack'[m] = FuncStart
      /\ \A i \in 1..m : stack'[i] \in {Value, FuncStart}
  BY DEF NextFunction
<1>6. Typed'
  <2>1. labels' = <<>> /\ brs' = <<>> /\ ops' = ops /\ wanted' = wanted /\ fn' = fn + 1
        /\ live' = TRUE /\ rop' = 0
    BY DEF NextFunction
  <2>2. code' \in Seq(Instructions) /\ \A i \in 1..Len(code') : code'[i].to \in 1..Here'
    BY DEF NextFunction, FunctionFacts
  <2>3. <<>> \in Seq(0..Here') /\ <<>> \in Seq(Branches)
    OBVIOUS
  <2>4. ops \in 0..MaxOps /\ wanted \subseteq Wanted
    BY Facts
  <2> QED
    BY <1>1, <1>4, <1>5, <2>1, <2>2, <2>3, <2>4 DEF Typed
<1>7. N' = 1 /\ c2[1] = m /\ Op(1)' = "func" /\ Ctl(c2, 1)' = FuncStart
  BY <1>2, <1>4, <1>5 DEF N, Op, Ctl
<1>8. Positions(c2, c2)'
  <2>1. c2 \in [1..1 -> 1..m]
    BY <1>5
  <2>2. FuncStart.el = "FUNC_START"
    BY DEF FuncStart
  <2>3. \A k \in 1..1 : k = 1
    OBVIOUS
  <2> QED
    BY <1>5, <1>7, <2>1, <2>2, <2>3, KindsAre DEF Positions
<1>9. Others(c2, c2)'
  BY <1>5, <1>7 DEF Others
<1>10. Placeholders(c2)'
  <2>1. Len(brs') = 0
    BY DEF NextFunction
  <2>2. ~Conditional(1)'
    BY <1>7 DEF Conditional
  <2> QED
    BY <1>7, <2>1, <2>2 DEF Placeholders
<1>11. LabelsFilled(c2)'
  <2>1. Len(labels') = 0
    BY DEF NextFunction
  <2>2. ~IsBlock(1)'
    BY <1>7 DEF IsBlock
  <2> QED
    BY <1>7, <2>1, <2>2 DEF LabelsFilled
<1> QED
  BY <1>6, <1>8, <1>9, <1>10, <1>11 DEF Base

-----------------------------------------------------------------------------
(* The invariant. *)

\* Only a compiler at work takes a step.
LEMMA NextCompiles ==
  ASSUME Next
  PROVE  status = "compiling"
BY DEF Next, Const, Drop, Else, End, Return, EndFunction, Block, If, Br, BrIf, More, Ending

\* A failed confirm changes nothing else.
LEMMA Rejecting ==
  ASSUME Next, status' = "rejected"
  PROVE  Reject
<1>1. status = "compiling"
  BY NextCompiles
<1>2. CASE Const
  BY <1>1, <1>2 DEF Const
<1>3. CASE Drop
  BY <1>1, <1>3 DEF Drop
<1>4. CASE Else
  BY <1>1, <1>4 DEF Else
<1>5. CASE End
  BY <1>1, <1>5 DEF End
<1>6. CASE Return
  BY <1>1, <1>6 DEF Return
<1>7. CASE EndFunction
  BY <1>1, <1>7 DEF EndFunction
<1>8. ASSUME NEW arity \in 0..1, NEW isLoop \in BOOLEAN, Block(arity, isLoop) PROVE Reject
  BY <1>1, <1>8 DEF Block
<1>9. ASSUME NEW arity \in 0..1, If(arity) PROVE Reject
  BY <1>1, <1>9 DEF If
<1>10. ASSUME NEW depth \in 0..(Len(frames) - 1), Br(depth) PROVE Reject
  BY <1>1, <1>10 DEF Br
<1>11. ASSUME NEW depth \in 0..(Len(frames) - 1), BrIf(depth) PROVE Reject
  BY <1>1, <1>11 DEF BrIf
<1> QED
  BY <1>2, <1>3, <1>4, <1>5, <1>6, <1>7, <1>8, <1>9, <1>10, <1>11 DEF Next

\* Each instruction that is accepted keeps Base.
LEMMA StepBase ==
  ASSUME NEW c, NEW d, Base(c, d), Next, status' = "compiling"
  PROVE  \E c2, d2 : Base(c2, d2)'
<1>1. Typed /\ status' # "rejected"
  BY DEF Base
<1>2. ASSUME Straight(c) PROVE \E c2, d2 : Base(c2, d2)'
  BY <1>2, StraightBase
<1>3. CASE Const
  BY <1>2, <1>3, ConstStraight
<1>4. CASE Drop
  BY <1>1, <1>2, <1>4, DropStraight
<1>5. CASE Else
  <2>1. PICK n, p, c2 : n = N /\ p = Ctl(c, n).patch /\ c2 = [c EXCEPT ![n] = Len(stack) + 1]
    OBVIOUS
  <2>2. Base(c2, d)'
    BY <1>1, <1>5, <2>1, ElseBase
  <2> QED
    BY <2>2
<1>6. CASE End
  <2>1. PICK n, e, m, c2, d2 : /\ n = N /\ e = Ctl(c, n) /\ m = d[n] - 1
                               /\ c2 = Shortened(c, n) /\ d2 = Shortened(d, n)
    OBVIOUS
  <2>2. Base(c2, d2)'
    BY <1>1, <1>6, <2>1, EndBase
  <2> QED
    BY <2>2
<1>7. CASE Return
  BY <1>1, <1>2, <1>7, ReturnStraight
<1>8. CASE EndFunction
  <2>1. NextFunction
    BY <1>1, <1>8, EndFunctionNext
  <2>2. PICK m, c2 : m = Len(stack') /\ c2 = [k \in 1..1 |-> m]
    OBVIOUS
  <2>3. Base(c2, c2)'
    BY <1>1, <2>1, <2>2, EndFunctionBase
  <2> QED
    BY <2>3
<1>9. ASSUME NEW arity \in 0..1, NEW isLoop \in BOOLEAN, Block(arity, isLoop)
      PROVE  \E c2, d2 : Base(c2, d2)'
  <2>1. PICK n, c2, d2 : /\ n = N /\ c2 = Extended(c, Len(stack) + 1)
                         /\ d2 = Extended(d, Len(stack) + 1)
    OBVIOUS
  <2>2. Base(c2, d2)'
    BY <1>9, <2>1, BlockBase
  <2> QED
    BY <2>2
<1>10. ASSUME NEW arity \in 0..1, If(arity) PROVE \E c2, d2 : Base(c2, d2)'
  <2>1. PICK n, c2, d2 : n = N /\ c2 = Extended(c, Len(stack)) /\ d2 = Extended(d, Len(stack))
    OBVIOUS
  <2>2. Base(c2, d2)'
    BY <1>1, <1>10, <2>1, IfBase
  <2> QED
    BY <2>2
<1>11. ASSUME NEW depth \in 0..(Len(frames) - 1), Br(depth) \/ BrIf(depth)
       PROVE  \E c2, d2 : Base(c2, d2)'
  BY <1>1, <1>2, <1>11, BrStraight, BrIfStraight
<1> QED
  BY <1>3, <1>4, <1>5, <1>6, <1>7, <1>8, <1>9, <1>10, <1>11 DEF Next

\* Base has the types of TypeOK.
LEMMA BaseTyped ==
  ASSUME NEW c, NEW d, Base(c, d), status = "compiling"
  PROVE  TypeOK
<1>1. Typed
  BY DEF Base
<1>2. fn \in 1..(Len(FnArity) + 1)
  <2>1. Len(FnArity) \in Nat /\ fn \in 1..Len(FnArity)
    BY <1>1, Facts
  <2> QED
    BY <2>1
<1>3. \A i \in DOMAIN stack : stack[i].el \in {"value", "FUNC_START", "IF", "ELSE", "BLOCK"}
  BY <1>1, Facts, ElementFacts
<1>4. \A i \in DOMAIN code : code[i].kind \in {"other", "b", "b.cond", "return", "ret"}
                             /\ code[i].to \in 1..Here
  <2>1. \A i \in 1..Len(code) : code[i] \in Instructions /\ code[i].to \in 1..Here
    BY <1>1, Facts DEF Typed
  <2> QED
    BY <1>1, <2>1, Facts DEF Instructions
<1>5. \A i \in DOMAIN brs : brs[i].label \in DOMAIN labels /\ code[brs[i].at].kind = brs[i].kind
  <2>1. DOMAIN brs = 1..Len(brs) /\ DOMAIN labels = 1..Len(labels)
    BY <1>1, Facts
  <2>2. \A b \in 1..Len(brs) : Placeholder(brs[b].at, {brs[b].kind}) /\ brs[b].label \in 1..Len(labels)
    BY DEF Base, Placeholders
  <2> QED
    BY <2>1, <2>2 DEF Placeholder
<1>6. rop \in Int /\ live \in BOOLEAN /\ ops \in 0..MaxOps /\ labels \in Seq(0..Here)
  BY <1>1, Facts
<1> QED
  BY <1>2, <1>3, <1>4, <1>5, <1>6 DEF TypeOK

\* So has the compiled module.
LEMMA CompiledTyped ==
  ASSUME Typed, NextFunction, status' = "compiled"
  PROVE  TypeOK'
<1>1. fn' \in 1..(Len(FnArity) + 1)
  <2>1. Len(FnArity) \in Nat /\ fn \in 1..Len(FnArity) /\ fn' = fn + 1
    BY Facts DEF NextFunction
  <2> QED
    BY <2>1
<1>2. \A i \in DOMAIN stack' : stack'[i].el \in {"value", "FUNC_START", "IF", "ELSE", "BLOCK"}
  <2>1. \A i \in DOMAIN stack' : stack'[i] \in Elements
    BY DEF NextFunction
  <2> QED
    BY <2>1, ElementFacts
<1>3. \A i \in DOMAIN code' : code'[i].kind \in {"other", "b", "b.cond", "return", "ret"}
                              /\ code'[i].to \in 1..Here'
  <2>1. code' \in Seq(Instructions) /\ \A i \in 1..Len(code') : code'[i].to \in 1..Here'
    BY DEF NextFunction, FunctionFacts
  <2>2. \A i \in DOMAIN code' : i \in 1..Len(code') /\ code'[i] \in Instructions
    BY <2>1
  <2> QED
    BY <2>1, <2>2 DEF Instructions
<1>4. labels' = <<>> /\ brs' = <<>> /\ ops' = ops /\ rop' = rop /\ live' = live
  BY DEF NextFunction
<1>5. rop \in Int /\ live \in BOOLEAN /\ ops \in 0..MaxOps
  BY Facts
<1>6. <<>> \in Seq(0..Here') /\ DOMAIN brs' = {}
  BY <1>4
<1> QED
  BY <1>1, <1>2, <1>3, <1>4, <1>5, <1>6 DEF TypeOK

Compiling == \E c, d \in [1..N -> 1..Len(stack)] : Base(c, d)
BaseInv == IF status = "compiling" THEN Compiling ELSE TypeOK

LEMMA BaseInvTyped ==
  ASSUME BaseInv
  PROVE  TypeOK
BY BaseTyped DEF BaseInv, Compiling

\* The empty compiler has Base.
LEMMA InitBase == Init => BaseInv
<1> SUFFICES ASSUME Init PROVE Compiling
  BY DEF Init, BaseInv
<1> DEFINE c == [k \in 1..1 |-> 1]
           f == Frame("func", FnArity[1], 0, <<1, -1>>)
<1>1. 1 \in 1..Len(FnArity) /\ FnArity[1] \in 0..1 /\ MaxOps \in Nat
  <2>1. FnArity \in Seq(0..1) /\ FnArity # <<>> /\ MaxOps \in Nat
    BY ProgramAssumption
  <2> QED
    BY <2>1
<1>2. f \in WasmFrames /\ f.op = "func"
  BY <1>1 DEF Frame, WasmFrames
<1>3. frames = <<f>>
  BY DEF Init, NewFunction
<1> HIDE DEF f
<1>4. frames \in Seq(WasmFrames) /\ Len(frames) = 1 /\ frames[1] = f
  BY <1>2, <1>3
<1>5. /\ stack = <<FuncStart>> /\ labels = <<>> /\ brs = <<>> /\ code = <<>> /\ rop = 0
      /\ live = TRUE /\ ops = 0 /\ wanted = {} /\ fn = 1
  BY DEF Init
<1>6. stack \in Seq(Elements) /\ Len(stack) = 1 /\ stack[1] = FuncStart
  BY <1>5, NewElements
<1>7. Typed
  <2>1. code \in Seq(Instructions) /\ labels \in Seq(0..Here) /\ brs \in Seq(Branches)
        /\ Len(code) = 0
    BY <1>5
  <2> QED
    BY <1>1, <1>4, <1>5, <1>6, <2>1 DEF Typed
<1>8. N = 1 /\ c[1] = 1 /\ Op(1) = "func" /\ Ctl(c, 1) = FuncStart
  BY <1>2, <1>4, <1>6 DEF N, Op, Ctl
<1>9. Positions(c, c)
  <2>1. c \in [1..1 -> 1..1] /\ FuncStart.el = "FUNC_START" /\ \A k \in 1..1 : k = 1
    BY DEF FuncStart
  <2> QED
    BY <1>6, <1>8, <2>1, KindsAre DEF Positions
<1>10. Others(c, c)
  BY <1>6, <1>8 DEF Others
<1>11. Placeholders(c)
  <2>1. Len(brs) = 0 /\ ~Conditional(1)
    BY <1>5, <1>8 DEF Conditional
  <2> QED
    BY <1>8, <2>1 DEF Placeholders
<1>12. LabelsFilled(c)
  <2>1. Len(labels) = 0 /\ ~IsBlock(1)
    BY <1>5, <1>8 DEF IsBlock
  <2> QED
    BY <1>8, <2>1 DEF LabelsFilled
<1>13. c \in [1..N -> 1..Len(stack)]
  BY <1>6, <1>8
<1> QED
  BY <1>7, <1>9, <1>10, <1>11, <1>12, <1>13 DEF Base, Compiling

\* Each step keeps the invariant.
LEMMA NextBase == BaseInv /\ [Next]_vars => BaseInv'
<1> SUFFICES ASSUME BaseInv, [Next]_vars PROVE BaseInv'
  OBVIOUS
<1>1. CASE Next
  <2>1. PICK c, d \in [1..N -> 1..Len(stack)] : Base(c, d)
    BY <1>1, NextCompiles DEF BaseInv, Compiling
  <2>2. CASE status' = "compiling"
    <3>1. PICK c2, d2 : Base(c2, d2)'
      BY <1>1, <2>1, <2>2, StepBase
    <3>2. c2 \in [1..N' -> 1..Len(stack')] /\ d2 \in [1..N' -> 1..Len(stack')]
      BY <3>1 DEF Base, Positions
    <3>3. Compiling'
      BY <3>1, <3>2 DEF Compiling
    <3> QED
      BY <2>2, <3>3 DEF BaseInv
  <2>3. CASE status' = "rejected"
    <3>1. Reject
      BY <1>1, <2>3, Rejecting
    <3>2. TypeOK
      BY BaseInvTyped
    <3>3. TypeOK'
      BY <2>3, <3>1, <3>2 DEF Reject, TypeOK, wasm, Here
    <3> QED
      BY <2>3, <3>3 DEF BaseInv
  <2>4. CASE status' \notin {"compiling", "rejected"}
    <3>1. EndFunction
      BY <1>1, <2>4, NextCompiles DEF Next, Const, Drop, Else, End, Return, Block, If, Br, BrIf, Reject
    <3>2. NextFunction /\ Typed
      BY <2>1, <2>4, <3>1, EndFunctionNext DEF Base
    <3>3. status' = "compiled"
      BY <2>4, <3>2 DEF NextFunction
    <3>4. TypeOK'
      BY <3>2, <3>3, CompiledTyped
    <3> QED
      BY <3>3, <3>4 DEF BaseInv
  <2> QED
    BY <2>2, <2>3, <2>4
<1>2. CASE UNCHANGED vars
  <2>1. TypeOK => TypeOK'
    BY <1>2 DEF vars, compiler, wasm, TypeOK, Here
  <2>2. ASSUME NEW c, NEW d, Base(c, d) PROVE Base(c, d)'
    BY <1>2, <2>2 DEF vars, compiler, wasm, Base, Typed, Positions, Others, Placeholders,
       LabelsFilled, Here, N, Op, Ctl, Conditional, Placeholder, IsBlock, Label
  <2>3. status' = status /\ N' = N /\ stack' = stack
    BY <1>2 DEF vars, compiler, wasm, N
  <2> QED
    BY <2>1, <2>2, <2>3 DEF BaseInv, Compiling
<1> QED
  BY <1>1, <1>2

\* TypeOK for every bytecode: labels and patched branches stay inside the
\* module's code, so that no two offsets are ever merged into one instruction by
\* END, ELSE or relpatchAllLabels.
THEOREM TypeCorrect == Spec => []TypeOK
<1>1. BaseInv => TypeOK
  BY BaseInvTyped
<1> QED
  BY <1>1, InitBase, NextBase, PTL DEF Spec

\* A step changes no instruction but placeholders.
LEMMA StepLinked ==
  ASSUME BaseInv, [Next]_vars
  PROVE  [\A i \in DOMAIN code : code[i].to # i => code'[i] = code[i]]_vars
<1> SUFFICES ASSUME Next, NEW i \in DOMAIN code, code[i].to # i
             PROVE  code'[i] = code[i]
  OBVIOUS
<1>1. PICK c, d \in [1..N -> 1..Len(stack)] : Base(c, d)
  BY NextCompiles DEF BaseInv, Compiling
<1>2. Typed /\ i \in 1..Len(code) /\ N \in 1..N
  BY <1>1, Facts, CurrentFacts DEF Base
<1>3. CASE status' = "rejected"
  BY <1>3, Rejecting DEF Reject
<1>4. ASSUME Straight(c) PROVE code'[i] = code[i]
  BY <1>2, <1>4 DEF Straight, CodeGrows
<1>5. ASSUME status' # "rejected" PROVE code'[i] = code[i]
  <2>1. CASE Const
    BY <1>1, <1>4, <2>1, ConstStraight
  <2>2. CASE Drop
    BY <1>1, <1>4, <1>5, <2>2, DropStraight
  <2>3. CASE Else
    <3>1. PICK n, p : n = N /\ p = Ctl(c, n).patch
      OBVIOUS
    <3>2. GrowsBut(p)
      <4>1. ElseFacts(c, n, p)
        BY <1>1, <1>5, <2>3, <3>1, ElseMoves
      <4> QED
        BY <4>1 DEF ElseFacts
    <3>3. Op(n) = "if"
      BY <1>2, <2>3, <3>1, CurrentFacts DEF Else, Op
    <3>4. code[p].to = p
      BY <1>1, <1>2, <3>1, <3>3, OpenPatch DEF Conditional
    <3> QED
      BY <1>2, <3>2, <3>4 DEF GrowsBut
  <2>4. CASE End
    <3>0. PICK n, e : n = N /\ e = Ctl(c, n)
      OBVIOUS
    <3>1. EndFacts(d, n, e)
      BY <1>1, <1>5, <2>4, <3>0, EndCuts
    <3>2. CASE e.el = "BLOCK"
      BY <3>1, <3>2 DEF EndFacts
    <3>3. CASE e.el # "BLOCK"
      BY <1>2, <3>1, <3>3 DEF EndFacts, GrowsBut
    <3> QED
      BY <3>2, <3>3
  <2>5. CASE Return
    BY <1>1, <1>4, <1>5, <2>5, ReturnStraight
  <2>6. CASE EndFunction
    <3>1. FunctionFacts
      BY <1>1, <1>5, <2>6, EndFunctionNext DEF NextFunction
    <3>2. \A b \in 1..Len(brs) : brs[b].at # i
      BY <1>1 DEF Base, Placeholders, Placeholder
    <3> QED
      BY <1>2, <3>1, <3>2 DEF FunctionFacts
  <2>7. ASSUME NEW arity \in 0..1, NEW isLoop \in BOOLEAN, Block(arity, isLoop)
        PROVE  code'[i] = code[i]
    BY <2>7 DEF Block
  <2>8. ASSUME NEW arity \in 0..1, If(arity) PROVE code'[i] = code[i]
    <3>1. CodeGrows
      BY <1>1, <1>5, <2>8, IfOpens
    <3> QED
      BY <1>2, <3>1 DEF CodeGrows
  <2>9. ASSUME NEW depth \in 0..(Len(frames) - 1), Br(depth) \/ BrIf(depth)
        PROVE  code'[i] = code[i]
    BY <1>1, <1>4, <1>5, <2>9, BrStraight, BrIfStraight
  <2> QED
    BY <2>1, <2>2, <2>3, <2>4, <2>5, <2>6, <2>7, <2>8, <2>9 DEF Next
<1> QED
  BY <1>3, <1>5

\* An instruction that END, ELSE or relpatchAllLabels has linked is never
\* changed again, by this function or another, whatever the bytecode.
THEOREM BranchesAreLinkedOnce == Spec => LinkedOnce
<1>1. BaseInv /\ [Next]_vars
        => [\A i \in DOMAIN code : code[i].to # i => code'[i] = code[i]]_vars
  BY StepLinked
<1> QED
  BY <1>1, InitBase, NextBase, PTL DEF Spec, LinkedOnce

-----------------------------------------------------------------------------
(* Wasm's frames and the branches to their places, without the Features. *)

\* Frame k is the one it was, or is as new as the instruction.
FrameKept(k) ==
  /\ k <= N /\ frames'[k].id = frames[k].id /\ frames'[k].base = frames[k].base
  /\ frames'[k].arity = frames[k].arity
FramesKept ==
  /\ \A k \in 1..N' : FrameKept(k) \/ (k = N' /\ frames'[k].id[2] \notin 0..(ops - 1))
  /\ \A k \in 1..(N' - 1) : frames'[k].dead => frames[k].dead

\* Where frames are kept, what is expected of branches stays.
LEMMA HeightsKept ==
  ASSUME Typed, Heights, FramesKept, N' \in Nat, fn' \in Nat, fn' >= fn, ops' \in Nat,
         ops' >= ops, Len(code') \in Nat, Len(code') >= Len(code), NEW w \in wanted
  PROVE  Expected(w)' /\ \A k \in 1..N' : Agrees(w, k)'
<1>1. /\ ops \in Nat /\ fn \in Nat /\ Len(code) \in Nat /\ w.fn \in Nat /\ N \in Nat
  BY Facts DEF Wanted, N
<1>2. /\ w.place[1][2] \in 0..(ops - 1) /\ w.fn <= fn /\ w.at \in 1..Len(code)
      /\ \A k \in 1..N : Agrees(w, k)
  BY DEF Heights, Expected
<1>3. Expected(w)'
  <2>1. w.place[1][2] \in 0..(ops' - 1)
    BY <1>1, <1>2
  <2>2. w.fn <= fn' /\ w.at \in 1..Len(code')
    BY <1>1, <1>2
  <2> QED
    BY <2>1, <2>2 DEF Expected
<1>4. ASSUME NEW k \in 1..N' PROVE Agrees(w, k)'
  <2>1. CASE FrameKept(k)
    <3>1. k \in 1..N /\ Agrees(w, k)
      BY <1>1, <1>2, <2>1 DEF FrameKept
    <3>2. \A j \in 1..(k - 1) : frames'[j].dead => frames[j].dead
      <4>1. PICK n \in Nat : n = N'
        OBVIOUS
      <4>2. k \in 1..n
        BY <4>1
      <4>3. \A j \in 1..(k - 1) : j \in 1..(n - 1)
        BY <4>2
      <4> QED
        BY <4>1, <4>3 DEF FramesKept
    <3> QED
      BY <2>1, <3>1, <3>2 DEF FrameKept, Agrees, Exit, Otherwise, Start
  <2>2. CASE frames'[k].id[2] \notin 0..(ops - 1)
    <3>1. w.place[1] # frames'[k].id
      BY <1>2, <2>2
    <3>2. /\ w.place # <<frames'[k].id, "end">> /\ w.place # <<frames'[k].id, "else">>
          /\ w.place # <<frames'[k].id, "start">>
      BY <3>1
    <3> QED
      BY <3>1, <3>2 DEF Agrees, Exit, Otherwise, Start
  <2> QED
    BY <2>1, <2>2 DEF FramesKept
<1> QED
  BY <1>3, <1>4

\* The innermost frame is replaced by f.
Replaced(f) ==
  /\ N' = N /\ frames'[N] = f /\ \A k \in 1..N : k # N => frames'[k] = frames[k]
  /\ f.base = Current.base /\ f.id = Current.id /\ f.arity = Current.arity

\* Wasm's frames when the innermost is replaced.
LEMMA ReplacedStacked ==
  ASSUME Typed, Stacked, NEW f \in WasmFrames, Replaced(f), fn' = fn, ops' \in Nat, ops' >= ops,
         live' => /\ \A k \in 1..(N - 1) : ~frames[k].dead
                  /\ ~f.dead /\ rop' = f.base + f.h
  PROVE  Stacked' /\ FramesKept
<1>1. /\ N \in Nat /\ N > 0 /\ N' = N /\ Current = frames[N] /\ ops \in Nat
      /\ \A k \in 1..N : frames[k] \in WasmFrames /\ frames[k].id[2] \in Int
  <2>1. \A k \in 1..N : frames[k] \in WasmFrames
    BY Facts DEF N
  <2>2. \A g \in WasmFrames : g.id[2] \in Int
    BY DEF WasmFrames
  <2>3. N \in Nat /\ N > 0 /\ Current = frames[N]
    BY CurrentFacts
  <2>4. N' = N
    BY DEF Replaced
  <2>5. ops \in Nat
    BY Facts
  <2> QED
    BY <2>1, <2>2, <2>3, <2>4, <2>5
<1>2. /\ frames'[N] = f /\ \A k \in 1..N : k # N => frames'[k] = frames[k]
      /\ f.base = frames[N].base /\ f.id = frames[N].id /\ f.arity = frames[N].arity
  BY <1>1 DEF Replaced
<1>3. \A k \in 1..N : /\ frames'[k].base = frames[k].base /\ frames'[k].id = frames[k].id
                      /\ frames'[k].arity = frames[k].arity
  BY <1>2
<1>4. \A k \in 1..(N - 1) : frames'[k] = frames[k] /\ k \in 1..N
  BY <1>1, <1>2
<1>5. FramesKept
  BY <1>1, <1>3, <1>4 DEF FramesKept, FrameKept
<1>6. frames'[1].arity = FnArity[fn']
  BY <1>1, <1>3 DEF Stacked
<1>7. ASSUME NEW k \in 1..N
      PROVE  /\ Number(k)' < ops'
             /\ k > 1 => /\ frames'[k].base = frames'[k - 1].base + frames'[k - 1].h
                         /\ Number(k)' >= 0
  <2>1. /\ frames[k].id[2] < ops
        /\ k > 1 => /\ frames[k].base = frames[k - 1].base + frames[k - 1].h
                    /\ frames[k].id[2] >= 0
    BY DEF Stacked, Number
  <2>2. frames'[k].id[2] < ops'
    BY <1>1, <1>3, <2>1
  <2>3. CASE k > 1
    <3>1. k - 1 \in 1..(N - 1)
      BY <1>1, <2>3
    <3> QED
      BY <1>3, <1>4, <2>1, <2>2, <2>3, <3>1 DEF Number
  <2> QED
    BY <2>2, <2>3 DEF Number
<1>8. \A j, k \in 1..N : j < k => Number(j)' < Number(k)'
  BY <1>3 DEF Stacked, Number
<1>9. live' => (\A k \in 1..N : ~frames'[k].dead) /\ rop' = frames'[N].base + frames'[N].h
  BY <1>1, <1>2
<1> QED
  BY <1>1, <1>5, <1>6, <1>7, <1>8, <1>9 DEF Stacked

LEMMA FrameTypes ==
  ASSUME Typed
  PROVE  /\ N \in Nat /\ N > 0 /\ ops \in Nat
         /\ \A k \in 1..N : /\ frames[k].id[2] \in Int /\ frames[k].base \in Nat
                            /\ frames[k].h \in Nat /\ frames[k].arity \in 0..1
                            /\ frames[k].dead \in BOOLEAN /\ frames[k] \in WasmFrames
<1>1. \A k \in 1..N : frames[k] \in WasmFrames
  BY Facts DEF N
<1>2. \A g \in WasmFrames : /\ g.id[2] \in Int /\ g.base \in Nat /\ g.h \in Nat /\ g.arity \in 0..1
                           /\ g.dead \in BOOLEAN
  BY DEF WasmFrames
<1>3. N \in Nat /\ N > 0
  BY CurrentFacts
<1>4. ops \in Nat
  BY Facts
<1> QED
  BY <1>1, <1>2, <1>3, <1>4

\* Frame g replaces the innermost one, and f is opened in it.
Opened(g, f, n) ==
  /\ N' = n + 1 /\ frames'[n] = g /\ frames'[n + 1] = f
  /\ \A k \in 1..n : k # n => frames'[k] = frames[k]
  /\ g.base = frames[n].base /\ g.id = frames[n].id /\ g.arity = frames[n].arity
  /\ g.dead = frames[n].dead /\ f.base = g.base + g.h /\ f.h = 0 /\ ~f.dead
  /\ f.id[2] = ops

\* Wasm's frames when another is opened.
LEMMA OpenedStacked ==
  ASSUME Typed, Stacked, NEW n, n = N, NEW g \in WasmFrames, NEW f \in WasmFrames,
         Opened(g, f, n), fn' = fn, ops' = ops + 1, live' = live, live => rop' = f.base
  PROVE  Stacked' /\ FramesKept
<1>1. /\ n \in Nat /\ n > 0 /\ ops \in Nat /\ \A k \in 1..n : frames[k].id[2] \in Int
  BY FrameTypes
<1>2. /\ N' = n + 1 /\ frames'[n] = g /\ frames'[n + 1] = f
      /\ \A k \in 1..n : k # n => frames'[k] = frames[k]
      /\ g.base = frames[n].base /\ g.id = frames[n].id /\ g.arity = frames[n].arity
      /\ g.dead = frames[n].dead /\ f.base = g.base + g.h /\ f.h = 0 /\ ~f.dead
      /\ f.id[2] = ops
  BY DEF Opened
<1>3. \A k \in 1..n : /\ frames'[k].base = frames[k].base /\ frames'[k].id = frames[k].id
                      /\ frames'[k].arity = frames[k].arity
                      /\ frames'[k].dead = frames[k].dead
  BY <1>2
<1>4. \A k \in 1..(n - 1) : frames'[k] = frames[k]
  BY <1>1, <1>2
<1>5. FramesKept
  <2>1. \A k \in 1..(n + 1) : FrameKept(k) \/ (k = n + 1 /\ frames'[k].id[2] \notin 0..(ops - 1))
    <3>1. \A k \in 1..n : FrameKept(k)
      BY <1>1, <1>3 DEF FrameKept
    <3>2. frames'[n + 1].id[2] \notin 0..(ops - 1)
      BY <1>1, <1>2
    <3> QED
      BY <1>1, <3>1, <3>2
  <2>2. \A k \in 1..n : frames'[k].dead => frames[k].dead
    BY <1>1, <1>3
  <2>3. N' - 1 = n
    BY <1>1, <1>2
  <2> QED
    BY <1>2, <2>1, <2>2, <2>3 DEF FramesKept
<1>6. frames'[1].arity = FnArity[fn']
  BY <1>1, <1>3 DEF Stacked
<1>7. \A k \in 1..n : /\ frames[k].id[2] < ops
                      /\ k > 1 => /\ frames[k].base = frames[k - 1].base + frames[k - 1].h
                                  /\ frames[k].id[2] >= 0
  BY DEF Stacked, Number
<1>8. ASSUME NEW k \in 1..(n + 1)
      PROVE  /\ frames'[k].id[2] < ops + 1
             /\ k > 1 => /\ frames'[k].base = frames'[k - 1].base + frames'[k - 1].h
                         /\ frames'[k].id[2] >= 0
  <2>1. CASE k = n + 1
    BY <1>1, <1>2, <2>1
  <2>2. CASE k \in 1..n /\ k > 1
    <3>1. k - 1 \in 1..(n - 1)
      BY <1>1, <2>2
    <3> QED
      BY <1>1, <1>3, <1>4, <1>7, <2>2, <3>1
  <2>3. CASE k = 1
    BY <1>1, <1>3, <1>7, <2>3
  <2> QED
    BY <1>1, <2>1, <2>2, <2>3
<1>9. \A j, k \in 1..(n + 1) : j < k => frames'[j].id[2] < frames'[k].id[2]
  <2>1. \A j, k \in 1..n : j < k => frames[j].id[2] < frames[k].id[2]
    BY DEF Stacked, Number
  <2>2. \A j, k \in 1..n : j < k => frames'[j].id[2] < frames'[k].id[2]
    BY <1>3, <2>1
  <2>3. \A j \in 1..n : frames'[j].id[2] < frames'[n + 1].id[2]
    BY <1>2, <1>3, <1>7
  <2> QED
    BY <1>1, <2>2, <2>3
<1>10. live' => (\A k \in 1..(n + 1) : ~frames'[k].dead) /\ rop' = frames'[n + 1].base + frames'[n + 1].h
  <2>1. live => \A k \in 1..n : ~frames'[k].dead
    BY <1>3 DEF Stacked
  <2>2. frames'[n + 1].base + frames'[n + 1].h = f.base
    BY <1>2 DEF WasmFrames
  <2> QED
    BY <1>1, <1>2, <2>1, <2>2
<1> QED
  BY <1>2, <1>5, <1>6, <1>8, <1>9, <1>10 DEF Stacked, Number

\* The innermost frame ends, and leaves its result to the next one.
Closed(n) ==
  /\ N' = n - 1 /\ \A k \in 1..(n - 2) : frames'[k] = frames[k]
  /\ frames'[n - 1] = [frames[n - 1] EXCEPT !.h = @ + frames[n].arity]

\* Wasm's frames when the innermost is closed.
LEMMA ClosedStacked ==
  ASSUME Typed, Stacked, NEW n, n = N, n > 1, Closed(n), fn' = fn, ops' = ops,
         live' => /\ \A k \in 1..(n - 1) : ~frames[k].dead
                  /\ rop' = frames[n].base + frames[n].arity
  PROVE  Stacked' /\ FramesKept
<1>1. /\ n \in Nat /\ n > 0 /\ ops \in Nat
      /\ \A k \in 1..n : /\ frames[k].id[2] \in Int /\ frames[k].base \in Nat
                         /\ frames[k].h \in Nat /\ frames[k].arity \in 0..1
                         /\ frames[k] \in WasmFrames
  BY FrameTypes
<1> DEFINE g == frames'[n - 1]
<1>2. /\ g.id = frames[n - 1].id /\ g.base = frames[n - 1].base /\ g.arity = frames[n - 1].arity
      /\ g.dead = frames[n - 1].dead /\ g.h = frames[n - 1].h + frames[n].arity
  <2>1. frames[n - 1] \in WasmFrames
    BY <1>1
  <2>2. g = [frames[n - 1] EXCEPT !.h = @ + frames[n].arity]
    BY DEF Closed
  <2> QED
    BY <2>1, <2>2 DEF WasmFrames
<1>3. N' = n - 1 /\ \A k \in 1..(n - 2) : frames'[k] = frames[k]
  BY DEF Closed
<1>4. \A k \in 1..(n - 1) : /\ frames'[k].base = frames[k].base /\ frames'[k].id = frames[k].id
                            /\ frames'[k].arity = frames[k].arity
                            /\ frames'[k].dead = frames[k].dead
  <2>1. \A k \in 1..(n - 1) : k = n - 1 \/ k \in 1..(n - 2)
    BY <1>1
  <2> QED
    BY <1>2, <1>3, <2>1
<1> HIDE DEF g
<1>5. FramesKept
  <2>1. \A k \in 1..(n - 1) : FrameKept(k)
    BY <1>1, <1>4 DEF FrameKept
  <2>2. \A k \in 1..(n - 1 - 1) : frames'[k].dead => frames[k].dead
    BY <1>1, <1>4
  <2> QED
    BY <1>3, <2>1, <2>2 DEF FramesKept
<1>6. frames'[1].arity = FnArity[fn']
  BY <1>1, <1>4 DEF Stacked
<1>7. \A k \in 1..n : /\ frames[k].id[2] < ops
                      /\ k > 1 => /\ frames[k].base = frames[k - 1].base + frames[k - 1].h
                                  /\ frames[k].id[2] >= 0
  BY DEF Stacked, Number
<1>8. ASSUME NEW k \in 1..(n - 1)
      PROVE  /\ frames'[k].id[2] < ops'
             /\ k > 1 => /\ frames'[k].base = frames'[k - 1].base + frames'[k - 1].h
                         /\ frames'[k].id[2] >= 0
  <2>1. CASE k > 1
    <3>1. k - 1 \in 1..(n - 2) /\ k \in 1..n
      BY <1>1, <2>1
    <3> QED
      BY <1>1, <1>3, <1>4, <1>7, <2>1, <3>1
  <2>2. CASE k = 1
    BY <1>1, <1>4, <1>7, <2>2
  <2> QED
    BY <1>1, <2>1, <2>2
<1>9. \A j, k \in 1..(n - 1) : j < k => frames'[j].id[2] < frames'[k].id[2]
  <2>1. \A j, k \in 1..n : j < k => frames[j].id[2] < frames[k].id[2]
    BY DEF Stacked, Number
  <2>2. \A k \in 1..(n - 1) : k \in 1..n
    BY <1>1
  <2> QED
    BY <1>4, <2>1, <2>2
<1>10. live' => (\A k \in 1..(n - 1) : ~frames'[k].dead)
               /\ rop' = frames'[n - 1].base + frames'[n - 1].h
  <2>1. frames[n].base = frames[n - 1].base + frames[n - 1].h
    BY <1>1, <1>7
  <2>2. frames[n].base + frames[n].arity = g.base + g.h
    BY <1>1, <1>2, <2>1
  <2> QED
    BY <1>4, <2>2 DEF g
<1> QED
  BY <1>3, <1>5, <1>6, <1>8, <1>9, <1>10 DEF Stacked, Number

\* Nothing that a branch on its way depends on changes.
Extends(c, c2) ==
  /\ CodeGrows /\ fn' = fn /\ lands \subseteq lands'
  /\ Len(labels') >= Len(labels) /\ \A l \in 1..Len(labels) : labels'[l] = labels[l]
  /\ Len(brs') >= Len(brs) /\ \A b \in 1..Len(brs) : brs'[b] = brs[b]
  /\ \A b \in 1..Len(brs') : b > Len(brs) => brs'[b].at > Len(code)
  /\ N' >= N /\ N' \in Nat /\ Len(brs') \in Nat
  /\ \A k \in 1..N :
       /\ Op(k)' = Op(k) /\ frames'[k].id = frames[k].id /\ frames'[k].base = frames[k].base
       /\ Conditional(k) => Ctl(c2, k)'.patch = Ctl(c, k).patch
       /\ IsBlock(k) => Ctl(c2, k)'.label = Ctl(c, k).label
  /\ \A k \in 1..N' : k > N /\ Conditional(k)' => Ctl(c2, k)'.patch > Len(code)

\* A branch on its way stays on it as code is appended.
LEMMA WayKept ==
  ASSUME NEW c, NEW d, Base(c, d), NEW w \in wanted, Expected(w), Way(c, w),
         NEW c2, Extends(c, c2)
  PROVE  Way(c2, w)'
<1>1. /\ w.at \in 1..Len(code) /\ Len(code) \in Nat /\ N \in Nat /\ Len(brs) \in Nat /\ Typed
  BY Facts, FrameTypes DEF Expected, Base
<1>2. /\ code'[w.at] = code[w.at] /\ lands \subseteq lands' /\ fn' = fn
      /\ \A l \in 1..Len(labels) : labels'[l] = labels[l]
      /\ \A b \in 1..Len(brs) : b \in 1..Len(brs') /\ brs'[b] = brs[b]
      /\ \A k \in 1..N : k \in 1..N'
  BY <1>1 DEF Extends, CodeGrows
<1>3. Landed(w) => Landed(w)'
  BY <1>2 DEF Landed
<1>4. \A k \in 1..N : Exit(k)' = Exit(k) /\ Otherwise(k)' = Otherwise(k) /\ Op(k)' = Op(k)
  BY DEF Extends, Exit, Otherwise
<1>5. CASE IsLinked(w) /\ w.fn = fn
  BY <1>2, <1>3, <1>5 DEF IsLinked, Way
<1>6. CASE IsRegistered(c, w) /\ w.fn = fn
  <2>1. PICK b \in 1..Len(brs) : brs[b].at = w.at /\ Labelled(c, brs[b].label, w)
    BY <1>6 DEF IsRegistered
  <2>2. brs[b].label \in 1..Len(labels) /\ b \in 1..Len(brs') /\ brs'[b] = brs[b]
    BY <1>2 DEF Base, Placeholders
  <2> DEFINE l == brs[b].label
  <2>3. PICK m : m = l
    OBVIOUS
  <2>4. Labelled(c2, m, w)'
    <3>1. CASE \E k \in 1..N : Op(k) = "block" /\ Label(c, k) = m /\ w.place = Exit(k)
      <4>1. PICK k \in 1..N : Op(k) = "block" /\ Label(c, k) = m /\ w.place = Exit(k)
        BY <3>1
      <4>2. Label(c2, k)' = m
        BY <4>1 DEF Extends, Label, IsBlock
      <4> QED
        BY <1>2, <1>4, <4>1, <4>2 DEF Labelled
    <3>2. CASE labels[m] # 0 /\ At(labels[m], w.place, w.h)
      BY <1>2, <2>2, <2>3, <3>2 DEF Labelled, At
    <3> QED
      BY <2>1, <2>3, <3>1, <3>2 DEF Labelled
  <2>5. brs'[b].label = m
    BY <2>2, <2>3
  <2>6. IsRegistered(c2, w)'
    BY <2>1, <2>2, <2>4, <2>5 DEF IsRegistered
  <2> QED
    BY <1>2, <1>6, <2>6 DEF Way
<1>7. CASE IsOpen(c, w) /\ w.fn = fn
  <2>1. PICK k \in 1..N : /\ Conditional(k) /\ w.at = Ctl(c, k).patch
                         /\ w.place = IF Op(k) = "if" THEN Otherwise(k) ELSE Exit(k)
    BY <1>7 DEF IsOpen
  <2>2. Conditional(k)' /\ Ctl(c2, k)'.patch = w.at
    BY <1>4, <2>1 DEF Extends, Conditional
  <2>3. IsOpen(c2, w)'
    BY <1>2, <1>4, <2>1, <2>2 DEF IsOpen
  <2> QED
    BY <1>2, <1>7, <2>3 DEF Way
<1>8. CASE Finished(c, w) /\ w.fn # fn
  <2>1. ASSUME NEW b \in 1..Len(brs') PROVE brs'[b].at # w.at
    <3>1. CASE b \in 1..Len(brs)
      BY <1>2, <1>8, <3>1 DEF Finished
    <3>2. CASE b > Len(brs)
      BY <1>1, <3>2 DEF Extends
    <3> QED
      BY <1>1, <3>1, <3>2
  <2>2. ASSUME NEW k \in 1..N', Conditional(k)' PROVE Ctl(c2, k)'.patch # w.at
    <3>1. CASE k \in 1..N
      <4>1. Conditional(k) /\ Ctl(c2, k)'.patch = Ctl(c, k).patch
        BY <1>4, <2>2, <3>1 DEF Extends, Conditional
      <4> QED
        BY <1>8, <3>1, <4>1 DEF Finished
    <3>2. CASE k > N
      BY <1>1, <2>2, <3>2 DEF Extends
    <3> QED
      BY <1>1, <3>1, <3>2
  <2>3. Finished(c2, w)'
    BY <1>3, <1>8, <2>1, <2>2 DEF Finished
  <2> QED
    BY <1>2, <1>8, <2>3 DEF Way
<1> QED
  BY <1>5, <1>6, <1>7, <1>8 DEF Way

\* So does the label of an open loop.
LEMMA LoopKept ==
  ASSUME NEW c, NEW d, Base(c, d), NEW k \in 1..N, LoopLabel(c, k), NEW c2, Extends(c, c2)
  PROVE  LoopLabel(c2, k)'
<1> SUFFICES ASSUME Op(k)' = "loop"
             PROVE  /\ labels'[Label(c2, k)'] # 0
                    /\ At(labels[Label(c2, k)], Start(k), frames[k].base)'
  BY DEF LoopLabel
<1>1. Op(k) = "loop" /\ IsBlock(k) /\ Start(k)' = Start(k) /\ frames'[k].base = frames[k].base
      /\ lands \subseteq lands'
  BY DEF Extends, IsBlock, Start
<1>2. Label(c2, k)' = Label(c, k)
  BY <1>1 DEF Extends, Label
<1>3. Label(c, k) \in 1..Len(labels)
  BY <1>1 DEF Base, LabelsFilled
<1>4. labels'[Label(c, k)] = labels[Label(c, k)]
  BY <1>3 DEF Extends
<1> QED
  BY <1>1, <1>2, <1>4 DEF LoopLabel, At

\* An interval has as many elements as its image under an injection.
LEMMA CountImage ==
  ASSUME NEW a \in Int, NEW b \in Int, NEW c, \A j, k \in a..b : j # k => c[j] # c[k],
         NEW T, T = {c[k] : k \in a..b}
  PROVE  IsFiniteSet(T) /\ Cardinality(T) = IF a > b THEN 0 ELSE b - a + 1
<1> DEFINE f == [k \in a..b |-> c[k]]
<1>1. f \in Bijection(a..b, T)
  <2>1. f \in [a..b -> T]
    OBVIOUS
  <2>2. \A j, k \in a..b : f[j] = f[k] => j = k
    OBVIOUS
  <2>3. \A t \in T : \E k \in a..b : f[k] = t
    OBVIOUS
  <2> QED
    BY <2>1, <2>2, <2>3, Fun_IsBij
<1>2. ExistsBijection(a..b, T)
  BY <1>1 DEF ExistsBijection
<1>3. IsFiniteSet(a..b) /\ Cardinality(a..b) = IF a > b THEN 0 ELSE b - a + 1
  BY FS_Interval
<1> QED
  BY <1>2, <1>3, FS_Bijection

\* The first n frames have n control elements.
LEMMA CountUpTo ==
  ASSUME NEW n \in Nat, NEW c, \A j, k \in 1..n : j # k => c[j] # c[k],
         NEW T, T = {c[k] : k \in 1..n}
  PROVE  Cardinality(T) = n
<1> DEFINE f == [k \in 1..n |-> c[k]]
<1>1. f \in Bijection(1..n, T)
  <2>1. f \in [1..n -> T]
    OBVIOUS
  <2>2. \A j, k \in 1..n : f[j] = f[k] => j = k
    OBVIOUS
  <2>3. \A t \in T : \E k \in 1..n : f[k] = t
    OBVIOUS
  <2> QED
    BY <2>1, <2>2, <2>3, Fun_IsBij
<1>2. ExistsBijection(1..n, T)
  BY <1>1 DEF ExistsBijection
<1>3. IsFiniteSet(1..n) /\ Cardinality(1..n) = n
  BY FS_Interval
<1>4. Cardinality(1..n) = Cardinality(T)
  BY <1>2, <1>3, FS_Bijection
<1> QED
  BY <1>3, <1>4

\* The control elements are in the order of their frames.
LEMMA Increasing ==
  ASSUME NEW c, NEW d, Base(c, d)
  PROVE  /\ \A j, k \in 1..N : j < k => c[j] < c[k]
         /\ \A j, k \in 1..N : c[j] > c[k] => j > k
         /\ \A k \in 1..N : c[k] \in Nat
<1>1. /\ \A k \in 1..N : c[k] \in Nat /\ d[k] \in Nat /\ d[k] <= c[k]
      /\ N \in Nat
  BY LastControlIs, FrameTypes DEF Base
<1>2. \A j, k \in 1..N : j < k => c[j] < d[k]
  BY DEF Base, Positions
<1>3. \A j, k \in 1..N : j < k => c[j] < c[k]
  BY <1>1, <1>2
<1>4. \A j, k \in 1..N : c[j] > c[k] => j > k
  BY <1>1, <1>3
<1> QED
  BY <1>1, <1>3, <1>4

\* findTargetBlock finds the block Wasm means: no IF or ELSE lies between.
LEMMA TargetIsFound ==
  ASSUME NEW c, NEW d, Base(c, d), NEW n, n = N, NEW depth \in 0..(n - 1),
         NEW t, t = n - depth, ~ThroughIf(depth), Target(depth).op # "func"
  PROVE  /\ Targets(depth) = {c[t]} /\ t \in 1..n /\ t > 1 /\ IsBlock(t)
         /\ Target(depth) = frames[t]
<1>1. /\ n \in Nat /\ n > 0 /\ t \in 1..n /\ Typed /\ Target(depth) = frames[t]
      /\ Len(stack) \in Nat /\ DOMAIN stack = 1..Len(stack)
  <2>1. Typed /\ n \in Nat /\ n > 0
    BY FrameTypes DEF Base
  <2>2. t \in 1..n
    BY <2>1
  <2> QED
    BY <2>1, <2>2, Facts DEF Target, N
<1>2. t > 1
  <2>1. Op(t) # "func"
    BY <1>1 DEF Op
  <2> QED
    BY <1>1, <2>1 DEF Base, Positions
<1>3. \A k \in t..n : k \in 1..n /\ IsBlock(k)
  <2>1. \A k \in t..n : k \in 1..n /\ k # 1
    BY <1>1, <1>2
  <2>2. \A k \in t..n : Op(k) \notin {"if", "else"}
    BY <1>1 DEF ThroughIf, Op, N
  <2>3. \A k \in t..n : Op(k) # "func"
    BY <1>1, <2>1 DEF Base, Positions
  <2>4. \A k \in t..n : Op(k) \in {"func", "if", "else", "block", "loop"}
    BY <1>1, <2>1, OpsAre
  <2> QED
    BY <2>1, <2>2, <2>3, <2>4 DEF IsBlock
<1>4. \A k \in t..n : c[k] \in Blocks
  <2>1. \A k \in t..n : stack[c[k]].el = "BLOCK" /\ c[k] \in 1..Len(stack)
    <3>1. \A k \in 1..n : stack[c[k]].el = Kinds(Op(k)) /\ c[k] \in 1..Len(stack)
      BY DEF Base, Positions, Ctl
    <3> QED
      BY <1>3, <3>1, KindsAre DEF IsBlock
  <2> QED
    BY <1>1, <2>1 DEF Blocks
<1>5. /\ \A j, k \in 1..n : j < k => c[j] < c[k]
      /\ \A j, k \in 1..n : c[j] > c[k] => j > k
      /\ \A k \in 1..n : c[k] \in Nat
  BY Increasing
<1>6. \A i \in Blocks : \E k \in 1..n : i = c[k]
  BY BlocksAreOpen
<1>7. ASSUME NEW k \in t..n
      PROVE  BlocksAbove(c[k]) = n - k
  <2>1. {j \in Blocks : j > c[k]} = {c[j] : j \in (k + 1)..n}
    <3>1. ASSUME NEW i \in Blocks, i > c[k] PROVE i \in {c[j] : j \in (k + 1)..n}
      <4>1. PICK j \in 1..n : i = c[j]
        BY <1>6
      <4>2. j \in (k + 1)..n
        BY <1>1, <1>3, <1>5, <3>1, <4>1
      <4> QED
        BY <4>1, <4>2
    <3>2. ASSUME NEW j \in (k + 1)..n PROVE c[j] \in Blocks /\ c[j] > c[k]
      <4>1. j \in t..n /\ j > k /\ j \in 1..n /\ k \in 1..n
        BY <1>1
      <4> QED
        BY <1>4, <1>5, <4>1
    <3> QED
      BY <3>1, <3>2
  <2>2. \A i, j \in (k + 1)..n : i # j => c[i] # c[j]
    <3>1. \A i \in (k + 1)..n : i \in 1..n
      BY <1>1
    <3>2. \A i, j \in 1..n : i # j => c[i] # c[j]
      BY <1>1, <1>5
    <3> QED
      BY <3>1, <3>2
  <2>3. PICK a, T : a = k + 1 /\ T = {c[j] : j \in (k + 1)..n}
    OBVIOUS
  <2>4. a \in Int /\ n \in Int /\ T = {c[j] : j \in a..n} /\ \A i, j \in a..n : i # j => c[i] # c[j]
    BY <1>1, <2>2, <2>3
  <2>5. Cardinality(T) = IF a > n THEN 0 ELSE n - a + 1
    BY <2>4, CountImage
  <2>6. Cardinality(T) = n - k
    BY <1>1, <2>3, <2>5
  <2> QED
    BY <2>1, <2>3, <2>6 DEF BlocksAbove
<1>8. ASSUME NEW k \in 1..n, k < t, c[k] \in Blocks
      PROVE  BlocksAbove(c[k]) > depth
  <2> DEFINE S == {j \in Blocks : j > c[k]}
             T == {c[j] : j \in t..n}
  <2>1. T \subseteq S
    <3>1. ASSUME NEW j \in t..n PROVE c[j] \in Blocks /\ c[j] > c[k]
      <4>1. j \in 1..n /\ k < j
        BY <1>1, <1>8
      <4> QED
        BY <1>4, <1>5, <4>1
    <3> QED
      BY <3>1
  <2>2. IsFiniteSet(S)
    <3>1. S \subseteq 1..Len(stack)
      BY <1>1 DEF Blocks
    <3>2. PICK l \in Nat : l = Len(stack)
      BY <1>1
    <3>3. IsFiniteSet(1..l)
      BY FS_Interval
    <3> QED
      BY <3>1, <3>2, <3>3, FS_Subset
  <2>3. Cardinality(T) = IF t > n THEN 0 ELSE n - t + 1
    <3>1. \A i, j \in t..n : i # j => c[i] # c[j]
      BY <1>1, <1>3, <1>5
    <3>2. PICK a, X : a = t /\ X = T
      OBVIOUS
    <3>3. /\ a \in Int /\ n \in Int /\ X = {c[j] : j \in a..n}
          /\ \A i, j \in a..n : i # j => c[i] # c[j]
      BY <1>1, <3>1, <3>2
    <3> HIDE DEF S, T
    <3>4. Cardinality(X) = IF a > n THEN 0 ELSE n - a + 1
      BY <3>3, CountImage
    <3> QED
      BY <3>2, <3>4
  <2>4. Cardinality(T) <= Cardinality(S) /\ Cardinality(S) \in Nat
    BY <2>1, <2>2, FS_Subset, FS_CardinalityType
  <2>5. Cardinality(T) = depth + 1
    BY <1>1, <2>3
  <2> HIDE DEF S, T
  <2>6. Cardinality(S) > depth
    BY <1>1, <2>4, <2>5
  <2> QED
    BY <2>6 DEF BlocksAbove, S
<1>9. ASSUME NEW i \in Blocks
      PROVE  BlocksAbove(i) = depth <=> i = c[t]
  <2>1. PICK k \in 1..n : i = c[k]
    BY <1>6
  <2>2. CASE k < t
    <3>1. c[k] < c[t]
      BY <1>1, <1>5, <2>2
    <3>2. c[k] # c[t]
      BY <1>1, <1>5, <3>1
    <3>3. BlocksAbove(i) > depth
      BY <1>8, <2>1, <2>2
    <3> QED
      BY <2>1, <3>2, <3>3
  <2>3. CASE k >= t
    <3>1. BlocksAbove(i) = n - k
      BY <1>1, <1>7, <2>1, <2>3
    <3>2. k # t => c[t] < c[k]
      BY <1>1, <1>5, <2>3
    <3> QED
      BY <1>1, <1>5, <2>1, <3>1, <3>2
  <2> QED
    BY <1>1, <2>2, <2>3
<1> QED
  BY <1>1, <1>2, <1>3, <1>4, <1>9 DEF Targets

\* A branch that is new, and on its way.
Sent(c, w) == Expected(w) /\ (\A k \in 1..N : Agrees(w, k)) /\ Way(c, w)

\* Flow where code, labels and frames are only added.
LEMMA FlowExtended ==
  ASSUME NEW c, NEW d, Base(c, d), Flow(c), NEW c2, Extends(c, c2), FramesKept, Stacked',
         ops' \in Nat, ops' >= ops, Len(code') \in Nat, Len(code') >= Len(code),
         \A w \in wanted' : w \in wanted \/ Sent(c2, w)',
         \A k \in 1..N' : k > N => LoopLabel(c2, k)'
  PROVE  Flow(c2)'
<1>1. Typed /\ Stacked /\ Heights /\ Ways(c) /\ N \in Nat
  BY FrameTypes DEF Base, Flow
<1>2. fn' \in Nat /\ fn' >= fn /\ N' \in Nat
  <2>1. fn \in Nat
    BY <1>1, Facts
  <2>2. fn' = fn /\ N' \in Nat
    BY DEF Extends
  <2> QED
    BY <2>1, <2>2
<1>3. ASSUME NEW w \in wanted PROVE Sent(c2, w)'
  <2>1. Expected(w) /\ Way(c, w)
    BY <1>1 DEF Heights, Ways
  <2>2. Expected(w)' /\ \A k \in 1..N' : Agrees(w, k)'
    BY <1>1, <1>2, HeightsKept
  <2>3. Way(c2, w)'
    BY <2>1, WayKept
  <2> QED
    BY <2>2, <2>3 DEF Sent
<1>4. Heights'
  BY <1>3 DEF Heights, Sent
<1>5. \A k \in 1..N' : LoopLabel(c2, k)'
  <2>1. ASSUME NEW k \in 1..N PROVE LoopLabel(c2, k)'
    <3>1. LoopLabel(c, k)
      BY <1>1 DEF Ways
    <3> QED
      BY <3>1, LoopKept
  <2>2. \A k \in 1..N' : k \in 1..N \/ k > N
    BY <1>1, <1>2
  <2> QED
    BY <2>1, <2>2
<1>6. Ways(c2)'
  BY <1>3, <1>5 DEF Ways, Sent
<1> QED
  BY <1>4, <1>6 DEF Flow

LEMMA StraightExtends ==
  ASSUME NEW c, NEW d, Base(c, d), Straight(c), NEW f, Replaced(f), fn' = fn, lands' = lands
  PROVE  /\ Extends(c, c) /\ Len(code') \in Nat /\ Len(code') >= Len(code) /\ N' = N
         /\ N \in Nat
<1>1. /\ Typed /\ Typed' /\ SameFrames /\ CodeGrows /\ labels' = labels /\ Registers /\ N \in Nat
      /\ Len(brs) \in Nat /\ brs \in Seq(Branches) /\ code' \in Seq(Instructions) /\ N > 0
  BY Facts, FrameTypes DEF Base, Straight, Typed
<1>2. N' = N /\ Current = frames[N]
  BY <1>1, CurrentFacts DEF Replaced
<1>3. \A k \in 1..N : frames'[k].id = frames[k].id /\ frames'[k].base = frames[k].base
  BY <1>2 DEF Replaced
<1>4. /\ Len(brs') >= Len(brs) /\ \A b \in 1..Len(brs) : brs'[b] = brs[b]
      /\ \A b \in 1..Len(brs') : b > Len(brs) => brs'[b].at > Len(code)
      /\ Len(brs') \in Nat
  <2>1. CASE brs' = brs
    BY <1>1, <2>1
  <2>2. ASSUME NEW b \in Branches, brs' = Append(brs, b), b.at > Len(code)
        PROVE  /\ Len(brs') >= Len(brs) /\ \A a \in 1..Len(brs) : brs'[a] = brs[a]
               /\ \A a \in 1..Len(brs') : a > Len(brs) => brs'[a].at > Len(code)
               /\ Len(brs') \in Nat
    BY <1>1, <2>2
  <2> QED
    BY <1>1, <2>1, <2>2 DEF Registers
<1>5. Len(code') \in Nat /\ Len(code') >= Len(code)
  BY <1>1 DEF CodeGrows
<1>6. \A k \in 1..N : /\ Op(k)' = Op(k)
                      /\ Conditional(k) => Ctl(c, k)'.patch = Ctl(c, k).patch
                      /\ IsBlock(k) => Ctl(c, k)'.label = Ctl(c, k).label
  BY ControlsAlike
<1>7. \A k \in 1..N' : ~(k > N)
  BY <1>1, <1>2
<1>8. lands \subseteq lands' /\ Len(labels') >= Len(labels) /\ N' >= N /\ N' \in Nat
      /\ \A l \in 1..Len(labels) : labels'[l] = labels[l]
  <2>1. Len(labels) \in Nat
    BY <1>1, Facts
  <2> QED
    BY <1>1, <1>2, <2>1
<1>9. Extends(c, c)
  BY <1>1, <1>3, <1>4, <1>6, <1>7, <1>8 DEF Extends
<1> QED
  BY <1>1, <1>2, <1>5, <1>9

\* Flow through straight-line code.
LEMMA StraightFlow ==
  ASSUME NEW c, NEW d, Base(c, d), Flow(c), Straight(c), NEW f \in WasmFrames, Replaced(f),
         fn' = fn, lands' = lands, ops' \in Nat, ops' >= ops,
         live' => /\ \A k \in 1..(N - 1) : ~frames[k].dead
                  /\ ~f.dead /\ rop' = f.base + f.h,
         \A w \in wanted' : w \in wanted \/ Sent(c, w)'
  PROVE  Flow(c)'
<1>1. /\ Extends(c, c) /\ Len(code') \in Nat /\ Len(code') >= Len(code) /\ N' = N
      /\ N \in Nat
  BY StraightExtends
<1>2. Stacked' /\ FramesKept
  BY ReplacedStacked DEF Base, Flow
<1>3. \A k \in 1..N' : ~(k > N)
  BY <1>1
<1> QED
  BY <1>1, <1>2, <1>3, FlowExtended

\* Where control can come, no frame is dead.
LEMMA LiveFacts ==
  ASSUME Typed, Stacked, live
  PROVE  /\ \A k \in 1..N : ~frames[k].dead
         /\ ~Current.dead /\ rop = Current.base + Current.h /\ rop = Height
         /\ Has(1) => Without(1) = Current.h - 1 /\ Current.h >= 1
         /\ CanEnd => Current.h = Current.arity
<1>1. Current = frames[N] /\ N \in 1..N
  BY CurrentFacts
<1>2. (\A k \in 1..N : ~frames[k].dead) /\ rop = frames[N].base + frames[N].h
  BY DEF Stacked
<1> QED
  BY <1>1, <1>2 DEF Has, Without, CanEnd, Height

LEMMA ReplacedBy ==
  ASSUME Typed, NEW f \in WasmFrames, frames' = WithCurrent(f), f.base = Current.base,
         f.id = Current.id, f.arity = Current.arity, f.op = Current.op
  PROVE  Replaced(f)
BY ReplaceCurrent DEF Replaced

LEMMA InnerFrame ==
  ASSUME Typed, NEW h \in Nat
  PROVE  /\ \A f : f = [Current EXCEPT !.h = h] =>
                /\ f \in WasmFrames /\ f.base = Current.base /\ f.id = Current.id
                /\ f.arity = Current.arity /\ f.op = Current.op /\ f.h = h
                /\ f.dead = Current.dead /\ f.deadIf = Current.deadIf
         /\ \A f : f = [Current EXCEPT !.h = 0, !.dead = TRUE] =>
                /\ f \in WasmFrames /\ f.base = Current.base /\ f.id = Current.id
                /\ f.arity = Current.arity /\ f.op = Current.op
                /\ f.dead /\ f.h = 0 /\ f.deadIf = Current.deadIf
<1>1. PICK g \in WasmFrames : g = Current
  BY CurrentFacts
<1>2. ASSUME NEW f, f = [g EXCEPT !.h = h]
      PROVE  /\ f \in WasmFrames /\ f.base = g.base /\ f.id = g.id
             /\ f.arity = g.arity /\ f.op = g.op /\ f.h = h /\ f.dead = g.dead
             /\ f.deadIf = g.deadIf
  BY <1>2 DEF WasmFrames
<1>3. ASSUME NEW f, f = [g EXCEPT !.h = 0, !.dead = TRUE]
      PROVE  /\ f \in WasmFrames /\ f.base = g.base /\ f.id = g.id
             /\ f.arity = g.arity /\ f.op = g.op /\ f.dead /\ f.h = 0 /\ f.deadIf = g.deadIf
  BY <1>3 DEF WasmFrames
<1> QED
  BY <1>1, <1>2, <1>3

LEMMA ConstFlow ==
  ASSUME NEW c, NEW d, Base(c, d), Flow(c), Const
  PROVE  Flow(c)'
<1>1. Typed /\ Stacked /\ Straight(c) /\ ops' \in Nat /\ ops' >= ops
  BY ConstStraight, Counting DEF Base, Flow, Const
<1>2. Current.h \in Nat /\ Current.base \in Nat /\ N \in Nat
  BY <1>1, CurrentFacts
<1>3. PICK f : f = [Current EXCEPT !.h = Current.h + 1]
  OBVIOUS
<1>4. /\ f \in WasmFrames /\ f.base = Current.base /\ f.id = Current.id
      /\ f.arity = Current.arity /\ f.op = Current.op /\ f.h = Current.h + 1
      /\ f.dead = Current.dead /\ f.deadIf = Current.deadIf
  <2>1. Current.h + 1 \in Nat
    BY <1>2
  <2> QED
    BY <1>1, <1>3, <2>1, InnerFrame
<1>5. frames' = WithCurrent(f) /\ fn' = fn /\ lands' = lands /\ wanted' = wanted
      /\ live' = live /\ rop' = rop + 1
  BY <1>3 DEF Const
<1>6. Replaced(f)
  BY <1>1, <1>4, <1>5, ReplacedBy
<1>7. live => (\A k \in 1..(N - 1) : ~frames[k].dead) /\ ~f.dead /\ rop' = f.base + f.h
  <2> SUFFICES ASSUME live
               PROVE  (\A k \in 1..(N - 1) : ~frames[k].dead) /\ ~f.dead /\ rop' = f.base + f.h
    OBVIOUS
  <2>1. (\A k \in 1..N : ~frames[k].dead) /\ ~Current.dead /\ rop = Current.base + Current.h
    BY <1>1, LiveFacts
  <2> QED
    BY <1>2, <1>4, <1>5, <2>1
<1> QED
  BY <1>1, <1>4, <1>5, <1>6, <1>7, StraightFlow

LEMMA DropFlow ==
  ASSUME NEW c, NEW d, Base(c, d), Flow(c), Drop, status' # "rejected"
  PROVE  Flow(c)'
<1>1. Typed /\ Stacked /\ Straight(c) /\ ops' \in Nat /\ ops' >= ops
  BY DropStraight, Counting DEF Base, Flow, Drop, Reject
<1>2. Current.h \in Nat /\ Current.base \in Nat /\ N \in Nat /\ Without(1) \in Nat
  BY <1>1, CurrentFacts
<1>3. PICK f : f = [Current EXCEPT !.h = Without(1)]
  OBVIOUS
<1>4. /\ f \in WasmFrames /\ f.base = Current.base /\ f.id = Current.id
      /\ f.arity = Current.arity /\ f.op = Current.op /\ f.h = Without(1)
      /\ f.dead = Current.dead
  BY <1>1, <1>2, <1>3, InnerFrame
<1>5. frames' = WithCurrent(f) /\ fn' = fn /\ lands' = lands /\ wanted' = wanted
      /\ live' = live /\ rop' = rop - 1 /\ Has(1)
  BY <1>3 DEF Drop, Reject
<1>6. Replaced(f)
  BY <1>1, <1>4, <1>5, ReplacedBy
<1>7. live => (\A k \in 1..(N - 1) : ~frames[k].dead) /\ ~f.dead /\ rop' = f.base + f.h
  <2> SUFFICES ASSUME live
               PROVE  (\A k \in 1..(N - 1) : ~frames[k].dead) /\ ~f.dead /\ rop' = f.base + f.h
    OBVIOUS
  <2>1. /\ (\A k \in 1..N : ~frames[k].dead) /\ ~Current.dead /\ rop = Current.base + Current.h
        /\ Without(1) = Current.h - 1
    BY <1>1, <1>5, LiveFacts
  <2> QED
    BY <1>2, <1>4, <1>5, <2>1
<1> QED
  BY <1>1, <1>4, <1>5, <1>6, <1>7, StraightFlow

LEMMA ReturnFlow ==
  ASSUME NEW c, NEW d, Base(c, d), Flow(c), Return, status' # "rejected"
  PROVE  Flow(c)'
<1>1. Typed /\ Stacked /\ Straight(c) /\ ops' \in Nat /\ ops' >= ops
  <2>1. Typed /\ Stacked /\ Straight(c)
    BY ReturnStraight DEF Base, Flow
  <2>2. More /\ ops' = ops + 1
    BY DEF Return, Reject
  <2> QED
    BY <2>1, <2>2, Counting
<1>2. PICK f : f = [Current EXCEPT !.h = 0, !.dead = TRUE]
  OBVIOUS
<1>3. /\ f \in WasmFrames /\ f.base = Current.base /\ f.id = Current.id
      /\ f.arity = Current.arity /\ f.op = Current.op
  BY <1>1, <1>2, InnerFrame
<1>4. frames' = WithCurrent(f) /\ fn' = fn /\ lands' = lands /\ wanted' = wanted
      /\ live' = FALSE
  BY <1>2 DEF Return, Reject
<1>5. Replaced(f)
  BY <1>1, <1>3, <1>4, ReplacedBy
<1> QED
  BY <1>1, <1>3, <1>4, <1>5, StraightFlow

\* A branch that is registered finds the label of the block it leaves for.
LEMMA BranchSent ==
  ASSUME NEW c, NEW d, Base(c, d), Flow(c), Straight(c), live, NEW f, Replaced(f),
         fn' = fn, lands' = lands, ops' \in Nat, ops' >= ops,
         NEW t \in 1..N, t > 1, IsBlock(t),
         NEW w, w.place = Place(frames[t]), w.fn = fn, w.at \in 1..Len(code'),
         w.h = frames[t].base + LabelArity(frames[t]),
         NEW b, b.label = stack[c[t]].label, b.at = w.at, brs' = Append(brs, b)
  PROVE  Sent(c, w)'
<1>1. /\ Typed /\ Stacked /\ Heights /\ Ways(c) /\ N \in Nat /\ N > 0 /\ ops \in Nat
      /\ fn \in Nat /\ brs \in Seq(Branches) /\ labels' = labels
      /\ \A k \in 1..N : /\ frames[k].id[2] \in Int /\ frames[k].base \in Nat
                         /\ frames[k].arity \in 0..1
  BY FrameTypes, Facts DEF Base, Flow, Straight
<1>2. Extends(c, c) /\ N' = N
  BY StraightExtends
<1>3. /\ \A k \in 1..N : /\ frames'[k].id = frames[k].id /\ frames'[k].base = frames[k].base
                         /\ frames'[k].arity = frames[k].arity /\ Op(k)' = Op(k)
      /\ \A k \in 1..(N - 1) : frames'[k] = frames[k]
  <2>1. Current = frames[N]
    BY <1>1, CurrentFacts
  <2>2. \A k \in 1..N : Op(k)' = Op(k)
    BY <1>2 DEF Extends
  <2>3. /\ \A k \in 1..N : k # N => frames'[k] = frames[k]
        /\ frames'[N].id = frames[N].id /\ frames'[N].base = frames[N].base
        /\ frames'[N].arity = frames[N].arity
    BY <2>1 DEF Replaced
  <2>4. \A k \in 1..(N - 1) : k \in 1..N /\ k # N
    BY <1>1
  <2> QED
    BY <2>2, <2>3, <2>4
<1>4. /\ \A k \in 1..N : frames[k].id[2] < ops /\ (k > 1 => frames[k].id[2] >= 0)
      /\ \A j, k \in 1..N : j < k => frames[j].id[2] < frames[k].id[2]
  BY <1>1 DEF Stacked, Number
<1>5. w.place[1] = frames[t].id
  BY DEF Place
<1>6. Expected(w)'
  <2>1. w.place[1][2] \in 0..(ops' - 1)
    BY <1>1, <1>4, <1>5
  <2> QED
    BY <1>1, <2>1 DEF Expected
<1>7. ASSUME NEW k \in 1..N PROVE Agrees(w, k)'
  <2>1. CASE k # t
    <3>1. k < t \/ t < k
      BY <1>1, <2>1
    <3>2. frames[k].id[2] # frames[t].id[2]
      BY <1>1, <1>4, <3>1
    <3>3. frames'[k].id # frames[t].id
      BY <1>3, <3>2
    <3> QED
      BY <1>5, <3>3 DEF Agrees, Exit, Otherwise, Start
  <2>2. CASE k = t
    <3>1. \A j \in 1..(k - 1) : ~frames'[j].dead
      <4>1. \A j \in 1..(k - 1) : j \in 1..(N - 1) /\ j \in 1..N
        BY <1>1
      <4>2. \A j \in 1..N : ~frames[j].dead
        BY <1>1 DEF Stacked
      <4> QED
        BY <1>3, <4>1, <4>2
    <3>2. CASE Op(t) = "loop"
      <4>1. w.place = <<frames[t].id, "start">> /\ w.h = frames[t].base
        BY <1>1, <3>2 DEF Place, LabelArity, Op
      <4> QED
        BY <1>3, <2>2, <3>1, <4>1 DEF Agrees, Exit, Otherwise, Start
    <3>3. CASE Op(t) = "block"
      <4>1. w.place = <<frames[t].id, "end">> /\ w.h = frames[t].base + frames[t].arity
        BY <1>1, <3>3 DEF Place, LabelArity, Op
      <4> QED
        BY <1>3, <2>2, <3>1, <4>1 DEF Agrees, Exit, Otherwise, Start
    <3> QED
      BY <3>2, <3>3 DEF IsBlock
  <2> QED
    BY <2>1, <2>2
<1>8. Labelled(c, b.label, w)'
  <2>1. PICK l : l = b.label
    OBVIOUS
  <2>2. Label(c, t)' = l /\ Label(c, t) = l
    BY <1>2, <2>1 DEF Extends, Label, Ctl
  <2>3. CASE Op(t) = "block"
    <3>1. w.place = Exit(t)'
      BY <1>3, <2>3 DEF Place, Exit, Op
    <3>2. Op(t)' = "block" /\ t \in 1..N'
      BY <1>2, <1>3, <2>3
    <3> QED
      BY <2>1, <2>2, <3>1, <3>2 DEF Labelled
  <2>4. CASE Op(t) = "loop"
    <3>1. LoopLabel(c, t)
      BY <1>1 DEF Ways
    <3>2. labels[l] # 0 /\ At(labels[l], Start(t), frames[t].base)
      BY <2>2, <2>4, <3>1 DEF LoopLabel
    <3>3. w.place = Start(t) /\ w.h = frames[t].base
      BY <1>1, <2>4 DEF Place, LabelArity, Op, Start
    <3>4. labels'[l] # 0 /\ At(labels[l], w.place, w.h)'
      BY <1>1, <3>2, <3>3 DEF At
    <3> QED
      BY <2>1, <3>4 DEF Labelled
  <2> QED
    BY <2>3, <2>4 DEF IsBlock
<1>9. IsRegistered(c, w)'
  <2>1. Len(brs') = Len(brs) + 1 /\ brs'[Len(brs) + 1] = b /\ Len(brs) \in Nat
    BY <1>1
  <2>2. PICK m : m = Len(brs) + 1
    OBVIOUS
  <2>3. m \in 1..Len(brs') /\ brs'[m] = b
    BY <2>1, <2>2
  <2> QED
    BY <1>8, <2>3 DEF IsRegistered
<1> QED
  BY <1>2, <1>6, <1>7, <1>9 DEF Sent, Way

\* Bytecode without the Features.
Plain == Features = {}

\* What Wasm, without the Features, says of a branch.
LEMMA PlainBranch ==
  ASSUME Plain, NEW depth, NEW popped, CanBranch(depth, popped)
  PROVE  /\ ~ThroughIf(depth) /\ Target(depth).op # "func"
         /\ live => Height - popped = Target(depth).base + LabelArity(Target(depth))
         /\ Has(LabelArity(Target(depth)) + popped)
BY DEF Plain, CanBranch

\* The new branch of a BR or BR_IF is registered with its label.
LEMMA BranchesSent ==
  ASSUME NEW c, NEW d, Base(c, d), Flow(c), Straight(c), NEW f, Replaced(f),
         fn' = fn, lands' = lands, ops' \in Nat, ops' >= ops,
         NEW t \in 1..N, t > 1, IsBlock(t), NEW kind, NEW at \in 1..Len(code'), NEW h \in Int,
         brs' = Append(brs, [kind |-> kind, label |-> stack[c[t]].label, at |-> at]),
         live => h = frames[t].base + LabelArity(frames[t]),
         wanted' = Wanting(at, Place(frames[t]), h)
  PROVE  \A w \in wanted' : w \in wanted \/ Sent(c, w)'
<1> SUFFICES ASSUME NEW w \in wanted', w \notin wanted PROVE Sent(c, w)'
  OBVIOUS
<1>1. live /\ w = [at |-> at, place |-> Place(frames[t]), h |-> h, fn |-> fn]
  BY DEF Wanting
<1>2. /\ w.place = Place(frames[t]) /\ w.fn = fn /\ w.at \in 1..Len(code') /\ w.at = at
      /\ w.h = frames[t].base + LabelArity(frames[t])
  BY <1>1
<1>3. PICK b : b = [kind |-> kind, label |-> stack[c[t]].label, at |-> at]
  OBVIOUS
<1>4. b.label = stack[c[t]].label /\ b.at = w.at /\ brs' = Append(brs, b)
  BY <1>2, <1>3
<1> QED
  BY <1>1, <1>2, <1>4, BranchSent

LEMMA BrFlow ==
  ASSUME NEW c, NEW d, Base(c, d), Flow(c), Plain, NEW depth \in 0..(Len(frames) - 1), Br(depth),
         status' # "rejected"
  PROVE  Flow(c)'
<1>1. Typed /\ Stacked
  BY DEF Base, Flow
<1>2. Straight(c) /\ \E i \in Targets(depth) :
        brs' = Append(brs, [kind |-> "b", label |-> stack[i].label, at |-> Len(code')])
  BY BrStraight
<1>3. /\ More /\ CanBranch(depth, 0) /\ ops' = ops + 1 /\ live' = FALSE /\ fn' = fn
      /\ lands' = lands /\ code' = Emit("b") /\ wanted' = Wanting(Here, Place(Target(depth)), rop)
      /\ frames' = WithCurrent([Current EXCEPT !.h = 0, !.dead = TRUE])
  BY DEF Br, Reject
<1>4. ops' \in Nat /\ ops' >= ops
  BY <1>1, <1>3, Counting
<1>5. PICK f : f = [Current EXCEPT !.h = 0, !.dead = TRUE]
  OBVIOUS
<1>6. f \in WasmFrames /\ Replaced(f)
  <2>1. /\ f \in WasmFrames /\ f.base = Current.base /\ f.id = Current.id
        /\ f.arity = Current.arity /\ f.op = Current.op
    BY <1>1, <1>5, InnerFrame
  <2>2. frames' = WithCurrent(f)
    BY <1>3, <1>5
  <2> QED
    BY <1>1, <2>1, <2>2, ReplacedBy
<1>7. PICK n, t : n = N /\ t = n - depth
  OBVIOUS
<1>8. /\ Targets(depth) = {c[t]} /\ t \in 1..N /\ t > 1 /\ IsBlock(t)
      /\ Target(depth) = frames[t]
  <2>1. depth \in 0..(n - 1)
    BY <1>7 DEF N
  <2>2. ~ThroughIf(depth) /\ Target(depth).op # "func"
    BY <1>3, PlainBranch
  <2> QED
    BY <1>7, <2>1, <2>2, TargetIsFound
<1>9. live => rop = frames[t].base + LabelArity(frames[t])
  <2>1. live => Height - 0 = Target(depth).base + LabelArity(Target(depth))
    BY <1>3, PlainBranch
  <2>2. live => rop = Height
    BY <1>1, LiveFacts
  <2>3. Height - 0 = Height
    BY <1>1, IdIsNew
  <2> QED
    BY <1>8, <2>1, <2>2, <2>3
<1>10. /\ Here \in 1..Len(code') /\ rop \in Int
       /\ brs' = Append(brs, [kind |-> "b", label |-> stack[c[t]].label, at |-> Here])
  <2>1. Len(code') = Len(code) + 1 /\ Here = Len(code) + 1 /\ Len(code) \in Nat /\ rop \in Int
    BY <1>1, <1>3, Emitted, Facts DEF InstructionKinds
  <2>2. Here = Len(code') /\ Here \in 1..Len(code')
    BY <2>1
  <2> QED
    BY <1>2, <1>8, <2>1, <2>2
<1>11. wanted' = Wanting(Here, Place(frames[t]), rop)
  BY <1>3, <1>8
<1>12. \A w \in wanted' : w \in wanted \/ Sent(c, w)'
  BY <1>2, <1>3, <1>4, <1>6, <1>8, <1>9, <1>10, <1>11, BranchesSent
<1> QED
  BY <1>2, <1>3, <1>4, <1>6, <1>12, StraightFlow

LEMMA BrIfFlow ==
  ASSUME NEW c, NEW d, Base(c, d), Flow(c), Plain, NEW depth \in 0..(Len(frames) - 1),
         BrIf(depth), status' # "rejected"
  PROVE  Flow(c)'
<1>1. Typed /\ Stacked
  BY DEF Base, Flow
<1>2. Straight(c) /\ \E i \in Targets(depth) :
        brs' = Append(brs, [kind |-> "b.cond", label |-> stack[i].label, at |-> Len(code')])
  BY BrIfStraight
<1>3. /\ More /\ CanBranch(depth, 1) /\ ops' = ops + 1 /\ live' = live /\ fn' = fn
      /\ lands' = lands /\ code' = EmitConditional /\ rop' = rop - 1
      /\ wanted' = Wanting(Here + 1, Place(Target(depth)), rop')
      /\ frames' = WithCurrent([Current EXCEPT !.h = Without(1)])
  BY DEF BrIf, Reject, EmitConditional
<1>4. ops' \in Nat /\ ops' >= ops
  BY <1>1, <1>3, Counting
<1>5. PICK f : f = [Current EXCEPT !.h = Without(1)]
  OBVIOUS
<1>6. f \in WasmFrames /\ Replaced(f) /\ f.h = Without(1) /\ f.dead = Current.dead
      /\ f.base = Current.base
  <2>1. /\ f \in WasmFrames /\ f.base = Current.base /\ f.id = Current.id
        /\ f.arity = Current.arity /\ f.op = Current.op
        /\ f.h = Without(1) /\ f.dead = Current.dead
    <3>1. Without(1) \in Nat
      BY <1>1, CurrentFacts
    <3> QED
      BY <1>1, <1>5, <3>1, InnerFrame
  <2>2. frames' = WithCurrent(f)
    BY <1>3, <1>5
  <2> QED
    BY <1>1, <2>1, <2>2, ReplacedBy
<1>7. PICK n, t : n = N /\ t = n - depth
  OBVIOUS
<1>8. /\ Targets(depth) = {c[t]} /\ t \in 1..N /\ t > 1 /\ IsBlock(t)
      /\ Target(depth) = frames[t]
  <2>1. depth \in 0..(n - 1)
    BY <1>7 DEF N
  <2>2. ~ThroughIf(depth) /\ Target(depth).op # "func"
    BY <1>3, PlainBranch
  <2> QED
    BY <1>7, <2>1, <2>2, TargetIsFound
<1>9. /\ live => rop' = frames[t].base + LabelArity(frames[t])
      /\ live => /\ \A k \in 1..(N - 1) : ~frames[k].dead
                 /\ ~f.dead /\ rop' = f.base + f.h
  <2> SUFFICES ASSUME live
               PROVE  /\ rop' = frames[t].base + LabelArity(frames[t])
                      /\ \A k \in 1..(N - 1) : ~frames[k].dead
                      /\ ~f.dead /\ rop' = f.base + f.h
    OBVIOUS
  <2>1. /\ Height - 1 = Target(depth).base + LabelArity(Target(depth))
        /\ Has(LabelArity(Target(depth)) + 1)
    BY <1>3, PlainBranch
  <2>2. rop = Height /\ (\A k \in 1..N : ~frames[k].dead) /\ ~Current.dead
    BY <1>1, LiveFacts
  <2>3. /\ Current.h \in Nat /\ Current.base \in Nat /\ N \in Nat
        /\ frames[t].arity \in 0..1 /\ frames[t].base \in Nat
    BY <1>1, <1>8, CurrentFacts, FrameTypes
  <2>4. LabelArity(Target(depth)) \in Nat
    BY <1>8, <2>3 DEF LabelArity
  <2>5. Current.h >= 1
    BY <2>1, <2>2, <2>3, <2>4 DEF Has
  <2>6. Without(1) = Current.h - 1
    BY <2>3, <2>5 DEF Without
  <2>7. rop' = Current.base + (Current.h - 1)
    BY <1>3, <2>2, <2>3 DEF Height
  <2>8. rop' = Target(depth).base + LabelArity(Target(depth))
    BY <1>3, <2>1, <2>2
  <2>9. \A k \in 1..(N - 1) : ~frames[k].dead
    BY <2>2, <2>3
  <2> QED
    BY <1>6, <1>8, <2>2, <2>6, <2>7, <2>8, <2>9
<1>10. /\ Here + 1 \in 1..Len(code') /\ rop' \in Int
       /\ brs' = Append(brs, [kind |-> "b.cond", label |-> stack[c[t]].label, at |-> Here + 1])
  <2>1. Len(code') = Len(code) + 2 /\ Here = Len(code) + 1 /\ Len(code) \in Nat /\ rop \in Int
    BY <1>1, <1>3, EmittedTwo, Facts
  <2>2. Here + 1 = Len(code') /\ Here + 1 \in 1..Len(code') /\ rop' \in Int
    BY <1>3, <2>1
  <2> QED
    BY <1>2, <1>8, <2>1, <2>2
<1>11. wanted' = Wanting(Here + 1, Place(frames[t]), rop')
  BY <1>3, <1>8
<1>12. \A w \in wanted' : w \in wanted \/ Sent(c, w)'
  BY <1>2, <1>3, <1>4, <1>6, <1>8, <1>9, <1>10, <1>11, BranchesSent
<1>13. live' => /\ \A k \in 1..(N - 1) : ~frames[k].dead
                /\ ~f.dead /\ rop' = f.base + f.h
  BY <1>3, <1>9
<1> QED
  BY <1>2, <1>3, <1>4, <1>6, <1>12, <1>13, StraightFlow

LEMMA OpenedExtends ==
  ASSUME NEW c, NEW d, Base(c, d), NEW n, n = N, NEW m, Opens(c, m), NEW c2, c2 = Extended(c, m + 1),
         NEW g, NEW f, Opened(g, f, n), CodeGrows, fn' = fn, lands \subseteq lands', brs' = brs,
         Len(labels') >= Len(labels), \A l \in 1..Len(labels) : labels'[l] = labels[l],
         f.op = "if" => stack'[m + 1].patch > Len(code)
  PROVE  Extends(c, c2)
<1>1. /\ n \in Nat /\ n > 0 /\ N' = n + 1 /\ c2[n + 1] = m + 1
      /\ \A k \in 1..n : Op(k)' = Op(k) /\ Ctl(c2, k)' = Ctl(c, k)
      /\ Len(brs) \in Nat
  BY ExtendedFacts, Facts DEF Base
<1>2. \A k \in 1..n : frames'[k].id = frames[k].id /\ frames'[k].base = frames[k].base
  <2>1. /\ \A k \in 1..n : k # n => frames'[k] = frames[k]
        /\ frames'[n].id = frames[n].id /\ frames'[n].base = frames[n].base
    BY DEF Opened
  <2> QED
    BY <2>1
<1>3. ASSUME NEW k \in 1..(n + 1), k > n, Conditional(k)' PROVE Ctl(c2, k)'.patch > Len(code)
  <2>1. k = n + 1 /\ frames'[n + 1] = f
    BY <1>1, <1>3 DEF Opened
  <2>2. f.op \in {"if", "block", "loop"}
    BY <1>1, <2>1, ExtendedFacts
  <2>3. f.op = "if"
    BY <1>3, <2>1, <2>2 DEF Conditional, Op
  <2> QED
    BY <1>1, <2>1, <2>3 DEF Ctl
<1> QED
  BY <1>1, <1>2, <1>3 DEF Extends

\* Flow through BLOCK and LOOP: the loop's label is its first instruction.
LEMMA BlockFlow ==
  ASSUME NEW c, NEW d, Base(c, d), Flow(c), NEW arity \in 0..1, NEW isLoop \in BOOLEAN,
         Block(arity, isLoop), NEW c2, c2 = Extended(c, Len(stack) + 1)
  PROVE  Flow(c2)'
<1>1. PICK n, m, f : /\ n = N /\ m = Len(stack)
                     /\ f = Frame(IF isLoop THEN "loop" ELSE "block", arity, Height, NewId)
  OBVIOUS
<1>2. Typed /\ Stacked /\ N \in 1..N /\ n \in Nat /\ Current = frames[n] /\ Current \in WasmFrames
      /\ Len(labels) \in Nat /\ labels \in Seq(0..Here) /\ ops \in Nat /\ Here = Len(code) + 1
      /\ Len(code) \in Nat
  BY <1>1, CurrentFacts, Facts DEF Base, Flow
<1>3. Opens(c, m) /\ labels' = Append(labels, LabelFor(isLoop)) /\ LabelFor(isLoop) \in 0..Here
  BY <1>1, BlockOpens
<1>4. stack'[m + 1] = BlockElement(arity, Len(labels) + 1, isLoop)
  BY <1>1, BlockOpens
<1>5. frames'[n + 1] = f /\ \A k \in 1..n : frames'[k] = frames[k]
  BY <1>1, BlockOpens
<1>6. /\ code' = code /\ fn' = fn /\ brs' = brs /\ ops' = ops + 1 /\ live' = live
      /\ rop' = rop /\ wanted' = wanted
      /\ lands' = IF isLoop THEN lands \cup Landing(Place(f), Here, Height) ELSE lands
  BY <1>1 DEF Block
<1>7. Height \in Nat /\ Height = Current.base + Current.h
  BY <1>2, IdIsNew DEF Height
<1>8. /\ f \in WasmFrames /\ f.base = Height /\ f.h = 0 /\ ~f.dead /\ f.id = NewId
      /\ f.op = (IF isLoop THEN "loop" ELSE "block") /\ f.id[2] = ops
  <2>1. NewId \in Nat \X Int /\ NewId[2] = ops
    BY <1>2, IdIsNew DEF NewId
  <2> QED
    BY <1>1, <1>7, <2>1 DEF Frame, WasmFrames
<1>9. Opened(Current, f, n)
  <2>1. N' = n + 1
    BY <1>1, <1>3 DEF Opens, N
  <2> QED
    BY <1>1, <1>2, <1>5, <1>7, <1>8, <2>1 DEF Opened
<1>10. live => rop' = f.base
  BY <1>2, <1>6, <1>8, LiveFacts
<1>11. Stacked' /\ FramesKept
  BY <1>1, <1>2, <1>6, <1>8, <1>9, <1>10, OpenedStacked
<1>12. /\ Len(labels') = Len(labels) + 1 /\ \A l \in 1..Len(labels) : labels'[l] = labels[l]
       /\ labels'[Len(labels) + 1] = LabelFor(isLoop)
  BY <1>2, <1>3
<1>13. Extends(c, c2)
  <2>1. CodeGrows
    BY <1>2, <1>6 DEF CodeGrows
  <2>2. lands \subseteq lands'
    BY <1>6
  <2>3. f.op # "if"
    BY <1>8
  <2>4. Len(labels') >= Len(labels)
    BY <1>2, <1>12
  <2> QED
    BY <1>1, <1>3, <1>6, <1>9, <1>12, <2>1, <2>2, <2>3, <2>4, OpenedExtends
<1>14. ASSUME NEW k \in 1..N', k > N PROVE LoopLabel(c2, k)'
  <2>1. k = n + 1 /\ c2[n + 1] = m + 1
    <3>1. N' = n + 1
      BY <1>9 DEF Opened
    <3>2. c2[n + 1] = m + 1
      BY <1>1, <1>3, ExtendedFacts
    <3> QED
      BY <1>1, <1>2, <1>14, <3>1, <3>2
  <2> SUFFICES ASSUME isLoop PROVE LoopLabel(c2, k)'
    BY <1>5, <1>8, <2>1 DEF LoopLabel, Op
  <2>2. Label(c2, k)' = Len(labels) + 1
    BY <1>4, <2>1 DEF Label, Ctl, BlockElement
  <2>3. labels'[Len(labels) + 1] = Here
    BY <1>12 DEF LabelFor
  <2>4. Start(k)' = Place(f) /\ frames'[k].base = Height
    BY <1>5, <1>8, <2>1 DEF Start, Place
  <2>5. PICK x, y, z : x = Here /\ y = Place(f) /\ z = Height
    OBVIOUS
  <2>6. At(x, y, z)'
    <3>1. [place |-> Place(f), at |-> Here, h |-> Height] \in lands'
      BY <1>6 DEF Landing
    <3> QED
      BY <2>5, <3>1 DEF At
  <2>7. labels'[Label(c2, k)'] = x /\ Start(k)' = y /\ frames'[k].base = z /\ x # 0
    BY <1>2, <2>2, <2>3, <2>4, <2>5
  <2>8. At(labels[Label(c2, k)], Start(k), frames[k].base)'
    BY <2>6, <2>7 DEF At
  <2> QED
    BY <2>7, <2>8 DEF LoopLabel
<1>15. \A w \in wanted' : w \in wanted
  BY <1>6
<1>16. ops' \in Nat /\ ops' >= ops /\ Len(code') \in Nat /\ Len(code') >= Len(code)
  BY <1>2, <1>6
<1> QED
  BY <1>11, <1>13, <1>14, <1>15, <1>16, FlowExtended

\* Flow through IF: its branch goes to the ELSE or the END to come.
LEMMA IfFlow ==
  ASSUME NEW c, NEW d, Base(c, d), Flow(c), NEW arity \in 0..1, If(arity), status' # "rejected",
         NEW c2, c2 = Extended(c, Len(stack))
  PROVE  Flow(c2)'
<1>1. PICK n, m, f, g : /\ n = N /\ m = Len(stack) - 1
                        /\ f = Frame("if", arity, Current.base + Without(1), NewId)
                        /\ g = [Current EXCEPT !.h = Without(1)]
  OBVIOUS
<1>2. Typed /\ Stacked /\ N \in 1..N /\ n \in Nat /\ Current = frames[n] /\ Current.base \in Nat
      /\ ops \in Nat /\ Here = Len(code) + 1 /\ Len(code) \in Nat /\ Current.h \in Nat
      /\ Without(1) \in Nat /\ Len(stack) \in Nat /\ fn \in Nat /\ rop \in Int
  BY <1>1, CurrentFacts, Facts DEF Base, Flow
<1>3. m + 1 = Len(stack) /\ c2 = Extended(c, m + 1)
  BY <1>1, <1>2
<1>4. Opens(c, m) /\ CodeGrows /\ labels' = labels /\ brs' = brs
  BY <1>1, IfOpens
<1>5. stack'[m + 1] = IfElement(arity, Len(code) + 2)
  BY <1>3, IfOpens
<1>6. /\ frames'[n + 1] = f
      /\ \A k \in 1..n : frames'[k] = IF k = n THEN g ELSE frames[k]
  BY <1>1, IfOpens
<1>7. Len(code') = Len(code) + 2
  BY IfOpens
<1>8. /\ fn' = fn /\ ops' = ops + 1 /\ live' = live /\ rop' = rop - 1 /\ lands' = lands
      /\ wanted' = Wanting(Here + 1, <<NewId, "else">>, rop') /\ Has(1)
  BY <1>1 DEF If, Reject
<1>9. /\ f \in WasmFrames /\ f.base = Current.base + Without(1) /\ f.h = 0 /\ ~f.dead
      /\ f.id = NewId /\ f.op = "if" /\ f.id[2] = ops
  <2>1. NewId \in Nat \X Int /\ NewId[2] = ops
    BY <1>2, IdIsNew DEF NewId
  <2>2. Current.base + Without(1) \in Nat
    BY <1>2
  <2> QED
    BY <1>1, <2>1, <2>2 DEF Frame, WasmFrames
<1>10. /\ g \in WasmFrames /\ g.base = Current.base /\ g.id = Current.id /\ g.arity = Current.arity
       /\ g.h = Without(1) /\ g.dead = Current.dead
  BY <1>1, <1>2, InnerFrame
<1>11. Opened(g, f, n)
  <2>1. N' = n + 1
    BY <1>1, <1>4 DEF Opens, N
  <2>2. n \in 1..n
    BY <1>1, <1>2
  <2> QED
    BY <1>2, <1>6, <1>9, <1>10, <2>1, <2>2 DEF Opened
<1>12. live => rop' = f.base /\ \A k \in 1..n : ~frames'[k].dead
  <2> SUFFICES ASSUME live PROVE rop' = f.base /\ \A k \in 1..n : ~frames'[k].dead
    OBVIOUS
  <2>1. /\ (\A k \in 1..n : ~frames[k].dead) /\ ~Current.dead
        /\ rop = Current.base + Current.h /\ Without(1) = Current.h - 1
    BY <1>1, <1>2, <1>8, LiveFacts
  <2>2. rop' = f.base
    <3>1. rop' = (Current.base + Current.h) - 1
      BY <1>8, <2>1
    <3>2. f.base = Current.base + (Current.h - 1)
      BY <1>9, <2>1
    <3>3. (Current.base + Current.h) - 1 = Current.base + (Current.h - 1)
      BY <1>2
    <3> QED
      BY <3>1, <3>2, <3>3
  <2>3. ~g.dead
    BY <1>10, <2>1
  <2>4. \A k \in 1..n : ~frames'[k].dead
    BY <1>6, <2>1, <2>3
  <2> QED
    BY <2>2, <2>4
<1>13. Stacked' /\ FramesKept
  BY <1>1, <1>2, <1>8, <1>9, <1>10, <1>11, <1>12, OpenedStacked
<1>14. Extends(c, c2)
  <2>1. f.op = "if" => stack'[m + 1].patch > Len(code)
    BY <1>2, <1>5 DEF IfElement
  <2>2. lands \subseteq lands' /\ Len(labels') >= Len(labels)
        /\ \A l \in 1..Len(labels) : labels'[l] = labels[l]
    BY <1>2, <1>4, <1>8, Facts
  <2> QED
    BY <1>1, <1>3, <1>4, <1>8, <1>11, <2>1, <2>2, OpenedExtends
<1>15. N' = n + 1 /\ c2[n + 1] = m + 1
  BY <1>1, <1>3, <1>4, ExtendedFacts
<1>16. ASSUME NEW k \in 1..N', k > N PROVE LoopLabel(c2, k)'
  <2>1. k = n + 1
    BY <1>1, <1>2, <1>15, <1>16
  <2> QED
    BY <1>6, <1>9, <2>1 DEF LoopLabel, Op
<1>17. ASSUME NEW w \in wanted', w \notin wanted PROVE Sent(c2, w)'
  <2>1. /\ live /\ w.at = Here + 1 /\ w.place = <<NewId, "else">> /\ w.h = rop' /\ w.fn = fn
    BY <1>8, <1>17 DEF Wanting
  <2>2. w.place = <<f.id, "else">> /\ w.place[1] = f.id
    BY <1>9, <2>1
  <2>3. Expected(w)'
    <3>1. w.place[1][2] \in 0..(ops' - 1)
      BY <1>2, <1>8, <1>9, <2>2
    <3>2. w.at \in 1..Len(code') /\ w.fn <= fn'
      BY <1>2, <1>7, <1>8, <2>1
    <3> QED
      BY <3>1, <3>2 DEF Expected
  <2>4. ASSUME NEW k \in 1..(n + 1) PROVE Agrees(w, k)'
    <3>1. CASE k = n + 1
      <4>1. \A j \in 1..(k - 1) : ~frames'[j].dead
        BY <1>2, <1>12, <2>1, <3>1
      <4> QED
        BY <1>6, <1>12, <2>1, <2>2, <3>1, <4>1 DEF Agrees, Exit, Otherwise, Start
    <3>2. CASE k \in 1..n
      <4>1. frames'[k].id = frames[k].id
        BY <1>2, <1>6, <1>10, <3>2
      <4>2. frames[k].id[2] < ops /\ frames[k].id[2] \in Int
        BY <1>1, <1>2, <3>2, FrameTypes DEF Stacked, Number
      <4>3. frames'[k].id # f.id
        BY <1>2, <1>9, <4>1, <4>2
      <4> QED
        BY <2>2, <4>3 DEF Agrees, Exit, Otherwise, Start
    <3> QED
      BY <1>2, <3>1, <3>2
  <2>5. IsOpen(c2, w)'
    <3>1. Op(n + 1)' = "if" /\ Conditional(n + 1)' /\ Otherwise(n + 1)' = <<f.id, "else">>
      BY <1>6, <1>9 DEF Op, Conditional, Otherwise
    <3>2. Ctl(c2, n + 1)'.patch = Len(code) + 2
      BY <1>5, <1>15 DEF Ctl, IfElement
    <3>3. w.at = Len(code) + 2
      BY <1>2, <2>1
    <3>4. n + 1 \in 1..N'
      BY <1>2, <1>15
    <3>5. PICK k : k = n + 1
      OBVIOUS
    <3> QED
      BY <2>2, <3>1, <3>2, <3>3, <3>4, <3>5 DEF IsOpen
  <2> QED
    BY <1>8, <1>15, <2>1, <2>3, <2>4, <2>5 DEF Sent, Way
<1>18. ops' \in Nat /\ ops' >= ops /\ Len(code') \in Nat /\ Len(code') >= Len(code)
  BY <1>2, <1>7, <1>8
<1> QED
  BY <1>13, <1>14, <1>16, <1>17, <1>18, FlowExtended

\* The innermost frame n is settled: what waited for it is linked, or its label
\* filled.  If it stays open it is with a new placeholder.
LandsAt(l, place, h) == \E x \in lands' : x.place = place /\ x.at = l /\ x.h = h
Settles(c, c2, n) ==
  /\ fn' = fn /\ lands \subseteq lands' /\ brs' = brs /\ Len(code') >= Len(code)
  /\ \A i \in 1..Len(code) : (Conditional(n) => i # Ctl(c, n).patch) => code'[i] = code[i]
  /\ \A l \in 1..Len(labels) : (Op(n) = "block" => l # Label(c, n)) => labels'[l] = labels[l]
  /\ \A k \in 1..n : k # n =>
       /\ k \in 1..N' /\ Op(k)' = Op(k) /\ frames'[k].id = frames[k].id
       /\ frames'[k].base = frames[k].base
       /\ Conditional(k) => Ctl(c2, k)'.patch = Ctl(c, k).patch
       /\ IsBlock(k) => Ctl(c2, k)'.label = Ctl(c, k).label
  /\ \A k \in 1..N' : /\ k \in 1..n
                      /\ k = n => Op(n)' = "else" /\ Ctl(c2, n)'.patch > Len(code)
  /\ Op(n) = "block" => /\ labels'[Label(c, n)] # 0
                        /\ LandsAt(labels'[Label(c, n)], Exit(n), frames[n].base + frames[n].arity)
  /\ Conditional(n) => code'[Ctl(c, n).patch].to > Len(code)
  /\ Op(n) = "if" => LandsAt(code'[Ctl(c, n).patch].to, Otherwise(n), frames[n].base)
  /\ Op(n) = "else" => LandsAt(code'[Ctl(c, n).patch].to, Exit(n), frames[n].base + frames[n].arity)

\* Branches to the innermost frame arrive when it is settled.
LEMMA SettledWay ==
  ASSUME NEW c, NEW d, Base(c, d), NEW n, n = N, NEW w \in wanted, Expected(w), Agrees(w, n), Way(c, w),
         NEW c2, Settles(c, c2, n)
  PROVE  Way(c2, w)'
<1>1. /\ w.at \in 1..Len(code) /\ Len(code) \in Nat /\ N \in Nat /\ Len(brs) \in Nat /\ Typed
      /\ n \in 1..n
  BY Facts, FrameTypes, CurrentFacts DEF Expected, Base
<1>2. fn' = fn /\ lands \subseteq lands' /\ brs' = brs
  BY DEF Settles
<1>3. \A i \in 1..Len(code) : code[i].to # i => code'[i] = code[i]
  <2>1. Conditional(n) => code[Ctl(c, n).patch].to = Ctl(c, n).patch
    BY <1>1, OpenPatch
  <2> QED
    BY <2>1 DEF Settles
<1>4. \A k \in 1..n : k # n => /\ k \in 1..N' /\ Exit(k)' = Exit(k) /\ Otherwise(k)' = Otherwise(k)
                               /\ Op(k)' = Op(k)
  BY DEF Settles, Exit, Otherwise
<1>5. CASE IsLinked(w) /\ w.fn = fn
  <2>1. code'[w.at] = code[w.at]
    BY <1>1, <1>3, <1>5 DEF IsLinked
  <2>2. IsLinked(w)'
    BY <1>2, <1>5, <2>1 DEF IsLinked, Landed
  <2> QED
    BY <1>2, <1>5, <2>2 DEF Way
<1>6. CASE IsRegistered(c, w) /\ w.fn = fn
  <2>1. PICK b \in 1..Len(brs) : brs[b].at = w.at /\ Labelled(c, brs[b].label, w)
    BY <1>6 DEF IsRegistered
  <2>2. PICK m : m = brs[b].label
    OBVIOUS
  <2>3. m \in 1..Len(labels)
    BY <2>2 DEF Base, Placeholders
  <2>4. Labelled(c2, m, w)'
    <3>1. ASSUME NEW k \in 1..n, k # n, Op(k) = "block", Label(c, k) = m, w.place = Exit(k)
          PROVE  Labelled(c2, m, w)'
      <4>1. Label(c2, k)' = m
        BY <3>1 DEF Settles, Label, IsBlock
      <4> QED
        BY <1>4, <3>1, <4>1 DEF Labelled
    <3>2. CASE Op(n) = "block" /\ Label(c, n) = m /\ w.place = Exit(n)
      <4>1. labels'[m] # 0 /\ LandsAt(labels'[m], Exit(n), frames[n].base + frames[n].arity)
        BY <3>2 DEF Settles
      <4>2. w.h = frames[n].base + frames[n].arity
        BY <3>2 DEF Agrees
      <4>3. labels'[m] # 0 /\ At(labels[m], w.place, w.h)'
        BY <3>2, <4>1, <4>2 DEF At, LandsAt
      <4> QED
        BY <4>3 DEF Labelled
    <3>3. CASE labels[m] # 0 /\ At(labels[m], w.place, w.h)
      <4>1. Op(n) = "block" => labels[Label(c, n)] = 0
        BY <1>1 DEF Base, LabelsFilled, IsBlock
      <4>2. labels'[m] = labels[m]
        BY <2>3, <3>3, <4>1 DEF Settles
      <4> QED
        BY <1>2, <3>3, <4>2 DEF Labelled, At
    <3> QED
      BY <2>1, <2>2, <3>1, <3>2, <3>3 DEF Labelled
  <2>5. IsRegistered(c2, w)'
    BY <1>2, <2>1, <2>2, <2>4 DEF IsRegistered
  <2> QED
    BY <1>2, <1>6, <2>5 DEF Way
<1>7. CASE IsOpen(c, w) /\ w.fn = fn
  <2>1. PICK k \in 1..n : /\ Conditional(k) /\ w.at = Ctl(c, k).patch
                         /\ w.place = IF Op(k) = "if" THEN Otherwise(k) ELSE Exit(k)
    BY <1>7 DEF IsOpen
  <2>2. CASE k # n
    <3>1. Conditional(k)' /\ Ctl(c2, k)'.patch = w.at
      BY <1>4, <2>1, <2>2 DEF Settles, Conditional
    <3>2. IsOpen(c2, w)'
      BY <1>4, <2>1, <2>2, <3>1 DEF IsOpen
    <3> QED
      BY <1>2, <1>7, <3>2 DEF Way
  <2>3. CASE k = n
    <3>1. PICK to : to = code'[w.at].to
      OBVIOUS
    <3>2. to > Len(code) /\ LandsAt(to, w.place, w.h)
      <4>1. CASE Op(n) = "if"
        <5>1. w.h = frames[n].base
          BY <2>1, <2>3, <4>1 DEF Agrees
        <5> QED
          BY <2>1, <2>3, <3>1, <4>1, <5>1 DEF Settles
      <4>2. CASE Op(n) = "else"
        <5>1. w.h = frames[n].base + frames[n].arity
          BY <2>1, <2>3, <4>2 DEF Agrees
        <5> QED
          BY <2>1, <2>3, <3>1, <4>2, <5>1 DEF Settles
      <4> QED
        BY <2>1, <2>3, <4>1, <4>2 DEF Conditional
    <3>3. Landed(w)' /\ code'[w.at].to # w.at
      BY <1>1, <3>1, <3>2 DEF Landed, LandsAt
    <3> QED
      BY <1>2, <1>7, <3>3 DEF Way, IsLinked
  <2> QED
    BY <2>2, <2>3
<1>8. CASE Finished(c, w) /\ w.fn # fn
  <2>1. code'[w.at] = code[w.at]
    BY <1>1, <1>8 DEF Finished, Settles
  <2>2. ASSUME NEW k \in 1..N', Conditional(k)' PROVE Ctl(c2, k)'.patch # w.at
    <3>1. CASE k = n
      BY <1>1, <3>1 DEF Settles
    <3>2. CASE k # n
      <4>1. k \in 1..n
        BY DEF Settles
      <4>2. Conditional(k) /\ Ctl(c2, k)'.patch = Ctl(c, k).patch
        BY <1>4, <2>2, <3>2, <4>1 DEF Settles, Conditional
      <4> QED
        BY <1>8, <4>1, <4>2 DEF Finished
    <3> QED
      BY <3>1, <3>2
  <2>3. Finished(c2, w)'
    BY <1>2, <1>8, <2>1, <2>2 DEF Finished, Landed
  <2> QED
    BY <1>2, <1>8, <2>3 DEF Way
<1> QED
  BY <1>5, <1>6, <1>7, <1>8 DEF Way

\* Flow where the innermost frame is settled by ELSE or END.
LEMMA FlowSettled ==
  ASSUME NEW c, NEW d, Base(c, d), Flow(c), NEW n, n = N, NEW c2, Settles(c, c2, n),
         FramesKept, Stacked', N' \in Nat,
         ops' \in Nat, ops' >= ops, Len(code') \in Nat,
         \A w \in wanted' : w \in wanted \/ Sent(c2, w)'
  PROVE  Flow(c2)'
<1>1. Typed /\ Stacked /\ Heights /\ Ways(c) /\ n \in 1..n /\ n \in Nat
  BY FrameTypes, CurrentFacts DEF Base, Flow
<1>2. fn' \in Nat /\ fn' >= fn /\ Len(code') >= Len(code)
  BY <1>1, Facts DEF Settles
<1>3. ASSUME NEW w \in wanted PROVE Sent(c2, w)'
  <2>1. Expected(w) /\ Way(c, w) /\ Agrees(w, n)
    BY <1>1 DEF Heights, Ways
  <2>2. Expected(w)' /\ \A k \in 1..N' : Agrees(w, k)'
    BY <1>1, <1>2, HeightsKept
  <2>3. Way(c2, w)'
    BY <2>1, SettledWay
  <2> QED
    BY <2>2, <2>3 DEF Sent
<1>4. Heights'
  BY <1>3 DEF Heights, Sent
<1>5. ASSUME NEW k \in 1..N' PROVE LoopLabel(c2, k)'
  <2>1. k \in 1..n /\ (k = n => Op(n)' = "else")
    BY DEF Settles
  <2> SUFFICES ASSUME Op(k)' = "loop"
               PROVE  /\ labels'[Label(c2, k)'] # 0
                      /\ At(labels[Label(c2, k)], Start(k), frames[k].base)'
    BY DEF LoopLabel
  <2>2. k # n
    BY <2>1
  <2>3. /\ Op(k) = "loop" /\ IsBlock(k) /\ Start(k)' = Start(k) /\ frames'[k].base = frames[k].base
        /\ lands \subseteq lands'
    BY <2>1, <2>2 DEF Settles, IsBlock, Start
  <2>4. Label(c2, k)' = Label(c, k)
    BY <2>1, <2>2, <2>3 DEF Settles, Label
  <2>5. Label(c, k) \in 1..Len(labels) /\ (Op(n) = "block" => Label(c, k) # Label(c, n))
    BY <1>1, <2>1, <2>2, <2>3 DEF Base, LabelsFilled, IsBlock
  <2>6. labels'[Label(c, k)] = labels[Label(c, k)]
    BY <2>5 DEF Settles
  <2>7. LoopLabel(c, k)
    BY <1>1, <2>1 DEF Ways
  <2> QED
    BY <2>3, <2>4, <2>6, <2>7 DEF LoopLabel, At
<1>6. Ways(c2)'
  BY <1>3, <1>5 DEF Ways, Sent
<1> QED
  BY <1>4, <1>6 DEF Flow

\* A place of the innermost frame: what the branches to it have in common.
LEMMA PlaceReached ==
  ASSUME Typed, Stacked, Heights, NEW n, n = N, NEW place, Branching(place) # {},
         place[1] = frames[n].id
  PROVE  /\ \A k \in 1..(n - 1) : ~frames[k].dead
         /\ place = Exit(n) => (CHOOSE w \in Branching(place) : TRUE).h = frames[n].base + frames[n].arity
         /\ place = Otherwise(n) => (CHOOSE w \in Branching(place) : TRUE).h = frames[n].base
<1>1. n \in 1..n
  BY CurrentFacts
<1>2. PICK w : w = CHOOSE x \in Branching(place) : TRUE
  OBVIOUS
<1>3. w \in wanted /\ w.place = place
  BY <1>2 DEF Branching
<1>4. Agrees(w, n)
  BY <1>1, <1>3 DEF Heights
<1> QED
  BY <1>2, <1>3, <1>4 DEF Agrees

\* A new branch to a place of the innermost frame.
LEMMA InnermostSent ==
  ASSUME Typed, Stacked, NEW n, n = N, N' = n, live,
         \A k \in 1..n : /\ frames'[k].id = frames[k].id /\ frames'[k].base = frames[k].base
                        /\ frames'[k].arity = frames[k].arity,
         \A k \in 1..(n - 1) : frames'[k] = frames[k],
         n > 1, fn' = fn, ops' \in Nat, ops' >= ops,
         NEW w, w.place = Exit(n), w.h = frames[n].base + frames[n].arity, w.fn = fn,
         w.at \in 1..Len(code')
  PROVE  Expected(w)' /\ \A k \in 1..N' : Agrees(w, k)'
<1>1. /\ n \in Nat /\ n > 0 /\ ops \in Nat /\ fn \in Nat
      /\ \A k \in 1..n : frames[k].id[2] \in Int
  BY FrameTypes, Facts
<1>2. /\ \A k \in 1..n : frames[k].id[2] < ops /\ (k > 1 => frames[k].id[2] >= 0)
      /\ \A j, k \in 1..n : j < k => frames[j].id[2] < frames[k].id[2]
      /\ \A k \in 1..n : ~frames[k].dead
  BY DEF Stacked, Number
<1>3. w.place = <<frames[n].id, "end">> /\ w.place[1] = frames[n].id
  BY DEF Exit
<1>4. Expected(w)'
  <2>1. w.place[1][2] \in 0..(ops' - 1)
    BY <1>1, <1>2, <1>3
  <2> QED
    BY <1>1, <2>1 DEF Expected
<1>5. ASSUME NEW k \in 1..n PROVE Agrees(w, k)'
  <2>1. CASE k # n
    <3>1. frames'[k].id # frames[n].id
      BY <1>1, <1>2, <2>1
    <3> QED
      BY <1>3, <3>1 DEF Agrees, Exit, Otherwise, Start
  <2>2. CASE k = n
    <3>1. \A j \in 1..(k - 1) : ~frames'[j].dead
      BY <1>1, <1>2, <2>2
    <3>2. frames'[k].id = frames[n].id /\ w.h = frames'[k].base + frames'[k].arity
      BY <2>2
    <3> QED
      BY <1>3, <3>1, <3>2 DEF Agrees, Exit, Otherwise, Start
  <2> QED
    BY <2>1, <2>2
<1> QED
  BY <1>4, <1>5

\* Flow through ELSE: the IF's branch has landed behind the jump.
LEMMA ElseFlow ==
  ASSUME NEW c, NEW d, Base(c, d), Flow(c), Else, status' # "rejected", NEW n, n = N,
         NEW c2, c2 = [c EXCEPT ![n] = Len(stack) + 1]
  PROVE  Flow(c2)'
<1>1. PICK p, f : p = Ctl(c, n).patch /\ f = frames'[n]
  OBVIOUS
<1>2. Typed /\ Stacked /\ Heights /\ n \in 1..n /\ n \in Nat /\ Current = frames[n]
      /\ ops \in Nat /\ Here = Len(code) + 1 /\ Len(code) \in Nat
  BY CurrentFacts, Facts DEF Base, Flow
<1>0. ElseFacts(c, n, p)
  BY <1>1, ElseMoves
<1>3. Typed' /\ Op(n) = "if" /\ N' = n
  BY <1>0 DEF ElseFacts
<1>4. p \in 1..Len(code) /\ code[p].to = p
  BY <1>1, <1>2, <1>3, OpenPatch DEF Conditional
<1>5. /\ f.op = "else" /\ f.arity = frames[n].arity /\ f.h = 0 /\ f.dead = FALSE
      /\ f.base = frames[n].base /\ f.id = frames[n].id
  <2>1. frames'[n].op = "else" /\ frames'[n].arity = frames[n].arity
    BY <1>0 DEF ElseFacts
  <2>2. frames'[n].h = 0 /\ frames'[n].dead = FALSE
    BY <1>0 DEF ElseFacts
  <2>3. frames'[n].base = frames[n].base /\ frames'[n].id = frames[n].id
    BY <1>0 DEF ElseFacts
  <2> QED
    BY <1>1, <2>1, <2>2, <2>3
<1>6. \A k \in 1..n : k # n => frames'[k] = frames[k]
  BY <1>0 DEF ElseFacts
<1>7. /\ Len(stack') = Len(stack) + 1 /\ \A i \in 1..Len(stack) : stack'[i] = stack[i]
  BY <1>0 DEF ElseFacts
<1>8. stack'[Len(stack) + 1].patch = Len(code) + 1
  BY <1>0 DEF ElseFacts
<1>9. GrowsBut(p) /\ Len(code') = Len(code) + 1
  BY <1>0 DEF ElseFacts
<1>10. code'[p].to = Len(code) + 2
  <2>1. IsLinkedBehind(p)
    BY <1>0 DEF ElseFacts
  <2> QED
    BY <2>1 DEF IsLinkedBehind
<1>11. labels' = labels /\ brs' = brs
  BY <1>0 DEF ElseFacts
<1>12. /\ fn' = fn /\ CanEnd /\ Counted
       /\ lands' = lands \cup Landing(<<frames[n].id, "else">>, Here + 1, frames[n].base)
       /\ wanted' = Wanting(Here, <<frames[n].id, "end">>, rop)
       /\ live' = (Branching(<<frames[n].id, "else">>) # {})
       /\ rop' = IF live' THEN (CHOOSE w \in Branching(<<frames[n].id, "else">>) : TRUE).h ELSE rop
  BY <1>2 DEF Else, Reject
<1>13. ops' \in Nat /\ ops' >= ops
  BY <1>2, <1>12, Counting
<1>14. f \in WasmFrames /\ Replaced(f)
  <2>1. frames' \in Seq(WasmFrames) /\ n \in 1..Len(frames')
    BY <1>2, <1>3 DEF Typed, N
  <2> QED
    BY <1>1, <1>2, <1>3, <1>5, <1>6, <2>1 DEF Replaced
<1>15. live' => (\A k \in 1..(N - 1) : ~frames[k].dead) /\ ~f.dead /\ rop' = f.base + f.h
  <2> SUFFICES ASSUME live'
               PROVE  (\A k \in 1..(N - 1) : ~frames[k].dead) /\ ~f.dead /\ rop' = f.base + f.h
    OBVIOUS
  <2>1. PICK place : place = <<frames[n].id, "else">>
    OBVIOUS
  <2>2. Branching(place) # {} /\ place[1] = frames[n].id /\ place = Otherwise(n)
    BY <1>12, <2>1 DEF Otherwise
  <2>3. /\ \A k \in 1..(n - 1) : ~frames[k].dead
        /\ (CHOOSE w \in Branching(place) : TRUE).h = frames[n].base
    BY <1>2, <2>2, PlaceReached
  <2>4. rop' = frames[n].base
    BY <1>12, <2>1, <2>3
  <2>5. frames[n].base \in Nat
    BY <1>2, FrameTypes
  <2> QED
    BY <1>5, <2>3, <2>4, <2>5
<1>16. Stacked' /\ FramesKept
  BY <1>2, <1>12, <1>13, <1>14, <1>15, ReplacedStacked
<1>17. /\ c2[n] = Len(stack) + 1 /\ \A k \in 1..n : k # n => c2[k] = c[k] /\ c[k] \in 1..Len(stack)
  BY <1>2, LastControlIs DEF Base, Positions
<1>18. Settles(c, c2, n)
  <2>1. \A k \in 1..n : k # n => Op(k)' = Op(k) /\ Ctl(c2, k)' = Ctl(c, k)
    BY <1>6, <1>7, <1>17 DEF Op, Ctl
  <2>2. Op(n)' = "else" /\ Ctl(c2, n)'.patch > Len(code)
    BY <1>1, <1>2, <1>5, <1>8, <1>17 DEF Op, Ctl
  <2>3. LandsAt(code'[p].to, Otherwise(n), frames[n].base) /\ code'[p].to > Len(code)
    <3>1. [place |-> Otherwise(n), at |-> Len(code) + 2, h |-> frames[n].base] \in lands'
      BY <1>2, <1>12 DEF Landing, Otherwise
    <3> QED
      BY <1>2, <1>10, <3>1 DEF LandsAt
  <2>4. \A i \in 1..Len(code) : i # p => code'[i] = code[i]
    BY <1>9 DEF GrowsBut
  <2>5. Len(code') >= Len(code) /\ lands \subseteq lands'
    BY <1>2, <1>9, <1>12
  <2> QED
    BY <1>1, <1>3, <1>6, <1>11, <1>12, <2>1, <2>2, <2>3, <2>4, <2>5 DEF Settles, Conditional
<1>19. ASSUME NEW w \in wanted', w \notin wanted PROVE Sent(c2, w)'
  <2>1. live /\ w.at = Here /\ w.place = Exit(n) /\ w.h = rop /\ w.fn = fn
    BY <1>12, <1>19 DEF Wanting, Exit
  <2>2. rop = frames[n].base + frames[n].arity
    BY <1>2, <1>12, <2>1, LiveFacts
  <2>3. n > 1
    BY <1>2, <1>3 DEF Base, Positions
  <2>4. w.at \in 1..Len(code')
    BY <1>2, <1>9, <2>1
  <2>5. \A k \in 1..n : /\ frames'[k].id = frames[k].id /\ frames'[k].base = frames[k].base
                        /\ frames'[k].arity = frames[k].arity
    BY <1>1, <1>5, <1>6
  <2>6. \A k \in 1..(n - 1) : frames'[k] = frames[k]
    BY <1>2, <1>6
  <2>7. Expected(w)' /\ \A k \in 1..N' : Agrees(w, k)'
    BY <1>2, <1>3, <1>12, <1>13, <2>1, <2>2, <2>3, <2>4, <2>5, <2>6, InnermostSent
  <2>8. IsOpen(c2, w)'
    <3>1. Op(n)' = "else" /\ Exit(n)' = Exit(n) /\ Ctl(c2, n)'.patch = Len(code) + 1
      BY <1>1, <1>5, <1>8, <1>17 DEF Op, Ctl, Exit
    <3> QED
      BY <1>2, <1>3, <2>1, <3>1 DEF IsOpen, Conditional
  <2> QED
    BY <1>12, <2>1, <2>7, <2>8 DEF Sent, Way
<1>20. Len(code') \in Nat /\ N' \in Nat
  BY <1>2, <1>3, <1>9
<1> QED
  BY <1>13, <1>16, <1>18, <1>19, <1>20, FlowSettled

\* Flow through END: the branches to the frame's end land, or their label is filled.
LEMMA EndFlow ==
  ASSUME NEW c, NEW d, Base(c, d), Flow(c), End, status' # "rejected", NEW n, n = N,
         NEW c2, c2 = Shortened(c, n)
  PROVE  Flow(c2)'
<1>1. PICK e : e = Ctl(c, n)
  OBVIOUS
<1>2. /\ Typed /\ Stacked /\ Heights /\ n \in 1..n /\ n \in Nat /\ Current = frames[n]
      /\ ops \in Nat /\ Here = Len(code) + 1 /\ Len(code) \in Nat /\ frames[n].base \in Nat
      /\ frames[n].arity \in 0..1 /\ Len(labels) \in Nat
  <2>1. Typed /\ Stacked /\ Heights
    BY DEF Base, Flow
  <2>2. n \in 1..n /\ n \in Nat /\ Current = frames[n]
    BY <2>1, CurrentFacts
  <2> QED
    BY <2>1, <2>2, FrameTypes, Facts
<1>3. EndFacts(d, n, e)
  BY <1>1, EndCuts
<1>4. /\ n > 1 /\ N' = n - 1 /\ (EndsIf(e) \/ EndsElse(e) \/ EndsBlock(e))
      /\ \A k \in 1..(n - 1) : frames'[k].op = frames[k].op
      /\ \A k \in 1..(n - 2) : frames'[k] = frames[k]
      /\ frames'[n - 1] = [frames[n - 1] EXCEPT !.h = @ + frames[n].arity]
  BY <1>3 DEF EndFacts
<1>5. /\ \A i \in 1..(d[n] - 1) : stack'[i] = stack[i]
      /\ brs' = brs /\ Len(code') = Len(code)
  BY <1>3 DEF EndFacts
<1>6. /\ e.el = "BLOCK" <=> IsBlock(n)
      /\ e.el # "BLOCK" <=> Conditional(n)
      /\ e.el = "BLOCK" => (e.loop <=> Op(n) = "loop")
  BY <1>1, <1>4, EndStarts
<1>7. /\ fn' = fn /\ CanEnd /\ ops' = ops /\ wanted' = wanted /\ (Op(n) = "if" => frames[n].arity = 0)
      /\ lands' = lands \cup Landing(Exit(n), Here, frames[n].base + frames[n].arity)
                      \cup (IF Op(n) = "if" THEN Landing(Otherwise(n), Here, frames[n].base) ELSE {})
  BY <1>2, <1>4 DEF End, Reject, Exit, Otherwise, Op
<1>8. PICK skipped : skipped = IF Op(n) = "if" THEN Branching(Otherwise(n)) ELSE {}
  OBVIOUS
<1>9. /\ live' = (live \/ Branching(Exit(n)) # {} \/ skipped # {})
      /\ rop' = IF ~live /\ Branching(Exit(n)) = {} /\ skipped # {}
                  THEN (CHOOSE w \in skipped : TRUE).h ELSE RopAt(Exit(n))
  <2>1. /\ e = stack[LastControl] /\ ~(status' = "rejected") /\ Current.id = frames[n].id
        /\ (Current.op = "if") = (Op(n) = "if")
    BY <1>1, <1>2, LastControlIs DEF Ctl, Op
  <2>2. /\ <<Current.id, "end">> = Exit(n) /\ <<Current.id, "else">> = Otherwise(n)
    BY <2>1 DEF Exit, Otherwise
  <2>3. skipped = IF Current.op = "if" THEN Branching(<<Current.id, "else">>) ELSE {}
    BY <1>8, <2>1, <2>2
  <2>4. /\ live' = (live \/ Branching(<<Current.id, "end">>) # {} \/ skipped # {})
        /\ rop' = IF ~live /\ Branching(<<Current.id, "end">>) = {} /\ skipped # {}
                    THEN (CHOOSE w \in skipped : TRUE).h ELSE RopAt(<<Current.id, "end">>)
    <3> DEFINE x == <<Current.id, "end">>
               y == <<Current.id, "else">>
               s == IF Current.op = "if" THEN Branching(y) ELSE {}
    <3>1. EndsIf(e) \/ EndsElse(e) \/ EndsBlock(e)
      BY <1>4
    <3>2. /\ live' = (live \/ Branching(x) # {} \/ s # {})
          /\ rop' = IF ~live /\ Branching(x) = {} /\ s # {}
                      THEN (CHOOSE w \in s : TRUE).h ELSE RopAt(x)
      BY <2>1, <3>1 DEF End, Reject
    <3>3. skipped = s
      BY <2>3
    <3> HIDE DEF s
    <3> QED
      BY <3>2, <3>3
  <2> QED
    BY <2>2, <2>4
<1>10. live' => (\A k \in 1..(n - 1) : ~frames[k].dead) /\ rop' = frames[n].base + frames[n].arity
  <2>1. CASE live
    <3>1. (\A k \in 1..n : ~frames[k].dead) /\ rop = Current.base + Current.h /\ Current.h = Current.arity
      BY <1>2, <1>7, <2>1, LiveFacts
    <3>2. rop' = rop
      BY <1>9, <2>1 DEF RopAt
    <3> QED
      BY <1>2, <3>1, <3>2
  <2>2. CASE ~live /\ Branching(Exit(n)) # {}
    <3>1. PICK place : place = Exit(n)
      OBVIOUS
    <3>2. place[1] = frames[n].id
      BY <3>1 DEF Exit
    <3>3. /\ \A k \in 1..(n - 1) : ~frames[k].dead
          /\ (CHOOSE w \in Branching(place) : TRUE).h = frames[n].base + frames[n].arity
      BY <1>2, <2>2, <3>1, <3>2, PlaceReached
    <3>4. rop' = (CHOOSE w \in Branching(place) : TRUE).h
      BY <1>9, <2>2, <3>1 DEF RopAt
    <3> QED
      BY <3>3, <3>4
  <2>3. CASE ~live /\ Branching(Exit(n)) = {} /\ skipped # {}
    <3>1. PICK place : place = Otherwise(n)
      OBVIOUS
    <3>2. place[1] = frames[n].id /\ skipped = Branching(place) /\ frames[n].arity = 0
      BY <1>7, <1>8, <2>3, <3>1 DEF Otherwise
    <3>3. /\ \A k \in 1..(n - 1) : ~frames[k].dead
          /\ (CHOOSE w \in Branching(place) : TRUE).h = frames[n].base
      BY <1>2, <2>3, <3>1, <3>2, PlaceReached
    <3>4. rop' = (CHOOSE w \in Branching(place) : TRUE).h
      BY <1>9, <2>3, <3>2
    <3> QED
      BY <1>2, <3>2, <3>3, <3>4
  <2> QED
    BY <1>9, <2>1, <2>2, <2>3
<1>11. Stacked' /\ FramesKept
  <2>1. Closed(n)
    BY <1>4 DEF Closed
  <2> QED
    BY <1>2, <1>4, <1>7, <1>10, <2>1, ClosedStacked
<1>12. \A k \in 1..(n - 1) : /\ Op(k)' = Op(k) /\ frames'[k].id = frames[k].id
                             /\ frames'[k].base = frames[k].base
  <2>1. frames[n - 1] \in WasmFrames
    BY <1>2, <1>4, FrameTypes
  <2>2. frames'[n - 1].id = frames[n - 1].id /\ frames'[n - 1].base = frames[n - 1].base
    BY <1>4, <2>1 DEF WasmFrames
  <2>3. \A k \in 1..(n - 1) : k = n - 1 \/ k \in 1..(n - 2)
    BY <1>2
  <2> QED
    BY <1>4, <2>2, <2>3 DEF Op
<1>13. \A k \in 1..(n - 1) : Ctl(c2, k)' = Ctl(c, k)
  <2>1. \A k \in 1..(n - 1) : c2[k] = c[k]
    BY DEF Shortened
  <2>2. \A k \in 1..(n - 1) : c[k] \in 1..(d[n] - 1)
    <3>1. \A k \in 1..n : c[k] \in 1..Len(stack) /\ d[k] \in 1..Len(stack)
      BY <1>2, LastControlIs
    <3>2. \A j, k \in 1..n : j < k => c[j] < d[k]
      BY DEF Base, Positions
    <3>3. \A k \in 1..(n - 1) : k \in 1..n /\ k < n
      BY <1>2
    <3>4. Len(stack) \in Nat
      BY <1>2, Facts
    <3> QED
      BY <1>2, <3>1, <3>2, <3>3, <3>4
  <2> QED
    BY <1>5, <2>1, <2>2 DEF Ctl
<1>14. Op(n) = "block" =>
         /\ \A l \in 1..Len(labels) : l # Label(c, n) => labels'[l] = labels[l]
         /\ labels'[Label(c, n)] = Here
  <2>1. SUFFICES ASSUME Op(n) = "block"
                 PROVE  /\ \A l \in 1..Len(labels) : l # Label(c, n) => labels'[l] = labels[l]
                        /\ labels'[Label(c, n)] = Here
    OBVIOUS
  <2>2. e.el = "BLOCK" /\ ~e.loop /\ e.label = Label(c, n) /\ Label(c, n) \in 1..Len(labels)
    BY <1>1, <1>2, <1>6, <2>1 DEF IsBlock, Label, Base, LabelsFilled
  <2>3. labels' = [labels EXCEPT ![e.label] = Here] /\ labels \in Seq(0..Here)
    BY <1>2, <1>3, <2>2, Facts DEF EndFacts
  <2> QED
    BY <2>2, <2>3
<1>15. Op(n) # "block" => labels' = labels
  <2>1. SUFFICES ASSUME Op(n) # "block", e.el = "BLOCK" PROVE e.loop
    BY <1>3 DEF EndFacts
  <2> QED
    BY <1>6, <2>1 DEF IsBlock
<1>16. /\ IsBlock(n) => code' = code
       /\ Conditional(n) => /\ GrowsBut(Ctl(c, n).patch)
                            /\ code'[Ctl(c, n).patch].to = Here
  BY <1>1, <1>2, <1>3, <1>6 DEF EndFacts
<1>17. \A i \in 1..Len(code) : (Conditional(n) => i # Ctl(c, n).patch) => code'[i] = code[i]
  BY <1>6, <1>16 DEF GrowsBut
<1>18. LandsAt(Here, Exit(n), frames[n].base + frames[n].arity)
  <2>1. [place |-> Exit(n), at |-> Here, h |-> frames[n].base + frames[n].arity] \in lands'
    BY <1>7 DEF Landing
  <2> QED
    BY <2>1 DEF LandsAt
<1>19. Op(n) = "if" => LandsAt(Here, Otherwise(n), frames[n].base)
  <2>1. Op(n) = "if" => [place |-> Otherwise(n), at |-> Here, h |-> frames[n].base] \in lands'
    BY <1>7 DEF Landing
  <2> QED
    BY <2>1 DEF LandsAt
<1>20. Settles(c, c2, n)
  <2>1. \A k \in 1..n : k # n => k \in 1..(n - 1)
    BY <1>2
  <2>2. \A k \in 1..(n - 1) : k \in 1..n /\ k # n
    BY <1>2
  <2>3. /\ fn' = fn /\ lands \subseteq lands' /\ brs' = brs /\ Len(code') >= Len(code)
    BY <1>2, <1>5, <1>7
  <2>4. \A l \in 1..Len(labels) : (Op(n) = "block" => l # Label(c, n)) => labels'[l] = labels[l]
    BY <1>14, <1>15
  <2>5. \A k \in 1..n : k # n =>
       /\ k \in 1..N' /\ Op(k)' = Op(k) /\ frames'[k].id = frames[k].id
       /\ frames'[k].base = frames[k].base
       /\ Conditional(k) => Ctl(c2, k)'.patch = Ctl(c, k).patch
       /\ IsBlock(k) => Ctl(c2, k)'.label = Ctl(c, k).label
    BY <1>4, <1>12, <1>13, <2>1
  <2>6. \A k \in 1..N' : /\ k \in 1..n
                         /\ k = n => Op(n)' = "else" /\ Ctl(c2, n)'.patch > Len(code)
    BY <1>4, <2>2
  <2>7. Op(n) = "block" => /\ labels'[Label(c, n)] # 0
                          /\ LandsAt(labels'[Label(c, n)], Exit(n), frames[n].base + frames[n].arity)
    BY <1>2, <1>14, <1>18
  <2>8. Conditional(n) => code'[Ctl(c, n).patch].to = Here /\ Here > Len(code)
    BY <1>2, <1>16
  <2> QED
    BY <1>17, <1>18, <1>19, <2>3, <2>4, <2>5, <2>6, <2>7, <2>8 DEF Settles, Conditional
<1>21. Len(code') \in Nat /\ N' \in Nat
  BY <1>2, <1>4, <1>5
<1> QED
  BY <1>2, <1>7, <1>11, <1>20, <1>21, FlowSettled

\* relpatchAllLabels links what is left.
LEMMA AllLanded ==
  ASSUME NEW c, NEW d, Base(c, d), Flow(c), N = 1, FunctionFacts, lands \subseteq lands',
         NEW w \in wanted
  PROVE  Landed(w)'
<1>1. /\ Op(1) = "func" /\ ~Conditional(1) /\ \A k \in 1..N : k = 1
      /\ w.at \in 1..Len(code)
  BY DEF Base, Positions, Conditional, Flow, Heights, Expected
<1>2. ASSUME Landed(w), \A b \in 1..Len(brs) : brs[b].at # w.at PROVE Landed(w)'
  <2>1. code'[w.at] = code[w.at]
    BY <1>1, <1>2 DEF FunctionFacts
  <2> QED
    BY <1>2, <2>1 DEF Landed
<1>3. CASE w.fn = fn /\ IsLinked(w)
  <2>1. \A b \in 1..Len(brs) : code[brs[b].at].to = brs[b].at
    BY DEF Base, Placeholders, Placeholder
  <2> QED
    BY <1>2, <1>3, <2>1 DEF IsLinked
<1>4. CASE w.fn = fn /\ IsRegistered(c, w)
  <2>1. PICK b \in 1..Len(brs) : brs[b].at = w.at /\ Labelled(c, brs[b].label, w)
    BY <1>4 DEF IsRegistered
  <2>2. PICK l : l = labels[brs[b].label]
    OBVIOUS
  <2>3. At(l, w.place, w.h)
    BY <1>1, <2>1, <2>2 DEF Labelled
  <2>4. code'[w.at].to = l
    BY <2>1, <2>2 DEF FunctionFacts
  <2> QED
    BY <2>3, <2>4 DEF At, Landed
<1>5. CASE w.fn = fn /\ IsOpen(c, w)
  BY <1>1, <1>5 DEF IsOpen
<1>6. CASE w.fn # fn /\ Finished(c, w)
  BY <1>2, <1>6 DEF Finished
<1>7. Way(c, w)
  BY DEF Flow, Ways
<1> QED
  BY <1>3, <1>4, <1>5, <1>6, <1>7 DEF Way

\* The next function begins with every earlier branch landed.
LEMMA EndFunctionFlow ==
  ASSUME NEW c, NEW d, Base(c, d), Flow(c), N = 1, NextFunction, lands \subseteq lands',
         status' = "compiling", NEW c2
  PROVE  Flow(c2)'
<1>1. /\ Typed /\ Stacked /\ Heights /\ fn \in Nat /\ fn + 1 \in 1..Len(FnArity) /\ ops \in Nat
      /\ FunctionFacts /\ FnArity[fn + 1] \in 0..1 /\ Len(code) \in Nat
  <2>1. Typed /\ Stacked /\ Heights /\ FunctionFacts /\ fn < Len(FnArity)
    BY DEF Base, Flow, NextFunction
  <2>2. fn \in 1..Len(FnArity) /\ ops \in Nat /\ Len(code) \in Nat
    BY <2>1, Facts
  <2>3. fn + 1 \in 1..Len(FnArity)
    BY <2>1, <2>2
  <2>4. FnArity \in Seq(0..1)
    BY ProgramAssumption
  <2> QED
    BY <2>1, <2>2, <2>3, <2>4
<1>2. PICK f : f = Frame("func", FnArity[fn + 1], 0, <<fn + 1, -1>>)
  OBVIOUS
<1>3. /\ f.op = "func" /\ f.arity = FnArity[fn + 1] /\ f.base = 0 /\ f.h = 0 /\ f.dead = FALSE
      /\ f.id[2] = -1
  BY <1>2 DEF Frame
<1>4. /\ N' = 1 /\ frames'[1] = f /\ fn' = fn + 1 /\ ops' = ops /\ rop' = 0 /\ labels' = <<>>
      /\ brs' = <<>> /\ wanted' = wanted
  <2>1. frames' = <<f>>
    BY <1>2 DEF NextFunction, NewFunction
  <2>2. Len(frames') = 1 /\ frames'[1] = f
    BY <2>1
  <2> QED
    BY <2>2 DEF NextFunction, N
<1>5. \A k \in 1..1 : k = 1
  OBVIOUS
<1>6. Stacked'
  BY <1>1, <1>3, <1>4, <1>5 DEF Stacked, Number
<1>7. FramesKept
  <2>1. \A k \in 1..1 : k = N' /\ frames'[k].id[2] \notin 0..(ops - 1)
    BY <1>1, <1>3, <1>4, <1>5
  <2>2. N' - 1 = 0
    BY <1>4
  <2>3. \A k \in 1..0 : frames'[k].dead => frames[k].dead
    OBVIOUS
  <2> QED
    BY <1>4, <2>1, <2>2, <2>3 DEF FramesKept
<1>8. Len(code') = Len(code) + 1
  BY <1>1 DEF FunctionFacts
<1>9. ASSUME NEW w \in wanted
      PROVE  Expected(w)' /\ (\A k \in 1..N' : Agrees(w, k)') /\ Way(c2, w)'
  <2>1. Expected(w)' /\ (\A k \in 1..N' : Agrees(w, k)')
    <3>1. /\ N' \in Nat /\ fn' \in Nat /\ fn' >= fn /\ ops' \in Nat /\ ops' >= ops
          /\ Len(code') \in Nat /\ Len(code') >= Len(code)
      BY <1>1, <1>4, <1>8
    <3> QED
      BY <1>1, <1>7, <3>1, HeightsKept
  <2>2. w.fn # fn'
    <3>1. w.fn <= fn /\ w.fn \in Nat
      <4>1. w \in Wanted
        BY <1>1, Facts
      <4> QED
        BY <1>1, <4>1 DEF Heights, Expected, Wanted
    <3> QED
      BY <1>1, <1>4, <3>1
  <2>3. Finished(c2, w)'
    <3>1. Landed(w)'
      BY <1>1, AllLanded
    <3>2. Len(brs') = 0 /\ ~Conditional(1)'
      BY <1>3, <1>4 DEF Conditional, Op
    <3> QED
      BY <1>4, <1>5, <3>1, <3>2 DEF Finished
  <2> QED
    BY <2>1, <2>2, <2>3 DEF Way
<1>10. Heights'
  BY <1>4, <1>9 DEF Heights
<1>11. Ways(c2)'
  <2>1. LoopLabel(c2, 1)'
    BY <1>3, <1>4 DEF LoopLabel, Op
  <2> QED
    BY <1>4, <1>5, <1>9, <2>1 DEF Ways
<1> QED
  BY <1>6, <1>10, <1>11 DEF Flow

-----------------------------------------------------------------------------
(* The operands on the validation stack. *)

\* What Operands says of one frame.
Holds(c, d, k) ==
  /\ Above(d, k) - c[k] - 1 >= frames[k].h
  /\ ~frames[k].dead => Above(d, k) - c[k] - 1 = frames[k].h
  /\ Op(k) = "else" /\ ~frames[k].deadIf => c[k] - d[k] - 1 = frames[k].arity

\* Operands, frame by frame.
LEMMA OperandsAre ==
  ASSUME NEW c, NEW d
  PROVE  Operands(c, d) <=> \A k \in 1..N : Holds(c, d, k)
BY DEF Operands, Holds

\* Where the innermost frame's height moves with the stack, Operands stays.
LEMMA StraightOperands ==
  ASSUME NEW c, NEW d, Base(c, d), Operands(c, d), Straight(c), NEW f \in WasmFrames, Replaced(f),
         fn' = fn, lands' = lands, f.deadIf = Current.deadIf,
         f.h = 0 \/ Len(stack') - Len(stack) >= f.h - Current.h,
         ~f.dead => /\ ~Current.dead
                    /\ Len(stack') - Len(stack) = f.h - Current.h
  PROVE  Operands(c, d)'
<1>1. /\ Extends(c, c) /\ Len(code') \in Nat /\ Len(code') >= Len(code) /\ N' = N
      /\ N \in Nat
  BY StraightExtends
<1>2. PICK n : n = N
  OBVIOUS
<1>3. Typed /\ Current = frames[n] /\ n \in 1..n /\ Current.h \in Nat /\ Len(stack) \in Nat
      /\ f.h \in Nat /\ Len(stack') \in Nat
  <2>1. Typed /\ Typed'
    BY DEF Base, Straight
  <2>2. stack' \in Seq(Elements) /\ f.h \in Nat
    BY <2>1 DEF Typed, WasmFrames
  <2> QED
    BY <1>2, <2>1, <2>2, CurrentFacts, Facts
<1>4. c[n] \in 1..Len(stack')
  <2>1. Positions(c, d)'
    BY StraightBase DEF Base
  <2>2. c \in [1..n -> 1..Len(stack')]
    BY <1>1, <1>2, <2>1 DEF Positions
  <2> QED
    BY <1>3, <2>2
<1>5. \A k \in 1..n : k \in Nat /\ c[k] \in Nat /\ d[k] \in Nat
  BY <1>2, <1>3, LastControlIs
<1>6. /\ frames'[n] = f /\ f.arity = frames[n].arity
      /\ \A k \in 1..n : k # n => frames'[k] = frames[k]
      /\ \A k \in 1..n : Op(k)' = Op(k)
  BY <1>1, <1>2, <1>3 DEF Replaced, Extends
<1>7. ASSUME NEW k \in 1..n PROVE Holds(c, d, k)'
  <2>1. Holds(c, d, k)
    BY <1>2, OperandsAre
  <2>2. CASE k # n
    <3>1. Above(d, k)' = d[k + 1] /\ Above(d, k) = d[k + 1]
      BY <1>1, <1>2, <1>5, <2>2 DEF Above
    <3> QED
      BY <1>6, <2>1, <2>2, <3>1 DEF Holds
  <2>3. CASE k = n
    <3>1. Above(d, n)' = Len(stack') + 1 /\ Above(d, n) = Len(stack) + 1
      BY <1>1, <1>2, <1>5, <2>3 DEF Above
    <3>2. Holds(c, d, n)
      BY <2>1, <2>3
    <3>3. ASSUME ~f.dead PROVE Above(d, n)' - c[n] - 1 = f.h
      <4>1. ~frames[n].dead
        BY <1>3, <3>3
      <4>2. (Len(stack) + 1) - c[n] - 1 = frames[n].h
        BY <3>1, <3>2, <4>1 DEF Holds
      <4>3. PICK x, y, z, h, g : /\ x = Len(stack) /\ y = Len(stack') /\ z = c[n]
                                 /\ h = frames[n].h /\ g = f.h
        OBVIOUS
      <4>4. x \in Nat /\ y \in Nat /\ z \in Nat /\ h \in Nat /\ g \in Nat
        BY <1>3, <1>5, <4>3
      <4>5. (x + 1) - z - 1 = h /\ y - x = g - h
        BY <1>3, <3>3, <4>2, <4>3
      <4>6. (y + 1) - z - 1 = g
        BY <4>4, <4>5
      <4> QED
        BY <3>1, <4>3, <4>6
    <3>4. Above(d, n)' - c[n] - 1 >= f.h
      <4>1. PICK x, y, z, h, g : /\ x = Len(stack) /\ y = Len(stack') /\ z = c[n]
                                 /\ h = frames[n].h /\ g = f.h
        OBVIOUS
      <4>2. x \in Nat /\ y \in Nat /\ z \in Nat /\ h \in Nat /\ g \in Nat /\ z <= y
        BY <1>3, <1>4, <1>5, <4>1
      <4>3. (x + 1) - z - 1 >= h /\ (g = 0 \/ y - x >= g - h)
        BY <1>3, <3>1, <3>2, <4>1 DEF Holds
      <4>4. (y + 1) - z - 1 >= g
        BY <4>2, <4>3
      <4> QED
        BY <3>1, <4>1, <4>4
    <3>5. Op(n)' = Op(n)
      BY <1>3, <1>6
    <3>6. Holds(c, d, n)'
      BY <1>3, <1>6, <3>2, <3>3, <3>4, <3>5 DEF Holds
    <3> QED
      BY <2>3, <3>6
  <2> QED
    BY <2>2, <2>3
<1>8. N' = n
  BY <1>1, <1>2
<1> QED
  BY <1>7, <1>8 DEF Operands, Holds

LEMMA ConstOperands ==
  ASSUME NEW c, NEW d, Base(c, d), Operands(c, d), Const
  PROVE  Operands(c, d)'
<1>1. Typed /\ Straight(c)
  BY ConstStraight DEF Base
<1>2. Current.h \in Nat /\ Len(stack) \in Nat /\ stack \in Seq(Elements)
  BY <1>1, CurrentFacts, Facts
<1>3. PICK f : f = [Current EXCEPT !.h = Current.h + 1]
  OBVIOUS
<1>4. /\ f \in WasmFrames /\ f.base = Current.base /\ f.id = Current.id
      /\ f.arity = Current.arity /\ f.op = Current.op /\ f.h = Current.h + 1
      /\ f.dead = Current.dead /\ f.deadIf = Current.deadIf
  <2>1. Current.h + 1 \in Nat
    BY <1>2
  <2> QED
    BY <1>1, <1>3, <2>1, InnerFrame
<1>5. frames' = WithCurrent(f) /\ fn' = fn /\ lands' = lands /\ stack' = Append(stack, Value)
  BY <1>3 DEF Const
<1>6. Replaced(f)
  BY <1>1, <1>4, <1>5, ReplacedBy
<1>7. /\ Len(stack') - Len(stack) = f.h - Current.h
      /\ Len(stack') - Len(stack) >= f.h - Current.h
  <2>1. Len(stack') = Len(stack) + 1
    BY <1>2, <1>5
  <2> QED
    BY <1>2, <1>4, <2>1
<1> QED
  BY <1>1, <1>4, <1>5, <1>6, <1>7, StraightOperands

\* Drop and BrIf pop an operand.
LEMMA PoppingOperands ==
  ASSUME NEW c, NEW d, Base(c, d), Operands(c, d), Straight(c), Has(1), Top = Value,
         frames' = WithCurrent([Current EXCEPT !.h = Without(1)]), fn' = fn, lands' = lands,
         stack' = Below(1)
  PROVE  Operands(c, d)'
<1>1. Typed
  BY DEF Base
<1>2. Current.h \in Nat /\ Len(stack) \in Nat /\ Without(1) \in Nat
  BY <1>1, CurrentFacts, Facts
<1>3. PICK f : f = [Current EXCEPT !.h = Without(1)]
  OBVIOUS
<1>4. /\ f \in WasmFrames /\ f.base = Current.base /\ f.id = Current.id
      /\ f.arity = Current.arity /\ f.op = Current.op /\ f.h = Without(1)
      /\ f.dead = Current.dead /\ f.deadIf = Current.deadIf
  BY <1>1, <1>2, <1>3, InnerFrame
<1>5. frames' = WithCurrent(f)
  BY <1>3
<1>6. Replaced(f)
  BY <1>1, <1>4, <1>5, ReplacedBy
<1>7. /\ ~f.dead => Len(stack') - Len(stack) = f.h - Current.h
      /\ f.h = 0 \/ Len(stack') - Len(stack) >= f.h - Current.h
  <2>1. Len(stack') = Len(stack) - 1
    BY Popping
  <2>2. ~f.dead => Without(1) = Current.h - 1
    BY <1>2, <1>4 DEF Has, Without
  <2>3. f.h = 0 \/ f.h = Current.h - 1
    BY <1>2, <1>4 DEF Without
  <2> QED
    BY <1>2, <1>4, <2>1, <2>2, <2>3
<1> QED
  BY <1>4, <1>6, <1>7, StraightOperands

LEMMA DropOperands ==
  ASSUME NEW c, NEW d, Base(c, d), Operands(c, d), Drop, status' # "rejected"
  PROVE  Operands(c, d)'
<1>1. Straight(c)
  BY DropStraight
<1>2. /\ Has(1) /\ Top = Value /\ frames' = WithCurrent([Current EXCEPT !.h = Without(1)])
      /\ fn' = fn /\ lands' = lands /\ stack' = Below(1)
  BY DEF Drop, Reject
<1> QED
  BY <1>1, <1>2, PoppingOperands

LEMMA BrIfOperands ==
  ASSUME NEW c, NEW d, Base(c, d), Operands(c, d), Plain, NEW depth \in 0..(Len(frames) - 1),
         BrIf(depth), status' # "rejected"
  PROVE  Operands(c, d)'
<1>1. Straight(c)
  BY BrIfStraight
<1>2. /\ CanBranch(depth, 1) /\ Top = Value
      /\ frames' = WithCurrent([Current EXCEPT !.h = Without(1)])
      /\ fn' = fn /\ lands' = lands /\ stack' = Below(1)
  BY DEF BrIf, Reject
<1>3. Has(1)
  <2>1. Has(LabelArity(Target(depth)) + 1)
    BY <1>2 DEF CanBranch
  <2>2. Target(depth) \in WasmFrames /\ Typed
    BY TargetIn DEF Base
  <2>3. LabelArity(Target(depth)) \in Nat
    BY <2>2 DEF LabelArity, WasmFrames
  <2>4. Current.h \in Nat
    BY <2>2, CurrentFacts
  <2> QED
    BY <2>1, <2>3, <2>4 DEF Has
<1> QED
  BY <1>1, <1>2, <1>3, PoppingOperands

\* Br and Return end what control can reach.
LEMMA LeavingOperands ==
  ASSUME NEW c, NEW d, Base(c, d), Operands(c, d), Straight(c), fn' = fn, lands' = lands,
         frames' = WithCurrent([Current EXCEPT !.h = 0, !.dead = TRUE])
  PROVE  Operands(c, d)'
<1>1. PICK f : f = [Current EXCEPT !.h = 0, !.dead = TRUE]
  OBVIOUS
<1>2. Typed /\ Current \in WasmFrames
  BY CurrentFacts DEF Base
<1>3. /\ f \in WasmFrames /\ f.base = Current.base /\ f.id = Current.id
      /\ f.arity = Current.arity /\ f.op = Current.op
      /\ f.dead /\ f.h = 0 /\ f.deadIf = Current.deadIf
  BY <1>1, <1>2, InnerFrame
<1>5. Replaced(f)
  BY <1>1, <1>2, <1>3, ReplacedBy
<1> QED
  BY <1>3, <1>5, StraightOperands

LEMMA BrOperands ==
  ASSUME NEW c, NEW d, Base(c, d), Operands(c, d), NEW depth \in 0..(Len(frames) - 1),
         Br(depth), status' # "rejected"
  PROVE  Operands(c, d)'
<1>1. Straight(c)
  BY BrStraight
<1>2. /\ fn' = fn /\ lands' = lands
      /\ frames' = WithCurrent([Current EXCEPT !.h = 0, !.dead = TRUE])
  BY DEF Br, Reject
<1> QED
  BY <1>1, <1>2, LeavingOperands

LEMMA ReturnOperands ==
  ASSUME NEW c, NEW d, Base(c, d), Operands(c, d), Return, status' # "rejected"
  PROVE  Operands(c, d)'
<1>1. Straight(c)
  BY ReturnStraight
<1>2. /\ fn' = fn /\ lands' = lands
      /\ frames' = WithCurrent([Current EXCEPT !.h = 0, !.dead = TRUE])
  BY DEF Return, Reject
<1> QED
  BY <1>1, <1>2, LeavingOperands

\* The operands where a frame is opened above m elements.
LEMMA OpenedOperands ==
  ASSUME NEW c, NEW d, Base(c, d), Operands(c, d), NEW n, n = N, NEW m, Opens(c, m),
         NEW g \in WasmFrames, NEW f \in WasmFrames, Opened(g, f, n), g.deadIf = frames[n].deadIf,
         NEW c2, c2 = Extended(c, m + 1), NEW d2, d2 = Extended(d, m + 1),
         g.h = 0 \/ Len(stack) - m <= frames[n].h - g.h,
         ~g.dead => Len(stack) - m = frames[n].h - g.h
  PROVE  Operands(c2, d2)'
<1>1. Typed /\ n \in Nat /\ n > 0 /\ n \in 1..n /\ Len(stack) \in Nat
  BY CurrentFacts, Facts DEF Base
<1>2. /\ m \in Nat /\ N' = n + 1 /\ c2[n + 1] = m + 1
      /\ \A k \in 1..n : c2[k] = c[k] /\ c[k] \in 1..m /\ Op(k)' = Op(k)
      /\ frames'[n + 1].op \in {"if", "block", "loop"}
  BY ExtendedFacts
<1>3. d2[n + 1] = m + 1 /\ \A k \in 1..n : d2[k] = d[k]
  BY <1>1 DEF Extended
<1>4. /\ frames'[n] = g /\ frames'[n + 1] = f /\ \A k \in 1..n : k # n => frames'[k] = frames[k]
      /\ g.arity = frames[n].arity /\ g.dead = frames[n].dead /\ f.h = 0 /\ ~f.dead
  BY DEF Opened
<1>5. Len(stack') = m + 1 /\ Op(n + 1)' # "else"
  BY <1>2 DEF Opens, Op
<1>6. ASSUME NEW k \in 1..n, k # n PROVE Holds(c2, d2, k)'
  <2>1. k + 1 \in 1..n /\ k < n /\ k < n + 1
    BY <1>1, <1>6
  <2>2. Above(d2, k)' = d[k + 1] /\ Above(d, k) = d[k + 1]
    BY <1>2, <1>3, <2>1 DEF Above
  <2>3. Holds(c, d, k)
    BY OperandsAre
  <2> QED
    BY <1>2, <1>3, <1>4, <1>6, <2>2, <2>3 DEF Holds
<1>7. Holds(c2, d2, n)'
  <2>1. Above(d2, n)' = m + 1 /\ Above(d, n) = Len(stack) + 1
    BY <1>1, <1>2, <1>3 DEF Above
  <2>2. Holds(c, d, n)
    BY <1>1, OperandsAre
  <2>3. (~g.dead => (m + 1) - c[n] - 1 = g.h) /\ (m + 1) - c[n] - 1 >= g.h
    <3>1. PICK x, z, h, y : x = Len(stack) /\ z = c[n] /\ h = frames[n].h /\ y = g.h
      OBVIOUS
    <3>2. x \in Nat /\ z \in Nat /\ h \in Nat /\ y \in Nat /\ z <= m
      <4>1. frames[n].h \in Nat
        BY <1>1, FrameTypes
      <4>2. g.h \in Nat
        BY DEF WasmFrames
      <4> QED
        BY <1>1, <1>2, <3>1, <4>1, <4>2
    <3>3. /\ (x + 1) - z - 1 >= h /\ (y = 0 \/ x - m <= h - y)
          /\ ~g.dead => (x + 1) - z - 1 = h /\ x - m = h - y
      BY <1>4, <2>1, <2>2, <3>1 DEF Holds
    <3>4. (~g.dead => (m + 1) - z - 1 = y) /\ (m + 1) - z - 1 >= y
      BY <1>2, <3>2, <3>3
    <3> QED
      BY <3>1, <3>4
  <2> QED
    BY <1>1, <1>2, <1>3, <1>4, <2>1, <2>2, <2>3 DEF Holds
<1>8. Holds(c2, d2, n + 1)'
  <2>1. Above(d2, n + 1)' = m + 2
    BY <1>1, <1>2, <1>5 DEF Above
  <2>2. (m + 2) - (m + 1) - 1 = 0
    BY <1>2
  <2> QED
    BY <1>2, <1>4, <1>5, <2>1, <2>2 DEF Holds
<1>9. \A k \in 1..(n + 1) : Holds(c2, d2, k)'
  <2>1. \A k \in 1..(n + 1) : k \in 1..n \/ k = n + 1
    BY <1>1
  <2> QED
    BY <1>6, <1>7, <1>8, <2>1
<1> QED
  BY <1>2, <1>9 DEF Operands, Holds

LEMMA BlockOperands ==
  ASSUME NEW c, NEW d, Base(c, d), Operands(c, d), NEW arity \in 0..1, NEW isLoop \in BOOLEAN,
         Block(arity, isLoop), NEW n, n = N,
         NEW c2, c2 = Extended(c, Len(stack) + 1), NEW d2, d2 = Extended(d, Len(stack) + 1)
  PROVE  Operands(c2, d2)'
<1>1. Typed /\ Len(stack) \in Nat /\ n \in 1..n /\ Current = frames[n] /\ frames[n] \in WasmFrames
  BY CurrentFacts, Facts DEF Base
<1>2. Typed' /\ Opens(c, Len(stack))
  BY BlockOpens
<1>3. /\ frames'[n + 1] = Frame(IF isLoop THEN "loop" ELSE "block", arity, Height, NewId)
      /\ \A k \in 1..n : frames'[k] = frames[k]
  BY BlockOpens
<1>4. PICK f : f = frames'[n + 1]
  OBVIOUS
<1>5. Opened(frames[n], f, n) /\ f \in WasmFrames
  <2>1. /\ f.base = frames[n].base + frames[n].h /\ f.h = 0 /\ ~f.dead /\ f.id[2] = ops
    BY <1>1, <1>3, <1>4 DEF Frame, Height, NewId
  <2>2. N' = n + 1
    BY <1>2 DEF Opens, N
  <2>3. f \in WasmFrames
    <3>1. n + 1 \in 1..Len(frames')
      BY <1>1, <2>2 DEF N
    <3>2. frames' \in Seq(WasmFrames)
      BY <1>2 DEF Typed
    <3> QED
      BY <1>4, <3>1, <3>2
  <2> QED
    BY <1>1, <1>3, <1>4, <2>1, <2>2, <2>3 DEF Opened
<1>7. /\ Len(stack) - Len(stack) = frames[n].h - frames[n].h
      /\ Len(stack) - Len(stack) <= frames[n].h - frames[n].h
  BY <1>1, FrameTypes
<1> QED
  BY <1>1, <1>2, <1>5, <1>7, OpenedOperands

LEMMA IfOperands ==
  ASSUME NEW c, NEW d, Base(c, d), Operands(c, d), NEW arity \in 0..1, If(arity),
         status' # "rejected", NEW n, n = N,
         NEW c2, c2 = Extended(c, Len(stack)), NEW d2, d2 = Extended(d, Len(stack))
  PROVE  Operands(c2, d2)'
<1>1. Typed /\ Len(stack) \in Nat /\ n \in 1..n /\ Current = frames[n] /\ frames[n] \in WasmFrames
      /\ Len(code) \in Nat
  BY CurrentFacts, Facts DEF Base
<1>2. Typed' /\ Opens(c, Len(stack) - 1) /\ CodeGrows
  BY IfOpens
<1>3. /\ frames'[n + 1] = Frame("if", arity, Current.base + Without(1), NewId)
      /\ \A k \in 1..n :
           frames'[k] = IF k = n THEN [Current EXCEPT !.h = Without(1)] ELSE frames[k]
  BY IfOpens
<1>4. PICK f, g, m : /\ f = frames'[n + 1] /\ g = [Current EXCEPT !.h = Without(1)]
                     /\ m = Len(stack) - 1
  OBVIOUS
<1>5. Without(1) \in Nat /\ Current.h \in Nat
  BY <1>1, CurrentFacts
<1>6. /\ g \in WasmFrames /\ g.base = Current.base /\ g.id = Current.id
      /\ g.arity = Current.arity /\ g.h = Without(1) /\ g.dead = Current.dead
      /\ g.deadIf = Current.deadIf
  BY <1>1, <1>4, <1>5, InnerFrame
<1>7. Opened(g, f, n) /\ f \in WasmFrames
  <2>1. /\ f.base = g.base + g.h /\ f.h = 0 /\ ~f.dead /\ f.id[2] = ops
    BY <1>3, <1>4, <1>6 DEF Frame, NewId
  <2>2. N' = n + 1
    BY <1>2 DEF Opens, N
  <2>3. f \in WasmFrames
    <3>1. n + 1 \in 1..Len(frames')
      BY <1>1, <2>2 DEF N
    <3>2. frames' \in Seq(WasmFrames)
      BY <1>2 DEF Typed
    <3> QED
      BY <1>4, <3>1, <3>2
  <2> QED
    BY <1>1, <1>3, <1>4, <1>6, <2>1, <2>2, <2>3 DEF Opened
<1>9. /\ ~g.dead => Len(stack) - m = frames[n].h - g.h
      /\ g.h = 0 \/ Len(stack) - m <= frames[n].h - g.h
  <2>1. Has(1)
    BY DEF If
  <2>2. ~g.dead => g.h = frames[n].h - 1 /\ frames[n].h \in Nat
    BY <1>1, <1>5, <1>6, <2>1 DEF Has, Without
  <2>3. Len(stack) - m = 1
    BY <1>1, <1>4
  <2>4. (g.h = 0 \/ g.h = frames[n].h - 1) /\ frames[n].h \in Nat
    BY <1>1, <1>5, <1>6 DEF Without
  <2> QED
    BY <2>2, <2>3, <2>4
<1>10. Opens(c, m) /\ m + 1 = Len(stack)
  BY <1>1, <1>2, <1>4
<1>11. c2 = Extended(c, m + 1) /\ d2 = Extended(d, m + 1)
  BY <1>10
<1> QED
  BY <1>1, <1>6, <1>7, <1>9, <1>10, <1>11, OpenedOperands

\* The true branch's result stays between the IF and the ELSE.
LEMMA ElseOperands ==
  ASSUME NEW c, NEW d, Base(c, d), Operands(c, d), Else, status' # "rejected", NEW n, n = N,
         NEW c2, c2 = [c EXCEPT ![n] = Len(stack) + 1]
  PROVE  Operands(c2, d)'
<1>1. PICK p : p = Ctl(c, n).patch
  OBVIOUS
<1>2. Typed /\ n \in 1..n /\ n \in Nat /\ Current = frames[n] /\ Len(code) \in Nat
      /\ Len(stack) \in Nat
  BY CurrentFacts, Facts DEF Base
<1>0. ElseFacts(c, n, p)
  BY <1>1, ElseMoves
<1>3. Op(n) = "if" /\ N' = n
  BY <1>0 DEF ElseFacts
<1>4. frames'[n].op = "else" /\ frames'[n].arity = frames[n].arity
  BY <1>0 DEF ElseFacts
<1>5. frames'[n].h = 0 /\ frames'[n].dead = FALSE /\ frames'[n].deadIf = frames[n].dead
  BY <1>0 DEF ElseFacts
<1>6. \A k \in 1..n : k # n => frames'[k] = frames[k]
  BY <1>0 DEF ElseFacts
<1>7. Len(stack') = Len(stack) + 1
  BY <1>0 DEF ElseFacts
<1>9. /\ c2[n] = Len(stack) + 1 /\ \A k \in 1..n : k # n => c2[k] = c[k]
      /\ c[n] \in 1..Len(stack) /\ d[n] = c[n]
  BY <1>2, <1>3, LastControlIs DEF Base, Positions
<1>10. ASSUME NEW k \in 1..n, k # n PROVE Holds(c2, d, k)'
  <2>1. Above(d, k)' = Above(d, k) /\ k < n
    BY <1>2, <1>3, <1>10 DEF Above
  <2>2. Holds(c, d, k)
    BY OperandsAre
  <2> QED
    BY <1>6, <1>9, <1>10, <2>1, <2>2 DEF Holds, Op
<1>11. Holds(c2, d, n)'
  <2>1. Above(d, n)' = Len(stack) + 2 /\ Above(d, n) = Len(stack) + 1
    BY <1>2, <1>3, <1>7 DEF Above
  <2>2. Above(d, n)' - c2[n] - 1 = 0
    BY <1>2, <1>9, <2>1
  <2>3. ASSUME ~frames[n].dead PROVE c2[n] - d[n] - 1 = frames[n].arity
    <3>1. Holds(c, d, n)
      BY <1>2, OperandsAre
    <3>2. frames[n].h = frames[n].arity
      BY <1>2, <2>3 DEF Else, CanEnd
    <3>3. (Len(stack) + 1) - c[n] - 1 = frames[n].h
      BY <2>1, <2>3, <3>1 DEF Holds
    <3> QED
      BY <1>9, <3>2, <3>3
  <2>4. Above(d, n)' - c2[n] - 1 >= 0
    BY <2>2
  <2> QED
    BY <1>4, <1>5, <2>2, <2>3, <2>4 DEF Holds
<1>12. \A k \in 1..n : Holds(c2, d, k)'
  BY <1>10, <1>11
<1> QED
  BY <1>3, <1>12 DEF Operands, Holds

\* The result becomes the outer frame's operand.
LEMMA EndOperands ==
  ASSUME NEW c, NEW d, Base(c, d), Operands(c, d), End, status' # "rejected", NEW n, n = N,
         NEW c2, c2 = Shortened(c, n), NEW d2, d2 = Shortened(d, n)
  PROVE  Operands(c2, d2)'
<1>1. PICK e : e = Ctl(c, n)
  OBVIOUS
<1>2. Typed /\ n \in Nat /\ Len(code) \in Nat /\ d[n] \in 1..Len(stack)
      /\ \A k \in 1..n : c[k] \in 1..Len(stack)
  <2>1. Typed /\ n \in 1..n /\ n \in Nat
    BY CurrentFacts DEF Base
  <2> QED
    BY <2>1, Facts, LastControlIs
<1>3. EndFacts(d, n, e)
  BY <1>1, EndCuts
<1>4. /\ n > 1 /\ N' = n - 1 /\ (EndsIf(e) \/ EndsElse(e) \/ EndsBlock(e))
      /\ \A k \in 1..(n - 1) : /\ frames'[k].op = frames[k].op
                               /\ frames'[k].arity = frames[k].arity
      /\ \A k \in 1..(n - 2) : frames'[k] = frames[k]
      /\ frames'[n - 1] = [frames[n - 1] EXCEPT !.h = @ + frames[n].arity]
  BY <1>3 DEF EndFacts
<1>5. Len(stack') = (d[n] - 1) + e.arity
  BY <1>3 DEF EndFacts
<1>6. e.arity = frames[n].arity
  BY <1>1, <1>4, EndStarts
<1>8. \A k \in 1..(n - 1) : c2[k] = c[k] /\ d2[k] = d[k] /\ k \in 1..n
  BY <1>2 DEF Shortened
<1>9. ASSUME NEW k \in 1..(n - 2) PROVE Holds(c2, d2, k)'
  <2>1. k \in 1..(n - 1) /\ k + 1 \in 1..(n - 1) /\ k < n - 1 /\ k < n
    BY <1>2
  <2>2. Above(d2, k)' = d[k + 1] /\ Above(d, k) = d[k + 1]
    BY <1>4, <1>8, <2>1 DEF Above
  <2>3. Holds(c, d, k)
    BY <1>8, <2>1, OperandsAre
  <2> QED
    BY <1>4, <1>8, <2>1, <2>2, <2>3 DEF Holds, Op
<1>10. Holds(c2, d2, n - 1)'
  <2>1. n - 1 \in 1..(n - 1) /\ n - 1 \in 1..n
    BY <1>2, <1>4
  <2>2. Above(d2, n - 1)' = Len(stack') + 1 /\ Above(d, n - 1) = d[n]
    BY <1>2, <1>4 DEF Above
  <2>3. Holds(c, d, n - 1)
    BY <2>1, OperandsAre
  <2>4. PICK h, a, z, y : /\ h = frames[n - 1].h /\ a = frames[n].arity /\ z = c[n - 1]
                          /\ y = d[n]
    OBVIOUS
  <2>5. h \in Nat /\ a \in Nat /\ z \in Nat /\ y \in Nat
    <3>1. n \in 1..n
      BY <1>2, <1>4
    <3>2. frames[n - 1].h \in Nat /\ frames[n].arity \in 0..1
      BY <1>2, <2>1, <3>1, FrameTypes
    <3> QED
      BY <1>2, <2>1, <2>4, <3>2
  <2>6. /\ frames'[n - 1].h = h + a /\ frames'[n - 1].dead = frames[n - 1].dead
        /\ frames'[n - 1].deadIf = frames[n - 1].deadIf
    <3>1. frames[n - 1] \in WasmFrames
      BY <1>2, <2>1, FrameTypes
    <3> QED
      BY <1>4, <2>4, <3>1 DEF WasmFrames
  <2>7. /\ ~frames[n - 1].dead => (Len(stack') + 1) - z - 1 = h + a
        /\ (Len(stack') + 1) - z - 1 >= h + a
    <3>1. y - z - 1 >= h /\ (~frames[n - 1].dead => y - z - 1 = h)
      BY <2>2, <2>3, <2>4 DEF Holds
    <3>2. Len(stack') = (y - 1) + a
      BY <1>5, <1>6, <2>4
    <3> QED
      BY <2>5, <3>1, <3>2
  <2>8. c2[n - 1] = z /\ d2[n - 1] = d[n - 1]
    BY <1>8, <2>1, <2>4
  <2>9. frames'[n - 1].op = frames[n - 1].op /\ frames'[n - 1].arity = frames[n - 1].arity
    BY <1>4, <2>1
  <2>10. Op(n - 1)' = "else" /\ ~frames'[n - 1].deadIf
           => c2[n - 1] - d2[n - 1] - 1 = frames'[n - 1].arity
    BY <2>3, <2>4, <2>6, <2>8, <2>9 DEF Holds, Op
  <2>11. /\ ~frames'[n - 1].dead => Above(d2, n - 1)' - c2[n - 1] - 1 = frames'[n - 1].h
         /\ Above(d2, n - 1)' - c2[n - 1] - 1 >= frames'[n - 1].h
    BY <2>2, <2>6, <2>7, <2>8
  <2> QED
    BY <1>4, <2>10, <2>11 DEF Holds
<1>11. \A k \in 1..(n - 1) : Holds(c2, d2, k)'
  <2>1. \A k \in 1..(n - 1) : k \in 1..(n - 2) \/ k = n - 1
    BY <1>2
  <2> QED
    BY <1>9, <1>10, <2>1
<1> QED
  BY <1>4, <1>11 DEF Operands, Holds

\* The next function begins without operands of its own.
LEMMA EndFunctionOperands ==
  ASSUME NextFunction, status' = "compiling",
         NEW m, m = Len(stack'), NEW c2, c2 = [k \in 1..1 |-> m]
  PROVE  Operands(c2, c2)'
<1>1. PICK f : f = Frame("func", FnArity[fn + 1], 0, <<fn + 1, -1>>)
  OBVIOUS
<1>2. f.op = "func" /\ f.h = 0 /\ f.dead = FALSE
  BY <1>1 DEF Frame
<1>3. frames' = <<f>>
  BY <1>1 DEF NextFunction, NewFunction
<1>4. N' = 1 /\ frames'[1] = f
  BY <1>3 DEF N
<1>5. m \in Nat /\ c2[1] = m
  BY DEF NextFunction
<1>6. Above(c2, 1)' = m + 1
  BY <1>4, <1>5 DEF Above
<1>7. (m + 1) - m - 1 = 0 /\ (m + 1) - m - 1 >= 0
  BY <1>5
<1>8. Holds(c2, c2, 1)'
  BY <1>2, <1>4, <1>5, <1>6, <1>7 DEF Holds, Op
<1>9. \A k \in 1..1 : k = 1
  OBVIOUS
<1> QED
  BY <1>4, <1>8, <1>9 DEF Operands, Holds

-----------------------------------------------------------------------------
(* What the compiler confirms, and where a confirm can fail. *)

\* The innermost frame's operands are the values above its control element.
LEMMA OperandsOnTop ==
  ASSUME NEW c, NEW d, Base(c, d), Operands(c, d), NEW n, n = N
  PROVE  /\ Current = frames[n] /\ n \in 1..n /\ frames[n].h \in Nat
         /\ ~frames[n].dead => ValuesAbove = frames[n].h
         /\ frames[n].h >= 1 => Top = Value /\ stack # <<>>
         /\ frames[n].h >= 2 => /\ Below(1) # <<>>
                                /\ Below(1)[Len(Below(1))] = Value
<1>1. Typed /\ n \in 1..n /\ n \in Nat /\ Current = frames[n]
  BY CurrentFacts DEF Base
<1>2. /\ LastControl = c[n] /\ c[n] \in 1..Len(stack) /\ Len(stack) \in Nat
      /\ frames[n].h \in Nat /\ \A i \in 1..Len(stack) : i > c[n] => stack[i] = Value
  BY <1>1, LastControlIs, FrameTypes, Facts
<1>3. Holds(c, d, n)
  BY <1>1, OperandsAre
<1>4. Above(d, n) = Len(stack) + 1
  BY <1>1 DEF Above
<1>5. Len(stack) - c[n] >= frames[n].h
  <2>1. (Len(stack) + 1) - c[n] - 1 >= frames[n].h
    BY <1>3, <1>4 DEF Holds
  <2> QED
    BY <1>2, <2>1
<1>6. ~frames[n].dead => ValuesAbove = frames[n].h
  <2>1. ~frames[n].dead => (Len(stack) + 1) - c[n] - 1 = frames[n].h
    BY <1>3, <1>4 DEF Holds
  <2> QED
    BY <1>2, <2>1 DEF ValuesAbove
<1>7. frames[n].h >= 1 => Top = Value /\ stack # <<>>
  <2> SUFFICES ASSUME frames[n].h >= 1 PROVE Top = Value /\ stack # <<>>
    OBVIOUS
  <2>1. Len(stack) \in 1..Len(stack) /\ Len(stack) > c[n] /\ Len(stack) # 0
    BY <1>2, <1>5
  <2>2. stack # <<>>
    BY <2>1
  <2> QED
    BY <1>2, <2>1, <2>2 DEF Top
<1>8. frames[n].h >= 2 => Below(1) # <<>> /\ Below(1)[Len(Below(1))] = Value
  <2> SUFFICES ASSUME frames[n].h >= 2 PROVE Below(1) # <<>> /\ Below(1)[Len(Below(1))] = Value
    OBVIOUS
  <2>1. Len(stack) - 1 \in 1..(Len(stack) - 1) /\ Len(stack) - 1 > c[n]
        /\ Len(stack) - 1 \in 1..Len(stack) /\ Len(stack) - 1 # 0
    BY <1>2, <1>5
  <2>2. /\ Len(Below(1)) = Len(stack) - 1
        /\ \A i \in 1..(Len(stack) - 1) : Below(1)[i] = stack[i]
    <3>1. Top = Value
      BY <1>2, <1>7
    <3> QED
      BY <3>1, Popping
  <2>3. Below(1) # <<>>
    BY <2>1, <2>2
  <2> QED
    BY <1>2, <2>1, <2>2, <2>3
<1> QED
  BY <1>1, <1>2, <1>6, <1>7, <1>8

\* A branch has the result its block asks for, unless ValidAccepted excuses it.
LEMMA BranchAccepted ==
  ASSUME NEW c, NEW d, Base(c, d), Plain, NEW n, n = N,
         NEW depth \in 0..(Len(frames) - 1), NEW popped \in Nat, CanBranch(depth, popped),
         ~LackingAt(depth, popped), NEW rest, frames[n].h >= 1 + popped => rest # <<>> /\ rest[Len(rest)] = Value
  PROVE  Accepts(depth, rest)
<1>1. PICK t : t = n - depth
  OBVIOUS
<1>2. /\ Targets(depth) = {c[t]} /\ t \in 1..N /\ t > 1 /\ IsBlock(t)
      /\ Target(depth) = frames[t]
  <2>1. depth \in 0..(n - 1)
    BY DEF N
  <2>2. ~ThroughIf(depth) /\ Target(depth).op # "func"
    BY PlainBranch
  <2> QED
    BY <1>1, <2>1, <2>2, TargetIsFound
<1>3. stack[c[t]].arity = frames[t].arity
  BY <1>2 DEF Base, Positions, Ctl
<1>4. frames[t].arity = 1 => rest # <<>> /\ rest[Len(rest)] = Value
  <2> SUFFICES ASSUME frames[t].arity = 1 PROVE rest # <<>> /\ rest[Len(rest)] = Value
    OBVIOUS
  <2>1. Current = frames[n] /\ Current.h \in Nat
    BY CurrentFacts DEF Base
  <2>2. CASE ~(Current.h < frames[t].arity + popped)
    <3>1. frames[n].h >= 1 + popped
      BY <2>1, <2>2
    <3> QED
      BY <3>1
  <2>3. CASE ~Current.dead /\ frames[t].op # "loop"
    <3>1. Has(1 + popped)
      BY <1>2, <2>3, PlainBranch DEF LabelArity
    <3> QED
      BY <2>1, <2>3, <3>1 DEF Has
  <2> QED
    BY <1>2, <2>2, <2>3 DEF LackingAt
<1> QED
  BY <1>2, <1>3, <1>4 DEF Accepts

\* What lies between the IF of an ELSE and the ELSE is a value.
LEMMA UnderElseAreValues ==
  ASSUME NEW c, NEW d, Base(c, d), NEW k \in 1..N, NEW i \in 1..Len(stack), d[k] < i, i < c[k]
  PROVE  stack[i] = Value
<1>1. /\ N \in Nat /\ Len(stack) \in Nat
      /\ \A j \in 1..N : /\ c[j] \in 1..Len(stack) /\ d[j] \in 1..Len(stack) /\ d[j] <= c[j]
                         /\ c[j] >= c[1] /\ d[j] >= c[1]
  BY LastControlIs, Facts, FrameTypes DEF Base
<1>2. \A j, l \in 1..N : j < l => c[j] < d[l]
  BY DEF Base, Positions
<1>3. ~(i < c[1])
  BY <1>1
<1>4. ASSUME NEW j \in 1..N PROVE i # c[j] /\ i # d[j]
  <2>1. CASE j = k
    BY <1>1, <2>1
  <2>2. CASE j < k
    BY <1>1, <1>2, <2>2
  <2>3. CASE j > k
    BY <1>1, <1>2, <2>3
  <2> QED
    BY <1>1, <2>1, <2>2, <2>3
<1>5. stack[i] = Value \/ (i < c[1] /\ stack[i] = FuncStart) \/ \E j \in 1..N : i \in {c[j], d[j]}
  BY DEF Base, Others
<1> QED
  BY <1>3, <1>4, <1>5

\* END finds the frame's control element, and above it just the result.
LEMMA EndAccepted ==
  ASSUME NEW c, NEW d, Base(c, d), Operands(c, d), NEW n, n = N, n > 1, CanEnd,
         ~frames[n].dead, ~frames[n].deadIf,
         NEW e, e = stack[LastControl]
  PROVE  EndsIf(e) \/ EndsElse(e) \/ EndsBlock(e)
<1>1. /\ Current = frames[n] /\ n \in 1..n /\ ValuesAbove = frames[n].h
  BY OperandsOnTop
<1>2. /\ LastControl = c[n] /\ c[n] \in 1..Len(stack) /\ d[n] \in 1..Len(stack)
      /\ Len(stack) \in Nat /\ frames[n].arity \in 0..1
      /\ Op(n) \in {"func", "if", "else", "block", "loop"}
  BY <1>1, LastControlIs, Facts, FrameTypes, OpsAre DEF Base
<1>3. /\ e.el = Kinds(Op(n)) /\ Op(n) # "func" /\ e.arity = frames[n].arity
      /\ Op(n) = "else" => d[n] < c[n] /\ stack[d[n]].el = "IF"
  BY <1>1, <1>2 DEF Base, Positions, Ctl
<1>4. ExactlyResult(e.arity)
  BY <1>1, <1>3 DEF CanEnd, ExactlyResult
<1>5. CASE Op(n) = "if"
  BY <1>3, <1>4, <1>5, KindsAre DEF EndsIf
<1>6. CASE Op(n) \in {"block", "loop"}
  BY <1>3, <1>4, <1>6, KindsAre DEF EndsBlock
<1>7. CASE Op(n) = "else"
  <2>1. Holds(c, d, n)
    BY <1>1, OperandsAre
  <2>2. c[n] - d[n] - 1 = frames[n].arity
    BY <1>7, <2>1 DEF Holds
  <2>3. c[n] - 1 - e.arity = d[n]
    BY <1>2, <1>3, <2>2
  <2>4. IfOf(e) = d[n]
    BY <1>2, <2>3 DEF IfOf
  <2>5. \A i \in (d[n] + 1)..(c[n] - 1) : stack[i] = Value
    <3>1. \A i \in (d[n] + 1)..(c[n] - 1) : i \in 1..Len(stack) /\ d[n] < i /\ i < c[n]
      BY <1>2
    <3> QED
      BY <1>1, <3>1, UnderElseAreValues
  <2>6. d[n] > 0
    BY <1>2
  <2> QED
    BY <1>2, <1>3, <1>4, <1>7, <2>4, <2>5, <2>6, KindsAre DEF EndsElse
<1> QED
  BY <1>2, <1>3, <1>5, <1>6, <1>7

\* Each confirm that fails is one ValidAccepted excuses.
LEMMA RefusalsExcused ==
  ASSUME NEW c, NEW d, Base(c, d), Flow(c), Operands(c, d), Plain, status = "compiling",
         status' = "rejected"
  PROVE  Excused
<1>1. PICK n : n = N
  OBVIOUS
<1>2. /\ Current = frames[n] /\ n \in 1..n /\ frames[n].h \in Nat
      /\ frames[n].h >= 1 => Top = Value /\ stack # <<>>
      /\ frames[n].h >= 2 => Below(1) # <<>> /\ Below(1)[Len(Below(1))] = Value
  BY <1>1, OperandsOnTop
<1>3. Top # Value => Current.h = 0 /\ Current.h < 1
  BY <1>2
<1>4. Top # Value /\ Has(1) => Lacking(1)
  BY <1>3 DEF Has, Lacking
<1>5. Drop => Lacking(1)
  BY <1>4 DEF Drop
<1>6. ASSUME NEW arity \in 0..1, If(arity) PROVE Lacking(1)
  BY <1>4, <1>6 DEF If
<1>7. ~Else
  <2> SUFFICES ASSUME Else PROVE FALSE
    OBVIOUS
  <2>1. LastControl = c[n] /\ Op(n) = "if"
    BY <1>1, <1>2, LastControlIs DEF Else, Op
  <2>2. stack[LastControl].el = "IF"
    BY <1>1, <1>2, <2>1, KindsAre DEF Base, Positions, Ctl
  <2> QED
    BY <2>2 DEF Else
<1>8. ASSUME End, ~Current.dead, ~Current.deadIf PROVE FALSE
  <2>1. n > 1 /\ CanEnd
    BY <1>1, <1>8 DEF End, N
  <2>2. PICK e : e = stack[LastControl]
    OBVIOUS
  <2>3. EndsIf(e) \/ EndsElse(e) \/ EndsBlock(e)
    BY <1>1, <1>2, <1>8, <2>1, <2>2, EndAccepted
  <2> QED
    BY <1>8, <2>2, <2>3 DEF End
<1>9. Return => Lacking(FnArity[fn])
  <2> SUFFICES ASSUME Return PROVE Lacking(FnArity[fn])
    OBVIOUS
  <2>1. FnArity[fn] = 1 /\ Top # Value /\ Has(FnArity[fn])
    BY DEF Return
  <2> QED
    BY <1>4, <2>1
<1>10. EndFunction => Lacking(FnArity[fn])
  <2> SUFFICES ASSUME EndFunction PROVE Lacking(FnArity[fn])
    OBVIOUS
  <2>1. n = 1 /\ FnArity[fn] = 1 /\ Top # Value /\ CanEnd
    BY <1>1 DEF EndFunction, N
  <2>2. frames[n].arity = 1
    BY <2>1 DEF Flow, Stacked
  <2>3. Current.h < 1 /\ Current.h # Current.arity
    BY <1>2, <1>3, <2>1, <2>2
  <2> QED
    BY <2>1, <2>3 DEF CanEnd, Lacking
<1>11. ASSUME NEW depth \in 0..(Len(frames) - 1), Br(depth) PROVE LackingAt(depth, 0)
  <2>1. CanBranch(depth, 0) /\ ~Accepts(depth, stack)
    BY <1>11 DEF Br
  <2>2. frames[n].h >= 1 + 0 => stack # <<>> /\ stack[Len(stack)] = Value
    BY <1>2 DEF Top
  <2> QED
    BY <1>1, <2>1, <2>2, BranchAccepted
<1>12. ASSUME NEW depth \in 0..(Len(frames) - 1), BrIf(depth) PROVE LackingAt(depth, 1)
  <2>1. CanBranch(depth, 1) /\ (Top # Value \/ ~Accepts(depth, Below(1)))
    BY <1>12 DEF BrIf
  <2>2. CASE Top # Value
    <3>1. Has(LabelArity(Target(depth)) + 1)
      BY <2>1, PlainBranch
    <3>2. Target(depth) \in WasmFrames
      BY TargetIn DEF Base
    <3>3. LabelArity(Target(depth)) \in Nat /\ Target(depth).arity \in Nat
      BY <3>2 DEF LabelArity, WasmFrames
    <3>4. Current.dead /\ Current.h < Target(depth).arity + 1
      BY <1>3, <2>2, <3>1, <3>3 DEF Has
    <3> QED
      BY <3>4 DEF LackingAt
  <2>3. CASE ~Accepts(depth, Below(1))
    <3>1. frames[n].h >= 1 + 1 => Below(1) # <<>> /\ Below(1)[Len(Below(1))] = Value
      BY <1>2
    <3> QED
      BY <1>1, <2>1, <2>3, <3>1, BranchAccepted
  <2> QED
    BY <2>1, <2>2, <2>3
<1> QED
  BY <1>5, <1>6, <1>7, <1>8, <1>9, <1>10, <1>11, <1>12 DEF Excused

-----------------------------------------------------------------------------
(* The validation stack and Wasm's frames. *)

\* The next control element, where it is known.
LEMMA NextIs ==
  ASSUME Len(stack) \in Nat, NEW i \in 1..Len(stack), NEW m \in (i + 1)..(Len(stack) + 1),
         m = Len(stack) + 1 \/ stack[m] # Value,
         \A j \in (i + 1)..(m - 1) : stack[j] = Value
  PROVE  NextControl(i) = m
<1> DEFINE P(x) == /\ x = Len(stack) + 1 \/ stack[x] # Value
                   /\ \A j \in (i + 1)..(x - 1) : stack[j] = Value
<1>1. P(m)
  OBVIOUS
<1>2. ASSUME NEW x \in (i + 1)..(Len(stack) + 1), P(x) PROVE x = m
  <2>1. CASE x < m
    <3>1. x \in (i + 1)..(m - 1) /\ x # Len(stack) + 1
      BY <2>1
    <3> QED
      BY <1>2, <3>1
  <2>2. CASE x > m
    <3>1. m \in (i + 1)..(x - 1) /\ m # Len(stack) + 1
      BY <2>2
    <3> QED
      BY <1>2, <3>1
  <2> QED
    BY <2>1, <2>2
<1>3. NextControl(i) = CHOOSE x \in (i + 1)..(Len(stack) + 1) : P(x)
  BY DEF NextControl
<1> HIDE DEF P
<1> QED
  BY <1>1, <1>2, <1>3

\* Where the next control element is.
LEMMA NextControls ==
  ASSUME NEW c, NEW d, Base(c, d), NEW k \in 1..N
  PROVE  /\ NextControl(c[k]) = Above(d, k)
         /\ d[k] # c[k] => NextControl(d[k]) = c[k]
<1>1. /\ N \in Nat /\ Len(stack) \in Nat
      /\ \A j \in 1..N : /\ c[j] \in 1..Len(stack) /\ d[j] \in 1..Len(stack) /\ d[j] <= c[j]
                         /\ c[j] >= c[1] /\ d[j] >= c[1]
                         /\ stack[c[j]] # Value /\ stack[d[j]] # Value
  BY LastControlIs, Facts, FrameTypes DEF Base
<1>2. \A j, l \in 1..N : j < l => c[j] < d[l]
  BY DEF Base, Positions
<1>3. PICK a : a = Above(d, k)
  OBVIOUS
<1>4. a \in (c[k] + 1)..(Len(stack) + 1) /\ (a = Len(stack) + 1 \/ stack[a] # Value)
  <2>1. CASE k < N
    <3>1. k + 1 \in 1..N /\ k < k + 1 /\ a = d[k + 1]
      BY <1>1, <1>3, <2>1 DEF Above
    <3> QED
      BY <1>1, <1>2, <3>1
  <2>2. CASE k = N
    <3>1. a = Len(stack) + 1
      BY <1>1, <1>3, <2>2 DEF Above
    <3> QED
      BY <1>1, <3>1
  <2> QED
    BY <1>1, <2>1, <2>2
<1>5. ASSUME NEW i \in (c[k] + 1)..(a - 1) PROVE stack[i] = Value
  <2>1. i \in 1..Len(stack) /\ i > c[k] /\ i < a /\ ~(i < c[1])
    BY <1>1, <1>4
  <2>2. ASSUME NEW j \in 1..N PROVE i # c[j] /\ i # d[j]
    <3>1. CASE j = k
      BY <1>1, <2>1, <3>1
    <3>2. CASE j < k
      <4>1. c[j] < d[k] /\ d[k] <= c[k] /\ d[j] <= c[j]
        BY <1>1, <1>2, <3>2
      <4>2. c[j] \in Nat /\ d[j] \in Nat /\ c[k] \in Nat /\ d[k] \in Nat /\ i \in Nat
        BY <1>1, <2>1
      <4> QED
        BY <2>1, <4>1, <4>2
    <3>3. CASE j > k
      <4>1. k + 1 \in 1..N /\ a = d[k + 1]
        BY <1>1, <1>3, <3>3 DEF Above
      <4>2. d[k + 1] <= d[j]
        <5>1. CASE j = k + 1
          BY <1>1, <5>1
        <5>2. CASE k + 1 < j
          <6>1. PICK l : l = k + 1
            OBVIOUS
          <6>2. c[l] < d[j] /\ d[l] <= c[l] /\ c[l] \in Nat /\ d[l] \in Nat /\ d[j] \in Nat
            BY <1>1, <1>2, <4>1, <5>2, <6>1
          <6>3. d[l] <= d[j]
            BY <6>2
          <6> QED
            BY <6>1, <6>3
        <5> QED
          BY <1>1, <3>3, <5>1, <5>2
      <4> QED
        BY <1>1, <2>1, <4>1, <4>2
    <3> QED
      BY <1>1, <3>1, <3>2, <3>3
  <2>3. stack[i] = Value \/ (i < c[1] /\ stack[i] = FuncStart) \/ \E j \in 1..N : i \in {c[j], d[j]}
    BY <2>1 DEF Base, Others
  <2> QED
    BY <2>1, <2>2, <2>3
<1>6. NextControl(c[k]) = a
  BY <1>1, <1>4, <1>5, NextIs
<1>7. d[k] # c[k] => NextControl(d[k]) = c[k]
  <2> SUFFICES ASSUME d[k] # c[k] PROVE NextControl(d[k]) = c[k]
    OBVIOUS
  <2>1. d[k] < c[k] /\ c[k] \in (d[k] + 1)..(Len(stack) + 1)
    BY <1>1
  <2>2. \A i \in (d[k] + 1)..(c[k] - 1) : stack[i] = Value
    <3>1. \A i \in (d[k] + 1)..(c[k] - 1) : i \in 1..Len(stack) /\ d[k] < i /\ i < c[k]
      BY <1>1
    <3> QED
      BY <3>1, UnderElseAreValues
  <2>3. PICK i, m : i = d[k] /\ m = c[k]
    OBVIOUS
  <2>4. NextControl(i) = m
    BY <1>1, <2>1, <2>2, <2>3, NextIs
  <2> QED
    BY <2>3, <2>4
<1> QED
  BY <1>3, <1>6, <1>7

\* The last FUNC_START is the function's, and above it only the frames' are.
LEMMA ControlsAre ==
  ASSUME NEW c, NEW d, Base(c, d)
  PROVE  Controls = {c[k] : k \in 1..N} \cup {d[k] : k \in 1..N}
<1>1. /\ N \in Nat /\ 1 \in 1..N /\ Len(stack) \in Nat /\ DOMAIN stack = 1..Len(stack)
      /\ \A i \in 1..Len(stack) : stack[i] \in Elements
      /\ \A j \in 1..N : /\ c[j] \in 1..Len(stack) /\ d[j] \in 1..Len(stack)
                         /\ c[j] >= c[1] /\ d[j] >= c[1] /\ d[j] <= c[j]
                         /\ stack[c[j]] # Value /\ stack[d[j]] # Value
  <2>1. Typed
    BY DEF Base
  <2>2. N \in Nat /\ N > 0
    BY <2>1, FrameTypes
  <2>3. 1 \in 1..N
    BY <2>2
  <2> QED
    BY <2>1, <2>2, <2>3, LastControlIs, Facts
<1>2. \A j \in 1..N : /\ stack[c[j]].el = Kinds(Op(j)) /\ (Op(j) = "func" <=> j = 1)
                      /\ d[j] = c[j] \/ stack[d[j]].el = "IF"
                      /\ Op(j) \in {"func", "if", "else", "block", "loop"}
  BY OpsAre DEF Base, Positions, Ctl
<1>3. stack[c[1]] = FuncStart
  <2>1. stack[c[1]].el = "FUNC_START"
    BY <1>1, <1>2, KindsAre
  <2> QED
    BY <1>1, <2>1, ElementFacts
<1>4. ASSUME NEW i \in 1..Len(stack), i > c[1] PROVE stack[i] # FuncStart
  <2>1. stack[i] = Value \/ \E j \in 1..N : i \in {c[j], d[j]}
    BY <1>1, <1>4 DEF Base, Others
  <2>2. Value.el = "value" /\ FuncStart.el = "FUNC_START"
    BY DEF Value, FuncStart
  <2>3. ASSUME NEW j \in 1..N, i \in {c[j], d[j]} PROVE stack[i].el # "FUNC_START"
    <3>1. CASE j = 1
      BY <1>1, <1>4, <2>3, <3>1
    <3>2. CASE j # 1
      BY <1>2, <2>3, <3>2, KindsAre
    <3> QED
      BY <3>1, <3>2
  <2> QED
    BY <2>1, <2>2, <2>3
<1>5. Starting = {i \in 1..Len(stack) : c[1] <= i}
  <2>1. ASSUME NEW i \in 1..Len(stack), c[1] <= i, NEW j \in 1..Len(stack), stack[j] = FuncStart
        PROVE  j <= i
    BY <1>1, <1>4, <2>1
  <2> QED
    BY <1>1, <1>3, <2>1 DEF Starting
<1>6. ASSUME NEW i \in Controls PROVE \E k \in 1..N : i = c[k] \/ i = d[k]
  BY <1>1, <1>5, <1>6 DEF Controls, Base, Others
<1>7. \A k \in 1..N : c[k] \in Controls /\ d[k] \in Controls
  BY <1>1, <1>5 DEF Controls
<1> QED
  BY <1>6, <1>7

\* Each frame has one control element.
LEMMA OpeningIs ==
  ASSUME NEW c, NEW d, Base(c, d)
  PROVE  Opening = {c[k] : k \in 1..N}
<1>1. /\ N \in Nat /\ Len(stack) \in Nat
      /\ \A j \in 1..N : /\ c[j] \in 1..Len(stack) /\ d[j] \in 1..Len(stack)
  BY LastControlIs, Facts, FrameTypes DEF Base
<1>2. \A j \in 1..N : /\ stack[c[j]].el = Kinds(Op(j))
                      /\ IF Op(j) = "else" THEN d[j] < c[j] /\ stack[d[j]].el = "IF" ELSE d[j] = c[j]
                      /\ Op(j) \in {"func", "if", "else", "block", "loop"}
  BY OpsAre DEF Base, Positions, Ctl
<1>3. Controls = {c[k] : k \in 1..N} \cup {d[k] : k \in 1..N}
  BY ControlsAre
<1>4. ASSUME NEW k \in 1..N PROVE ~UnderElse(c[k])
  <2>1. NextControl(c[k]) = Above(d, k)
    BY NextControls
  <2>2. CASE k < N
    <3>1. k + 1 \in 1..N /\ Above(d, k) = d[k + 1]
      BY <1>1, <2>2 DEF Above
    <3>2. stack[d[k + 1]].el # "ELSE"
      BY <1>2, <3>1, KindsAre
    <3> QED
      BY <2>1, <3>1, <3>2 DEF UnderElse
  <2>3. CASE k = N
    <3>1. Above(d, k) = Len(stack) + 1
      BY <1>1, <2>3 DEF Above
    <3>2. Len(stack) + 1 \notin Controls
      BY <1>1, <1>3
    <3> QED
      BY <2>1, <3>1, <3>2 DEF UnderElse
  <2> QED
    BY <1>1, <2>2, <2>3
<1>5. ASSUME NEW k \in 1..N, d[k] # c[k] PROVE UnderElse(d[k])
  <2>1. NextControl(d[k]) = c[k]
    BY <1>5, NextControls
  <2>2. stack[d[k]].el = "IF" /\ stack[c[k]].el = "ELSE"
    BY <1>2, <1>5, KindsAre
  <2>3. c[k] \in Controls
    BY <1>3
  <2> QED
    BY <2>1, <2>2, <2>3 DEF UnderElse
<1> QED
  BY <1>3, <1>4, <1>5 DEF Opening

\* StackMirrorsWasm follows from Base, Flow and Operands.
LEMMA FramesAreMirrored ==
  ASSUME NEW c, NEW d, Base(c, d), Flow(c), Operands(c, d)
  PROVE  StackMirrorsWasm
<1>1. Typed /\ N \in Nat /\ Opening = {c[k] : k \in 1..N}
  BY FrameTypes, OpeningIs DEF Base
<1>2. /\ \A j, k \in 1..N : j < k => c[j] < c[k]
      /\ \A j, k \in 1..N : c[j] > c[k] => j > k
      /\ \A k \in 1..N : c[k] \in Nat
  BY Increasing
<1>3. \A j, k \in 1..N : j # k => c[j] # c[k]
  BY <1>1, <1>2
<1>4. ASSUME NEW n \in 0..N PROVE Cardinality({c[k] : k \in 1..n}) = n
  <2>1. \A j, k \in 1..n : j # k => c[j] # c[k]
    <3>1. \A j \in 1..n : j \in 1..N
      BY <1>1
    <3> QED
      BY <1>3, <3>1
  <2>2. PICK T : T = {c[k] : k \in 1..n}
    OBVIOUS
  <2>3. n \in Nat
    BY <1>1
  <2>4. Cardinality(T) = n
    BY <2>1, <2>2, <2>3, CountUpTo
  <2> QED
    BY <2>2, <2>4
<1>5. Cardinality(Opening) = Len(frames)
  <2>1. N \in 0..N
    BY <1>1
  <2> QED
    BY <1>1, <1>4, <2>1 DEF N
<1>6. ASSUME NEW k \in 1..N
      PROVE  /\ FrameOf(c[k]) = frames[k] /\ stack[c[k]].el = Kinds(frames[k].op)
             /\ frames[k].dead \/ NextControl(c[k]) - c[k] - 1 = frames[k].h
  <2>1. {j \in Opening : j <= c[k]} = {c[j] : j \in 1..k}
    <3>1. ASSUME NEW i \in Opening, i <= c[k] PROVE i \in {c[j] : j \in 1..k}
      <4>1. PICK j \in 1..N : i = c[j]
        BY <1>1
      <4>2. ~(j > k)
        BY <1>1, <1>2, <3>1, <4>1
      <4>3. j \in 1..k
        BY <1>1, <4>2
      <4> QED
        BY <4>1, <4>3
    <3>2. ASSUME NEW j \in 1..k PROVE c[j] \in Opening /\ c[j] <= c[k]
      <4>1. j \in 1..N /\ (j < k \/ j = k)
        BY <1>1
      <4> QED
        BY <1>1, <1>2, <4>1
    <3> QED
      BY <3>1, <3>2
  <2>2. Cardinality({j \in Opening : j <= c[k]}) = k
    <3>1. k \in 0..N
      BY <1>1
    <3> QED
      BY <1>4, <2>1, <3>1
  <2>3. FrameOf(c[k]) = frames[k]
    BY <2>2 DEF FrameOf
  <2>4. NextControl(c[k]) = Above(d, k)
    BY NextControls
  <2>5. frames[k].dead \/ Above(d, k) - c[k] - 1 = frames[k].h
    BY OperandsAre DEF Holds
  <2>6. stack[c[k]].el = Kinds(frames[k].op)
    BY DEF Base, Positions, Ctl, Op
  <2> QED
    BY <2>3, <2>4, <2>5, <2>6
<1>7. \A i \in Opening : /\ stack[i].el = Kinds(FrameOf(i).op)
                         /\ FrameOf(i).dead \/ NextControl(i) - i - 1 = FrameOf(i).h
  BY <1>1, <1>6
<1>8. live => rop = Height
  BY <1>1, LiveFacts DEF Flow
<1> QED
  BY <1>5, <1>7, <1>8 DEF StackMirrorsWasm

-----------------------------------------------------------------------------
(* The invariant without the Features. *)

Complete(c, d) == Base(c, d) /\ Flow(c) /\ Operands(c, d)

LEMMA StraightComplete ==
  ASSUME NEW c, NEW d, Base(c, d), Straight(c), Flow(c)', Operands(c, d)'
  PROVE  Complete(c, d)'
BY StraightBase DEF Complete

\* Each instruction that is accepted keeps all three.
LEMMA StepComplete ==
  ASSUME NEW c, NEW d, Complete(c, d), Plain, Next, status' = "compiling"
  PROVE  \E c2, d2 : Complete(c2, d2)'
<1>1. Base(c, d) /\ Flow(c) /\ Operands(c, d) /\ Typed /\ status' # "rejected"
  BY DEF Complete, Base
<1>2. CASE Const
  BY <1>1, <1>2, ConstStraight, ConstFlow, ConstOperands, StraightComplete
<1>3. CASE Drop
  BY <1>1, <1>3, DropStraight, DropFlow, DropOperands, StraightComplete
<1>4. CASE Else
  <2>1. PICK n, p, c2 : n = N /\ p = Ctl(c, n).patch /\ c2 = [c EXCEPT ![n] = Len(stack) + 1]
    OBVIOUS
  <2>2. Base(c2, d)'
    BY <1>1, <1>4, <2>1, ElseBase
  <2>3. Flow(c2)'
    BY <1>1, <1>4, <2>1, ElseFlow
  <2>4. Operands(c2, d)'
    BY <1>1, <1>4, <2>1, ElseOperands
  <2> QED
    BY <2>2, <2>3, <2>4 DEF Complete
<1>5. CASE End
  <2>1. PICK n, e, m, c2, d2 : /\ n = N /\ e = Ctl(c, n) /\ m = d[n] - 1
                               /\ c2 = Shortened(c, n) /\ d2 = Shortened(d, n)
    OBVIOUS
  <2>2. Base(c2, d2)'
    BY <1>1, <1>5, <2>1, EndBase
  <2>3. Flow(c2)'
    BY <1>1, <1>5, <2>1, EndFlow
  <2>4. Operands(c2, d2)'
    BY <1>1, <1>5, <2>1, EndOperands
  <2> QED
    BY <2>2, <2>3, <2>4 DEF Complete
<1>6. CASE Return
  BY <1>1, <1>6, ReturnStraight, ReturnFlow, ReturnOperands, StraightComplete
<1>7. CASE EndFunction
  <2>1. NextFunction /\ N = 1
    BY <1>1, <1>7, EndFunctionNext
  <2>2. PICK m, c2 : m = Len(stack') /\ c2 = [k \in 1..1 |-> m]
    OBVIOUS
  <2>3. Base(c2, c2)'
    BY <1>1, <2>1, <2>2, EndFunctionBase
  <2>4. lands \subseteq lands'
    BY <1>1, <1>7 DEF EndFunction, Reject
  <2>5. Flow(c2)'
    BY <1>1, <2>1, <2>4, EndFunctionFlow
  <2>6. Operands(c2, c2)'
    BY <2>1, <2>2, EndFunctionOperands
  <2> QED
    BY <2>3, <2>5, <2>6 DEF Complete
<1>8. ASSUME NEW arity \in 0..1, NEW isLoop \in BOOLEAN, Block(arity, isLoop)
      PROVE  \E c2, d2 : Complete(c2, d2)'
  <2>1. PICK n, c2, d2 : /\ n = N /\ c2 = Extended(c, Len(stack) + 1)
                         /\ d2 = Extended(d, Len(stack) + 1)
    OBVIOUS
  <2>2. Base(c2, d2)'
    BY <1>1, <1>8, <2>1, BlockBase
  <2>3. Flow(c2)'
    BY <1>1, <1>8, <2>1, BlockFlow
  <2>4. Operands(c2, d2)'
    BY <1>1, <1>8, <2>1, BlockOperands
  <2> QED
    BY <2>2, <2>3, <2>4 DEF Complete
<1>9. ASSUME NEW arity \in 0..1, If(arity) PROVE \E c2, d2 : Complete(c2, d2)'
  <2>1. PICK n, c2, d2 : n = N /\ c2 = Extended(c, Len(stack)) /\ d2 = Extended(d, Len(stack))
    OBVIOUS
  <2>2. Base(c2, d2)'
    BY <1>1, <1>9, <2>1, IfBase
  <2>3. Flow(c2)'
    BY <1>1, <1>9, <2>1, IfFlow
  <2>4. Operands(c2, d2)'
    BY <1>1, <1>9, <2>1, IfOperands
  <2> QED
    BY <2>2, <2>3, <2>4 DEF Complete
<1>10. ASSUME NEW depth \in 0..(Len(frames) - 1), Br(depth) PROVE \E c2, d2 : Complete(c2, d2)'
  BY <1>1, <1>10, BrStraight, BrFlow, BrOperands, StraightComplete
<1>11. ASSUME NEW depth \in 0..(Len(frames) - 1), BrIf(depth) PROVE \E c2, d2 : Complete(c2, d2)'
  BY <1>1, <1>11, BrIfStraight, BrIfFlow, BrIfOperands, StraightComplete
<1> QED
  BY <1>2, <1>3, <1>4, <1>5, <1>6, <1>7, <1>8, <1>9, <1>10, <1>11 DEF Next

PlainInv ==
  IF status = "compiling" THEN \E c, d : Complete(c, d)
  ELSE status = "rejected" \/ \A w \in wanted : Landed(w)

\* The empty compiler has all three.
LEMMA InitPlain == Init => PlainInv
<1> SUFFICES ASSUME Init PROVE PlainInv
  OBVIOUS
<1>1. PICK c, d \in [1..N -> 1..Len(stack)] : Base(c, d)
  BY InitBase DEF Init, BaseInv, Compiling
<1>2. PICK f : f = Frame("func", FnArity[1], 0, <<1, -1>>)
  OBVIOUS
<1>3. /\ f.op = "func" /\ f.arity = FnArity[1] /\ f.base = 0 /\ f.h = 0 /\ f.dead = FALSE
      /\ f.id[2] = -1
  BY <1>2 DEF Frame
<1>4. N = 1 /\ frames[1] = f
  <2>1. frames = <<f>>
    BY <1>2 DEF Init, NewFunction
  <2> QED
    BY <2>1 DEF N
<1>5. /\ stack = <<FuncStart>> /\ brs = <<>> /\ code = <<>> /\ rop = 0 /\ ops = 0
      /\ wanted = {} /\ fn = 1 /\ status = "compiling"
  BY DEF Init
<1>6. \A k \in 1..1 : k = 1
  OBVIOUS
<1>7. Stacked
  BY <1>3, <1>4, <1>5, <1>6 DEF Stacked, Number
<1>8. Heights
  BY <1>5 DEF Heights
<1>9. Ways(c)
  BY <1>3, <1>4, <1>5, <1>6 DEF Ways, LoopLabel, Op
<1>10. Operands(c, d)
  <2>1. Len(stack) = 1 /\ c[1] = 1
    <3>1. Len(stack) = 1 /\ 1 \in 1..N
      BY <1>4, <1>5
    <3> QED
      BY <3>1, LastControlIs, <1>1
  <2>2. Above(d, 1) = 2
    BY <1>4, <2>1 DEF Above
  <2>3. Holds(c, d, 1)
    BY <1>3, <1>4, <2>1, <2>2 DEF Holds, Op
  <2> QED
    BY <1>4, <1>6, <2>3, OperandsAre
<1> QED
  BY <1>1, <1>5, <1>7, <1>8, <1>9, <1>10 DEF PlainInv, Complete, Flow

\* Each step keeps the invariant; the last one leaves every branch landed.
LEMMA NextPlain ==
  ASSUME Plain
  PROVE  PlainInv /\ [Next]_vars => PlainInv'
<1> SUFFICES ASSUME PlainInv, [Next]_vars PROVE PlainInv'
  OBVIOUS
<1>1. CASE Next
  <2>1. status = "compiling"
    BY <1>1, NextCompiles
  <2>2. PICK c, d : Complete(c, d)
    BY <2>1 DEF PlainInv
  <2>3. Base(c, d) /\ Flow(c) /\ Operands(c, d) /\ Typed
    BY <2>2 DEF Complete, Base
  <2>4. CASE status' = "compiling"
    <3>1. \E c2, d2 : Complete(c2, d2)'
      BY <1>1, <2>2, <2>4, StepComplete
    <3> QED
      BY <2>4, <3>1 DEF PlainInv
  <2>5. CASE status' = "rejected"
    BY <2>5 DEF PlainInv
  <2>6. CASE status' \notin {"compiling", "rejected"}
    <3>1. EndFunction
      BY <1>1, <2>6, NextCompiles DEF Next, Const, Drop, Else, End, Return, Block, If, Br, BrIf, Reject
    <3>2. NextFunction /\ N = 1
      BY <2>3, <2>6, <3>1, EndFunctionNext
    <3>3. lands \subseteq lands' /\ wanted' = wanted /\ FunctionFacts
      BY <2>6, <3>1, <3>2 DEF EndFunction, Reject, NextFunction
    <3>4. \A w \in wanted' : Landed(w)'
      BY <2>3, <3>2, <3>3, AllLanded
    <3> QED
      BY <2>6, <3>4 DEF PlainInv
  <2> QED
    BY <2>4, <2>5, <2>6
<1>2. CASE UNCHANGED vars
  <2>1. ASSUME NEW c, NEW d, Complete(c, d) PROVE Complete(c, d)'
    <3>1. Base(c, d)'
      BY <1>2, <2>1 DEF Complete, vars, compiler, wasm, Base, Typed, Positions, Others,
         Placeholders, LabelsFilled, Here, N, Op, Ctl, Conditional, Placeholder, IsBlock, Label
    <3>2. Stacked'
      BY <1>2, <2>1 DEF Complete, vars, compiler, wasm, Flow, Stacked, N, Number
    <3>3. Heights'
      BY <1>2, <2>1 DEF Complete, vars, compiler, wasm, Flow, Heights, Expected, Agrees, N, Exit,
         Otherwise, Start
    <3>4. Ways(c)'
      <4>1. /\ frames' = frames /\ stack' = stack /\ code' = code /\ brs' = brs /\ fn' = fn
            /\ labels' = labels /\ lands' = lands /\ wanted' = wanted
        BY <1>2 DEF vars, compiler, wasm
      <4>2. \A w : Landed(w)' <=> Landed(w)
        BY <4>1 DEF Landed
      <4>3. \A k : /\ Op(k)' = Op(k) /\ Ctl(c, k)' = Ctl(c, k) /\ Exit(k)' = Exit(k)
                   /\ Otherwise(k)' = Otherwise(k) /\ Start(k)' = Start(k)
        BY <4>1 DEF Op, Ctl, Exit, Otherwise, Start
      <4>4. N' = N
        BY <4>1 DEF N
      <4>5. \A w : Finished(c, w) => Finished(c, w)'
        BY <4>1, <4>2, <4>3, <4>4 DEF Finished, Conditional
      <4>6. \A w : IsOpen(c, w) => IsOpen(c, w)'
        BY <4>3, <4>4 DEF IsOpen, Conditional
      <4>7. \A w : IsRegistered(c, w) => IsRegistered(c, w)'
        BY <4>1, <4>3, <4>4 DEF IsRegistered, Labelled, At, Label
      <4>8. \A w : IsLinked(w) => IsLinked(w)'
        BY <4>1, <4>2 DEF IsLinked
      <4>9. \A k : LoopLabel(c, k) => LoopLabel(c, k)'
        BY <4>1, <4>3 DEF LoopLabel, At, Label
      <4>10. Ways(c)
        BY <2>1 DEF Complete, Flow
      <4> QED
        BY <4>1, <4>4, <4>5, <4>6, <4>7, <4>8, <4>9, <4>10 DEF Ways, Way
    <3>5. Operands(c, d)'
      BY <1>2, <2>1 DEF Complete, vars, compiler, wasm, Operands, Above, N, Op
    <3> QED
      BY <3>1, <3>2, <3>3, <3>4, <3>5 DEF Complete, Flow
  <2>2. (\A w \in wanted : Landed(w)) => (\A w \in wanted : Landed(w))'
    BY <1>2 DEF vars, compiler, wasm, Landed
  <2>3. status' = status
    BY <1>2 DEF vars, compiler
  <2> QED
    BY <2>1, <2>2, <2>3 DEF PlainInv
<1> QED
  BY <1>1, <1>2

\* The invariant has two of the properties as consequences.
LEMMA PlainInvImplies ==
  ASSUME PlainInv
  PROVE  BranchesLand /\ StackMirrorsWasm
<1>2. StackMirrorsWasm
  BY FramesAreMirrored DEF PlainInv, Complete, StackMirrorsWasm
<1>3. BranchesLand
  <2>1. CASE status = "compiling"
    <3>1. PICK c, d : Complete(c, d)
      BY <2>1 DEF PlainInv
    <3>2. fn \in Nat
      BY <3>1, Facts DEF Complete, Base
    <3>3. ASSUME NEW w \in wanted, w.fn < fn PROVE Landed(w)
      <4>1. w.fn # fn
        BY <3>2, <3>3
      <4>2. Way(c, w)
        BY <3>1 DEF Complete, Flow, Ways
      <4> QED
        BY <4>1, <4>2 DEF Way, Finished
    <3> QED
      BY <3>3 DEF BranchesLand
  <2>2. CASE status # "compiling"
    BY <2>2 DEF PlainInv, BranchesLand
  <2> QED
    BY <2>1, <2>2
<1> QED
  BY <1>2, <1>3

\* Where bytecode has none of the Features, each branch of a compiled function
\* goes where Wasm says, with ROP at the height the code there expects: what
\* findTargetBlock finds, LabelManager fills and IF and ELSE patch is right.
THEOREM BranchesReachTheirPlaces ==
  ASSUME Features = {}
  PROVE  Spec => []BranchesLand
<1>1. Plain
  BY DEF Plain
<1>2. PlainInv /\ [Next]_vars => PlainInv'
  BY <1>1, NextPlain
<1>3. PlainInv => BranchesLand
  BY PlainInvImplies
<1> QED
  BY <1>2, <1>3, InitPlain, PTL DEF Spec

\* Where bytecode has none of the Features, the validation stack and ROP follow
\* Wasm's frames, at any depth and whatever earlier functions left behind.
THEOREM CompilerFollowsWasm ==
  ASSUME Features = {}
  PROVE  Spec => []StackMirrorsWasm
<1>1. Plain
  BY DEF Plain
<1>2. PlainInv /\ [Next]_vars => PlainInv'
  BY <1>1, NextPlain
<1>3. PlainInv => StackMirrorsWasm
  BY PlainInvImplies
<1> QED
  BY <1>2, <1>3, InitPlain, PTL DEF Spec

\* Where bytecode has none of the Features, a confirm fails only on an operand
\* that the code after a BR or RETURN lacks, at the END of a frame that ended in
\* such code or of an ELSE whose true branch did, or where a branch to a loop
\* lacks the loop's result: valid bytecode without these is compiled.
THEOREM ValidModulesCompile ==
  ASSUME Features = {}
  PROVE  Spec => ValidAccepted
<1>1. Plain
  BY DEF Plain
<1>2. PlainInv /\ [Next]_vars => PlainInv'
  BY <1>1, NextPlain
<1>3. PlainInv /\ [Next]_vars => [status' = "rejected" => Excused]_vars
  <2> SUFFICES ASSUME PlainInv, Next, status' = "rejected" PROVE Excused
    OBVIOUS
  <2>1. status = "compiling"
    BY NextCompiles
  <2>2. PICK c, d : Complete(c, d)
    BY <2>1 DEF PlainInv
  <2> QED
    BY <1>1, <2>1, <2>2, RefusalsExcused DEF Complete
<1> QED
  BY <1>2, <1>3, InitPlain, PTL DEF Spec, ValidAccepted
=============================================================================
