------------------------- MODULE LinearMemory_proofs -------------------------
(***************************************************************************)
(* For every page size, block, word width and set of data segments: linear *)
(* memory stays inside its block and its limits in the programs SizesFit   *)
(* admits, wherever in it stores and data land; it never shrinks, provided *)
(* no trap follows a growth; and in the programs MemoryFits admits it is   *)
(* zero where it has not grown to yet and LinearMemory implements          *)
(* WasmMemory: each step of the machine is the step of the same name of    *)
(* Wasm's memory, or the refusal of a module.                              *)
(***************************************************************************)
EXTENDS LinearMemory, TLAPS

\* The programs the theorems are about.  Each conjunct leaves out one thing
\* the code does not look at.  What the size of the memory depends on: no
\* initial size beyond the block, and no delta whose sum wraps.  What its
\* contents depend on: no trap after growth, no store whose STR writes
\* elsewhere or more than was checked, and no data beyond the memory.
SizesFit ==
  /\ Initials \subseteq 0..MaxPages
  /\ \A d \in Deltas : MaxPages + d < U32

MemoryFits ==
  /\ SizesFit
  /\ ~TrapsAfterGrowth
  /\ \A k \in DOMAIN StoreBytes : StoreWrites[k] = StoreBytes[k]
  /\ IndexedStores = {} \/ FirstRegister \subseteq {0}
  /\ SegmentsInBounds

\* The sizes by themselves.  Two facts make them inductive: before the memory
\* section there is no memory, and the size a trap falls back to is whole pages.
SInv ==
  /\ TypeOK
  /\ SizeWithinLimits
  /\ phase = "start" => stored = 0
  /\ stored % PageSize = 0

\* The sizes and the contents.
IInv == SInv /\ BeyondSizeZero

\* Multiplication by the page size, which the provers know little about.
LEMMA Product == ASSUME NEW m \in Nat, NEW n \in Nat PROVE m * n \in Nat
  OBVIOUS

LEMMA ProductMonotone ==
  ASSUME NEW m \in Nat, NEW n \in Nat, NEW p \in Nat, m <= n
  PROVE  m * p <= n * p
  OBVIOUS

LEMMA WholePages ==
  ASSUME NEW n \in Nat, NEW p \in Nat \ {0}
  PROVE  /\ (n * p) % p = 0
         /\ (n * p) \div p = n
  OBVIOUS

LEMMA PageCount ==
  ASSUME NEW n \in Nat, NEW p \in Nat \ {0}, n % p = 0
  PROVE  /\ n \div p \in Nat
         /\ n = (n \div p) * p
  OBVIOUS

LEMMA Smaller == ASSUME NEW n \in Nat, NEW u \in Nat, n < u PROVE n % u = n
  OBVIOUS

\* The block, and what TypeOK says of the two sizes.
LEMMA SizeFacts ==
  ASSUME SInv
  PROVE  /\ BlockBytes \in Nat /\ BlockBytes < U32
         /\ PageSize \in Nat \ {0} /\ MaxPages \in Nat /\ U32 \in Nat
         /\ stored \in Nat /\ x25 \in Nat
         /\ stored <= BlockBytes /\ x25 <= BlockBytes
         /\ Size \in Nat /\ Size % PageSize = 0
BY SizesAssumption, Product
   DEF SInv, TypeOK, SizeWithinLimits, Size, BlockBytes

-----------------------------------------------------------------------------
(* Loading a module *)

LEMMA InitEstablishes == Init => IInv
<1> SUFFICES ASSUME Init PROVE IInv
  OBVIOUS
<1>1. BlockBytes \in Nat
  BY SizesAssumption, Product DEF BlockBytes
<1>2. TypeOK
  BY <1>1, SizesAssumption DEF Init, TypeOK, Is
<1>3. SizeWithinLimits /\ stored % PageSize = 0
  BY <1>1, SizesAssumption DEF Init, SizeWithinLimits, Size, NoMaximum
<1>4. BeyondSizeZero
  BY DEF Init, BeyondSizeZero
<1> QED
  BY <1>2, <1>3, <1>4 DEF Init, IInv, SInv

LEMMA ParseMemorySizes ==
  ASSUME SizesFit, SInv, NEW initial \in Initials, NEW max \in Maxima,
         ParseMemory(initial, max)
  PROVE  SInv'
<1> USE SizeFacts
<1>1. CASE phase' = "rejected"
  <2>1. UNCHANGED <<maximum, stored, x25, mem, result>> /\ phase = "start"
    BY <1>1 DEF ParseMemory
  <2> QED
    BY <1>1, <2>1 DEF SInv, TypeOK, SizeWithinLimits, Size
<1>2. CASE phase' = "module"
  <2>1. /\ initial \in Nat /\ initial <= MaxPages
        /\ stored' = initial * PageSize /\ maximum' = max
        /\ UNCHANGED <<x25, mem, result>>
    BY <1>2 DEF ParseMemory, SizesFit
  <2>2. stored' \in 0..BlockBytes /\ stored' % PageSize = 0
    <3>1. initial * PageSize \in Nat /\ initial * PageSize <= MaxPages * PageSize
      BY <2>1, Product, ProductMonotone
    <3>2. (initial * PageSize) % PageSize = 0
      BY <2>1, WholePages
    <3> QED
      BY <2>1, <3>1, <3>2 DEF BlockBytes
  <2>3. TypeOK'
    BY <1>2, <2>1, <2>2 DEF SInv, TypeOK
  <2>4. SizeWithinLimits'
    BY <1>2, <2>2 DEF SizeWithinLimits, Size
  <2> QED
    BY <1>2, <2>2, <2>3, <2>4 DEF SInv
<1> QED
  BY <1>1, <1>2 DEF ParseMemory

\* The memory section uncovers a block nothing has been written to.
LEMMA ParseMemoryFresh ==
  ASSUME IInv, NEW initial, NEW max, ParseMemory(initial, max)
  PROVE  BeyondSizeZero'
<1>1. /\ phase = "start" /\ stored = 0 /\ UNCHANGED <<x25, mem>>
  BY DEF ParseMemory, IInv, SInv
<1>2. \A a \in 0..(BlockBytes - 1) : a \in Nat /\ mem[a] = 0
  BY <1>1, SizeFacts DEF IInv, BeyondSizeZero, Size
<1> QED
  BY <1>1, <1>2 DEF BeyondSizeZero

\* Where a segment lands does not matter for the sizes.
LEMMA ParseDataSizes ==
  ASSUME SInv, NEW offset \in Addresses, NEW segment \in Segments,
         ParseData(offset, segment)
  PROVE  SInv' /\ Size' = Size
<1> USE SizeFacts
<1>1. /\ phase = "module" /\ phase' \in {"module", "rejected"}
      /\ UNCHANGED <<maximum, stored, x25, result>>
  BY DEF ParseData
<1>2. \A i \in DOMAIN segment : segment[i] \in Byte
  <2>1. PICK n \in 0..BlockBytes : segment \in [0..(n - 1) -> Byte]
    BY SizesAssumption
  <2> QED
    BY <2>1
<1>3. mem' \in [0..(BlockBytes - 1) -> Byte]
  BY <1>2 DEF ParseData, SInv, TypeOK
<1>4. TypeOK'
  BY <1>1, <1>3 DEF SInv, TypeOK
<1>5. SizeWithinLimits'
  BY <1>1 DEF SInv, SizeWithinLimits, Size
<1> QED
  BY <1>1, <1>4, <1>5 DEF SInv, Size

LEMMA ParseDataFresh ==
  ASSUME MemoryFits, IInv, NEW offset \in Addresses, NEW segment \in Segments,
         ParseData(offset, segment)
  PROVE  BeyondSizeZero'
<1> USE SizeFacts DEF IInv
<1>1. /\ phase = "module" /\ phase' \in {"module", "rejected"}
      /\ UNCHANGED <<maximum, stored, x25, result>>
  BY DEF ParseData
<1> SUFFICES ASSUME NEW a \in 0..(BlockBytes - 1), a >= stored
             PROVE  mem'[a] = 0
  BY <1>1 DEF BeyondSizeZero, Size
<1>2. mem[a] = 0
  BY <1>1 DEF BeyondSizeZero, Size
<1>3. a - offset \notin DOMAIN segment
  <2>1. offset \in Int
    BY SizesAssumption
  <2>2. \A i \in DOMAIN segment : offset + i < stored /\ i \in Int
    <3>1. PICK n \in 0..BlockBytes : segment \in [0..(n - 1) -> Byte]
      BY SizesAssumption
    <3> QED
      BY <3>1 DEF ParseData, MemoryFits
  <2> QED
    BY <2>1, <2>2
<1> QED
  BY <1>2, <1>3 DEF ParseData, SInv, TypeOK

LEMMA CompiledSizes == ASSUME SInv, Compiled PROVE SInv' /\ Size' = Size
BY DEF Compiled, SInv, TypeOK, SizeWithinLimits, Size

-----------------------------------------------------------------------------
(* Calls *)

LEMMA EnterSizes == ASSUME SInv, Enter PROVE SInv' /\ Size' = Size
<1> USE SizeFacts
<1>1. /\ phase = "idle" /\ phase' = "running" /\ x25' = stored
      /\ UNCHANGED <<maximum, stored, mem, result>>
  BY DEF Enter
<1>2. TypeOK'
  BY <1>1 DEF SInv, TypeOK
<1>3. SizeWithinLimits'
  BY <1>1 DEF SInv, SizeWithinLimits, Size
<1> QED
  BY <1>1, <1>2, <1>3 DEF SInv, Size

\* The wrapper's 32-bit store loses nothing of X25.
LEMMA LeaveSizes ==
  ASSUME SInv, Leave
  PROVE  SInv' /\ stored' = x25 /\ Size' = Size
<1> USE SizeFacts
<1>1. /\ phase = "running" /\ phase' = "idle" /\ stored' = x25 % U32
      /\ UNCHANGED <<maximum, x25, mem, result>>
  BY DEF Leave
<1>2. x25 < U32
  OBVIOUS
<1>3. stored' = x25
  BY <1>1, <1>2, Smaller
<1>4. TypeOK'
  BY <1>1, <1>3 DEF SInv, TypeOK
<1>5. SizeWithinLimits' /\ stored' % PageSize = 0
  BY <1>1, <1>3 DEF SInv, SizeWithinLimits, Size
<1> QED
  BY <1>1, <1>3, <1>4, <1>5 DEF SInv, Size

\* A trap falls back to the size the call began with, whether or not the call
\* has grown memory.
LEMMA TrapSizes ==
  ASSUME SInv, NEW code \in {"other", "Out_of_bounds_memory_access"}, Trap(code)
  PROVE  SInv' /\ (~TrapsAfterGrowth => Size' = Size)
<1> USE SizeFacts
<1>1. /\ phase = "running" /\ phase' = "idle"
      /\ TrapsAfterGrowth \/ x25 = stored
      /\ result' = Is(code)
      /\ UNCHANGED <<maximum, stored, x25, mem>>
  BY DEF Trap
<1>2. TypeOK'
  BY <1>1 DEF SInv, TypeOK, Is
<1>3. SizeWithinLimits'
  BY <1>1 DEF SInv, SizeWithinLimits, Size
<1> QED
  BY <1>1, <1>2, <1>3 DEF SInv, Size

\* What leaves memory and its size alone leaves fresh memory zero.
LEMMA SameFresh ==
  ASSUME BeyondSizeZero, Size' = Size, UNCHANGED mem, phase # "rejected"
  PROVE  BeyondSizeZero'
BY DEF BeyondSizeZero

-----------------------------------------------------------------------------
(* memory.grow and memory.size *)

LEMMA LimitFacts ==
  ASSUME SInv
  PROVE  /\ Limit \in 0..MaxPages
         /\ maximum # NoMaximum => Limit <= maximum
BY SizesAssumption, SizeFacts DEF Limit, SInv, TypeOK, NoMaximum

\* X25 is a whole number of pages while JIT code runs.
LEMMA RunningPages ==
  ASSUME SInv, phase = "running"
  PROVE  /\ CurrentPages \in 0..MaxPages
         /\ x25 = CurrentPages * PageSize
<1> USE SizeFacts
<1>1. x25 % PageSize = 0
  BY DEF Size
<1>2. CurrentPages \in Nat /\ x25 = CurrentPages * PageSize
  BY <1>1, PageCount DEF CurrentPages
<1>3. CurrentPages <= MaxPages
  <2> SUFFICES ASSUME MaxPages + 1 <= CurrentPages PROVE FALSE
    BY <1>2
  <2>1. (MaxPages + 1) * PageSize <= CurrentPages * PageSize
    BY <1>2, ProductMonotone
  <2>2. (MaxPages + 1) * PageSize = BlockBytes + PageSize
    BY DEF BlockBytes
  <2>3. CurrentPages * PageSize <= BlockBytes
    BY <1>2
  <2>4. BlockBytes + PageSize <= BlockBytes
    BY <2>1, <2>2, <2>3, <1>2
  <2> QED
    BY <2>4
<1> QED
  BY <1>2, <1>3

\* Where the sum does not wrap, the code's test is the one Wasm asks for.
LEMMA GrowthTest ==
  ASSUME SizesFit, SInv, phase = "running", NEW delta \in Deltas
  PROVE  /\ delta \in Nat
         /\ (CurrentPages + delta) % U32 = CurrentPages + delta
         /\ CurrentPages % U32 = CurrentPages
<1>1. delta \in Nat /\ MaxPages + delta < U32 /\ U32 \in Nat
  BY SizesAssumption DEF SizesFit
<1>2. CurrentPages \in Nat /\ CurrentPages + delta < U32 /\ CurrentPages < U32
  BY <1>1, RunningPages, SizesAssumption
<1> QED
  BY <1>1, <1>2, Smaller

LEMMA MemoryGrowSizes ==
  ASSUME SizesFit, SInv, NEW delta \in Deltas, MemoryGrow(delta)
  PROVE  SInv' /\ Size' >= Size
<1> USE SizeFacts
<1>1. /\ phase = "running" /\ phase' = "running"
      /\ UNCHANGED <<maximum, stored, mem>>
  BY DEF MemoryGrow
<1>2. CASE (CurrentPages + delta) % U32 > Limit
  <2>1. UNCHANGED <<phase, maximum, stored, x25, mem>> /\ result' = Is("err")
    BY <1>1, <1>2 DEF MemoryGrow
  <2>2. TypeOK' /\ SizeWithinLimits'
    BY <2>1 DEF SInv, TypeOK, Is, SizeWithinLimits, Size
  <2> QED
    BY <2>1, <2>2 DEF SInv, Size
<1>3. CASE ~((CurrentPages + delta) % U32 > Limit)
  <2> DEFINE total == CurrentPages + delta
  <2>1. /\ delta \in Nat /\ CurrentPages \in 0..MaxPages /\ total \in Nat
        /\ total <= Limit /\ Limit \in 0..MaxPages
        /\ maximum # NoMaximum => Limit <= maximum
    BY <1>1, <1>3, GrowthTest, RunningPages, LimitFacts
  <2>2. /\ result' = Pages(CurrentPages) /\ x25' = x25 + delta * PageSize
    BY <1>1, <1>3, GrowthTest DEF MemoryGrow
  <2>3. x25' = total * PageSize
    <3>1. total * PageSize = CurrentPages * PageSize + delta * PageSize
      BY <2>1
    <3> QED
      BY <1>1, <2>2, <3>1, RunningPages
  <2>4. /\ x25' \in 0..BlockBytes /\ x25' % PageSize = 0 /\ x25' >= x25
    <3>1. total * PageSize \in Nat /\ total * PageSize <= MaxPages * PageSize
      BY <2>1, Product, ProductMonotone
    <3>2. (total * PageSize) % PageSize = 0
      BY <2>1, WholePages
    <3>3. delta * PageSize \in Nat
      BY <2>1, Product
    <3> HIDE DEF total
    <3> QED
      BY <2>2, <2>3, <3>1, <3>2, <3>3 DEF BlockBytes
  <2>5. maximum # NoMaximum => x25' <= maximum * PageSize
    <3> SUFFICES ASSUME maximum # NoMaximum PROVE x25' <= maximum * PageSize
      OBVIOUS
    <3>1. maximum \in Nat /\ total <= maximum
      BY <2>1, SizesAssumption DEF SInv, TypeOK
    <3> QED
      BY <2>1, <2>3, <3>1, ProductMonotone
  <2>6. TypeOK'
    BY <1>1, <2>1, <2>2, <2>4 DEF SInv, TypeOK, Pages
  <2>7. SizeWithinLimits'
    <3>1. maximum # NoMaximum => ~(x25' > maximum * PageSize)
      <4> SUFFICES ASSUME maximum # NoMaximum PROVE ~(x25' > maximum * PageSize)
        OBVIOUS
      <4>1. maximum \in Nat
        BY SizesAssumption DEF SInv, TypeOK
      <4> QED
        BY <2>4, <2>5, <4>1, Product
    <3> QED
      BY <1>1, <2>4, <3>1 DEF SizeWithinLimits, Size
  <2> QED
    BY <1>1, <2>4, <2>6, <2>7 DEF SInv, Size
<1> QED
  BY <1>2, <1>3

\* Growth moves X25 up and writes nothing.
LEMMA MemoryGrowFresh ==
  ASSUME SizesFit, IInv, NEW delta \in Deltas, MemoryGrow(delta)
  PROVE  BeyondSizeZero'
<1>1. Size' >= Size /\ SInv'
  BY MemoryGrowSizes DEF IInv
<1>2. phase = "running" /\ phase' = "running" /\ UNCHANGED <<stored, mem>>
  BY DEF MemoryGrow
<1>3. x25' >= x25 /\ x25 \in Nat /\ x25' \in Nat
  BY <1>1, <1>2, SizeFacts, SizesAssumption, Product DEF Size, IInv, SInv, TypeOK, BlockBytes
<1> QED
  BY <1>2, <1>3 DEF IInv, BeyondSizeZero, Size

LEMMA MemorySizeReads ==
  ASSUME SInv, MemorySize
  PROVE  SInv' /\ Size' = Size
<1> USE SizeFacts
<1>1. /\ phase = "running" /\ result' = Pages(CurrentPages % U32)
      /\ UNCHANGED <<phase, maximum, stored, x25, mem>>
  BY DEF MemorySize
<1>2. CurrentPages \in 0..MaxPages /\ CurrentPages < U32
  <2>1. CurrentPages \in Nat
    BY <1>1, RunningPages
  <2>2. CurrentPages * 1 <= CurrentPages * PageSize
    BY <2>1
  <2> QED
    BY <1>1, <2>1, <2>2, RunningPages
<1>3. result' = Pages(CurrentPages)
  BY <1>1, <1>2, Smaller
<1>4. TypeOK'
  <2>1. result' \in [kind: {"pages"}, n: 0..MaxPages]
    BY <1>2, <1>3 DEF Pages
  <2> QED
    BY <1>1, <2>1 DEF SInv, TypeOK
<1>5. SizeWithinLimits'
  BY <1>1 DEF SInv, SizeWithinLimits, Size
<1> QED
  BY <1>1, <1>4, <1>5 DEF SInv, Size

-----------------------------------------------------------------------------
(* Loads and stores *)

LEMMA LoadSizes ==
  ASSUME SInv, NEW a \in Addresses, NEW kind \in DOMAIN LoadBytes,
         Load(a, kind)
  PROVE  SInv' /\ (~TrapsAfterGrowth => Size' = Size)
<1> USE SizeFacts
<1>1. phase = "running"
  BY DEF Load
<1>2. CASE Trap("Out_of_bounds_memory_access")
  BY <1>2, TrapSizes
<1>3. CASE /\ InBounds(a, LoadBytes[kind])
           /\ result' = Word([i \in 0..(WordBytes - 1) |->
                                  IF i < LoadBytes[kind] THEN mem[a + i] ELSE 0])
           /\ UNCHANGED <<phase, maximum, stored, x25, mem>>
  <2> DEFINE word == [i \in 0..(WordBytes - 1) |->
                         IF i < LoadBytes[kind] THEN mem[a + i] ELSE 0]
  <2>1. a \in Nat /\ LoadBytes[kind] \in Nat /\ a + LoadBytes[kind] <= BlockBytes
    BY <1>3, SizesAssumption DEF InBounds
  <2>2. word \in [0..(WordBytes - 1) -> Byte]
    <3> SUFFICES ASSUME NEW i \in 0..(WordBytes - 1), i < LoadBytes[kind]
                 PROVE  mem[a + i] \in Byte
      BY SizesAssumption
    <3>1. a + i \in 0..(BlockBytes - 1)
      <4>1. i \in Nat /\ BlockBytes \in Nat
        BY SizesAssumption
      <4> QED
        BY <2>1, <4>1
    <3> QED
      BY <3>1 DEF SInv, TypeOK
  <2>3. TypeOK'
    <3>1. result' = [kind |-> "word", word |-> word]
      BY <1>3 DEF Word
    <3> HIDE DEF word
    <3>2. result' \in [kind: {"word"}, word: [0..(WordBytes - 1) -> Byte]]
      BY <2>2, <3>1
    <3> QED
      BY <1>3, <3>2 DEF SInv, TypeOK
  <2>4. SizeWithinLimits'
    BY <1>3 DEF SInv, SizeWithinLimits, Size
  <2> QED
    BY <1>3, <2>3, <2>4 DEF SInv, Size
<1> QED
  BY <1>1, <1>2, <1>3 DEF Load

LEMMA StoreSizes ==
  ASSUME SInv, NEW a \in Addresses, NEW kind \in DOMAIN StoreBytes,
         NEW word \in Words, NEW x0 \in FirstRegister, Store(a, kind, word, x0)
  PROVE  SInv' /\ (~TrapsAfterGrowth => Size' = Size)
<1> USE SizeFacts
<1> DEFINE to == Target(a, kind, x0)
           written == StoreWrites[kind]
<1>1. CASE Trap("Out_of_bounds_memory_access")
  BY <1>1, TrapSizes
<1>2. CASE /\ phase = "running"
           /\ mem' = [b \in DOMAIN mem |->
                         IF b >= to /\ b < to + written THEN word[b - to] ELSE mem[b]]
           /\ UNCHANGED <<phase, maximum, stored, x25, result>>
  <2>1. to \in Nat /\ written \in 1..WordBytes /\ WordBytes \in Nat
    BY SizesAssumption DEF Target
  <2> HIDE DEF to, written
  <2>2. DOMAIN mem = 0..(BlockBytes - 1) /\ \A b \in 0..(BlockBytes - 1) : mem[b] \in Byte
    BY DEF SInv, TypeOK
  <2>3. mem' \in [0..(BlockBytes - 1) -> Byte]
    <3>1. \A i \in 0..(WordBytes - 1) : word[i] \in Byte
      BY SizesAssumption
    <3>2. \A b \in 0..(BlockBytes - 1) :
            b >= to /\ b < to + written => b - to \in 0..(WordBytes - 1)
      BY <2>1
    <3> QED
      BY <1>2, <2>2, <3>1, <3>2
  <2>4. TypeOK'
    BY <1>2, <2>3 DEF SInv, TypeOK
  <2>5. SizeWithinLimits'
    BY <1>2 DEF SInv, SizeWithinLimits, Size
  <2> QED
    BY <1>2, <2>4, <2>5 DEF SInv, Size
<1> QED
  BY <1>1, <1>2 DEF Store

\* Under MemoryFits a store writes the bytes that were checked.
LEMMA StoreTarget ==
  ASSUME MemoryFits, NEW a \in Addresses, NEW kind \in DOMAIN StoreBytes,
         NEW x0 \in FirstRegister
  PROVE  /\ a \in Nat /\ Target(a, kind, x0) = a
         /\ StoreBytes[kind] \in 1..WordBytes /\ StoreWrites[kind] = StoreBytes[kind]
BY SizesAssumption DEF MemoryFits, Target

LEMMA StoreFresh ==
  ASSUME MemoryFits, IInv, NEW a \in Addresses, NEW kind \in DOMAIN StoreBytes,
         NEW word \in Words, NEW x0 \in FirstRegister, Store(a, kind, word, x0)
  PROVE  BeyondSizeZero'
<1> USE SizeFacts DEF IInv
<1>1. phase = "running" /\ Target(a, kind, x0) = a
  BY StoreTarget DEF Store
<1>2. CASE Trap("Out_of_bounds_memory_access")
  BY <1>1, <1>2, TrapSizes, SameFresh DEF Trap, MemoryFits
<1>3. CASE /\ InBounds(a, StoreBytes[kind])
           /\ mem' = [b \in DOMAIN mem |->
                         IF b >= a /\ b < a + StoreBytes[kind] THEN word[b - a] ELSE mem[b]]
           /\ UNCHANGED <<phase, maximum, stored, x25, result>>
  <2>1. /\ a \in Nat /\ StoreBytes[kind] \in 1..WordBytes
        /\ a + StoreBytes[kind] <= x25 /\ WordBytes \in Nat
    BY <1>3, StoreTarget, SizesAssumption DEF InBounds
  <2>2. DOMAIN mem = 0..(BlockBytes - 1)
    BY DEF SInv, TypeOK
  <2> SUFFICES ASSUME NEW b \in 0..(BlockBytes - 1), b >= x25
               PROVE  mem'[b] = 0
    BY <1>1, <1>3 DEF BeyondSizeZero, Size
  <2>3. mem[b] = 0
    BY <1>1 DEF BeyondSizeZero, Size
  <2> QED
    BY <1>3, <2>1, <2>2, <2>3
<1> QED
  BY <1>1, <1>2, <1>3, StoreTarget DEF Store

-----------------------------------------------------------------------------
(* The theorems *)

LEMMA NextSizes ==
  ASSUME SizesFit, SInv, [Next]_vars
  PROVE  SInv' /\ (~TrapsAfterGrowth => Size' >= Size)
<1> USE SizeFacts
<1>1. CASE UNCHANGED vars
  BY <1>1 DEF vars, SInv, TypeOK, SizeWithinLimits, Size
<1>2. ASSUME NEW initial \in Initials, NEW max \in Maxima, ParseMemory(initial, max)
      PROVE  SInv' /\ Size' >= Size
  <2>1. Size = 0 /\ SInv'
    BY <1>2, ParseMemorySizes DEF ParseMemory, SInv, Size
  <2>2. Size' \in Nat
    BY <2>1, <1>2, SizesAssumption DEF ParseMemory, Size, SInv, TypeOK
  <2> QED
    BY <2>1, <2>2
<1>3. ASSUME NEW a \in Addresses, NEW s \in Segments, ParseData(a, s)
      PROVE  SInv' /\ Size' >= Size
  BY <1>3, ParseDataSizes
<1>4. CASE Compiled
  BY <1>4, CompiledSizes
<1>5. CASE Enter
  BY <1>5, EnterSizes
<1>6. CASE Leave
  BY <1>6, LeaveSizes
<1>7. CASE OtherTrap
  BY <1>7, TrapSizes DEF OtherTrap
<1>8. ASSUME NEW d \in Deltas, MemoryGrow(d)
      PROVE  SInv' /\ Size' >= Size
  BY <1>8, MemoryGrowSizes
<1>9. CASE MemorySize
  BY <1>9, MemorySizeReads
<1>10. ASSUME NEW a \in Addresses, NEW k \in DOMAIN LoadBytes, Load(a, k)
       PROVE  SInv' /\ (~TrapsAfterGrowth => Size' >= Size)
  BY <1>10, LoadSizes
<1>11. ASSUME NEW a \in Addresses, NEW k \in DOMAIN StoreBytes, NEW w \in Words,
              NEW x0 \in FirstRegister, Store(a, k, w, x0)
       PROVE  SInv' /\ (~TrapsAfterGrowth => Size' >= Size)
  BY <1>11, StoreSizes
<1> QED
  BY <1>1, <1>2, <1>3, <1>4, <1>5, <1>6, <1>7, <1>8, <1>9, <1>10, <1>11 DEF Next

LEMMA NextPreserves ==
  ASSUME MemoryFits, IInv, [Next]_vars
  PROVE  IInv'
<1>1. /\ SizesFit /\ ~TrapsAfterGrowth /\ SInv /\ SInv'
      /\ BeyondSizeZero
  BY NextSizes DEF MemoryFits, IInv
<1> SUFFICES BeyondSizeZero'
  BY <1>1 DEF IInv
<1>2. CASE UNCHANGED vars
  BY <1>1, <1>2 DEF vars, BeyondSizeZero, Size
<1>3. ASSUME NEW initial \in Initials, NEW max \in Maxima, ParseMemory(initial, max)
      PROVE  BeyondSizeZero'
  BY <1>3, ParseMemoryFresh
<1>4. ASSUME NEW a \in Addresses, NEW s \in Segments, ParseData(a, s)
      PROVE  BeyondSizeZero'
  BY <1>4, ParseDataFresh
<1>5. CASE Compiled
  BY <1>1, <1>5, CompiledSizes, SameFresh DEF Compiled
<1>6. CASE Enter
  BY <1>1, <1>6, EnterSizes, SameFresh DEF Enter
<1>7. CASE Leave
  BY <1>1, <1>7, LeaveSizes, SameFresh DEF Leave
<1>8. CASE OtherTrap
  BY <1>1, <1>8, TrapSizes, SameFresh DEF OtherTrap, Trap
<1>9. ASSUME NEW d \in Deltas, MemoryGrow(d)
      PROVE  BeyondSizeZero'
  BY <1>1, <1>9, MemoryGrowFresh
<1>10. CASE MemorySize
  BY <1>1, <1>10, MemorySizeReads, SameFresh DEF MemorySize
<1>11. ASSUME NEW a \in Addresses, NEW k \in DOMAIN LoadBytes, Load(a, k)
       PROVE  BeyondSizeZero'
  BY <1>1, <1>11, LoadSizes, SameFresh DEF Load, Trap
<1>12. ASSUME NEW a \in Addresses, NEW k \in DOMAIN StoreBytes, NEW w \in Words,
              NEW x0 \in FirstRegister, Store(a, k, w, x0)
       PROVE  BeyondSizeZero'
  BY <1>12, StoreFresh
<1> QED
  BY <1>2, <1>3, <1>4, <1>5, <1>6, <1>7, <1>8, <1>9, <1>10, <1>11, <1>12 DEF Next

\* The two sizes stay what they should be, wherever stores and data go.
THEOREM SizesInvariance == SizesFit => (Spec => []SInv)
<1> SUFFICES ASSUME SizesFit PROVE Spec => []SInv
  OBVIOUS
<1>1. Init => SInv
  BY InitEstablishes DEF IInv
<1>2. SInv /\ [Next]_vars => SInv'
  BY NextSizes
<1> QED
  BY <1>1, <1>2, PTL DEF Spec

\* The inductive invariant holds throughout.
THEOREM Invariance == MemoryFits => (Spec => []IInv)
<1> SUFFICES ASSUME MemoryFits PROVE Spec => []IInv
  OBVIOUS
<1>1. IInv /\ [Next]_vars => IInv'
  BY NextPreserves
<1> QED
  BY InitEstablishes, <1>1, PTL DEF Spec

\* X25 and the saved size never leave the allocated block, and every byte of
\* it stays a byte, for every page size, limit and word width, even in programs
\* whose stores or data go astray within the block or that trap after growth.
THEOREM TypeCorrect == SizesFit => (Spec => []TypeOK)
<1> SUFFICES ASSUME SizesFit PROVE Spec => []TypeOK
  OBVIOUS
<1>1. SInv => TypeOK
  BY DEF SInv
<1> QED
  BY SizesInvariance, <1>1, PTL

\* memory.grow's comparison keeps memory within the module's maximum.
THEOREM SizeStaysWithinLimits == SizesFit => (Spec => []SizeWithinLimits)
<1> SUFFICES ASSUME SizesFit PROVE Spec => []SizeWithinLimits
  OBVIOUS
<1>1. SInv => SizeWithinLimits
  BY DEF SInv
<1> QED
  BY SizesInvariance, <1>1, PTL

\* memory.grow hands out zeros without clearing anything.
THEOREM FreshMemoryIsZero == MemoryFits => (Spec => []BeyondSizeZero)
<1> SUFFICES ASSUME MemoryFits PROVE Spec => []BeyondSizeZero
  OBVIOUS
<1>1. IInv => BeyondSizeZero
  BY DEF IInv
<1> QED
  BY Invariance, <1>1, PTL

\* Growth survives every way of ending a call but a trap (the wrapper saves
\* X25 only behind the call, so the last hypothesis cannot be dropped).
THEOREM MemoryNeverShrinks ==
  SizesFit /\ ~TrapsAfterGrowth => (Spec => SizeNeverShrinks)
<1> SUFFICES ASSUME SizesFit, ~TrapsAfterGrowth PROVE Spec => SizeNeverShrinks
  OBVIOUS
<1>1. SInv /\ [Next]_vars => [Size' >= Size]_vars
  BY NextSizes
<1> QED
  BY SizesInvariance, <1>1, PTL DEF Spec, SizeNeverShrinks

-----------------------------------------------------------------------------
\* The refinement mapping of LinearMemory, where a module is present.
LEMMA MappedPages ==
  ASSUME SInv, Present
  PROVE  /\ Size \div PageSize \in Nat
         /\ Wasm!Size = Size
<1>1. Size \div PageSize \in Nat /\ Size = (Size \div PageSize) * PageSize
  BY SizeFacts, PageCount
<1> QED
  BY <1>1 DEF Wasm!Size

LEMMA MappedPagesNext ==
  ASSUME SInv', Present'
  PROVE  /\ Size' \in Nat /\ Size' \div PageSize \in Nat
         /\ Size' = (Size' \div PageSize) * PageSize
<1>1. PageSize \in Nat \ {0} /\ BlockBytes \in Nat
  BY SizesAssumption, Product DEF BlockBytes
<1>2. Size' \in Nat /\ Size' % PageSize = 0
  <2>1. stored' \in Nat /\ x25' \in Nat
    BY <1>1 DEF SInv, TypeOK
  <2>2. Size' \in Nat
    BY <2>1 DEF Size
  <2>3. Size' % PageSize = 0
    BY DEF SInv, SizeWithinLimits
  <2> QED
    BY <2>2, <2>3
<1> QED
  BY <1>1, <1>2, PageCount

LEMMA InitMaps == Init => Wasm!Init
<1> SUFFICES ASSUME Init PROVE Wasm!Init
  OBVIOUS
<1>1. Size = 0 /\ Present /\ PageSize \in Nat \ {0}
  BY SizesAssumption DEF Init, Size, Present
<1>2. Size \div PageSize = 0
  BY <1>1
<1> QED
  BY <1>1, <1>2
     DEF Init, Wasm!Init, Wasm!Zeros, Wasm!Is, Is, PageLimit, NoMaximum

\* A module that is refused has no memory any more.
LEMMA RefuseMaps ==
  ASSUME phase' = "rejected", UNCHANGED <<maximum, result>>
  PROVE  Wasm!Refuse
BY DEF Wasm!Refuse, Wasm!Zeros, Present

LEMMA ParseMemoryMaps ==
  ASSUME IInv, SInv', NEW initial \in Initials, NEW max \in Maxima,
         ParseMemory(initial, max)
  PROVE  Wasm!Declare(initial, PageLimit(max))
<1> USE DEF IInv
<1>1. CASE phase' = "rejected"
  BY <1>1, RefuseMaps DEF ParseMemory, Wasm!Declare
<1>2. CASE phase' = "module"
  <2>1. /\ phase = "start" /\ stored' = initial * PageSize /\ maximum' = max
        /\ Size' = stored' /\ Present' /\ UNCHANGED <<mem, result>>
    BY <1>2 DEF ParseMemory, Size, Present
  <2>2. initial \in Nat /\ PageSize \in Nat \ {0}
    BY SizesAssumption
  <2>3. Size' \div PageSize = initial
    BY <2>1, <2>2, WholePages
  <2>4. \A a \in 0..(initial * PageSize - 1) : mem[a] = 0
    <3>1. stored = 0 /\ \A a \in 0..(BlockBytes - 1) : mem[a] = 0
      BY <2>1, SizeFacts DEF SInv, BeyondSizeZero, Size
    <3>2. initial * PageSize \in 0..BlockBytes
      BY <2>1 DEF SInv, TypeOK
    <3> QED
      BY <3>1, <3>2, SizeFacts
  <2> QED
    BY <1>2, <2>1, <2>3, <2>4 DEF Wasm!Declare, Wasm!Zeros
<1> QED
  BY <1>1, <1>2 DEF ParseMemory

LEMMA ParseDataMaps ==
  ASSUME MemoryFits, IInv, NEW offset \in Addresses, NEW segment \in Segments,
         ParseData(offset, segment)
  PROVE  Wasm!Data(offset, segment)
<1> USE DEF IInv
<1>1. /\ phase = "module" /\ Present /\ Size = stored /\ Size' = stored
      /\ \A i \in DOMAIN segment : offset + i < stored
      /\ UNCHANGED <<maximum, stored, x25, result>>
  BY DEF ParseData, MemoryFits, Present, Size
<1>2. CASE phase' = "rejected"
  BY <1>1, <1>2, RefuseMaps DEF Wasm!Data
<1>3. CASE phase' = "module"
  <2>1. Present' /\ Wasm!Size = stored
    BY <1>1, <1>3, MappedPages DEF Present
  <2>2. \A i \in DOMAIN segment : offset + i < PageSize
    BY <1>3 DEF ParseData
  <2>3. \A i \in DOMAIN segment : i \in Int
    BY SizesAssumption
  <2>4. \A a \in 0..(stored - 1) :
          mem'[a] = IF a - offset \in DOMAIN segment THEN segment[a - offset] ELSE mem[a]
    <3> SUFFICES ASSUME NEW a \in 0..(stored - 1)
                 PROVE  mem'[a] = IF a - offset \in DOMAIN segment
                                    THEN segment[a - offset] ELSE mem[a]
      OBVIOUS
    <3>1. a \in DOMAIN mem
      BY SizeFacts DEF SInv, TypeOK
    <3>2. a - offset \in DOMAIN segment => a < PageSize
      <4>1. offset \in Int /\ a = offset + (a - offset)
        BY SizesAssumption
      <4> QED
        BY <4>1, <2>2
    <3> QED
      BY <3>1, <3>2 DEF ParseData
  <2> QED
    BY <1>1, <1>3, <2>1, <2>4 DEF Wasm!Data
<1> QED
  BY <1>2, <1>3 DEF ParseData

LEMMA CompiledMaps == ASSUME Compiled PROVE Wasm!Link
BY DEF Compiled, Wasm!Link, Present, Size

LEMMA EnterMaps == ASSUME Enter PROVE Wasm!Enter
BY DEF Enter, Wasm!Enter, Present, Size

LEMMA LeaveMaps ==
  ASSUME SInv, Leave
  PROVE  Wasm!Leave
<1>1. Size' = Size /\ Present /\ Present'
  BY LeaveSizes DEF Leave, Size, Present
<1> QED
  BY <1>1 DEF Leave, Wasm!Leave

LEMMA TrapMaps ==
  ASSUME ~TrapsAfterGrowth, SInv, NEW code \in {"other", "Out_of_bounds_memory_access"},
         Trap(code)
  PROVE  Wasm!Trap(code)
<1>1. Size' = Size /\ Present /\ Present'
  BY TrapSizes DEF Trap, Present
<1> QED
  BY <1>1 DEF Trap, Wasm!Trap, Is, Wasm!Is

LEMMA MemorySizeMaps ==
  ASSUME SInv, MemorySize
  PROVE  Wasm!MemorySize
<1>1. /\ phase = "running" /\ Present /\ result' = Pages(CurrentPages % U32)
      /\ UNCHANGED <<phase, maximum, stored, x25, mem>>
  BY DEF MemorySize, Present
<1>2. CurrentPages = Size \div PageSize /\ Present' /\ Size' = Size
  BY <1>1 DEF CurrentPages, Size, Present
<1>3. CurrentPages % U32 = CurrentPages
  <2>1. CurrentPages \in Nat /\ CurrentPages <= MaxPages /\ U32 \in Nat
    BY <1>1, RunningPages, SizesAssumption
  <2>2. CurrentPages <= x25
    <3>1. CurrentPages * 1 <= CurrentPages * PageSize
      BY <2>1, SizeFacts
    <3> QED
      BY <1>1, <2>1, <3>1, RunningPages
  <2>3. CurrentPages < U32
    BY <2>1, <2>2, SizeFacts
  <2> QED
    BY <2>1, <2>3, Smaller
<1> QED
  BY <1>1, <1>2, <1>3 DEF Wasm!MemorySize, Pages, Wasm!Pages

\* An address that memory.grow has added lies in the block, beyond the old size.
LEMMA BetweenSizes ==
  ASSUME NEW old \in Nat, NEW block \in Nat, NEW new \in 0..block,
         NEW a \in 0..(new - 1), ~(a < old)
  PROVE  a \in 0..(block - 1) /\ a >= old
OBVIOUS

LEMMA MemoryGrowMaps ==
  ASSUME SizesFit, IInv, SInv', NEW delta \in Deltas, MemoryGrow(delta)
  PROVE  Wasm!Grow(delta)
<1> USE DEF IInv
<1>1. /\ phase = "running" /\ Present /\ phase' = phase /\ Present'
      /\ Size = x25 /\ Size' = x25'
      /\ UNCHANGED <<maximum, stored, mem>>
  BY DEF MemoryGrow, Present, Size
<1>2. /\ CurrentPages = Size \div PageSize /\ CurrentPages \in 0..MaxPages
      /\ x25 = CurrentPages * PageSize
  BY <1>1, RunningPages DEF CurrentPages
<1>3. PageLimit(maximum) = Limit /\ Limit \in Nat
  BY SizesAssumption, LimitFacts DEF PageLimit, Limit, SInv, TypeOK
<1>4. /\ delta \in Nat
      /\ (CurrentPages + delta) % U32 = CurrentPages + delta
      /\ CurrentPages % U32 = CurrentPages
  BY <1>1, GrowthTest
<1>5. CASE CurrentPages + delta > Limit
  <2>1. result' = Is("err") /\ UNCHANGED x25
    BY <1>4, <1>5 DEF MemoryGrow
  <2>2. ~(CurrentPages + delta <= Limit)
    BY <1>2, <1>3, <1>4, <1>5
  <2> QED
    BY <1>1, <1>2, <1>3, <2>1, <2>2 DEF Wasm!Grow, Is, Wasm!Is
<1>6. CASE ~(CurrentPages + delta > Limit)
  <2> DEFINE total == CurrentPages + delta
  <2>1. /\ total <= Limit /\ total \in Nat
        /\ result' = Pages(CurrentPages) /\ x25' = x25 + delta * PageSize
    BY <1>2, <1>3, <1>4, <1>6 DEF MemoryGrow
  <2>2. PageSize \in Nat \ {0}
    BY SizesAssumption
  <2>3. Size' = total * PageSize
    <3>1. total * PageSize = CurrentPages * PageSize + delta * PageSize
      BY <1>2, <1>4, <2>2
    <3> QED
      BY <1>1, <1>2, <2>1, <3>1
  <2>4. Size' \div PageSize = total
    BY <2>1, <2>2, <2>3, WholePages
  <2>5. Wasm!Size = Size
    BY <1>1, MappedPages
  <2>6. \A a \in 0..(Size' - 1) : mem'[a] = IF a < Size THEN mem[a] ELSE 0
    <3> SUFFICES ASSUME NEW a \in 0..(Size' - 1), ~(a < Size) PROVE mem[a] = 0
      BY <1>1
    <3>1. \A b \in 0..(BlockBytes - 1) : b >= Size => mem[b] = 0
      BY <1>1 DEF BeyondSizeZero
    <3>2. x25' \in 0..BlockBytes
      BY DEF SInv, TypeOK
    <3>3. x25 \in Nat /\ BlockBytes \in Nat
      BY SizeFacts
    <3>4. a \in 0..(x25' - 1) /\ ~(a < x25)
      BY <1>1
    <3>5. a \in 0..(BlockBytes - 1) /\ a >= x25
      BY <3>2, <3>3, <3>4, BetweenSizes
    <3> QED
      BY <1>1, <3>1, <3>5
  <2>7. [a \in 0..(Size' - 1) |-> mem'[a]]
          = [a \in 0..(total * PageSize - 1) |->
               IF a < Size THEN [b \in 0..(Size - 1) |-> mem[b]][a] ELSE 0]
    <3> SUFFICES ASSUME NEW a \in 0..(Size' - 1), a < Size
                 PROVE  [b \in 0..(Size - 1) |-> mem[b]][a] = mem[a]
      BY <2>3, <2>6
    <3>1. a \in 0..(Size - 1)
      BY SizeFacts
    <3> QED
      BY <3>1
  <2> HIDE DEF total
  <2>8. total = (Size \div PageSize) + delta
    BY <1>2 DEF total
  <2> QED
    BY <1>1, <1>2, <1>3, <2>1, <2>4, <2>5, <2>7, <2>8 DEF Wasm!Grow, Pages, Wasm!Pages
<1> QED
  BY <1>5, <1>6

LEMMA LoadMaps ==
  ASSUME ~TrapsAfterGrowth, SInv, NEW a \in Addresses, NEW kind \in DOMAIN LoadBytes,
         Load(a, kind)
  PROVE  Wasm!Load(a, kind)
<1>1. phase = "running" /\ Present /\ Size = x25 /\ Wasm!Size = x25
  BY MappedPages DEF Load, Present, Size
<1>2. a \in Nat /\ LoadBytes[kind] \in Nat /\ x25 \in Nat
  BY SizesAssumption, SizeFacts
<1>3. CASE ~InBounds(a, LoadBytes[kind])
  <2>1. Trap("Out_of_bounds_memory_access")
    BY <1>3 DEF Load
  <2> QED
    BY <1>1, <1>3, <2>1, TrapMaps DEF InBounds, Wasm!Load
<1>4. CASE InBounds(a, LoadBytes[kind])
  <2>1. /\ result' = Word([i \in 0..(WordBytes - 1) |->
                                  IF i < LoadBytes[kind] THEN mem[a + i] ELSE 0])
        /\ UNCHANGED <<phase, maximum, stored, x25, mem>>
    BY <1>4 DEF Load
  <2>2. Size' = Size /\ Present'
    BY <1>1, <2>1 DEF Size, Present
  <2>3. \A i \in 0..(WordBytes - 1) : i < LoadBytes[kind] => a + i \in 0..(Size - 1)
    BY <1>1, <1>2, <1>4, SizesAssumption DEF InBounds
  <2>4. [i \in 0..(WordBytes - 1) |-> IF i < LoadBytes[kind] THEN mem[a + i] ELSE 0]
          = [i \in 0..(WordBytes - 1) |->
               IF i < LoadBytes[kind] THEN [b \in 0..(Size - 1) |-> mem[b]][a + i] ELSE 0]
    BY <2>3
  <2> QED
    BY <1>1, <1>4, <2>1, <2>2, <2>4 DEF InBounds, Wasm!Load, Word, Wasm!Word
<1> QED
  BY <1>3, <1>4

LEMMA StoreMaps ==
  ASSUME MemoryFits, IInv, NEW a \in Addresses, NEW kind \in DOMAIN StoreBytes,
         NEW word \in Words, NEW x0 \in FirstRegister, Store(a, kind, word, x0)
  PROVE  Wasm!Store(a, kind, word)
<1> USE DEF IInv, MemoryFits
<1>1. phase = "running" /\ Present /\ Size = x25 /\ Wasm!Size = x25
  BY MappedPages DEF Store, Present, Size
<1>2. /\ a \in Nat /\ Target(a, kind, x0) = a
      /\ StoreBytes[kind] \in Nat /\ StoreWrites[kind] = StoreBytes[kind]
  BY StoreTarget, SizesAssumption
<1>3. CASE ~InBounds(a, StoreBytes[kind])
  <2>1. Trap("Out_of_bounds_memory_access")
    BY <1>3 DEF Store
  <2> QED
    BY <1>1, <1>3, <2>1, TrapMaps DEF InBounds, Wasm!Store
<1>4. CASE InBounds(a, StoreBytes[kind])
  <2>1. /\ mem' = [b \in DOMAIN mem |->
                      IF b >= a /\ b < a + StoreBytes[kind] THEN word[b - a] ELSE mem[b]]
        /\ UNCHANGED <<phase, maximum, stored, x25, result>>
    BY <1>2, <1>4 DEF Store
  <2>2. Size' = Size /\ Present'
    BY <1>1, <2>1 DEF Size, Present
  <2>3. 0..(Size - 1) \subseteq DOMAIN mem
    BY <1>1, SizeFacts DEF SInv, TypeOK
  <2>4. [b \in 0..(Size - 1) |-> mem'[b]]
          = [b \in 0..(Size - 1) |->
               IF b >= a /\ b < a + StoreBytes[kind] THEN word[b - a]
               ELSE [c \in 0..(Size - 1) |-> mem[c]][b]]
    BY <2>1, <2>3
  <2> QED
    BY <1>1, <1>4, <2>1, <2>2, <2>4 DEF InBounds, Wasm!Store
<1> QED
  BY <1>3, <1>4

-----------------------------------------------------------------------------

LEMMA StepMaps ==
  ASSUME MemoryFits, IInv, IInv', [Next]_vars
  PROVE  [Wasm!Next]_(Wasm!vars)
<1>0. SizesFit /\ ~TrapsAfterGrowth /\ SInv /\ SInv'
  BY DEF MemoryFits, IInv
<1>1. CASE UNCHANGED vars
  BY <1>1 DEF vars, Wasm!vars, Size, Present
<1>2. ASSUME NEW initial \in Initials, NEW max \in Maxima, ParseMemory(initial, max)
      PROVE  Wasm!Next
  BY <1>0, <1>2, ParseMemoryMaps DEF Wasm!Next
<1>3. ASSUME NEW a \in Addresses, NEW s \in Segments, ParseData(a, s)
      PROVE  Wasm!Next
  BY <1>3, ParseDataMaps DEF Wasm!Next
<1>4. CASE Compiled
  BY <1>4, CompiledMaps DEF Wasm!Next
<1>5. CASE Enter
  BY <1>5, EnterMaps DEF Wasm!Next
<1>6. CASE Leave
  BY <1>0, <1>6, LeaveMaps DEF Wasm!Next
<1>7. CASE OtherTrap
  BY <1>0, <1>7, TrapMaps DEF OtherTrap, Wasm!Next
<1>8. ASSUME NEW d \in Deltas, MemoryGrow(d)
      PROVE  Wasm!Next
  BY <1>0, <1>8, MemoryGrowMaps DEF Wasm!Next
<1>9. CASE MemorySize
  BY <1>0, <1>9, MemorySizeMaps DEF Wasm!Next
<1>10. ASSUME NEW a \in Addresses, NEW k \in DOMAIN LoadBytes, Load(a, k)
       PROVE  Wasm!Next
  BY <1>0, <1>10, LoadMaps DEF Wasm!Next
<1>11. ASSUME NEW a \in Addresses, NEW k \in DOMAIN StoreBytes, NEW w \in Words,
              NEW x0 \in FirstRegister, Store(a, k, w, x0)
       PROVE  Wasm!Next
  BY <1>11, StoreMaps DEF Wasm!Next
<1> QED
  BY <1>1, <1>2, <1>3, <1>4, <1>5, <1>6, <1>7, <1>8, <1>9, <1>10, <1>11 DEF Next

\* Registers and block implement Wasm's linear memory: what every load,
\* memory.size and memory.grow gives the program, and every trap, is what
\* Wasm allows, across calls and traps.
THEOREM Refinement == MemoryFits => (Spec => ImplementsWasmMemory)
<1> SUFFICES ASSUME MemoryFits PROVE Spec => ImplementsWasmMemory
  OBVIOUS
<1>1. IInv /\ IInv' /\ [Next]_vars => [Wasm!Next]_(Wasm!vars)
  BY StepMaps
<1> QED
  BY InitMaps, Invariance, <1>1, PTL DEF Spec, ImplementsWasmMemory, Wasm!Spec
=============================================================================
