---------------------------- MODULE LinearMemory ----------------------------
(***************************************************************************)
(* Linear memory as the compiler lays it out and the generated code uses   *)
(* it: one block of MaxLinearMemoryPages zeroed pages, the current size in *)
(* bytes in X25 (SizeLinMem) while JIT code runs, and in a 32-bit runtime  *)
(* block between calls.  memory.grow, memory.size, loads and stores are    *)
(* translated instruction by instruction; the width of a Wasm i32 is       *)
(* U32 values, and X registers do not overflow in any state reached.       *)
(***************************************************************************)
EXTENDS Integers

CONSTANTS
  PageSize,          \* config::DefaultPageSize
  MaxPages,          \* config::MaxLinearMemoryPages
  U32,               \* number of values of a 32-bit word (2^32)
  WordBytes,         \* bytes of an i32 (4)
  Byte,              \* values of a byte, 0 among them
  StoreBytes,        \* i32 store instruction -> bytes the source checks
  StoreWrites,       \* i32 store instruction -> bytes the emitted STR writes
  IndexedStores,     \* the stores whose STR adds X0 to the address
  FirstRegister,     \* what X0 may hold: the first argument, a call's result
  LoadBytes,         \* i32 load instruction -> bytes
  Initials,          \* declared initial page counts
  Maxima,            \* declared maxima, or NoMaximum
  Segments,          \* data segments: functions from 0..n-1 to Byte
  SegmentsInBounds,  \* TRUE: every data segment fits the declared memory
  Addresses,         \* i32 addresses programs use
  Deltas,            \* i32 arguments of memory.grow
  Words,             \* i32 values programs store: functions 0..WordBytes-1 -> Byte
  TrapsAfterGrowth   \* may a call that has grown memory still trap?

BlockBytes == MaxPages * PageSize
NoMaximum == -1      \* memoryInfo.hasLimit is FALSE

ASSUME SizesAssumption ==
  /\ PageSize \in Nat \ {0} /\ MaxPages \in Nat \ {0}
  /\ WordBytes \in Nat \ {0} /\ 0 \in Byte
  /\ U32 \in Nat /\ MaxPages * PageSize < U32
  /\ Initials \subseteq Nat
  /\ Maxima \subseteq (0..MaxPages) \cup {NoMaximum}  \* confirmed by parseMemorySection
  /\ Segments \subseteq UNION {[0..(n - 1) -> Byte] : n \in 0..BlockBytes}
  /\ Addresses \subseteq 0..(U32 - 1)
  /\ Deltas \subseteq 0..(U32 - 1)
  /\ Words \subseteq [0..(WordBytes - 1) -> Byte]
  /\ LoadBytes \in [DOMAIN LoadBytes -> 1..WordBytes]
  /\ StoreBytes \in [DOMAIN StoreBytes -> 1..WordBytes]
  /\ StoreWrites \in [DOMAIN StoreBytes -> 1..WordBytes]
  /\ IndexedStores \subseteq DOMAIN StoreBytes /\ FirstRegister \subseteq Nat
  /\ SegmentsInBounds \in BOOLEAN /\ TrapsAfterGrowth \in BOOLEAN

VARIABLES
  phase,    \* "start", "module", "idle", "running", "rejected"
  maximum,  \* memoryInfo.maximumSize, or NoMaximum
  stored,   \* linearMemoryByteSize, 32 bits
  x25,      \* SizeLinMem
  mem,      \* the linearMemory block
  result    \* what the last operation pushed, or the trap the host saw

vars == <<phase, maximum, stored, x25, mem, result>>

Is(kind) == [kind |-> kind]
Pages(n) == [kind |-> "pages", n |-> n]
Word(w) == [kind |-> "word", word |-> w]

Init ==
  /\ phase = "start"
  /\ maximum = NoMaximum /\ stored = 0 /\ x25 = 0
  /\ mem = [a \in 0..(BlockBytes - 1) |-> 0]
  /\ result = Is("none")

-----------------------------------------------------------------------------
\* parseMemorySection.  A size that does not fit 32 bits aborts.
ParseMemory(initial, max) ==
  /\ phase = "start"
  /\ IF initial * PageSize < U32
       THEN /\ phase' = "module" /\ maximum' = max
            /\ stored' = initial * PageSize
       ELSE phase' = "rejected" /\ UNCHANGED <<maximum, stored>>
  /\ UNCHANGED <<x25, mem, result>>

\* parseDataSection.  RuntimeBlock::set throws beyond the first page; it is
\* not told how much memory the module has.
ParseData(offset, segment) ==
  /\ phase = "module"
  /\ SegmentsInBounds => \A i \in DOMAIN segment : offset + i < stored
  /\ mem' = [a \in DOMAIN mem |->
               IF a < PageSize /\ a - offset \in DOMAIN segment
                 THEN segment[a - offset] ELSE mem[a]]
  /\ phase' = IF \A i \in DOMAIN segment : offset + i < PageSize
                THEN "module" ELSE "rejected"
  /\ UNCHANGED <<maximum, stored, x25, result>>

\* The rest of compilation touches no memory.
Compiled ==
  /\ phase = "module" /\ phase' = "idle"
  /\ UNCHANGED <<maximum, stored, x25, mem, result>>

-----------------------------------------------------------------------------
\* genWrapperFunction: X25 is loaded before the call and stored after it.
Enter ==
  /\ phase = "idle" /\ phase' = "running"
  /\ x25' = stored
  /\ UNCHANGED <<maximum, stored, mem, result>>

LeaveWithoutSaving ==
  /\ phase = "running" /\ phase' = "idle"
  /\ UNCHANGED <<maximum, stored, x25, mem, result>>

Leave ==
  /\ phase = "running" /\ phase' = "idle"
  /\ stored' = x25 % U32
  /\ UNCHANGED <<maximum, x25, mem, result>>

\* A trap leaves the wrapper by siglongjmp.
Trap(code) ==
  /\ phase = "running" /\ phase' = "idle"
  /\ TrapsAfterGrowth \/ x25 = stored
  /\ result' = Is(code)
  /\ UNCHANGED <<maximum, stored, x25, mem>>

\* Any other instruction of the program may trap too.
OtherTrap == Trap("other")

-----------------------------------------------------------------------------
\* MEMORY_GROW.  The new page count is a 32-bit sum, compared with the
\* smaller of the embedder's and the module's limit.
LimitNoEmbedder == IF maximum # NoMaximum THEN maximum ELSE U32 - 1
LimitUndeclared == MaxPages
Limit == IF maximum # NoMaximum /\ maximum <= MaxPages THEN maximum ELSE MaxPages
CurrentPages == x25 \div PageSize

GrowByOnePage(delta) ==
  /\ phase = "running"
  /\ IF (CurrentPages + delta) % U32 > Limit
       THEN result' = Is("err") /\ UNCHANGED x25
       ELSE result' = Pages(CurrentPages % U32) /\ x25' = x25 + PageSize
  /\ UNCHANGED <<phase, maximum, stored, mem>>

MemoryGrow(delta) ==
  /\ phase = "running"
  /\ IF (CurrentPages + delta) % U32 > Limit
       THEN result' = Is("err") /\ UNCHANGED x25
       ELSE result' = Pages(CurrentPages % U32) /\ x25' = x25 + delta * PageSize
  /\ UNCHANGED <<phase, maximum, stored, mem>>

MemorySize ==
  /\ phase = "running"
  /\ result' = Pages(CurrentPages % U32)
  /\ UNCHANGED <<phase, maximum, stored, x25, mem>>

\* Bounds checks compare the 64-bit end of the access with X25.
InBoundsOffByOne(a, size) == a + size <= x25 + 1
InBounds(a, size) == a + size <= x25

Load(a, kind) ==
  /\ phase = "running"
  /\ \/ /\ ~InBounds(a, LoadBytes[kind])
        /\ Trap("Out_of_bounds_memory_access")
     \/ /\ InBounds(a, LoadBytes[kind])
        /\ result' = Word([i \in 0..(WordBytes - 1) |->
                                  IF i < LoadBytes[kind] THEN mem[a + i] ELSE 0])
        /\ UNCHANGED <<phase, maximum, stored, x25, mem>>

\* The bytes the check covers and the bytes STR writes are separate tables.
\* str_w_r and str_h_w_r leave the index register field 0, which is X0.
\* What a store beyond the block overwrites is not modelled.
Target(a, kind, x0) == IF kind \in IndexedStores THEN a + x0 ELSE a

Store(a, kind, word, x0) ==
  LET to == Target(a, kind, x0)
  IN  /\ phase = "running"
      /\ \/ /\ ~InBounds(a, StoreBytes[kind])
            /\ Trap("Out_of_bounds_memory_access")
         \/ /\ InBounds(a, StoreBytes[kind])
            /\ mem' = [b \in DOMAIN mem |->
                         IF b >= to /\ b < to + StoreWrites[kind] THEN word[b - to] ELSE mem[b]]
            /\ UNCHANGED <<phase, maximum, stored, x25, result>>

Next ==
  \/ \E initial \in Initials, max \in Maxima : ParseMemory(initial, max)
  \/ \E a \in Addresses, s \in Segments : ParseData(a, s)
  \/ Compiled \/ Enter \/ Leave
  \/ OtherTrap
  \/ \E d \in Deltas : MemoryGrow(d)
  \/ MemorySize
  \/ \E a \in Addresses, k \in DOMAIN LoadBytes : Load(a, k)
  \/ \E a \in Addresses, k \in DOMAIN StoreBytes, w \in Words, x0 \in FirstRegister :
       Store(a, k, w, x0)

Spec == Init /\ [][Next]_vars

-----------------------------------------------------------------------------
(* Properties *)

\* The type invariant.  X25 and the saved size stay inside the block that
\* was allocated, so generated code never leaves it.
TypeOK ==
  /\ phase \in {"start", "module", "idle", "running", "rejected"}
  /\ maximum \in Maxima \cup {NoMaximum}
  /\ stored \in 0..BlockBytes /\ x25 \in 0..BlockBytes
  /\ mem \in [0..(BlockBytes - 1) -> Byte]
  /\ result \in [kind: {"none", "err", "other", "Out_of_bounds_memory_access"}]
              \cup [kind: {"pages"}, n: 0..MaxPages]
              \cup [kind: {"word"}, word: [0..(WordBytes - 1) -> Byte]]

\* The size the next load, store or call will go by.
Size == IF phase = "running" THEN x25 ELSE stored

\* MEMORY_GROW's limit check and the wrapper's saving of X25 keep the memory
\* a whole number of pages, never more than the module's declared maximum
\* (unless its initial size exceeds that, which nobody compares).
SizeWithinLimits ==
  /\ Size % PageSize = 0
  /\ maximum # NoMaximum /\ Size > maximum * PageSize => Size = stored

\* What memory.grow will hand out is zero: no data segment, store or earlier
\* call has ever put anything at or beyond the current size, since
\* MEMORY_GROW itself clears nothing.
BeyondSizeZero ==
  phase # "rejected" =>
    \A a \in 0..(BlockBytes - 1) : a >= Size => mem[a] = 0

\* Memory never shrinks, whatever ends a call: the next call starts with at
\* least the size the last one had reached.
SizeNeverShrinks == [][Size' >= Size]_vars

\* Registers and block implement Wasm's linear memory.
PageLimit(max) == IF max = NoMaximum THEN MaxPages ELSE max
Present == phase # "rejected"
Wasm == INSTANCE WasmMemory WITH
          pages  <- IF Present THEN Size \div PageSize ELSE 0,
          limit  <- PageLimit(maximum),
          bytes  <- [a \in 0..((IF Present THEN Size ELSE 0) - 1) |-> mem[a]],
          Maxima <- {PageLimit(max) : max \in Maxima}
ImplementsWasmMemory == Wasm!Spec
=============================================================================
