----------------------------- MODULE WasmMemory -----------------------------
(***************************************************************************)
(* What a Wasm program may expect of its linear memory: a number of pages, *)
(* never more than the declared maximum or the embedder's, every byte zero *)
(* until data or a store puts something there.  A trap ends the call and   *)
(* changes nothing.                                                        *)
(***************************************************************************)
EXTENDS Integers

CONSTANTS PageSize, MaxPages, WordBytes, StoreBytes, LoadBytes,
          Initials, Maxima, Segments, Addresses, Deltas, Words

VARIABLES
  phase,    \* "start", "module", "idle", "running", "rejected"
  pages,    \* current size
  limit,    \* the most pages this module may have
  bytes,    \* 0..pages*PageSize-1 -> Byte
  result    \* what the last operation gave the program or the host

vars == <<phase, pages, limit, bytes, result>>

Is(kind) == [kind |-> kind]
Pages(n) == [kind |-> "pages", n |-> n]
Word(w) == [kind |-> "word", word |-> w]

Size == pages * PageSize
Zeros(n) == [a \in 0..(n - 1) |-> 0]

Init ==
  /\ phase = "start" /\ pages = 0 /\ limit = MaxPages
  /\ bytes = Zeros(0) /\ result = Is("none")

\* A module may be refused while it is loaded, and then has no memory.
Refuse ==
  /\ phase' = "rejected" /\ pages' = 0 /\ bytes' = Zeros(0)
  /\ UNCHANGED <<limit, result>>

Declare(initial, max) ==
  /\ phase = "start"
  /\ \/ /\ phase' = "module" /\ pages' = initial /\ limit' = max
        /\ bytes' = Zeros(initial * PageSize)
        /\ UNCHANGED result
     \/ Refuse

\* A data segment may be refused, but never be put beyond the memory.
Data(offset, segment) ==
  /\ phase = "module"
  /\ \/ /\ \A i \in DOMAIN segment : offset + i < Size
        /\ bytes' = [a \in DOMAIN bytes |->
                       IF a - offset \in DOMAIN segment THEN segment[a - offset]
                                                        ELSE bytes[a]]
        /\ UNCHANGED <<phase, pages, limit, result>>
     \/ Refuse

Link == phase = "module" /\ phase' = "idle" /\ UNCHANGED <<pages, limit, bytes, result>>
Enter == phase = "idle" /\ phase' = "running" /\ UNCHANGED <<pages, limit, bytes, result>>
Leave == phase = "running" /\ phase' = "idle" /\ UNCHANGED <<pages, limit, bytes, result>>

Trap(code) ==
  /\ phase = "running" /\ phase' = "idle"
  /\ result' = Is(code)
  /\ UNCHANGED <<pages, limit, bytes>>

Grow(delta) ==
  /\ phase = "running"
  /\ IF pages + delta <= limit
       THEN /\ pages' = pages + delta
            /\ bytes' = [a \in 0..(pages' * PageSize - 1) |->
                           IF a < Size THEN bytes[a] ELSE 0]
            /\ result' = Pages(pages)
       ELSE result' = Is("err") /\ UNCHANGED <<pages, bytes>>
  /\ UNCHANGED <<phase, limit>>

MemorySize ==
  /\ phase = "running" /\ result' = Pages(pages)
  /\ UNCHANGED <<phase, pages, limit, bytes>>

Load(a, kind) ==
  /\ phase = "running"
  /\ IF a + LoadBytes[kind] <= Size
       THEN /\ result' = Word([i \in 0..(WordBytes - 1) |->
                                      IF i < LoadBytes[kind] THEN bytes[a + i] ELSE 0])
            /\ UNCHANGED <<phase, pages, limit, bytes>>
       ELSE Trap("Out_of_bounds_memory_access")

Store(a, kind, word) ==
  /\ phase = "running"
  /\ IF a + StoreBytes[kind] <= Size
       THEN /\ bytes' = [b \in DOMAIN bytes |->
                           IF b >= a /\ b < a + StoreBytes[kind] THEN word[b - a]
                                                                 ELSE bytes[b]]
            /\ UNCHANGED <<phase, pages, limit, result>>
       ELSE Trap("Out_of_bounds_memory_access")

Next ==
  \/ \E initial \in Initials, max \in Maxima : Declare(initial, max)
  \/ \E a \in Addresses, s \in Segments : Data(a, s)
  \/ Link \/ Enter \/ Leave
  \/ Trap("other")
  \/ \E d \in Deltas : Grow(d)
  \/ MemorySize
  \/ \E a \in Addresses, k \in DOMAIN LoadBytes : Load(a, k)
  \/ \E a \in Addresses, k \in DOMAIN StoreBytes, w \in Words : Store(a, k, w)

Spec == Init /\ [][Next]_vars
=============================================================================
