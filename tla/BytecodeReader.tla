--------------------------- MODULE BytecodeReader ---------------------------
(***************************************************************************)
(* BytecodeReader::readLEB128, one loop iteration at a time, and what Wasm *)
(* says such a sequence of bytes denotes.                                  *)
(*                                                                         *)
(* A byte is its continuation bit and its low bits.  Numbers have their    *)
(* width: RegisterBits is that of uint64_t, in which the code accumulates. *)
(***************************************************************************)
EXTENDS Integers, Sequences, PowersOfTwo

CONSTANTS
  GroupBits,      \* payload bits of a byte; 7 in the code
  RegisterBits    \* bits of the accumulator; 64 in the code

ASSUME WidthsAssumption ==
  GroupBits \in Nat \ {0} /\ RegisterBits \in Nat \ {0}

Byte == [more : BOOLEAN, low : 0..(Pow2[GroupBits] - 1)]
EndOfFile == [more |-> FALSE, low |-> -1]

Bit(n, i) == (n \div Pow2[i]) % 2

\* What the loop keeps between two bytes.
Start == [result |-> 0, written |-> 0]

\* bitsWritten > maxBits: the bits of the byte beyond maxBits repeat the sign.
Excess(read, maxBits) == read.written + GroupBits - maxBits
SignBit(byte, excess) == Bit(byte.low, GroupBits - 1 - excess)
Padding(byte, excess) == byte.low \div Pow2[GroupBits - excess]
\* As it would be if the sign were read above the excess bits.
PaddedByTop(byte, signed, excess) ==
  Padding(byte, excess) = IF signed /\ Bit(byte.low, GroupBits - 1) = 1 THEN Pow2[excess] - 1 ELSE 0
PaddedWell(byte, signed, excess) ==
  Padding(byte, excess) = IF signed /\ SignBit(byte, excess) = 1 THEN Pow2[excess] - 1 ELSE 0

TooLong(read, maxBits) == read.written >= maxBits
Refuses(read, byte, signed, maxBits) ==
  \/ byte = EndOfFile
  \/ TooLong(read, maxBits)
  \/ /\ ~TooLong(read, maxBits) /\ Excess(read, maxBits) > 0
     /\ ~PaddedWell(byte, signed, Excess(read, maxBits))

Accumulated(read, byte) ==
  [result |-> (read.result + byte.low * Pow2[read.written]) % Pow2[RegisterBits],
   written |-> read.written + GroupBits]

\* The last byte's sign, and the cast to the integer type that was asked for.
Extended(read, byte, signed) ==
  IF signed /\ Bit(byte.low, GroupBits - 1) = 1 /\ read.written < RegisterBits
    THEN read.result + Pow2[RegisterBits] - Pow2[read.written]
    ELSE read.result
Decoded(read, byte, signed, maxBits) ==
  Extended(Accumulated(read, byte), byte, signed) % Pow2[maxBits]

-----------------------------------------------------------------------------
\* Wasm: an N-bit integer has at most N bits in its groups, and the bits left
\* over in the last one are its sign.
BitsLeft(bytes, maxBits) == maxBits - (Len(bytes) - 1) * GroupBits
LastLow(bytes) == bytes[Len(bytes)].low
LastWellFormed(low, signed, bits) ==
  IF ~signed THEN low < Pow2[bits]
  ELSE IF low < Pow2[GroupBits - 1] THEN low < Pow2[bits - 1]
                                  ELSE low >= Pow2[GroupBits] - Pow2[bits - 1]

WellFormed(bytes, signed, maxBits) ==
  /\ bytes # <<>> /\ \A i \in DOMAIN bytes : bytes[i].more <=> i < Len(bytes)
  /\ LastLow(bytes) >= 0 /\ BitsLeft(bytes, maxBits) > 0
  /\ LastWellFormed(LastLow(bytes), signed, BitsLeft(bytes, maxBits))

\* More bytes can make a well-formed integer of it.
Incomplete(bytes, maxBits) ==
  /\ \A i \in DOMAIN bytes : bytes[i].more
  /\ Len(bytes) * GroupBits < maxBits

Denoted(bytes, signed) ==
  LET top == Len(bytes)
      places[i \in 0..top] ==
        IF i = 0 THEN 0 ELSE places[i - 1] + bytes[i].low * Pow2[(i - 1) * GroupBits]
  IN  IF signed /\ LastLow(bytes) >= Pow2[GroupBits - 1]
        THEN places[top] - Pow2[top * GroupBits] ELSE places[top]
=============================================================================
