------------------------------ MODULE ByteBuffer ------------------------------
(****************************************************************************)
(* The part of ByteBuffer that the file classes use: a memory of some       *)
(* capacity with a position and a size, as a record.  The capacity is the   *)
(* length of data; live says that data is memory the process may touch.     *)
(****************************************************************************)
EXTENDS Integers, Sequences

CONSTANTS
  Byte,     \* the bytes a client writes
  Zero,     \* the byte 0
  Garbage,  \* a byte of memory nobody initialised
  Word      \* 2^64: the modulus of size_t

ASSUME ByteAssumption ==
  Zero \notin Byte /\ Garbage \notin Byte /\ Zero # Garbage /\ Word \in Nat \ {0}

Larger(a, b) == IF a >= b THEN a ELSE b
Smaller(a, b) == IF a <= b THEN a ELSE b

\* n times the byte b.
Fill(b, n) == [i \in 1..n |-> b]

\* s after bytes are written behind its first `at` bytes: what they cover is
\* replaced, and a gap between the two is filled with zeros.
Overlay(s, at, bytes) ==
  IF bytes = <<>> THEN s
  ELSE [i \in 1..Larger(Len(s), at + Len(bytes)) |->
          IF i \in at + 1 .. at + Len(bytes) THEN bytes[i - at]
          ELSE IF i <= Len(s) THEN s[i] ELSE Zero]

ByteBufferType ==
  [data : Seq(Byte \cup {Zero, Garbage}), position : Nat, size : Nat, live : BOOLEAN]

\* ByteBuffer()
NoBuffer == [data |-> <<>>, position |-> 0, size |-> 0, live |-> TRUE]

Capacity(b) == Len(b.data)
RemainingCapacity(b) == (Capacity(b) - b.size) % Word
RemainingSize(b) == (b.size - b.position) % Word

PositionedAt(b, p) == [b EXCEPT !.position = p]

\* allocate: a larger memory, the old content copied in front.
Allocated(b, capacity) ==
  IF Capacity(b) < capacity
  THEN [b EXCEPT !.data = @ \o Fill(Garbage, capacity - Len(@))]
  ELSE b

\* A definition named ...Mutant is the next one with a plausible fault.
OverMemoryMutant(b, memory, keepSize) ==
  IF keepSize THEN [b EXCEPT !.data = memory]
  ELSE [data |-> memory, live |-> TRUE, size |-> Len(memory), position |-> Len(memory)]

\* setBuffer: another memory in the place of the present one.
OverMemory(b, memory, keepSize) ==
  [data |-> memory, live |-> TRUE,
   size |-> IF keepSize THEN b.size ELSE Len(memory),
   position |-> IF keepSize THEN b.position ELSE Len(memory)]

ClearedMutant(b) == [b EXCEPT !.data = Fill(Zero, Len(@)), !.size = 0]

Cleared(b) == [b EXCEPT !.data = Fill(Zero, Len(@)), !.position = 0, !.size = 0]

\* checkForOutOfBound: beyond it the call throws.
Fits(b, start, n) == start + n <= Capacity(b)

\* putBuffer, once it fits.
WithPut(b, start, bytes) ==
  [b EXCEPT !.data = Overlay(@, start, bytes),
            !.position = start + Len(bytes),
            !.size = Larger(@, start + Len(bytes))]

\* The bytes flush takes out of the buffer.
Contents(b) == SubSeq(b.data, 1, b.size)
==============================================================================
