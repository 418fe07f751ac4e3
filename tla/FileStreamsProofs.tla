-------------------------- MODULE FileStreamsProofs --------------------------
(****************************************************************************)
(* Theorems about FileStreams: its types, the maps no access leaves, the    *)
(* lines a reader gets, and that a stream of any class is a ByteFile.       *)
(*                                                                          *)
(* The invariant is built in layers.  Inv says what each class keeps of its *)
(* buffer and its file; Bounded, that no file outgrows the bound, which the *)
(* count of a mapped read, a difference modulo 2^64, needs; LineInv, what a *)
(* call that reads lines has read of what it can see.  For the refinement,  *)
(* the content of the abstract file is the disk with what the buffer holds  *)
(* laid over it, or the part of the disk a map shows: ViewIs says so byte   *)
(* by byte, HoldInv adds what the steps of the abstract file need, and a    *)
(* lemma Sees... for each action shows it to be one of these steps.         *)
(****************************************************************************)
EXTENDS FileStreams, FiniteSetTheorems, SequenceTheorems, TLAPS

------------------------------------------------------------------------------
(* The inductive invariant.                                                   *)

FileByte == Byte \cup {Zero}

CallType ==
  [op : LineCall \cup {"none"}, phase : {"reading", "ended", "returned"}, at : Nat \cup {-1},
   line : Seq(FileByte), dest : Seq(FileByte), count : Int, failed : BOOLEAN]

\* What a buffered stream still holds is bytes for the file, one after another.
Gathers(b) == b.position = b.size /\ \A i \in 1..b.size : b.data[i] \in FileByte

\* What a map is of: the file, or what is left of it after a failure.
MapOf(b, file) ==
  /\ 0 < Capacity(b) /\ Capacity(b) <= Len(file)
  /\ b.live => b.data = file

Shape ==
  /\ rest # <<>> => cls = "BufferedFileIO"
  /\ call.op # "none" => cls # "none" /\ rest = <<>>
  /\ call.op = "none" => call = NoCall
  /\ crashed => cls = "MappedFileIO"
  /\ cls = "none" => mode = {} /\ buffer = NoBuffer /\ readIdx = 0 /\ writeIdx = 0
  /\ cls = "BufferedFileIO" => Gathers(buffer)
  /\ cls = "MappedFileIO" =>
       /\ readIdx \in Nat /\ writeIdx \in Nat /\ call.at \in Nat
       /\ MapOf(buffer, disk)
       /\ ~buffer.live /\ "Write" \in mode => faults > 0

\* Every file is within the model's bound, and so is what is on its way to it.
Held == buffer.size + Len(rest)
HasRoom == Held > 0 => ("App" \notin mode => writeIdx >= 0) /\ WritePlace + Held <= MaxSize
Bounded == Len(disk) <= MaxSize /\ (cls = "BufferedFileIO" => HasRoom)

\* The line ends of w behind its first k bytes.
Left(w, k) == {i \in DOMAIN w : k < i /\ (w[i] = NewLine \/ i = Len(w))}

\* A call c that reads lines of w has read its first p bytes.
Reading(c, w, p) ==
  LET k == p - Len(c.line)
  IN  /\ k \in 0..Len(w) /\ p \in 0..Len(w)
      /\ \A i \in 1..Len(c.line) : c.line[i] = w[k + i] /\ c.line[i] # NewLine
      /\ c.op = "readLine" => k = 0
      /\ c.op \in {"readAll", "rangeFor"} => c.dest = SubSeq(w, 1, k)
      /\ c.op \in {"getNofLines", "end"} =>
           c.dest = <<>> /\ c.count + Cardinality(Left(w, k)) = Cardinality(Left(w, 0))
      /\ c.op = "rangeFor" => c.count > 0 /\ c.count = Cardinality(Left(w, k))

Counted(c, w) ==
  /\ c.op \in {"getNofLines", "end"} /\ c.line = <<>> /\ c.dest = <<>>
  /\ c.count = Cardinality(Left(w, 0))

Returned(c, w, p) ==
  /\ c.op \in {"readAll", "rangeFor", "end"} => c.dest = w
  /\ c.op = "getNofLines" => p = 0 /\ c.count = Cardinality(Left(w, 0))
  /\ c.op = "readLine" =>
       /\ p \in 0..Len(w) /\ c.line = SubSeq(w, 1, p)
       /\ \A i \in 1..Len(c.line) - 1 : c.line[i] # NewLine
       /\ p = Len(w) \/ (c.line # <<>> /\ c.line[Len(c.line)] = NewLine)

CallRight(c, w, p) ==
  /\ c.phase = "reading" => Reading(c, w, p)
  /\ c.phase = "ended" => Counted(c, w)
  /\ c.phase = "returned" => Returned(c, w, p)

LineInv ==
  /\ call.op = "readAll" => call.at = 0
  /\ call.op # "none" /\ ~call.failed /\ call.at \in 0..Len(Visible) =>
       CallRight(call, VisibleFrom(call.at), readIdx - call.at)

------------------------------------------------------------------------------
(* The operators of ByteBuffer.                                               *)

BufferByte == Byte \cup {Zero, Garbage}

\* What Overlay makes of s.
IsOverlay(t, s, at, bytes, S) ==
  /\ t \in Seq(S)
  /\ Len(t) = IF bytes = <<>> THEN Len(s) ELSE Larger(Len(s), at + Len(bytes))
  /\ \A i \in 1..Len(t) :
       t[i] = IF i \in at + 1 .. at + Len(bytes) THEN bytes[i - at] ELSE IF i <= Len(s) THEN s[i] ELSE Zero

LEMMA Overlaid ==
  ASSUME NEW S, Zero \in S, NEW s \in Seq(S), NEW at \in Nat, NEW bytes \in Seq(S)
  PROVE  IsOverlay(Overlay(s, at, bytes), s, at, bytes, S)
  <1>1. CASE bytes = <<>>
    BY <1>1 DEF Overlay, IsOverlay
  <1>2. CASE bytes # <<>>
    <2> DEFINE n == Larger(Len(s), at + Len(bytes))
               e(i) == IF i \in at + 1 .. at + Len(bytes) THEN bytes[i - at] ELSE IF i <= Len(s) THEN s[i] ELSE Zero
               t == [i \in 1..n |-> e(i)]
    <2>1. n \in Nat
      BY DEF Larger
    <2>2. ASSUME NEW i \in 1..n PROVE e(i) \in S
      OBVIOUS
    <2> HIDE DEF n, e
    <2>3. t \in Seq(S) /\ Len(t) = n /\ \A i \in 1..n : t[i] = e(i)
      BY <2>1, <2>2
    <2>4. Overlay(s, at, bytes) = t
      BY <1>2 DEF Overlay, n, e
    <2> HIDE DEF t
    <2> QED BY <1>2, <2>3, <2>4 DEF IsOverlay, n, e
  <1> QED BY <1>1, <1>2

LEMMA NoBufferType == NoBuffer \in ByteBufferType /\ NoBuffer.size = 0 /\ NoBuffer.position = 0 /\ NoBuffer.live /\ NoBuffer.data = <<>>
  BY DEF NoBuffer, ByteBufferType

LEMMA PositionedType ==
  ASSUME NEW b \in ByteBufferType, NEW p \in Nat
  PROVE  /\ PositionedAt(b, p) \in ByteBufferType
         /\ PositionedAt(b, p).data = b.data /\ PositionedAt(b, p).size = b.size /\ PositionedAt(b, p).position = p
         /\ PositionedAt(b, p).live = b.live
  BY DEF PositionedAt, ByteBufferType

LEMMA AllocatedType ==
  ASSUME NEW b \in ByteBufferType, NEW n \in Nat
  PROVE  /\ Allocated(b, n) \in ByteBufferType
         /\ Allocated(b, n).size = b.size /\ Allocated(b, n).position = b.position /\ Allocated(b, n).live = b.live
         /\ Len(b.data) <= Len(Allocated(b, n).data)
         /\ \A i \in 1..Len(b.data) : Allocated(b, n).data[i] = b.data[i]
  <1>1. CASE ~(Len(b.data) < n)
    BY <1>1 DEF Allocated, Capacity, ByteBufferType
  <1>2. CASE Len(b.data) < n
    <2> DEFINE g == Fill(Garbage, n - Len(b.data))
               d == b.data \o g
    <2>1. b.data \in Seq(BufferByte) /\ Len(b.data) \in Nat
      BY DEF ByteBufferType, BufferByte
    <2>2. g \in Seq(BufferByte) /\ Len(g) = n - Len(b.data)
      BY <1>2, <2>1 DEF Fill, BufferByte
    <2> HIDE DEF g
    <2>3. d \in Seq(BufferByte) /\ Len(d) = Len(b.data) + Len(g) /\ \A i \in 1..Len(b.data) : d[i] = b.data[i]
      BY <2>1, <2>2
    <2>4. Allocated(b, n) = [b EXCEPT !.data = d]
      BY <1>2 DEF Allocated, Capacity, g
    <2> HIDE DEF d
    <2>5. /\ Allocated(b, n) \in ByteBufferType /\ Allocated(b, n).data = d
          /\ Allocated(b, n).size = b.size /\ Allocated(b, n).position = b.position /\ Allocated(b, n).live = b.live
      BY <2>3, <2>4 DEF ByteBufferType, BufferByte
    <2> QED BY <2>1, <2>2, <2>3, <2>5
  <1> QED BY <1>1, <1>2

LEMMA ClearedType ==
  ASSUME NEW b \in ByteBufferType
  PROVE  /\ Cleared(b) \in ByteBufferType /\ Cleared(b).size = 0 /\ Cleared(b).position = 0 /\ Cleared(b).live = b.live
         /\ Len(Cleared(b).data) = Len(b.data)
  <1>1. b.data \in Seq(BufferByte) /\ Len(b.data) \in Nat
    BY DEF ByteBufferType, BufferByte
  <1>2. Fill(Zero, Len(b.data)) \in Seq(BufferByte) /\ Len(Fill(Zero, Len(b.data))) = Len(b.data)
    BY <1>1 DEF Fill, BufferByte
  <1> QED BY <1>2 DEF Cleared, ByteBufferType, BufferByte

LEMMA OverMemoryType ==
  ASSUME NEW b \in ByteBufferType, NEW memory \in Seq(FileByte), NEW keepSize \in BOOLEAN
  PROVE  /\ OverMemory(b, memory, keepSize) \in ByteBufferType
         /\ OverMemory(b, memory, keepSize).data = memory /\ OverMemory(b, memory, keepSize).live
         /\ keepSize => /\ OverMemory(b, memory, keepSize).size = b.size
                        /\ OverMemory(b, memory, keepSize).position = b.position
         /\ ~keepSize => /\ OverMemory(b, memory, keepSize).size = Len(memory)
                         /\ OverMemory(b, memory, keepSize).position = Len(memory)
  <1>1. memory \in Seq(Byte \cup {Zero, Garbage}) /\ Len(memory) \in Nat
    BY DEF FileByte
  <1> QED BY <1>1 DEF OverMemory, ByteBufferType

LEMMA WithPutType ==
  ASSUME NEW b \in ByteBufferType, NEW start \in Nat, NEW bytes \in Seq(FileByte)
  PROVE  /\ WithPut(b, start, bytes) \in ByteBufferType
         /\ IsOverlay(WithPut(b, start, bytes).data, b.data, start, bytes, BufferByte)
         /\ WithPut(b, start, bytes).position = start + Len(bytes)
         /\ WithPut(b, start, bytes).size = Larger(b.size, start + Len(bytes))
         /\ WithPut(b, start, bytes).live = b.live
  <1> DEFINE d == Overlay(b.data, start, bytes)
  <1>1. b.data \in Seq(BufferByte) /\ bytes \in Seq(BufferByte) /\ Zero \in BufferByte
    BY DEF ByteBufferType, BufferByte, FileByte
  <1>2. IsOverlay(d, b.data, start, bytes, BufferByte)
    BY <1>1, Overlaid
  <1>3. d \in Seq(BufferByte)
    BY <1>2 DEF IsOverlay
  <1>4. WithPut(b, start, bytes) = [b EXCEPT !.data = d, !.position = start + Len(bytes), !.size = Larger(b.size, start + Len(bytes))]
    BY DEF WithPut
  <1> HIDE DEF d
  <1>5. start + Len(bytes) \in Nat /\ Larger(b.size, start + Len(bytes)) \in Nat
    BY DEF ByteBufferType, Larger
  <1> QED BY <1>2, <1>3, <1>4, <1>5 DEF ByteBufferType, BufferByte

\* A part of a sequence, and a byte of it.
LEMMA Part ==
  ASSUME NEW S, NEW s \in Seq(S), NEW m \in Nat \ {0}, NEW n \in Int, n <= Len(s)
  PROVE  /\ SubSeq(s, m, n) \in Seq(S) /\ Len(SubSeq(s, m, n)) = IF m <= n THEN n - m + 1 ELSE 0
         /\ \A i \in 1 .. n - m + 1 : SubSeq(s, m, n)[i] = s[m + i - 1]
  <1>1. \A i \in m .. n : s[i] \in S
    OBVIOUS
  <1> QED BY <1>1, SubSeqProperties

\* ftruncate leaves the bytes that fit.
LEMMA ResizedType ==
  ASSUME NEW file \in Seq(FileByte), NEW n \in Nat
  PROVE  /\ Resized(file, n) \in Seq(FileByte) /\ Len(Resized(file, n)) = n
         /\ \A i \in 1..n : i <= Len(file) => Resized(file, n)[i] = file[i]
  BY DEF Resized, FileByte

------------------------------------------------------------------------------
(* The parts of the type invariant.                                           *)

FileOK ==
  /\ disk \in Seq(FileByte)
  /\ readIdx \in Nat \cup {-1} /\ writeIdx \in Nat \cup {-1} /\ offset \in Nat
  /\ faults \in 0..MaxFaults

BufferOK(b) == b \in ByteBufferType /\ b.size <= Capacity(b)

CallOK ==
  /\ call \in CallType /\ calls \in 0..MaxCalls
  /\ mode \in Modes \cup {{}} /\ rest \in Seq(Byte) /\ lost \in BOOLEAN
  /\ crashed \in BOOLEAN /\ growFactor \in Nat \ {0} /\ cls \in Class \cup {"none"}

Inv == FileOK /\ BufferOK(buffer) /\ CallOK /\ Shape /\ StaysInMap

LEMMA InvTypes == Inv => StreamTypeOK /\ StaysInMap
  BY DEF Inv, StreamTypeOK, FileOK, BufferOK, CallOK, FileByte, CallType

LEMMA ModLess ==
  ASSUME NEW x \in Nat
  PROVE  x % Word \in Nat /\ x % Word <= x /\ x % Word < Word
  BY ByteAssumption

LEMMA ModType ==
  ASSUME NEW x \in Int
  PROVE  x % Word \in Nat /\ x % Word < Word
  BY ByteAssumption

LEMMA Times ==
  ASSUME NEW f \in Nat \ {0}, NEW x \in Nat
  PROVE  f * x \in Nat /\ f * x >= x /\ x * f \in Nat /\ x * f >= x
  <1>1. f * x = (f - 1) * x + x /\ x * f = f * x
    OBVIOUS
  <1>2. (f - 1) * x \in Nat
    OBVIOUS
  <1> QED BY <1>1, <1>2

LEMMA FaultType ==
  ASSUME faults \in 0..MaxFaults, Fault \/ UNCHANGED faults
  PROVE  faults' \in 0..MaxFaults
  BY FileAssumption DEF Fault

LEMMA FileSeekType ==
  ASSUME FileOK, NEW off \in Int, NEW whence \in Whence, FileSeekg(off, whence) \/ FileSeekp(off, whence)
  PROVE  FileOK'
  <1>1. Lseek(off, whence) \in Nat \cup {-1}
    <2>1. SeekTarget(off, whence, offset, Len(disk)) \in Int
      BY DEF FileOK, SeekTarget, Whence
    <2> QED BY <2>1 DEF Lseek, Larger
  <1>2. readIdx' \in Nat \cup {-1} /\ writeIdx' \in Nat \cup {-1} /\ disk' = disk /\ faults' = faults
    BY <1>1 DEF FileSeekg, FileSeekp, FileOK
  <1>3. offset' \in Nat
    BY <1>2 DEF FileSeekg, FileSeekp, MovedTo, FileOK
  <1> QED BY <1>2, <1>3 DEF FileOK

LEMMA FileBytesType ==
  ASSUME FileOK, NEW n \in Nat
  PROVE  FileBytes(n) \in Seq(FileByte) /\ Len(FileBytes(n)) \in 0..n
  <1> DEFINE p == MovedTo(readIdx)
             e == Smaller(p + n, Len(disk))
  <1>1. p \in Nat /\ e \in Nat /\ e <= Len(disk) /\ e <= p + n
    BY DEF FileOK, MovedTo, Smaller
  <1> HIDE DEF p, e
  <1>2. SubSeq(disk, p + 1, e) \in Seq(FileByte) /\ Len(SubSeq(disk, p + 1, e)) = IF p + 1 <= e THEN e - (p + 1) + 1 ELSE 0
    BY <1>1, Part DEF FileOK
  <1>3. FileBytes(n) = SubSeq(disk, p + 1, e)
    BY DEF FileBytes, p, e
  <1> QED BY <1>1, <1>2, <1>3

LEMMA FileReadType ==
  ASSUME FileOK, NEW n \in Nat, FileRead(n) \/ FileReadFails
  PROVE  FileOK'
  <1>1. Len(FileBytes(n)) \in Nat
    BY FileBytesType
  <1>2. readIdx' \in Nat \cup {-1} /\ offset' \in Nat /\ disk' = disk /\ writeIdx' = writeIdx
    BY <1>1 DEF FileRead, FileReadFails, FileOK, MovedTo
  <1>3. faults' \in 0..MaxFaults
    BY FaultType DEF FileOK, FileRead, FileReadFails
  <1> QED BY <1>2, <1>3 DEF FileOK

LEMMA WritePlaceType ==
  ASSUME FileOK
  PROVE  WritePlace \in Nat
  BY DEF FileOK, WritePlace, MovedTo

LEMMA FileWriteType ==
  ASSUME FileOK, NEW bytes \in Seq(FileByte), NEW n \in 0..Len(bytes), FileWrite(bytes, n)
  PROVE  FileOK'
  <1>1. SubSeq(bytes, 1, n) \in Seq(FileByte)
    BY Part
  <1>2. WritePlace \in Nat
    BY WritePlaceType
  <1> DEFINE at == WritePlace
             s == SubSeq(bytes, 1, n)
  <1> HIDE DEF at, s
  <1>3. IsOverlay(Overlay(disk, at, s), disk, at, s, FileByte)
    BY <1>1, <1>2, Overlaid DEF FileOK, FileByte, at, s
  <1>4. disk' \in Seq(FileByte)
    BY <1>3 DEF IsOverlay, FileWrite, at, s
  <1>5. offset' \in Nat /\ writeIdx' \in Nat \cup {-1} /\ readIdx' = readIdx
    BY <1>2 DEF FileWrite, FileOK, MovedTo
  <1>6. faults' \in 0..MaxFaults
    BY FaultType DEF FileOK, FileWrite
  <1> QED BY <1>4, <1>5, <1>6 DEF FileOK

LEMMA FileWriteFailsType ==
  ASSUME FileOK, FileWriteFails
  PROVE  FileOK'
  <1>1. faults' \in 0..MaxFaults
    BY FaultType DEF FileOK, FileWriteFails
  <1> QED BY <1>1 DEF FileOK, FileWriteFails, MovedTo

LEMMA ContentsType ==
  ASSUME NEW b, BufferOK(b), Gathers(b)
  PROVE  Contents(b) \in Seq(FileByte) /\ Len(Contents(b)) = b.size
  <1>1. b.size \in Nat /\ b.size <= Len(b.data) /\ b.data \in Seq(BufferByte)
    BY DEF BufferOK, ByteBufferType, Capacity, BufferByte
  <1>2. Len(SubSeq(b.data, 1, b.size)) = b.size /\ \A i \in 1 .. b.size : SubSeq(b.data, 1, b.size)[i] = b.data[i]
    BY <1>1, Part
  <1>3. SubSeq(b.data, 1, b.size) \in Seq(FileByte)
    <2> DEFINE d == b.data
               z == b.size
    <2>1. \A i \in 1..z : d[i] \in FileByte
      BY DEF Gathers
    <2>2. z \in Nat
      BY <1>1
    <2> HIDE DEF d, z
    <2>3. SubSeq(d, 1, z) \in Seq(FileByte)
      BY <2>1, <2>2, SubSeqProperties
    <2> QED BY <2>3 DEF d, z
  <1> QED BY <1>2, <1>3 DEF Contents

LEMMA FlushOfType ==
  ASSUME FileOK, NEW b, BufferOK(b), Gathers(b), FlushOf(b)
  PROVE  FileOK' /\ BufferOK(buffer)' /\ Gathers(buffer)' /\ lost' \in BOOLEAN /\ UNCHANGED <<mode, readIdx>>
  <1>1. FileOK' /\ UNCHANGED <<mode, readIdx>> /\ lost' \in BOOLEAN
    <2>1. CASE \E n \in 0..b.size : FileWrite(Contents(b), n) /\ lost' = (n < b.size)
      <3>1. PICK n \in 0..b.size : FileWrite(Contents(b), n) /\ lost' = (n < b.size)
        BY <2>1
      <3>2. FileOK'
        BY <3>1, ContentsType, FileWriteType
      <3> QED BY <3>1, <3>2 DEF FileWrite
    <2>2. CASE FileWriteFails /\ lost' = (b.size > 0)
      <3>1. FileOK'
        BY <2>2, FileWriteFailsType
      <3> QED BY <2>2, <3>1 DEF FileWriteFails
    <2> QED BY <2>1, <2>2 DEF FlushOf
  <1>2. buffer' = Cleared(b) /\ b \in ByteBufferType
    BY DEF FlushOf, BufferOK
  <1>3. buffer' \in ByteBufferType /\ buffer'.size = 0 /\ buffer'.position = 0 /\ buffer'.data \in Seq(BufferByte)
    BY <1>2, ClearedType DEF ByteBufferType, BufferByte
  <1>4. BufferOK(buffer)' /\ Gathers(buffer)'
    BY <1>3 DEF BufferOK, Gathers, Capacity
  <1> QED BY <1>1, <1>4

------------------------------------------------------------------------------
(* Opening, closing, and the plain classes.                                   *)

LEMMA NoCallType == NoCall \in CallType /\ NoCall.op = "none" /\ NoCall.at = 0
  BY DEF NoCall, CallType

LEMMA AllocatedOK ==
  ASSUME NEW b, BufferOK(b), NEW n \in Nat
  PROVE  BufferOK(Allocated(b, n)) /\ (Gathers(b) => Gathers(Allocated(b, n)))
  <1>1. b \in ByteBufferType /\ b.size \in Nat /\ b.size <= Len(b.data) /\ Len(b.data) \in Nat
    BY DEF BufferOK, ByteBufferType, Capacity
  <1> DEFINE t == Allocated(b, n)
  <1>2. /\ t \in ByteBufferType /\ t.size = b.size /\ t.position = b.position /\ Len(b.data) <= Len(t.data) /\ Len(t.data) \in Nat
        /\ \A i \in 1..Len(b.data) : t.data[i] = b.data[i]
    BY <1>1, AllocatedType DEF ByteBufferType
  <1> HIDE DEF t
  <1>3. BufferOK(t)
    BY <1>1, <1>2 DEF BufferOK, Capacity
  <1>4. ASSUME Gathers(b) PROVE Gathers(t)
    <2>1. t.position = t.size
      BY <1>2, <1>4 DEF Gathers
    <2>2. ASSUME NEW i \in 1..t.size PROVE t.data[i] \in FileByte
      BY <1>1, <1>2, <1>4, <2>2 DEF Gathers
    <2> QED BY <2>1, <2>2 DEF Gathers
  <1> QED BY <1>3, <1>4 DEF t

LEMMA NoBufferOK == BufferOK(NoBuffer) /\ Gathers(NoBuffer)
  BY NoBufferType DEF BufferOK, Gathers, Capacity

LEMMA ClearedOK ==
  ASSUME NEW b, BufferOK(b)
  PROVE  BufferOK(Cleared(b)) /\ Gathers(Cleared(b))
  <1>1. Cleared(b) \in ByteBufferType /\ Cleared(b).size = 0 /\ Cleared(b).position = 0 /\ Len(Cleared(b).data) \in Nat
    BY ClearedType DEF BufferOK, ByteBufferType
  <1> QED BY <1>1 DEF BufferOK, Gathers, Capacity

LEMMA OpenFileType ==
  ASSUME FileOK, NEW m \in Modes
  PROVE  OpenFile(m) \in Seq(FileByte)
  BY DEF FileOK, OpenFile

\* No stream is open: nothing is going on.
LEMMA WhenClosed ==
  ASSUME Inv, cls = "none"
  PROVE  rest = <<>> /\ call = NoCall /\ ~crashed /\ mode = {} /\ buffer = NoBuffer /\ readIdx = 0 /\ writeIdx = 0
  BY DEF Inv, Shape

LEMMA OpenPlainStep ==
  ASSUME Inv, NEW c \in Class, NEW m \in Modes, cls = "none", Open(c, m), c # "MappedFileIO", calls' \in 0..MaxCalls
  PROVE  Inv'
  <1>1. OpenPlain(c, m) /\ lost' = FALSE /\ UNCHANGED <<readIdx, rest, mappedVars, call>> /\ mode' = IF cls' = "none" THEN {} ELSE m
    BY DEF Open
  <1>2. FileOK'
    <2>1. disk' \in Seq(FileByte)
      BY <1>1, OpenFileType DEF OpenPlain, Inv
    <2>2. writeIdx' \in Nat /\ offset' \in Nat /\ faults' = faults
      BY <1>1, <2>1 DEF OpenPlain
    <2> QED BY <1>1, <2>1, <2>2 DEF FileOK, Inv
  <1>3. BufferOK(buffer)' /\ Gathers(buffer)'
    <2>1. CASE buffer' = NoBuffer
      BY <2>1, NoBufferOK DEF BufferOK, Gathers
    <2>2. ASSUME NEW n \in Capacities, buffer' = Cleared(Allocated(NoBuffer, n)) PROVE BufferOK(buffer)' /\ Gathers(buffer)'
      <3>1. n \in Nat
        BY StreamAssumption
      <3>2. BufferOK(Cleared(Allocated(NoBuffer, n))) /\ Gathers(Cleared(Allocated(NoBuffer, n)))
        BY <3>1, NoBufferOK, AllocatedOK, ClearedOK
      <3> QED BY <2>2, <3>2 DEF BufferOK, Gathers
    <2> QED BY <1>1, <2>1, <2>2 DEF OpenPlain
  <1>4. cls' = c /\ c # "none" /\ mode' = m
    BY <1>1 DEF OpenPlain, Class
  <1>5. CallOK'
    BY <1>1, <1>4 DEF CallOK, Inv, mappedVars
  <1>6. Shape' /\ StaysInMap'
    BY <1>1, <1>3, <1>4, WhenClosed DEF Shape, StaysInMap, mappedVars, NoCall
  <1> QED BY <1>2, <1>3, <1>5, <1>6 DEF Inv

LEMMA CloseStep ==
  ASSUME Inv, Close, calls' \in 0..MaxCalls
  PROVE  Inv'
  <1>1. FileOK'
    BY DEF Close, FileOK, Inv
  <1>2. BufferOK(buffer)'
    BY NoBufferOK DEF Close, BufferOK
  <1>3. CallOK'
    BY DEF Close, CallOK, Inv
  <1>4. Shape' /\ StaysInMap'
    BY DEF Close, Shape, StaysInMap, Inv, Idle
  <1> QED BY <1>1, <1>2, <1>3, <1>4 DEF Inv

\* A step of a plain class that leaves the call, the buffer and what write() still has.
LEMMA PlainStep ==
  ASSUME Inv, Idle, cls # "MappedFileIO", FileOK', UNCHANGED <<mode, buffer, mappedVars, cls, call>>,
         rest' = rest \/ (cls = "BufferedFileIO" /\ rest' \in Seq(Byte)), lost' \in BOOLEAN, calls' \in 0..MaxCalls
  PROVE  Inv'
  <1>1. BufferOK(buffer)'
    BY DEF BufferOK, Inv
  <1>2. CallOK'
    BY DEF CallOK, Inv, mappedVars
  <1>3. Shape'
    <2>1. rest' # <<>> => cls' = "BufferedFileIO"
      BY DEF Shape, Inv
    <2>2. cls # "none" /\ call = NoCall /\ ~crashed /\ call.op = "none"
      BY DEF Shape, Inv, Idle
    <2>3. cls = "BufferedFileIO" => Gathers(buffer)'
      BY DEF Shape, Inv, Gathers
    <2> QED BY <2>1, <2>2, <2>3 DEF Shape, mappedVars
  <1>4. StaysInMap'
    BY DEF StaysInMap, Idle, mappedVars
  <1> QED BY <1>1, <1>2, <1>3, <1>4 DEF Inv

LEMMA PlainSeekStep ==
  ASSUME Inv, NEW s \in Seeks, Seekg(s[1], s[2]) \/ Seekp(s[1], s[2]), cls # "MappedFileIO", calls' \in 0..MaxCalls
  PROVE  Inv'
  <1>1. s[1] \in Int /\ s[2] \in Whence
    BY StreamAssumption
  <1>2. FileSeekg(s[1], s[2]) \/ FileSeekp(s[1], s[2])
    BY DEF Seekg, Seekp
  <1>3. FileOK'
    BY <1>1, <1>2, FileSeekType DEF Inv
  <1>4. Idle /\ UNCHANGED <<buffer, mappedVars, cls, call, rest>> /\ lost' = FALSE
    BY DEF Seekg, Seekp
  <1>5. mode' = mode
    BY <1>2 DEF FileSeekg, FileSeekp
  <1> QED BY <1>3, <1>4, <1>5, PlainStep

LEMMA PlainReadStep ==
  ASSUME Inv, Read(2), cls # "MappedFileIO", calls' \in 0..MaxCalls
  PROVE  Inv'
  <1>1. Idle /\ UNCHANGED <<buffer, mappedVars, cls, call, rest>> /\ lost' = FALSE /\ (FileRead(2) \/ FileReadFails)
    BY DEF Read
  <1>2. FileOK'
    BY <1>1, FileReadType DEF Inv
  <1>3. mode' = mode
    BY <1>1 DEF FileRead, FileReadFails
  <1> QED BY <1>1, <1>2, <1>3, PlainStep

LEMMA PlainWriteStep ==
  ASSUME Inv, NEW bytes \in Writes, Write(bytes), cls # "MappedFileIO", calls' \in 0..MaxCalls
  PROVE  Inv'
  <1>1. bytes \in Seq(Byte) /\ bytes \in Seq(FileByte)
    BY StreamAssumption DEF FileByte
  <1>2. Idle /\ lost' = FALSE /\ UNCHANGED <<cls, call>>
    BY DEF Write
  <1>3. CASE cls = "FileIO"
    <2>1. (FileWriteFails \/ \E n \in 1..Len(bytes) : FileWrite(bytes, n)) /\ UNCHANGED <<buffer, rest, mappedVars>>
      BY <1>3 DEF Write
    <2>2. FileOK' /\ mode' = mode
      <3>1. CASE FileWriteFails
        BY <3>1, FileWriteFailsType DEF Inv, FileWriteFails
      <3>2. ASSUME NEW n \in 1..Len(bytes), FileWrite(bytes, n) PROVE FileOK' /\ mode' = mode
        BY <1>1, <3>2, FileWriteType DEF Inv, FileWrite
      <3> QED BY <2>1, <3>1, <3>2
    <2> QED BY <1>2, <1>3, <2>1, <2>2, PlainStep
  <1>4. CASE cls = "BufferedFileIO"
    <2>1. rest' = bytes /\ UNCHANGED <<fileVars, buffer, mappedVars>>
      BY <1>4 DEF Write
    <2>2. FileOK' /\ mode' = mode
      BY <2>1 DEF fileVars, FileOK, Inv
    <2> QED BY <1>1, <1>2, <1>4, <2>1, <2>2, PlainStep
  <1> QED BY <1>2, <1>3, <1>4 DEF Idle, Inv, CallOK, Class

\* A step of a buffered stream.
LEMMA BufferedStep ==
  ASSUME Inv, cls = "BufferedFileIO", FileOK', BufferOK(buffer)', Gathers(buffer)', UNCHANGED <<mode, mappedVars, cls, call>>,
         rest' \in Seq(Byte), call.op # "none" => rest' = <<>>, lost' \in BOOLEAN, calls' \in 0..MaxCalls
  PROVE  Inv'
  <1>1. CallOK'
    BY DEF CallOK, Inv, mappedVars
  <1>2. Shape' /\ StaysInMap'
    BY DEF Shape, StaysInMap, Inv, mappedVars
  <1> QED BY <1>1, <1>2 DEF Inv

\* A round of write() fills the buffer with what rest loses, and may flush it.
RoundTakes(f, n) ==
  /\ f.size = buffer.size + n /\ rest' = SubSeq(rest, n + 1, Len(rest))
  /\ IsOverlay(f.data, buffer.data, buffer.size, SubSeq(rest, 1, n), BufferByte)

RoundFills(f) ==
  /\ BufferOK(f) /\ Gathers(f) /\ Capacity(f) = Capacity(buffer)
  /\ \E n \in 0..Len(rest) : RoundTakes(f, n)
  /\ rest' \in Seq(Byte) /\ f.size + Len(rest') = buffer.size + Len(rest)
  /\ FlushOf(f) \/ (buffer' = f /\ lost' = FALSE /\ UNCHANGED fileVars)

LEMMA RoundFilled ==
  ASSUME Inv, WriteRound
  PROVE  \E f : RoundFills(f)
  <1> DEFINE n == Smaller(Len(rest), RemainingCapacity(buffer))
             piece == SubSeq(rest, 1, n)
             filled == WithPut(buffer, buffer.position, piece)
  <1>1. /\ cls = "BufferedFileIO" /\ UNCHANGED <<mappedVars, cls, call>> /\ BufferOK(buffer) /\ Gathers(buffer)
        /\ rest \in Seq(Byte) /\ FileOK /\ buffer \in ByteBufferType /\ call.op = "none"
    BY DEF WriteRound, Inv, Shape, CallOK, BufferOK
  <1>2. buffer.size \in Nat /\ buffer.position = buffer.size /\ Len(buffer.data) \in Nat /\ buffer.size <= Len(buffer.data)
    BY <1>1 DEF BufferOK, ByteBufferType, Capacity, Gathers
  <1>3. n \in 0..Len(rest) /\ n <= Len(buffer.data) - buffer.size
    <2> DEFINE x == Len(buffer.data) - buffer.size
               r == RemainingCapacity(buffer)
               l == Len(rest)
    <2>1. x \in Nat /\ l \in Nat
      BY <1>1, <1>2
    <2>2. r = x % Word
      BY DEF RemainingCapacity, Capacity
    <2> HIDE DEF x, r, l
    <2>3. r \in Nat /\ r <= x
      BY <2>1, <2>2, ModLess
    <2>4. Smaller(l, r) \in 0..l /\ Smaller(l, r) <= x
      BY <2>1, <2>3 DEF Smaller
    <2> QED BY <2>4 DEF x, r, l
  <1>4. BufferedWriteRound /\ rest # <<>>
    BY DEF WriteRound
  <1> HIDE DEF n
  <1>5. /\ rest' = SubSeq(rest, n + 1, Len(rest))
        /\ IF RemainingCapacity(filled) = 0 THEN FlushOf(filled)
           ELSE buffer' = filled /\ lost' = FALSE /\ UNCHANGED fileVars
    BY <1>4 DEF BufferedWriteRound, n
  <1>6. piece \in Seq(Byte) /\ Len(piece) = n
    BY <1>1, <1>3, Part
  <1>7. rest' \in Seq(Byte) /\ Len(rest') = Len(rest) - n
    BY <1>1, <1>3, <1>5, Part
  <1> HIDE DEF piece
  <1>8. piece \in Seq(FileByte)
    BY <1>6 DEF FileByte
  <1>9. /\ filled \in ByteBufferType /\ filled.position = buffer.size + n /\ filled.size = buffer.size + n
        /\ IsOverlay(filled.data, buffer.data, buffer.size, piece, BufferByte)
    <2>1. Larger(buffer.size, buffer.size + n) = buffer.size + n
      BY <1>2, <1>3 DEF Larger
    <2> QED BY <1>1, <1>2, <1>6, <1>8, <2>1, WithPutType
  <1> HIDE DEF filled
  <1>10. Len(filled.data) = Len(buffer.data) /\ filled.data \in Seq(BufferByte)
    BY <1>2, <1>3, <1>6, <1>9 DEF IsOverlay, Larger
  <1>11. BufferOK(filled)
    BY <1>2, <1>3, <1>9, <1>10 DEF BufferOK, Capacity
  <1>12. Gathers(filled)
    <2> DEFINE d == filled.data
               z == buffer.size
    <2>1. /\ z \in Nat /\ n \in Nat /\ Len(d) = Len(buffer.data) /\ z + n <= Len(d) /\ filled.size = z + n
          /\ Len(d) \in Nat /\ filled.position = filled.size
      BY <1>2, <1>3, <1>9, <1>10
    <2>2. /\ \A i \in 1..Len(d) :
             d[i] = IF i \in z + 1 .. z + Len(piece) THEN piece[i - z] ELSE IF i <= Len(buffer.data) THEN buffer.data[i] ELSE Zero
      BY <1>9 DEF IsOverlay
    <2>3. \A i \in 1..z : buffer.data[i] \in FileByte
      BY <1>1 DEF Gathers
    <2> HIDE DEF d, z
    <2>4. ASSUME NEW i \in 1..(z + n) PROVE d[i] \in FileByte
      <3>1. i \in 1 .. Len(d) /\ i <= Len(buffer.data)
        BY <2>1
      <3>2. CASE i \in z + 1 .. z + Len(piece)
        <4>1. d[i] = piece[i - z] /\ i - z \in 1..Len(piece)
          BY <2>1, <2>2, <3>1, <3>2, <1>6
        <4> QED BY <1>8, <4>1
      <3>3. CASE i \notin z + 1 .. z + Len(piece)
        BY <2>1, <2>2, <2>3, <3>1, <3>3, <1>6
      <3> QED BY <3>2, <3>3
    <2>5. \A i \in 1..filled.size : filled.data[i] \in FileByte
      BY <2>1, <2>4 DEF d
    <2> QED BY <2>1, <2>5 DEF Gathers
  <1>13. filled.size + Len(rest') = buffer.size + Len(rest)
    BY <1>1, <1>2, <1>3, <1>7, <1>9
  <1>14. RoundTakes(filled, n)
    BY <1>5, <1>9 DEF RoundTakes, piece
  <1>15. RoundFills(filled)
    BY <1>3, <1>5, <1>7, <1>10, <1>11, <1>12, <1>13, <1>14 DEF RoundFills, Capacity
  <1> QED BY <1>15

LEMMA WriteRoundStep ==
  ASSUME Inv, WriteRound, calls' \in 0..MaxCalls
  PROVE  Inv'
  <1>1. PICK f : RoundFills(f)
    BY RoundFilled
  <1>2. BufferOK(f) /\ Gathers(f) /\ rest' \in Seq(Byte)
    BY <1>1 DEF RoundFills
  <1>3. cls = "BufferedFileIO" /\ call.op = "none" /\ FileOK /\ UNCHANGED <<mappedVars, cls, call>>
    BY DEF Inv, Shape, WriteRound
  <1>4. CASE FlushOf(f)
    <2>1. FileOK' /\ BufferOK(buffer)' /\ Gathers(buffer)' /\ lost' \in BOOLEAN /\ UNCHANGED <<mode, readIdx>>
      BY <1>2, <1>3, <1>4, FlushOfType
    <2> QED BY <1>2, <1>3, <2>1, BufferedStep
  <1>5. CASE buffer' = f /\ lost' = FALSE /\ UNCHANGED fileVars
    <2>1. FileOK' /\ UNCHANGED mode
      BY <1>3, <1>5 DEF FileOK, fileVars
    <2>2. BufferOK(buffer)' /\ Gathers(buffer)'
      BY <1>2, <1>5 DEF BufferOK, Gathers
    <2> QED BY <1>2, <1>3, <1>5, <2>1, <2>2, BufferedStep
  <1> QED BY <1>1, <1>4, <1>5 DEF RoundFills

LEMMA FlushStep ==
  ASSUME Inv, FlushBuffer, calls' \in 0..MaxCalls
  PROVE  Inv'
  <1>1. cls = "BufferedFileIO" /\ Idle /\ FlushOf(buffer) /\ UNCHANGED <<rest, mappedVars, cls, call>>
    BY DEF FlushBuffer, Flush
  <1>2. FileOK /\ BufferOK(buffer) /\ Gathers(buffer) /\ rest \in Seq(Byte)
    BY <1>1 DEF Inv, Shape, CallOK
  <1>3. FileOK' /\ BufferOK(buffer)' /\ Gathers(buffer)' /\ lost' \in BOOLEAN /\ UNCHANGED <<mode, readIdx>>
    BY <1>1, <1>2, FlushOfType
  <1> QED BY <1>1, <1>2, <1>3, BufferedStep DEF Idle

LEMMA ConfigureStep ==
  ASSUME Inv, Configure, calls' \in 0..MaxCalls
  PROVE  Inv'
  <1>1. CASE cls = "BufferedFileIO"
    <2>1. PICK n \in Capacities : SetBufferCapacity(n) /\ UNCHANGED mappedVars
      BY <1>1 DEF Configure
    <2>2. n \in Nat
      BY StreamAssumption
    <2>3. BufferOK(buffer)' /\ Gathers(buffer)'
      <3>1. BufferOK(Allocated(buffer, n)) /\ Gathers(Allocated(buffer, n))
        BY <1>1, <2>2, AllocatedOK DEF Inv, Shape
      <3> QED BY <2>1, <3>1 DEF SetBufferCapacity, BufferOK, Gathers
    <2>4. FileOK' /\ mode' = mode /\ rest' = rest /\ lost' = FALSE /\ UNCHANGED <<cls, call>> /\ Idle
      BY <2>1 DEF SetBufferCapacity, fileVars, FileOK, Inv, Configure
    <2> QED BY <1>1, <2>1, <2>3, <2>4, BufferedStep DEF Idle, Inv, CallOK
  <1>2. CASE cls # "BufferedFileIO"
    <2>1. PICK f \in Factors : SetCapacityGrowFactor(f)
      BY <1>2 DEF Configure
    <2>2. Idle /\ UNCHANGED <<cls, call, fileVars, bufferVars, crashed>> /\ growFactor' = f /\ f \in Nat \ {0}
      BY <2>1, StreamAssumption DEF Configure, SetCapacityGrowFactor
    <2>3. FileOK' /\ BufferOK(buffer)'
      BY <2>2 DEF FileOK, BufferOK, fileVars, bufferVars, Inv
    <2>4. CallOK'
      BY <2>2 DEF CallOK, fileVars, bufferVars, Inv
    <2>5. Shape' /\ StaysInMap'
      BY <2>2 DEF Shape, StaysInMap, Gathers, MapOf, fileVars, bufferVars, Inv, Idle
    <2> QED BY <2>3, <2>4, <2>5 DEF Inv
  <1> QED BY <1>1, <1>2

------------------------------------------------------------------------------
(* The steps of a map.                                                        *)

OutcomeType == [disk : Seq(FileByte), buffer : ByteBufferType, failed : BOOLEAN, throws : BOOLEAN]

\* A map that is gone from a stream that may write is gone by a failure.
Blamed(b, m, failed) == ~b.live /\ "Write" \in m => failed \/ faults > 0

Safe(o, m) ==
  /\ o \in OutcomeType
  /\ BufferOK(o.buffer) /\ MapOf(o.buffer, o.disk) /\ Blamed(o.buffer, m, o.failed)

LEMMA OutcomeIs ==
  ASSUME NEW file \in Seq(FileByte), NEW b \in ByteBufferType, NEW failed \in BOOLEAN, NEW throws \in BOOLEAN
  PROVE  /\ Outcome(file, b, failed, throws) \in OutcomeType
         /\ Outcome(file, b, failed, throws).disk = file /\ Outcome(file, b, failed, throws).buffer = b
         /\ Outcome(file, b, failed, throws).failed = failed /\ Outcome(file, b, failed, throws).throws = throws
  BY DEF Outcome, OutcomeType

LEMMA OutcomeSafe ==
  ASSUME NEW file \in Seq(FileByte), NEW b, NEW failed \in BOOLEAN, NEW throws \in BOOLEAN, NEW m,
         BufferOK(b), MapOf(b, file), Blamed(b, m, failed)
  PROVE  Safe(Outcome(file, b, failed, throws), m)
  <1> DEFINE o == Outcome(file, b, failed, throws)
  <1>1. b \in ByteBufferType
    BY DEF BufferOK
  <1>2. o \in OutcomeType /\ o.disk = file /\ o.buffer = b /\ o.failed = failed
    BY <1>1, OutcomeIs
  <1> HIDE DEF o
  <1>3. Safe(o, m)
    BY <1>2 DEF Safe
  <1> QED BY <1>3 DEF o

\* What a remap to n bytes leaves of the buffer b.
IsRemapped(o, b, n) ==
  /\ o.buffer.size = b.size
  /\ o.buffer.live =>
       /\ o.disk = Resized(disk, n) /\ o.buffer = OverMemory([b EXCEPT !.live = FALSE], o.disk, TRUE)
       /\ ~o.failed /\ ~o.throws
  /\ ~o.buffer.live /\ ~o.throws => o.disk = disk

LEMMA RemappedSafe ==
  ASSUME NEW b, BufferOK(b), disk \in Seq(FileByte), MapOf(b, disk), NEW n \in Nat, n >= Capacity(b), NEW m,
         NEW o \in Remapped(b, n, m)
  PROVE  Safe(o, m) /\ IsRemapped(o, b, n)
  <1> DEFINE u == [b EXCEPT !.live = FALSE]
             file == Resized(disk, n)
             v == OverMemory(u, file, TRUE)
  <1>1. b \in ByteBufferType /\ b.size <= Len(b.data) /\ 0 < Len(b.data) /\ Len(b.data) <= Len(disk) /\ Len(b.data) \in Nat /\ b.size \in Nat
    BY DEF BufferOK, MapOf, Capacity, ByteBufferType
  <1>2. u \in ByteBufferType /\ u.size = b.size /\ u.data = b.data /\ u.live = FALSE
    BY <1>1 DEF ByteBufferType
  <1>3. file \in Seq(FileByte) /\ Len(file) = n
    BY ResizedType
  <1> HIDE DEF u, file
  <1>4. v \in ByteBufferType /\ v.size = b.size /\ v.data = file /\ v.live = TRUE
    BY <1>2, <1>3, OverMemoryType DEF ByteBufferType
  <1> HIDE DEF v
  <1>5. BufferOK(u) /\ MapOf(u, disk) /\ MapOf(u, file) /\ BufferOK(v) /\ MapOf(v, file)
    BY <1>1, <1>2, <1>3, <1>4 DEF BufferOK, MapOf, Capacity
  <1>6. Blamed(u, m, TRUE) /\ Blamed(v, m, FALSE) /\ ("Write" \notin m => Blamed(u, m, FALSE))
    BY <1>4 DEF Blamed
  <1>7. CASE "Write" \in m
    <2>1. o \in {Outcome(file, v, FALSE, FALSE), Outcome(disk, u, TRUE, FALSE), Outcome(file, u, TRUE, TRUE)}
      BY <1>7 DEF Remapped, u, v, file
    <2>2. CASE o = Outcome(file, v, FALSE, FALSE)
      <3>1. Safe(o, m)
        BY <2>2, <1>3, <1>5, <1>6, OutcomeSafe
      <3>2. o.disk = file /\ o.buffer = v /\ o.failed = FALSE /\ o.throws = FALSE
        BY <2>2, <1>3, <1>4, OutcomeIs
      <3> QED BY <3>1, <3>2, <1>4 DEF v, u, file, IsRemapped
    <2>3. CASE o = Outcome(disk, u, TRUE, FALSE)
      <3>1. Safe(o, m)
        BY <2>3, <1>5, <1>6, OutcomeSafe
      <3>2. o.disk = disk /\ o.buffer = u
        BY <2>3, <1>2, OutcomeIs
      <3> QED BY <3>1, <3>2, <1>2 DEF IsRemapped
    <2>4. CASE o = Outcome(file, u, TRUE, TRUE)
      <3>1. Safe(o, m)
        BY <2>4, <1>3, <1>5, <1>6, OutcomeSafe
      <3>2. o.buffer = u /\ o.throws = TRUE
        BY <2>4, <1>2, <1>3, OutcomeIs
      <3> QED BY <3>1, <3>2, <1>2 DEF IsRemapped
    <2> QED BY <2>1, <2>2, <2>3, <2>4
  <1>8. CASE "Write" \notin m
    <2>1. o = Outcome(disk, u, FALSE, FALSE)
      BY <1>8 DEF Remapped, u
    <2>2. Safe(o, m)
      BY <1>8, <2>1, <1>5, <1>6, OutcomeSafe
    <2>3. o.disk = disk /\ o.buffer = u
      BY <2>1, <1>2, OutcomeIs
    <2> QED BY <2>2, <2>3, <1>2 DEF IsRemapped
  <1> QED BY <1>7, <1>8

LEMMA PositionedSafe ==
  ASSUME NEW o, NEW m, Safe(o, m), NEW p \in Nat
  PROVE  LET r == [o EXCEPT !.buffer = PositionedAt(@, p)]
         IN  /\ Safe(r, m) /\ r.disk = o.disk /\ r.failed = o.failed /\ r.throws = o.throws
             /\ r.buffer = PositionedAt(o.buffer, p)
  <1> DEFINE b == o.buffer
             c == PositionedAt(b, p)
             r == [o EXCEPT !.buffer = PositionedAt(@, p)]
  <1>1. b \in ByteBufferType /\ b.size <= Capacity(b) /\ o \in OutcomeType
    BY DEF Safe, BufferOK
  <1>2. c \in ByteBufferType /\ c.data = b.data /\ c.size = b.size /\ c.live = b.live
    BY <1>1, PositionedType
  <1>3. r = [o EXCEPT !.buffer = c]
    OBVIOUS
  <1> HIDE DEF c, r
  <1>4. r \in OutcomeType /\ r.disk = o.disk /\ r.failed = o.failed /\ r.throws = o.throws /\ r.buffer = c
    BY <1>1, <1>2, <1>3 DEF OutcomeType
  <1>5. BufferOK(c) /\ MapOf(c, o.disk) /\ Blamed(c, m, o.failed)
    BY <1>1, <1>2 DEF Safe, BufferOK, MapOf, Blamed, Capacity
  <1>6. Safe(r, m)
    BY <1>4, <1>5 DEF Safe
  <1> QED BY <1>4, <1>6 DEF r, c

LEMMA PositionSetSafe ==
  ASSUME NEW b, BufferOK(b), disk \in Seq(FileByte), MapOf(b, disk), NEW m, Blamed(b, m, FALSE),
         NEW p \in Nat, NEW factor \in Nat \ {0}, NEW o \in PositionSet(b, p, factor, m)
  PROVE  Safe(o, m) /\ o.buffer.size = b.size
  <1>1. b \in ByteBufferType /\ b.size \in Nat /\ Len(b.data) \in Nat /\ Len(b.data) <= Len(disk) /\ b.size <= Len(b.data)
    BY DEF BufferOK, MapOf, Capacity, ByteBufferType
  <1>2. CASE p < Capacity(b)
    <2> DEFINE c == PositionedAt(b, p)
    <2>1. o = Outcome(disk, c, FALSE, FALSE)
      BY <1>2 DEF PositionSet
    <2>2. c \in ByteBufferType /\ c.data = b.data /\ c.size = b.size /\ c.live = b.live
      BY <1>1, PositionedType
    <2> HIDE DEF c
    <2>3. BufferOK(c) /\ MapOf(c, disk) /\ Blamed(c, m, FALSE)
      BY <2>2 DEF BufferOK, MapOf, Blamed, Capacity
    <2>4. Safe(o, m)
      BY <2>1, <2>3, OutcomeSafe
    <2>5. o.buffer = c
      BY <2>1, <2>2, OutcomeIs
    <2> QED BY <2>2, <2>4, <2>5
  <1>3. CASE ~(p < Capacity(b))
    <2>1. PICK q \in Remapped(b, factor * Len(disk), m) : o = IF q.throws THEN q ELSE [q EXCEPT !.buffer = PositionedAt(@, p)]
      BY <1>3 DEF PositionSet
    <2>2. factor * Len(disk) \in Nat /\ factor * Len(disk) >= Capacity(b)
      <3>1. Len(disk) \in Nat
        OBVIOUS
      <3>2. factor * Len(disk) \in Nat /\ factor * Len(disk) >= Len(disk)
        BY <3>1, Times
      <3> QED BY <1>1, <3>1, <3>2 DEF Capacity
    <2>3. Safe(q, m) /\ q.buffer.size = b.size
      <3>1. PICK n : n = factor * Len(disk)
        OBVIOUS
      <3>2. q \in Remapped(b, n, m) /\ n \in Nat /\ n >= Capacity(b)
        BY <2>1, <2>2, <3>1
      <3>3. Safe(q, m) /\ IsRemapped(q, b, n)
        BY <3>2, RemappedSafe
      <3> QED BY <3>3 DEF IsRemapped
    <2>4. CASE q.throws
      BY <2>1, <2>3, <2>4
    <2>5. CASE ~q.throws
      <3> DEFINE r == [q EXCEPT !.buffer = PositionedAt(@, p)]
      <3>1. Safe(r, m) /\ r.buffer = PositionedAt(q.buffer, p)
        BY <2>3, PositionedSafe
      <3>2. o = r
        BY <2>1, <2>5
      <3> HIDE DEF r
      <3>3. q.buffer \in ByteBufferType
        BY <2>3 DEF Safe, BufferOK
      <3>4. r.buffer.size = q.buffer.size
        <4>1. PositionedAt(q.buffer, p).size = q.buffer.size
          BY <3>3, PositionedType
        <4> QED BY <3>1, <4>1
      <3> QED BY <2>3, <3>1, <3>2, <3>4
    <2> QED BY <2>4, <2>5
  <1> QED BY <1>2, <1>3

\* The part of the invariant about an open map.
MapOK == BufferOK(buffer) /\ MapOf(buffer, disk) /\ Blamed(buffer, mode, FALSE)

LEMMA TakeSafe ==
  ASSUME FileOK, NEW o, Safe(o, mode), Take(o), mode' = mode
  PROVE  disk' \in Seq(FileByte) /\ faults' \in 0..MaxFaults /\ MapOK' /\ disk' = o.disk /\ buffer' = o.buffer /\ faults' >= faults
  <1>1. disk' = o.disk /\ buffer' = o.buffer /\ IF o.failed THEN Fault ELSE UNCHANGED faults
    BY DEF Take
  <1>2. faults' \in 0..MaxFaults /\ faults' >= faults
    BY <1>1, FaultType DEF FileOK, Fault
  <1>3. Blamed(buffer, mode, FALSE)'
    BY <1>1, <1>2 DEF Safe, Blamed, FileOK, Fault
  <1>4. BufferOK(buffer)' /\ MapOf(buffer, disk)' /\ disk' \in Seq(FileByte)
    BY <1>1 DEF Safe, BufferOK, MapOf, OutcomeType
  <1> QED BY <1>1, <1>2, <1>3, <1>4 DEF MapOK, Blamed

\* What the invariant says of an open map, in one place.
LEMMA WhenMapped ==
  ASSUME Inv, cls = "MappedFileIO"
  PROVE  MapOK /\ readIdx \in Nat /\ writeIdx \in Nat /\ call.at \in Nat /\ rest = <<>>
  BY DEF Inv, Shape, MapOK, Blamed

\* A step of a map is right if it leaves a map, and blames what crashes on a failure.
LEMMA MappedStep ==
  ASSUME Inv, cls = "MappedFileIO", UNCHANGED <<mode, offset, rest, cls, growFactor>>, lost' = FALSE, calls' \in 0..MaxCalls,
         disk' \in Seq(FileByte), faults' \in 0..MaxFaults, readIdx' \in Nat, writeIdx' \in Nat, MapOK',
         crashed' \in BOOLEAN, crashed' /\ "Write" \in mode => faults' > 0,
         call' \in CallType, call'.at \in Nat, call'.op = "none" => call' = NoCall
  PROVE  Inv'
  <1>1. FileOK' /\ BufferOK(buffer)'
    BY DEF FileOK, MapOK, Inv
  <1>2. CallOK'
    BY DEF CallOK, Inv
  <1>3. rest' = <<>>
    BY WhenMapped
  <1>4. ~buffer'.live /\ "Write" \in mode' => faults' > 0
    BY DEF MapOK, Blamed
  <1>5. Shape' /\ StaysInMap'
    BY <1>3, <1>4 DEF Shape, StaysInMap, MapOK
  <1> QED BY <1>1, <1>2, <1>5 DEF Inv

LEMMA MappedSeekSafe ==
  ASSUME Inv, cls = "MappedFileIO", NEW off \in Int, NEW whence \in Whence, MapTarget(off, whence) \in Nat,
         MappedSeekg(off, whence) \/ MappedSeekp(off, whence)
  PROVE  /\ disk' \in Seq(FileByte) /\ faults' \in 0..MaxFaults /\ readIdx' \in Nat /\ writeIdx' \in Nat /\ MapOK'
         /\ faults' >= faults /\ UNCHANGED <<mode, offset>>
  <1> DEFINE p == MapTarget(off, whence)
  <1>1. PICK o \in PositionSet(buffer, p, growFactor, mode) :
           Take(o) /\ UNCHANGED <<mode, offset>> /\ readIdx' \in {readIdx, p} /\ writeIdx' \in {writeIdx, p}
    BY DEF MappedSeekg, MappedSeekp
  <1>2. MapOK /\ readIdx \in Nat /\ writeIdx \in Nat /\ FileOK /\ disk \in Seq(FileByte) /\ growFactor \in Nat \ {0}
    BY WhenMapped DEF Inv, FileOK, CallOK
  <1> HIDE DEF p
  <1>3. p \in Nat
    BY DEF p
  <1>4. Safe(o, mode)
    BY <1>1, <1>2, <1>3, PositionSetSafe DEF MapOK
  <1> QED BY <1>1, <1>2, <1>3, <1>4, TakeSafe

LEMMA MappedSeekStep ==
  ASSUME Inv, NEW s \in Seeks, Seekg(s[1], s[2]) \/ Seekp(s[1], s[2]), cls = "MappedFileIO", calls' \in 0..MaxCalls
  PROVE  Inv'
  <1>1. s[1] \in Int /\ s[2] \in Whence
    BY StreamAssumption
  <1>2. Idle /\ (MappedSeekg(s[1], s[2]) \/ MappedSeekp(s[1], s[2])) /\ MapTarget(s[1], s[2]) \in Nat
        /\ lost' = FALSE /\ UNCHANGED <<rest, mappedVars, cls, call>>
    BY FileAssumption DEF Seekg, Seekp, MapSeekAllowed
  <1>3. /\ disk' \in Seq(FileByte) /\ faults' \in 0..MaxFaults /\ readIdx' \in Nat /\ writeIdx' \in Nat /\ MapOK'
        /\ faults' >= faults /\ UNCHANGED <<mode, offset>>
    BY <1>1, <1>2, MappedSeekSafe
  <1>4. call \in CallType /\ call.at \in Nat /\ (call.op = "none" => call = NoCall) /\ crashed = FALSE
    BY <1>2, WhenMapped DEF Inv, Shape, CallOK, Idle
  <1> QED BY <1>2, <1>3, <1>4, MappedStep DEF mappedVars

LEMMA MappedCountType ==
  ASSUME Inv, cls = "MappedFileIO", NEW n \in Nat
  PROVE  MappedCount(n) \in 0..n
  <1> DEFINE x == buffer.size - readIdx
             r == RemainingSize(PositionedAt(buffer, readIdx))
  <1>1. buffer \in ByteBufferType /\ readIdx \in Nat
    BY WhenMapped DEF MapOK, BufferOK
  <1>2. r = x % Word
    BY <1>1, PositionedType DEF RemainingSize
  <1>3. x \in Int
    BY <1>1 DEF ByteBufferType
  <1> HIDE DEF x, r
  <1>4. r \in Nat
    BY <1>2, <1>3, ModType
  <1>5. Smaller(n, r) \in 0..n
    BY <1>4 DEF Smaller
  <1> QED BY <1>5 DEF MappedCount, r

LEMMA PositionedMapOK ==
  ASSUME MapOK, NEW p \in Nat, buffer' = PositionedAt(buffer, p), UNCHANGED <<disk, mode, faults>>
  PROVE  MapOK'
  <1>1. /\ buffer' \in ByteBufferType /\ buffer'.data = buffer.data /\ buffer'.size = buffer.size /\ buffer'.live = buffer.live
    BY PositionedType DEF MapOK, BufferOK
  <1> QED BY <1>1 DEF MapOK, BufferOK, MapOf, Blamed, Capacity

\* read, with the call it is made from going on as c.
LEMMA MappedReadSafe ==
  ASSUME Inv, cls = "MappedFileIO", ~crashed, NEW n \in Nat, MappedRead(n) \/ MappedReadFails(n), UNCHANGED <<rest, cls>>, lost' = FALSE,
         calls' \in 0..MaxCalls, call' \in CallType, call'.at \in Nat, call'.op = "none" => call' = NoCall
  PROVE  Inv'
  <1>1. MapOK /\ readIdx \in Nat /\ writeIdx \in Nat /\ FileOK /\ disk \in Seq(FileByte) /\ faults \in 0..MaxFaults /\ crashed = FALSE
    BY WhenMapped DEF Inv, FileOK, CallOK
  <1>2. MappedCount(n) \in Nat
    BY MappedCountType
  <1>3. UNCHANGED <<disk, mode, writeIdx, offset, faults, growFactor>>
    BY DEF MappedRead, MappedReadFails, fileVars, mappedVars
  <1>4. CASE buffer' = buffer /\ readIdx' = readIdx /\ crashed' = TRUE /\ ~buffer.live
    <2>1. MapOK'
      BY <1>1, <1>3, <1>4 DEF MapOK, BufferOK, MapOf, Blamed, Capacity
    <2>2. "Write" \in mode => faults' > 0
      BY <1>1, <1>3, <1>4 DEF MapOK, Blamed
    <2> QED BY <1>1, <1>3, <1>4, <2>1, <2>2, MappedStep
  <1>5. ASSUME NEW p \in Nat, buffer' = PositionedAt(buffer, p), readIdx' \in Nat, crashed' = crashed PROVE Inv'
    <2>1. MapOK'
      BY <1>1, <1>3, <1>5, PositionedMapOK
    <2> QED BY <1>1, <1>3, <1>5, <2>1, MappedStep
  <1>6. CASE MappedRead(n)
    <2>1. CASE MappedCount(n) > 0 /\ ~buffer.live
      BY <1>4, <1>6, <2>1 DEF MappedRead
    <2>2. CASE ~(MappedCount(n) > 0 /\ ~buffer.live)
      <3>1. readIdx' = readIdx + MappedCount(n) /\ buffer' = PositionedAt(buffer, readIdx') /\ crashed' = crashed
        BY <1>6, <2>2 DEF MappedRead
      <3>2. PICK q \in Nat : q = readIdx'
        BY <1>1, <1>2, <3>1
      <3> QED BY <1>5, <3>1, <3>2
    <2> QED BY <2>1, <2>2
  <1>7. CASE MappedReadFails(n)
    <2>1. buffer' = PositionedAt(buffer, readIdx) /\ readIdx' = readIdx /\ crashed' = crashed
      BY <1>7 DEF MappedReadFails, fileVars, mappedVars
    <2> QED BY <1>1, <1>5, <2>1
  <1> QED BY <1>6, <1>7

LEMMA MappedReadStep ==
  ASSUME Inv, Read(2), cls = "MappedFileIO", calls' \in 0..MaxCalls
  PROVE  Inv'
  <1>1. Idle /\ UNCHANGED <<rest, cls, call>> /\ lost' = FALSE /\ (MappedRead(2) \/ MappedReadFails(2))
    BY DEF Read
  <1>2. call \in CallType /\ call.at \in Nat /\ (call.op = "none" => call = NoCall) /\ crashed = FALSE
    BY <1>1, WhenMapped DEF Inv, Shape, CallOK, Idle
  <1> QED BY <1>1, <1>2, MappedReadSafe

LEMMA MappedWriteStep ==
  ASSUME Inv, NEW bytes \in Writes, Write(bytes), cls = "MappedFileIO", calls' \in 0..MaxCalls
  PROVE  Inv'
  <1>1. bytes \in Seq(FileByte) /\ bytes # <<>> /\ Len(bytes) \in Nat \ {0}
    BY StreamAssumption, EmptySeq DEF FileByte
  <1>2. Idle /\ lost' = FALSE /\ UNCHANGED <<cls, call, rest>> /\ MappedWrite(bytes)
    BY DEF Write
  <1>3. UNCHANGED <<mode, readIdx, offset, growFactor>>
    BY <1>2 DEF MappedWrite
  <1>4. /\ MapOK /\ readIdx \in Nat /\ writeIdx \in Nat /\ FileOK /\ disk \in Seq(FileByte) /\ growFactor \in Nat \ {0}
        /\ call \in CallType /\ call.at \in Nat /\ (call.op = "none" => call = NoCall) /\ crashed = FALSE
    BY <1>2, WhenMapped DEF Inv, Shape, CallOK, Idle, FileOK
  <1>5. ASSUME disk' \in Seq(FileByte), faults' \in 0..MaxFaults, MapOK', writeIdx' \in Nat, crashed' \in BOOLEAN,
               crashed' /\ "Write" \in mode => faults' > 0
        PROVE  Inv'
    BY <1>2, <1>3, <1>4, <1>5, MappedStep
  <1>6. PICK o \in IF writeIdx + Len(bytes) > Capacity(buffer)
                   THEN Remapped(buffer, Capacity(buffer) * growFactor, mode)
                   ELSE {Outcome(disk, buffer, FALSE, FALSE)} :
          \/ o.throws /\ Take(o) /\ UNCHANGED <<writeIdx, crashed>>
          \/ /\ ~o.throws
             /\ Take([o EXCEPT !.buffer = PositionedAt(@, writeIdx)])
             /\ UNCHANGED <<writeIdx, crashed>>
          \/ /\ ~o.buffer.live
             /\ crashed' = TRUE
             /\ Take(o) /\ UNCHANGED writeIdx
          \/ /\ Fits(o.buffer, writeIdx, Len(bytes)) /\ o.buffer.live
             /\ Take([o EXCEPT !.buffer = WithPut(o.buffer, writeIdx, bytes), !.disk = WithPut(o.buffer, writeIdx, bytes).data])
             /\ writeIdx' = WithPut(o.buffer, writeIdx, bytes).position
             /\ UNCHANGED crashed
    BY <1>2 DEF MappedWrite
  <1>7. Safe(o, mode)
    <2>1. CASE writeIdx + Len(bytes) > Capacity(buffer)
      <3>1. PICK n : n = Capacity(buffer) * growFactor
        OBVIOUS
      <3>2. PICK l : l = Capacity(buffer)
        OBVIOUS
      <3>3. l \in Nat
        BY <1>4, <3>2 DEF MapOK, BufferOK, ByteBufferType, Capacity
      <3>4. l * growFactor \in Nat /\ l * growFactor >= l
        BY <1>4, <3>3, Times
      <3>5. n \in Nat /\ n >= Capacity(buffer) /\ o \in Remapped(buffer, n, mode)
        BY <1>6, <2>1, <3>1, <3>2, <3>4
      <3> QED BY <1>4, <3>5, RemappedSafe DEF MapOK
    <2>2. CASE ~(writeIdx + Len(bytes) > Capacity(buffer))
      <3>1. o = Outcome(disk, buffer, FALSE, FALSE)
        BY <1>6, <2>2
      <3> QED BY <1>4, <3>1, OutcomeSafe DEF MapOK
    <2> QED BY <2>1, <2>2
  <1>8. CASE Take(o) /\ writeIdx' = writeIdx /\ (crashed' = crashed \/ (crashed' = TRUE /\ ~o.buffer.live))
    <2>1. disk' \in Seq(FileByte) /\ faults' \in 0..MaxFaults /\ MapOK' /\ buffer' = o.buffer
      BY <1>3, <1>4, <1>7, <1>8, TakeSafe
    <2>2. crashed' /\ "Write" \in mode => faults' > 0
      BY <1>3, <1>4, <1>8, <2>1 DEF MapOK, Blamed
    <2> QED BY <1>4, <1>5, <1>8, <2>1, <2>2
  <1>9. CASE Take([o EXCEPT !.buffer = PositionedAt(@, writeIdx)]) /\ UNCHANGED <<writeIdx, crashed>>
    <2> DEFINE r == [o EXCEPT !.buffer = PositionedAt(@, writeIdx)]
    <2>1. Safe(r, mode)
      BY <1>4, <1>7, PositionedSafe
    <2> HIDE DEF r
    <2>2. Take(r)
      BY <1>9 DEF r
    <2>3. disk' \in Seq(FileByte) /\ faults' \in 0..MaxFaults /\ MapOK'
      BY <1>3, <1>4, <2>1, <2>2, TakeSafe
    <2> QED BY <1>4, <1>5, <1>9, <2>3
  <1>10. CASE /\ Fits(o.buffer, writeIdx, Len(bytes)) /\ o.buffer.live
              /\ Take([o EXCEPT !.buffer = WithPut(o.buffer, writeIdx, bytes), !.disk = WithPut(o.buffer, writeIdx, bytes).data])
              /\ writeIdx' = WithPut(o.buffer, writeIdx, bytes).position
              /\ UNCHANGED crashed
    <2> DEFINE b == o.buffer
               w == WithPut(b, writeIdx, bytes)
               r == [o EXCEPT !.buffer = w, !.disk = w.data]
    <2>1. b \in ByteBufferType /\ b.size <= Len(b.data) /\ b.data = o.disk /\ o.disk \in Seq(FileByte) /\ 0 < Len(b.data) /\ o \in OutcomeType
          /\ b.size \in Nat
      BY <1>7, <1>10 DEF Safe, BufferOK, Capacity, MapOf, OutcomeType, ByteBufferType
    <2>2. /\ w \in ByteBufferType /\ IsOverlay(w.data, b.data, writeIdx, bytes, BufferByte)
          /\ w.position = writeIdx + Len(bytes) /\ w.size = Larger(b.size, writeIdx + Len(bytes)) /\ w.live = b.live
      BY <1>1, <1>4, <2>1, WithPutType
    <2>3. w.data = Overlay(b.data, writeIdx, bytes)
      BY <2>1 DEF WithPut, ByteBufferType
    <2>4. w.data \in Seq(FileByte)
      <3>1. IsOverlay(Overlay(o.disk, writeIdx, bytes), o.disk, writeIdx, bytes, FileByte)
        BY <1>1, <1>4, <2>1, Overlaid DEF FileByte
      <3> QED BY <2>1, <2>3, <3>1 DEF IsOverlay
    <2>5. writeIdx + Len(bytes) <= Len(b.data)
      BY <1>10 DEF Fits, Capacity
    <2> HIDE DEF w
    <2>6. Len(w.data) = Len(b.data)
      BY <1>1, <1>4, <2>1, <2>2, <2>5 DEF IsOverlay, Larger
    <2>7. w.size <= Len(w.data)
      BY <1>1, <1>4, <2>1, <2>2, <2>5, <2>6 DEF Larger
    <2>8. BufferOK(w) /\ MapOf(w, w.data) /\ Blamed(w, mode, FALSE) /\ Blamed(w, mode, TRUE)
      BY <1>10, <2>1, <2>2, <2>6, <2>7 DEF BufferOK, MapOf, Blamed, Capacity
    <2>9. r \in OutcomeType /\ r.buffer = w /\ r.disk = w.data /\ r.failed = o.failed
      BY <2>1, <2>2, <2>4 DEF OutcomeType
    <2>10. Take(r)
      BY <1>10 DEF w
    <2> HIDE DEF r
    <2>11. Safe(r, mode)
      BY <2>8, <2>9, <1>10, <2>2 DEF Safe, Blamed
    <2>12. disk' \in Seq(FileByte) /\ faults' \in 0..MaxFaults /\ MapOK'
      BY <1>3, <1>4, <2>10, <2>11, TakeSafe
    <2>13. writeIdx' \in Nat
      BY <1>1, <1>4, <1>10, <2>2 DEF w
    <2> QED BY <1>4, <1>5, <1>10, <2>12, <2>13
  <1> QED BY <1>6, <1>8, <1>9, <1>10

LEMMA OpenMappedStep ==
  ASSUME Inv, NEW m \in Modes, cls = "none", Open("MappedFileIO", m), calls' \in 0..MaxCalls
  PROVE  Inv'
  <1>1. OpenMapped(m) /\ lost' = FALSE /\ UNCHANGED <<readIdx, rest, mappedVars, call>> /\ mode' = IF cls' = "none" THEN {} ELSE m
    BY DEF Open
  <1>2. rest = <<>> /\ call = NoCall /\ crashed = FALSE /\ mode = {} /\ buffer = NoBuffer /\ readIdx = 0 /\ writeIdx = 0
    BY WhenClosed DEF Inv, CallOK
  <1>3. FileOK /\ disk \in Seq(FileByte) /\ faults \in 0..MaxFaults /\ OpenFile(m) \in Seq(FileByte) /\ offset \in Nat
    BY OpenFileType DEF Inv, FileOK
  \* Nothing is opened.
  <1>4. ASSUME disk' \in Seq(FileByte), faults' \in 0..MaxFaults, UNCHANGED <<cls, buffer, offset, writeIdx>> PROVE Inv'
    <2>1. FileOK' /\ BufferOK(buffer)'
      BY <1>1, <1>3, <1>4 DEF FileOK, BufferOK, Inv
    <2>2. CallOK'
      BY <1>1, <1>4 DEF CallOK, Inv, mappedVars
    <2>3. Shape' /\ StaysInMap'
      BY <1>1, <1>2, <1>4 DEF Shape, StaysInMap, mappedVars, NoCall
    <2> QED BY <2>1, <2>2, <2>3 DEF Inv
  <1>5. CASE disk' = OpenFile(m) /\ UNCHANGED <<cls, buffer, offset, writeIdx>> /\ (Fault \/ UNCHANGED faults)
    BY <1>3, <1>4, <1>5, FaultType
  <1>6. CASE OpenFile(m) # <<>> /\ UNCHANGED offset
             /\ \E o \in PositionSet(PositionedAt(OverMemory(NoBuffer, OpenFile(m), FALSE), 0), IF "App" \in m THEN Len(OpenFile(m)) ELSE 0, 2, m) :
                  /\ disk' = o.disk
                  /\ IF o.failed THEN Fault ELSE UNCHANGED faults
                  /\ IF o.throws THEN UNCHANGED <<cls, buffer, writeIdx>>
                     ELSE cls' = "MappedFileIO" /\ buffer' = o.buffer /\ writeIdx' = IF "App" \in m THEN Len(OpenFile(m)) ELSE 0
    <2> DEFINE end == IF "App" \in m THEN Len(OpenFile(m)) ELSE 0
               a == OverMemory(NoBuffer, disk, FALSE)
               b == PositionedAt(a, 0)
    <2>1. OpenFile(m) = disk /\ disk # <<>> /\ Len(disk) \in Nat \ {0}
      BY <1>3, <1>6, EmptySeq DEF OpenFile
    <2>2. a \in ByteBufferType /\ a.data = disk /\ a.size = Len(disk) /\ a.live
      BY <1>3, NoBufferType, OverMemoryType
    <2> HIDE DEF a
    <2>3. b \in ByteBufferType /\ b.data = disk /\ b.size = Len(disk) /\ b.live
      BY <2>2, PositionedType
    <2>4. end \in Nat
      BY <2>1
    <2>5. PICK o \in PositionSet(b, end, 2, m) :
                  /\ disk' = o.disk
                  /\ IF o.failed THEN Fault ELSE UNCHANGED faults
                  /\ IF o.throws THEN UNCHANGED <<cls, buffer, writeIdx>>
                     ELSE cls' = "MappedFileIO" /\ buffer' = o.buffer /\ writeIdx' = end
      BY <1>6, <2>1 DEF a
    <2> HIDE DEF b, end
    <2>6. BufferOK(b) /\ MapOf(b, disk) /\ Blamed(b, m, FALSE)
      BY <2>1, <2>3 DEF BufferOK, MapOf, Blamed, Capacity
    <2>7. Safe(o, m)
      <3>1. PICK f : f = 2
        OBVIOUS
      <3>2. f \in Nat \ {0} /\ o \in PositionSet(b, end, f, m)
        BY <2>5, <3>1
      <3> QED BY <1>3, <2>4, <2>6, <3>2, PositionSetSafe
    <2>8. faults' \in 0..MaxFaults /\ disk' \in Seq(FileByte)
      BY <1>3, <2>5, <2>7, FaultType DEF Safe, OutcomeType
    <2>9. CASE o.throws
      BY <1>4, <1>6, <2>5, <2>8, <2>9
    <2>10. CASE ~o.throws
      <3>1. cls' = "MappedFileIO" /\ buffer' = o.buffer /\ writeIdx' = end /\ disk' = o.disk /\ mode' = m
        BY <1>1, <2>5, <2>10
      <3>2. BufferOK(buffer)' /\ MapOf(buffer, disk)'
        BY <2>7, <3>1 DEF Safe, BufferOK, MapOf
      <3>3. ~buffer'.live /\ "Write" \in mode' => faults' > 0
        BY <1>3, <2>5, <2>7, <3>1 DEF Safe, Blamed, Fault
      <3>4. FileOK'
        BY <1>1, <1>3, <1>6, <2>4, <2>8, <3>1 DEF FileOK
      <3>5. CallOK'
        BY <1>1, <3>1 DEF CallOK, Inv, mappedVars, Class
      <3>6. Shape' /\ StaysInMap'
        BY <1>1, <1>2, <2>4, <3>1, <3>2, <3>3 DEF Shape, StaysInMap, mappedVars, NoCall
      <3> QED BY <3>2, <3>4, <3>5, <3>6 DEF Inv
    <2> QED BY <2>9, <2>10
  <1> QED BY <1>1, <1>5, <1>6 DEF OpenMapped

------------------------------------------------------------------------------
(* The steps of a call that reads lines.                                      *)

\* What reading goes on as.
GoesOn(c) == c \in CallType /\ c.op = call.op /\ c.at = call.at

LEMMA LineReadType ==
  ASSUME call \in CallType, call.op \in LineCall, NEW text \in Seq(FileByte), NEW failed \in BOOLEAN
  PROVE  GoesOn(LineRead(text, failed))
  <1> DEFINE d == call.dest \o text
             f == call.failed \/ failed
             next == [call EXCEPT !.line = <<>>, !.failed = @ \/ failed]
  <1>1. d \in Seq(FileByte) /\ f \in BOOLEAN /\ <<>> \in Seq(FileByte)
    BY DEF CallType
  <1>2. next = [call EXCEPT !.line = <<>>, !.failed = f]
    OBVIOUS
  <1> HIDE DEF d, f, next
  <1>3. next \in CallType /\ next.op = call.op /\ next.at = call.at /\ next.dest = call.dest /\ next.count = call.count /\ next.phase = call.phase
    BY <1>1, <1>2 DEF CallType
  <1>4. CASE call.op = "readLine"
    <2>1. LineRead(text, failed) = [next EXCEPT !.line = text, !.phase = "returned"]
      BY <1>4 DEF LineRead, next
    <2>2. GoesOn([next EXCEPT !.line = text, !.phase = "returned"])
      BY <1>3 DEF CallType, GoesOn
    <2> QED BY <2>1, <2>2
  <1>5. CASE call.op \in {"getNofLines", "end"}
    <2>1. LineRead(text, failed) \in {[next EXCEPT !.phase = "ended"], [next EXCEPT !.count = @ + 1]}
      BY <1>5 DEF LineRead, next
    <2>2. GoesOn([next EXCEPT !.phase = "ended"])
      BY <1>3 DEF CallType, GoesOn
    <2>3. GoesOn([next EXCEPT !.count = @ + 1])
      <3> DEFINE ct == next.count + 1
      <3>1. ct \in Int /\ [next EXCEPT !.count = @ + 1] = [next EXCEPT !.count = ct]
        BY <1>3 DEF CallType
      <3> HIDE DEF ct
      <3>2. GoesOn([next EXCEPT !.count = ct])
        BY <1>3, <3>1 DEF CallType, GoesOn
      <3> QED BY <3>1, <3>2
    <2> QED BY <2>1, <2>2, <2>3
  <1>6. CASE call.op = "readAll"
    <2>1. LineRead(text, failed) \in {[next EXCEPT !.phase = "returned"], [next EXCEPT !.dest = @ \o text]}
      BY <1>6 DEF LineRead, next
    <2>2. [next EXCEPT !.dest = @ \o text] = [next EXCEPT !.dest = d]
      BY <1>3 DEF d
    <2>3. GoesOn([next EXCEPT !.phase = "returned"])
      BY <1>3 DEF CallType, GoesOn
    <2>4. GoesOn([next EXCEPT !.dest = d])
      BY <1>1, <1>3 DEF CallType, GoesOn
    <2> QED BY <2>1, <2>2, <2>3, <2>4
  <1>7. CASE call.op = "rangeFor"
    <2> DEFINE ph == IF call.count = 1 THEN "returned" ELSE next.phase
               ct == next.count - 1
    <2>1. LineRead(text, failed) = [next EXCEPT !.dest = d, !.count = ct, !.phase = ph]
      BY <1>7, <1>3 DEF LineRead, next, d
    <2>2. ph \in {"reading", "ended", "returned"} /\ ct \in Int
      BY <1>3 DEF CallType
    <2> HIDE DEF ph, ct
    <2>3. GoesOn([next EXCEPT !.dest = d, !.count = ct, !.phase = ph])
      BY <1>1, <1>3, <2>2 DEF CallType, GoesOn
    <2> QED BY <2>1, <2>3
  <1> QED BY <1>4, <1>5, <1>6, <1>7 DEF LineCall

LEMMA ByteReadType ==
  ASSUME call \in CallType, call.op \in LineCall, NEW bytes \in Seq(FileByte)
  PROVE  GoesOn(ByteRead(bytes))
  <1> DEFINE l == call.line \o bytes
  <1>1. l \in Seq(FileByte) /\ call.line \in Seq(FileByte)
    BY DEF CallType
  <1>2. ByteRead(bytes) \in {LineRead(call.line, FALSE), LineRead(l, FALSE), [call EXCEPT !.line = l]}
    BY DEF ByteRead
  <1> HIDE DEF l
  <1>3. GoesOn(LineRead(call.line, FALSE)) /\ GoesOn(LineRead(l, FALSE))
    BY <1>1, LineReadType
  <1>4. GoesOn([call EXCEPT !.line = l])
    BY <1>1 DEF CallType, GoesOn
  <1> QED BY <1>2, <1>3, <1>4

\* What a read of a map that is there finds.
LEMMA MappedBytesType ==
  ASSUME Inv, cls = "MappedFileIO", ~MappedReadThrows(1), MappedCount(1) = 0 \/ buffer.live
  PROVE  MappedBytes(1) \in Seq(FileByte) /\ Len(MappedBytes(1)) = MappedCount(1)
  <1>1. MapOK /\ readIdx \in Nat /\ disk \in Seq(FileByte)
    BY WhenMapped DEF Inv, FileOK
  <1>2. PICK k \in 0..1 : k = MappedCount(1)
    BY MappedCountType
  <1>3. readIdx + k <= Len(buffer.data) /\ MappedBytes(1) = SubSeq(buffer.data, readIdx + 1, readIdx + k)
    BY <1>2 DEF MappedReadThrows, Fits, Capacity, MappedBytes
  <1>4. CASE k = 0
    <2>1. SubSeq(buffer.data, readIdx + 1, readIdx) = <<>>
      BY <1>1, SubSeqEmpty
    <2>2. <<>> \in Seq(FileByte) /\ Len(<<>>) = 0
      OBVIOUS
    <2>3. MappedBytes(1) = <<>>
      BY <1>1, <1>3, <1>4, <2>1
    <2> QED BY <1>2, <1>4, <2>2, <2>3
  <1>5. CASE k # 0
    <2>1. buffer.data = disk
      BY <1>1, <1>2, <1>5 DEF MapOK, MapOf
    <2>2. PICK m \in Nat \ {0} : m = readIdx + 1
      BY <1>1
    <2>3. k = 1 /\ readIdx + k = m /\ m <= Len(disk)
      BY <1>1, <1>3, <1>5, <2>1, <2>2
    <2>4. SubSeq(disk, m, m) \in Seq(FileByte) /\ Len(SubSeq(disk, m, m)) = 1
      BY <1>1, <2>2, <2>3, Part
    <2> QED BY <1>2, <1>3, <2>1, <2>2, <2>3, <2>4
  <1> QED BY <1>4, <1>5

\* A step of a plain class in a call: the call and the descriptor move.
LEMMA PlainCallStep ==
  ASSUME Inv, cls # "MappedFileIO", call.op # "none" \/ Idle, FileOK', UNCHANGED <<mode, buffer, mappedVars, cls, rest>>,
         call' \in CallType, call'.op = "none" => call' = NoCall, lost' = FALSE, calls' \in 0..MaxCalls, calls' = calls \/ Idle
  PROVE  Inv'
  <1>1. BufferOK(buffer)'
    BY DEF BufferOK, Inv
  <1>2. CallOK'
    BY DEF CallOK, Inv, mappedVars
  <1>3. rest = <<>> /\ cls # "none"
    BY DEF Inv, Shape, Idle
  <1>4. Shape' /\ StaysInMap'
    BY <1>3 DEF Shape, Inv, mappedVars, Gathers, StaysInMap
  <1> QED BY <1>1, <1>2, <1>4 DEF Inv

LEMMA StartLinesStep ==
  ASSUME Inv, NEW op \in LineCall \ {"rangeFor"}, StartLines(op), calls' \in 0..MaxCalls
  PROVE  Inv'
  <1>1. /\ Idle /\ lost' = FALSE /\ UNCHANGED <<rest, mappedVars, cls>> /\ call' = [NoCall EXCEPT !.op = op, !.at = readIdx']
        /\ op # "readAll" => UNCHANGED <<fileVars, buffer>>
        /\ op = "readAll" => IF cls = "MappedFileIO" THEN MappedSeekg(0, "Beg") ELSE FileSeekg(0, "Beg") /\ UNCHANGED buffer
    BY DEF StartLines
  <1>2. readIdx \in Nat \cup {-1} /\ FileOK /\ crashed = FALSE
    BY <1>1 DEF Inv, FileOK, Idle, CallOK
  <1>3. ASSUME readIdx' \in Nat \cup {-1} PROVE call' \in CallType /\ call'.op # "none" /\ call'.at = readIdx'
    <2>1. NoCall \in CallType /\ op \in LineCall /\ op # "none"
      BY NoCallType DEF LineCall
    <2>2. [NoCall EXCEPT !.op = op, !.at = readIdx'] \in CallType
      BY <1>3, <2>1 DEF CallType
    <2>3. call'.op = op /\ call'.at = readIdx'
      BY <1>1, <2>1 DEF CallType
    <2> QED BY <1>1, <2>1, <2>2, <2>3
  <1>4. CASE op # "readAll"
    <2>1. UNCHANGED <<disk, mode, readIdx, writeIdx, offset, faults, buffer>>
      BY <1>1, <1>4 DEF fileVars
    <2>2. CASE cls = "MappedFileIO"
      <3>1. MapOK /\ MapOK' /\ readIdx \in Nat /\ writeIdx \in Nat /\ disk \in Seq(FileByte) /\ faults \in 0..MaxFaults
        BY <1>2, <2>1, <2>2, WhenMapped DEF MapOK, BufferOK, MapOf, Blamed, FileOK
      <3> QED BY <1>1, <1>2, <1>3, <2>1, <2>2, <3>1, MappedStep DEF mappedVars
    <2>3. CASE cls # "MappedFileIO"
      <3>1. FileOK'
        BY <1>2, <2>1 DEF FileOK
      <3> QED BY <1>1, <1>2, <1>3, <2>1, <2>3, <3>1, PlainCallStep
    <2> QED BY <2>2, <2>3
  <1>5. CASE op = "readAll"
    <2>1. CASE cls = "MappedFileIO"
      <3>1. MappedSeekg(0, "Beg") /\ 0 \in Int /\ "Beg" \in Whence
        BY <1>1, <1>5, <2>1 DEF Whence
      <3>2. MapTarget(0, "Beg") \in Nat
        BY DEF MapTarget, SeekTarget
      <3>3. /\ disk' \in Seq(FileByte) /\ faults' \in 0..MaxFaults /\ readIdx' \in Nat /\ writeIdx' \in Nat /\ MapOK'
            /\ faults' >= faults /\ UNCHANGED <<mode, offset>>
        BY <2>1, <3>1, <3>2, MappedSeekSafe
      <3> QED BY <1>1, <1>2, <1>3, <2>1, <3>3, MappedStep DEF mappedVars
    <2>2. CASE cls # "MappedFileIO"
      <3>1. FileSeekg(0, "Beg") /\ UNCHANGED buffer /\ 0 \in Int /\ "Beg" \in Whence
        BY <1>1, <1>5, <2>2 DEF Whence
      <3>2. FileOK' /\ mode' = mode
        BY <1>2, <3>1, FileSeekType DEF FileSeekg
      <3>3. readIdx' \in Nat \cup {-1}
        BY <3>2 DEF FileOK
      <3> QED BY <1>1, <1>2, <1>3, <2>2, <3>1, <3>2, <3>3, PlainCallStep
    <2> QED BY <2>1, <2>2
  <1> QED BY <1>4, <1>5

LEMMA ReadByteStep ==
  ASSUME Inv, ReadByte, calls' = calls
  PROVE  Inv'
  <1>1. call \in CallType /\ call.op \in LineCall /\ ~crashed /\ lost' = FALSE /\ UNCHANGED <<rest, cls>> /\ FileOK /\ calls' \in 0..MaxCalls
    BY DEF ReadByte, Inv, CallOK
  <1>2. call.op # "none" /\ \A c : GoesOn(c) => c \in CallType /\ c.op # "none" /\ c.at = call.at
    BY <1>1 DEF GoesOn, LineCall
  <1>3. CASE cls = "MappedFileIO"
    <2>1. call.at \in Nat /\ MapOK /\ readIdx \in Nat
      BY <1>3, WhenMapped
    <2>2. (MappedRead(1) /\ call' = IF crashed' THEN call ELSE ByteRead(MappedBytes(1))) \/ (MappedReadFails(1) /\ call' = NoCall)
      BY <1>3 DEF ReadByte
    <2>3. CASE MappedReadFails(1) /\ call' = NoCall
      <3>1. NoCall \in CallType /\ NoCall.at \in Nat
        BY NoCallType
      <3> QED BY <1>1, <1>3, <2>3, <3>1, MappedReadSafe
    <2>4. CASE MappedRead(1) /\ call' = IF crashed' THEN call ELSE ByteRead(MappedBytes(1))
      <3>1. CASE crashed'
        BY <1>1, <1>2, <1>3, <2>1, <2>4, <3>1, MappedReadSafe
      <3>2. CASE ~crashed'
        <4>1. call' = ByteRead(MappedBytes(1)) /\ ~(MappedCount(1) > 0 /\ ~buffer.live) /\ ~MappedReadThrows(1)
          BY <2>4, <3>2 DEF MappedRead
        <4>2. MappedCount(1) \in 0..1
          BY <1>3, MappedCountType
        <4>3. MappedBytes(1) \in Seq(FileByte)
          BY <1>3, <4>1, <4>2, MappedBytesType
        <4>4. GoesOn(call')
          BY <1>1, <4>1, <4>3, ByteReadType
        <4> QED BY <1>1, <1>2, <1>3, <2>1, <2>4, <4>4, MappedReadSafe
      <3> QED BY <3>1, <3>2
    <2> QED BY <2>2, <2>3, <2>4
  <1>4. CASE cls # "MappedFileIO"
    <2>1. UNCHANGED <<buffer, mappedVars>> /\ ((FileRead(1) /\ call' = ByteRead(FileBytes(1))) \/ (FileReadFails /\ call' = LineRead(<<>>, TRUE)))
      BY <1>4 DEF ReadByte
    <2>2. FileOK' /\ mode' = mode
      BY <1>1, <2>1, FileReadType DEF FileRead, FileReadFails
    <2>3. GoesOn(call')
      <3>1. FileBytes(1) \in Seq(FileByte) /\ <<>> \in Seq(FileByte)
        BY <1>1, FileBytesType
      <3>2. GoesOn(ByteRead(FileBytes(1))) /\ GoesOn(LineRead(<<>>, TRUE))
        BY <1>1, <3>1, ByteReadType, LineReadType
      <3> QED BY <2>1, <3>2
    <2> QED BY <1>1, <1>2, <1>4, <2>1, <2>2, <2>3, PlainCallStep
  <1> QED BY <1>3, <1>4

\* A step of a call that reads nothing.
LEMMA CallOnlyStep ==
  ASSUME Inv, call.op # "none", UNCHANGED <<disk, mode, writeIdx, offset, faults, buffer, rest, mappedVars, cls, calls>>,
         readIdx' \in {readIdx, call.at}, call' \in CallType, call'.at = call.at \/ call' = NoCall,
         call'.op = "none" => call' = NoCall, lost' = FALSE
  PROVE  Inv'
  <1>1. call \in CallType
    BY DEF Inv, CallOK
  <1>2. readIdx' \in Nat \cup {-1} /\ (cls = "MappedFileIO" => readIdx' \in Nat /\ call'.at \in Nat)
    BY <1>1, NoCallType DEF Inv, Shape, FileOK, CallType
  <1>3. FileOK' /\ BufferOK(buffer)'
    BY <1>2 DEF FileOK, BufferOK, Inv
  <1>4. CallOK'
    BY DEF CallOK, Inv, mappedVars
  <1>5. Shape' /\ StaysInMap'
    BY <1>2 DEF Shape, Inv, StaysInMap, mappedVars, Gathers, MapOf
  <1> QED BY <1>3, <1>4, <1>5 DEF Inv

LEMMA CountReturnsStep ==
  ASSUME Inv, CountReturns, calls' = calls
  PROVE  Inv'
  <1>1. call.op # "none" /\ call \in CallType
    BY DEF CountReturns, Inv, Shape, CallOK, NoCall
  <1>2. call' \in CallType /\ call'.at = call.at /\ call'.op # "none"
    BY <1>1 DEF CountReturns, CallType, LineCall
  <1> QED BY <1>1, <1>2, CallOnlyStep DEF CountReturns

LEMMA ReturnStep ==
  ASSUME Inv, Return, calls' = calls
  PROVE  Inv'
  <1>1. call.op # "none"
    BY DEF Return, Inv, Shape, NoCall
  <1>2. call' = NoCall /\ lost' = FALSE /\ UNCHANGED <<disk, mode, writeIdx, offset, faults, buffer, rest, mappedVars, cls, readIdx>>
    BY DEF Return, fileVars
  <1> QED BY <1>1, <1>2, CallOnlyStep, NoCallType

------------------------------------------------------------------------------
LEMMA InvInit == Init => Inv
  <1> SUFFICES ASSUME Init PROVE Inv
    OBVIOUS
  <1>1. FileOK
    <2>1. disk \in Seq(FileByte)
      BY StreamAssumption DEF Init, FileByte
    <2> QED BY <2>1, FileAssumption DEF Init, FileOK
  <1>2. BufferOK(buffer)
    BY NoBufferOK DEF Init
  <1>3. CallOK
    <2>1. rest \in Seq(Byte)
      <3>1. <<>> \in Seq(Byte)
        OBVIOUS
      <3> QED BY <3>1 DEF Init
    <2>4. lost \in BOOLEAN /\ crashed \in BOOLEAN
      BY DEF Init
    <2>2. call \in CallType
      BY NoCallType DEF Init
    <2>3. calls \in 0..MaxCalls /\ growFactor \in Nat \ {0} /\ mode \in Modes \cup {{}} /\ cls \in Class \cup {"none"}
      BY StreamAssumption DEF Init
    <2> QED BY <2>1, <2>2, <2>3, <2>4 DEF CallOK
  <1>4. Shape /\ StaysInMap
    BY NoCallType DEF Init, Shape, StaysInMap
  <1> QED BY <1>1, <1>2, <1>3, <1>4 DEF Inv

LEMMA InvCall == Inv /\ calls' \in 0..MaxCalls /\ Call => Inv'
  <1> SUFFICES ASSUME Inv, calls' \in 0..MaxCalls, Call PROVE Inv'
    OBVIOUS
  <1>1. ASSUME NEW c \in Class, NEW m \in Modes, Open(c, m) PROVE Inv'
    <2>1. cls = "none"
      BY <1>1 DEF Open
    <2> QED BY <1>1, <2>1, OpenPlainStep, OpenMappedStep
  <1>2. CASE Close
    BY <1>2, CloseStep
  <1>3. ASSUME NEW s \in Seeks, Seekg(s[1], s[2]) \/ Seekp(s[1], s[2]) PROVE Inv'
    <2>1. CASE cls = "MappedFileIO"
      BY <1>3, <2>1, MappedSeekStep
    <2>2. CASE cls # "MappedFileIO"
      BY <1>3, <2>2, PlainSeekStep
    <2> QED BY <2>1, <2>2
  <1>4. CASE Read(2)
    BY <1>4, PlainReadStep, MappedReadStep
  <1>5. ASSUME NEW bytes \in Writes, Write(bytes) PROVE Inv'
    BY <1>5, PlainWriteStep, MappedWriteStep
  <1>6. CASE FlushBuffer
    BY <1>6, FlushStep
  <1>7. CASE Configure
    BY <1>7, ConfigureStep
  <1>8. ASSUME NEW op \in LineCall \ {"rangeFor"}, StartLines(op) PROVE Inv'
    BY <1>8, StartLinesStep
  <1> QED BY <1>1, <1>2, <1>3, <1>4, <1>5, <1>6, <1>7, <1>8 DEF Call

LEMMA InvNext == Inv /\ [Next]_vars => Inv'
  <1> SUFFICES ASSUME Inv, [Next]_vars PROVE Inv'
    OBVIOUS
  <1>1. calls \in 0..MaxCalls /\ MaxCalls \in Nat
    BY StreamAssumption DEF Inv, CallOK
  <1>2. CASE calls < MaxCalls /\ Call /\ calls' = calls + 1
    <2>1. calls' \in 0..MaxCalls
      BY <1>1, <1>2
    <2> QED BY <1>2, <2>1, InvCall
  <1>3. CASE Continue /\ UNCHANGED calls
    BY <1>1, <1>3, WriteRoundStep, ReadByteStep, CountReturnsStep, ReturnStep DEF Continue
  <1>4. CASE UNCHANGED vars
    <2>1. UNCHANGED <<disk, mode, readIdx, writeIdx, offset, faults, buffer, rest, lost, growFactor, crashed, cls, call, calls>>
      BY <1>4 DEF vars, fileVars, bufferVars, mappedVars
    <2> QED BY <2>1 DEF Inv, FileOK, BufferOK, CallOK, Shape, StaysInMap, Gathers, MapOf
  <1> QED BY <1>2, <1>3, <1>4 DEF Next

\* Inv holds in every state.
LEMMA InvAlways == Spec => []Inv
  BY InvInit, InvNext, PTL DEF Spec

\* Every variable keeps its type, and a buffer's size is within its capacity,
\* whatever a client does with a stream of any class.
THEOREM TypeCorrect == Spec => []StreamTypeOK
  BY InvAlways, InvTypes, PTL

\* A stream that may write touches no memory outside its map unless a system
\* call failed: set_position and write() of MappedFileIO grow the map before
\* they put a byte, and a map that is grown is the file again.
THEOREM MapCorrect == Spec => []StaysInMap
  BY InvAlways, InvTypes, PTL

------------------------------------------------------------------------------
(* No file grows beyond the bound.                                            *)

LEMMA WrittenLength ==
  ASSUME FileOK, NEW bytes \in Seq(FileByte), NEW n \in 0..Len(bytes), FileWrite(bytes, n),
         NEW m \in Nat, n <= m, m > 0 => WritePlace + m <= MaxSize, Len(disk) <= MaxSize
  PROVE  /\ Len(disk') <= MaxSize /\ writeIdx' = writeIdx + n /\ mode' = mode
         /\ n > 0 => Len(disk') >= WritePlace + n
         /\ "App" \in mode => Len(disk') = Len(disk) + n
  <1> DEFINE at == WritePlace
             s == SubSeq(bytes, 1, n)
  <1>1. s \in Seq(FileByte) /\ Len(s) = n
    BY Part
  <1>2. at \in Nat /\ ("App" \in mode => at = Len(disk))
    BY WritePlaceType DEF WritePlace
  <1>3. disk' = Overlay(disk, at, s) /\ writeIdx' = writeIdx + n /\ mode' = mode
    BY DEF FileWrite
  <1> HIDE DEF at, s
  <1>4. IsOverlay(Overlay(disk, at, s), disk, at, s, FileByte)
    BY <1>1, <1>2, Overlaid DEF FileOK, FileByte
  <1>5. Len(disk') = (IF s = <<>> THEN Len(disk) ELSE Larger(Len(disk), at + n)) /\ Len(disk) \in Nat
    BY <1>1, <1>3, <1>4 DEF IsOverlay, FileOK
  <1>6. s = <<>> <=> n = 0
    BY <1>1, EmptySeq
  <1>7. m > 0 => at + m <= MaxSize
    BY DEF at
  <1>8. /\ Len(disk') <= MaxSize
        /\ n > 0 => Len(disk') >= at + n
        /\ "App" \in mode => Len(disk') = Len(disk) + n
    BY <1>2, <1>5, <1>6, <1>7, FileAssumption DEF Larger
  <1> QED BY <1>3, <1>8 DEF at

\* A stream with no buffer that leaves the file alone.
LEMMA SameDiskBounded ==
  ASSUME Bounded, disk' = disk, cls' # "BufferedFileIO"
  PROVE  Bounded'
  BY DEF Bounded

\* A buffered stream that moves nothing its writes depend on.
LEMMA SameRoomBounded ==
  ASSUME Bounded, Inv, cls = "BufferedFileIO", UNCHANGED <<disk, mode, writeIdx, rest>>, buffer'.size = buffer.size
  PROVE  Bounded'
  <1>1. Held' = Held
    BY DEF Held
  <1>2. Held > 0 => WritePlace' = WritePlace
    BY DEF WritePlace, MovedTo, Bounded, HasRoom
  <1> QED BY <1>1, <1>2 DEF Bounded, HasRoom

LEMMA EmptyBounded ==
  ASSUME Len(disk') <= MaxSize, rest' = <<>>, buffer'.size = 0
  PROVE  Bounded'
  <1>1. Held' = 0
    BY DEF Held
  <1> QED BY <1>1 DEF Bounded, HasRoom

LEMMA FlushOfBounded ==
  ASSUME FileOK, NEW b, BufferOK(b), Gathers(b), FlushOf(b), Len(disk) <= MaxSize,
         NEW k \in Nat, b.size + k > 0 => ("App" \notin mode => writeIdx >= 0) /\ WritePlace + (b.size + k) <= MaxSize
  PROVE  /\ Len(disk') <= MaxSize /\ buffer'.size = 0
         /\ k > 0 => ("App" \notin mode => writeIdx' >= 0) /\ WritePlace' + k <= MaxSize
  <1>1. b.size \in Nat /\ Contents(b) \in Seq(FileByte) /\ Len(Contents(b)) = b.size
    BY ContentsType DEF BufferOK, ByteBufferType
  <1>2. buffer'.size = 0
    BY ClearedType DEF FlushOf, BufferOK
  <1>3. WritePlace \in Nat /\ Len(disk) \in Nat /\ writeIdx \in Nat \cup {-1}
    BY WritePlaceType DEF FileOK
  <1>4. CASE \E n \in 0..b.size : FileWrite(Contents(b), n)
    <2>1. PICK n \in 0..b.size : FileWrite(Contents(b), n)
      BY <1>4
    <2>2. /\ Len(disk') <= MaxSize /\ writeIdx' = writeIdx + n /\ mode' = mode
          /\ n > 0 => Len(disk') >= WritePlace + n
          /\ "App" \in mode => Len(disk') = Len(disk) + n
      <3>1. b.size > 0 => WritePlace + b.size <= MaxSize
        BY <1>1, <1>3, FileAssumption
      <3> QED BY <1>1, <2>1, <3>1, WrittenLength
    <2>3. ASSUME k > 0 PROVE ("App" \notin mode => writeIdx' >= 0) /\ WritePlace' + k <= MaxSize
      <3>1. WritePlace + (b.size + k) <= MaxSize /\ ("App" \notin mode => writeIdx >= 0)
        BY <1>1, <2>3
      <3>2. CASE "App" \in mode
        BY <1>1, <1>3, <2>1, <2>2, <3>1, <3>2, FileAssumption DEF WritePlace
      <3>3. CASE "App" \notin mode
        <4>1. WritePlace = writeIdx /\ WritePlace' = writeIdx + n
          <5>1. writeIdx >= 0 /\ writeIdx + n >= 0
            BY <1>1, <1>3, <2>1, <3>1, <3>3
          <5>2. "App" \notin mode'
            BY <2>2, <3>3
          <5>3. WritePlace = MovedTo(writeIdx) /\ WritePlace' = MovedTo(writeIdx)'
            BY <3>3, <5>2 DEF WritePlace
          <5>4. MovedTo(writeIdx) = writeIdx
            BY <5>1 DEF MovedTo
          <5>5. MovedTo(writeIdx)' = writeIdx'
            BY <2>2, <5>1 DEF MovedTo
          <5> QED BY <2>2, <5>3, <5>4, <5>5
        <4> QED BY <1>1, <1>3, <2>1, <2>2, <2>3, <3>1, <3>3, <4>1, FileAssumption
      <3> QED BY <3>2, <3>3
    <2> QED BY <1>2, <2>2, <2>3
  <1>5. CASE FileWriteFails
    <2>1. disk' = disk /\ mode' = mode /\ writeIdx' = writeIdx
      BY <1>5 DEF FileWriteFails
    <2>2. ASSUME k > 0 PROVE ("App" \notin mode => writeIdx' >= 0) /\ WritePlace' + k <= MaxSize
      <3>1. WritePlace + (b.size + k) <= MaxSize /\ ("App" \notin mode => writeIdx >= 0)
        BY <1>1, <2>2
      <3>2. WritePlace' = WritePlace
        BY <2>1, <3>1 DEF WritePlace, MovedTo
      <3> QED BY <1>1, <1>3, <2>1, <2>2, <3>1, <3>2, FileAssumption
    <2> QED BY <1>2, <2>1, <2>2
  <1> QED BY <1>4, <1>5 DEF FlushOf

LEMMA RemappedLength ==
  ASSUME disk \in Seq(FileByte), NEW b, NEW n \in Nat, n <= MaxSize, Len(disk) <= MaxSize, NEW m, NEW o \in Remapped(b, n, m)
  PROVE  Len(o.disk) <= MaxSize
  <1>1. Len(Resized(disk, n)) = n
    BY ResizedType
  <1>2. o.disk \in {disk, Resized(disk, n)}
    <2> DEFINE u == [b EXCEPT !.live = FALSE]
               file == Resized(disk, n)
               v == OverMemory(u, file, TRUE)
    <2>1. o \in {Outcome(file, v, FALSE, FALSE), Outcome(disk, u, TRUE, FALSE), Outcome(file, u, TRUE, TRUE), Outcome(disk, u, FALSE, FALSE)}
      BY DEF Remapped
    <2> HIDE DEF u, v, file
    <2>2. o.disk \in {disk, file}
      BY <2>1 DEF Outcome
    <2> QED BY <2>2 DEF file
  <1> QED BY <1>1, <1>2

LEMMA PositionSetLength ==
  ASSUME disk \in Seq(FileByte), NEW b, NEW m, NEW p \in Nat, NEW factor \in Nat \ {0}, NEW o \in PositionSet(b, p, factor, m),
         Len(disk) <= MaxSize, p >= Capacity(b) => factor * Len(disk) <= MaxSize, Capacity(b) \in Nat
  PROVE  Len(o.disk) <= MaxSize
  <1>1. CASE p < Capacity(b)
    BY <1>1 DEF PositionSet, Outcome
  <1>2. CASE ~(p < Capacity(b))
    <2>1. PICK q \in Remapped(b, factor * Len(disk), m) : o = IF q.throws THEN q ELSE [q EXCEPT !.buffer = PositionedAt(@, p)]
      BY <1>2 DEF PositionSet
    <2>2. factor * Len(disk) \in Nat /\ factor * Len(disk) <= MaxSize
      <3>1. Len(disk) \in Nat
        OBVIOUS
      <3> QED BY <1>2, <3>1, Times
    <2>3. PICK n : n = factor * Len(disk)
      OBVIOUS
    <2>4. n \in Nat /\ n <= MaxSize /\ q \in Remapped(b, n, m)
      BY <2>1, <2>2, <2>3
    <2>5. Len(q.disk) <= MaxSize
      BY <2>4, RemappedLength
    <2>6. o.disk = q.disk
      <3>1. \E d, c, f, t : q = Outcome(d, c, f, t)
        BY <2>4 DEF Remapped
      <3> QED BY <2>1, <3>1 DEF Outcome
    <2> QED BY <2>5, <2>6
  <1> QED BY <1>1, <1>2

LEMMA BoundedOpen ==
  ASSUME Inv, Bounded, NEW c \in Class, NEW m \in Modes, Open(c, m)
  PROVE  Bounded'
  <1>1. Len(OpenFile(m)) <= MaxSize /\ OpenFile(m) \in Seq(FileByte) /\ FileOK /\ disk \in Seq(FileByte)
    BY OpenFileType, FileAssumption DEF OpenFile, Bounded, Inv, FileOK
  <1>2. cls = "none" /\ rest = <<>> /\ rest' = <<>>
    BY WhenClosed DEF Open
  <1>3. CASE c # "MappedFileIO"
    <2>1. OpenPlain(c, m)
      BY <1>3 DEF Open
    <2>2. Len(disk') <= MaxSize
      BY <1>1, <2>1 DEF OpenPlain
    <2>3. buffer'.size = 0
      <3>1. NoBuffer.size = 0
        BY NoBufferType
      <3>2. ASSUME NEW n \in Capacities PROVE Cleared(Allocated(NoBuffer, n)).size = 0
        BY DEF Cleared, Allocated, NoBuffer
      <3> QED BY <2>1, <3>1, <3>2 DEF OpenPlain
    <2> QED BY <1>2, <2>2, <2>3, EmptyBounded
  <1>4. CASE c = "MappedFileIO"
    <2>1. cls' # "BufferedFileIO"
      BY <1>2, <1>4 DEF Open, OpenMapped
    <2>2. Len(disk') <= MaxSize
      <3>1. CASE disk' = OpenFile(m)
        BY <1>1, <3>1
      <3>2. CASE disk' # OpenFile(m)
        <4> DEFINE end == IF "App" \in m THEN Len(OpenFile(m)) ELSE 0
                   b == PositionedAt(OverMemory(NoBuffer, OpenFile(m), FALSE), 0)
        <4>1. OpenFile(m) # <<>> /\ end * 2 <= MaxSize /\ \E o \in PositionSet(b, end, 2, m) : disk' = o.disk
          BY <1>4, <3>2 DEF Open, OpenMapped
        <4>2. PICK o \in PositionSet(b, end, 2, m) : disk' = o.disk
          BY <4>1
        <4>3. OpenFile(m) = disk /\ Len(disk) \in Nat /\ Len(disk) > 0
          BY <1>1, <4>1, EmptySeq DEF OpenFile
        <4>4. Capacity(b) = Len(disk)
          BY <4>3 DEF Capacity, PositionedAt, OverMemory
        <4>5. end \in Nat /\ (end >= Capacity(b) => 2 * Len(disk) <= MaxSize)
          <5>1. end = Len(disk) \/ (end = 0 /\ Capacity(b) > 0)
            BY <4>3, <4>4
          <5>2. end = Len(disk) => 2 * Len(disk) <= MaxSize
            BY <4>1, <4>3
          <5> HIDE DEF end, b
          <5> QED BY <4>3, <4>4, <5>1, <5>2
        <4> HIDE DEF end, b
        <4>6. PICK f : f = 2
          OBVIOUS
        <4>7. f \in Nat \ {0} /\ o \in PositionSet(b, end, f, m) /\ (end >= Capacity(b) => f * Len(disk) <= MaxSize) /\ Capacity(b) \in Nat
          BY <4>2, <4>3, <4>4, <4>5, <4>6
        <4>8. Len(o.disk) <= MaxSize
          BY <1>1, <4>5, <4>7, PositionSetLength DEF Bounded
        <4> QED BY <4>2, <4>8
      <3> QED BY <3>1, <3>2
    <2> QED BY <2>1, <2>2 DEF Bounded
  <1> QED BY <1>3, <1>4

LEMMA BoundedMappedSeek ==
  ASSUME Inv, Bounded, cls = "MappedFileIO", cls' = cls, NEW off \in Int, NEW whence \in Whence,
         MapTarget(off, whence) \in Nat, MapTarget(off, whence) >= Capacity(buffer) => growFactor * Len(disk) <= MaxSize,
         MappedSeekg(off, whence) \/ MappedSeekp(off, whence)
  PROVE  Bounded'
  <1> DEFINE p == MapTarget(off, whence)
  <1>1. PICK o \in PositionSet(buffer, p, growFactor, mode) : disk' = o.disk
    BY DEF MappedSeekg, MappedSeekp, Take
  <1>2. disk \in Seq(FileByte) /\ growFactor \in Nat \ {0} /\ Capacity(buffer) \in Nat
    BY DEF Inv, FileOK, CallOK, BufferOK, ByteBufferType, Capacity
  <1> HIDE DEF p
  <1>3. p \in Nat /\ (p >= Capacity(buffer) => growFactor * Len(disk) <= MaxSize)
    BY DEF p
  <1>4. Len(o.disk) <= MaxSize
    BY <1>1, <1>2, <1>3, PositionSetLength DEF Bounded
  <1> QED BY <1>1, <1>4 DEF Bounded

LEMMA BoundedSeek ==
  ASSUME Inv, Bounded, NEW s \in Seeks, Seekg(s[1], s[2]) \/ Seekp(s[1], s[2])
  PROVE  Bounded'
  <1>1. s[1] \in Int /\ s[2] \in Whence
    BY StreamAssumption
  <1>2. Idle /\ cls' = cls /\ rest' = rest /\ rest = <<>>
    BY DEF Seekg, Seekp, Idle
  <1>3. CASE cls = "MappedFileIO"
    <2>1. MapSeekAllowed(s[1], s[2]) /\ (MappedSeekg(s[1], s[2]) \/ MappedSeekp(s[1], s[2]))
      BY <1>3 DEF Seekg, Seekp
    <2>2. MapTarget(s[1], s[2]) \in Nat /\ (MapTarget(s[1], s[2]) >= Capacity(buffer) => growFactor * Len(disk) <= MaxSize)
      BY <2>1, FileAssumption DEF MapSeekAllowed
    <2> QED BY <1>1, <1>2, <1>3, <2>1, <2>2, BoundedMappedSeek
  <1>4. CASE cls # "MappedFileIO"
    <2>1. disk' = disk /\ mode' = mode /\ buffer' = buffer
      BY <1>4 DEF Seekg, Seekp, FileSeekg, FileSeekp
    <2>2. CASE cls # "BufferedFileIO"
      BY <1>2, <2>1, <2>2, SameDiskBounded
    <2>3. CASE cls = "BufferedFileIO" /\ writeIdx' = writeIdx
      BY <1>2, <2>1, <2>3, SameRoomBounded
    <2>4. CASE cls = "BufferedFileIO" /\ writeIdx' # writeIdx
      <3>1. buffer.size = 0 \/ "App" \in mode
        BY <2>4 DEF Seekg, Seekp, FileSeekg
      <3>2. CASE buffer.size = 0
        BY <1>2, <2>1, <3>2, EmptyBounded DEF Bounded
      <3>3. CASE "App" \in mode
        <4>1. Held' = Held /\ WritePlace' = WritePlace
          BY <1>2, <2>1, <3>3 DEF Held, WritePlace
        <4> QED BY <1>2, <2>1, <3>3, <4>1 DEF Bounded, HasRoom
      <3> QED BY <3>1, <3>2, <3>3
    <2> QED BY <2>2, <2>3, <2>4
  <1> QED BY <1>3, <1>4

\* A step that leaves the file alone.
LEMMA BoundedSame ==
  ASSUME Inv, Bounded, UNCHANGED <<disk, mode, writeIdx, cls, rest>>, cls = "BufferedFileIO" => buffer'.size = buffer.size
  PROVE  Bounded'
  BY SameDiskBounded, SameRoomBounded

LEMMA BoundedRead ==
  ASSUME Inv, Bounded, NEW n \in Nat, cls' = cls, rest' = rest,
         \/ cls = "MappedFileIO" /\ (MappedRead(n) \/ MappedReadFails(n))
         \/ cls # "MappedFileIO" /\ (FileRead(n) \/ FileReadFails) /\ UNCHANGED buffer
  PROVE  Bounded'
  <1>1. UNCHANGED <<disk, mode, writeIdx>> /\ (cls = "BufferedFileIO" => buffer' = buffer)
    BY DEF MappedRead, MappedReadFails, FileRead, FileReadFails, fileVars
  <1> QED BY <1>1, BoundedSame

LEMMA BoundedWrite ==
  ASSUME Inv, Bounded, NEW bytes \in Writes, Write(bytes)
  PROVE  Bounded'
  <1>1. bytes \in Seq(FileByte) /\ bytes # <<>> /\ Len(bytes) \in Nat
    BY StreamAssumption DEF FileByte
  <1>2. FileOK /\ disk \in Seq(FileByte) /\ Len(disk) <= MaxSize /\ WritePlace \in Nat /\ buffer \in ByteBufferType /\ buffer.size \in Nat
    BY WritePlaceType DEF Inv, FileOK, BufferOK, Bounded, ByteBufferType
  <1>3. Idle /\ UNCHANGED <<cls, call>> /\ cls \in Class /\ rest = <<>>
    BY DEF Write, Idle, Inv, CallOK
  <1>4. CASE cls = "FileIO"
    <2>1. writeIdx >= 0 /\ WritePlace + Len(bytes) <= MaxSize /\ (FileWriteFails \/ \E n \in 1..Len(bytes) : FileWrite(bytes, n))
      BY <1>4 DEF Write
    <2>2. Len(disk') <= MaxSize
      <3>1. CASE FileWriteFails
        BY <1>2, <3>1 DEF FileWriteFails
      <3>2. ASSUME NEW n \in 1..Len(bytes), FileWrite(bytes, n) PROVE Len(disk') <= MaxSize
        BY <1>1, <1>2, <2>1, <3>2, WrittenLength
      <3> QED BY <2>1, <3>1, <3>2
    <2> QED BY <1>3, <1>4, <2>2 DEF Bounded
  <1>5. CASE cls = "BufferedFileIO"
    <2>1. /\ writeIdx >= 0 /\ WritePlace + buffer.size + Len(bytes) <= MaxSize
          /\ rest' = bytes /\ UNCHANGED <<disk, mode, writeIdx, offset, buffer>>
      BY <1>5 DEF Write, fileVars
    <2>2. WritePlace' = WritePlace /\ Held' = buffer.size + Len(bytes)
      BY <2>1 DEF WritePlace, MovedTo, Held
    <2>3. WritePlace + (buffer.size + Len(bytes)) <= MaxSize
      BY <1>1, <1>2, <2>1
    <2>4. HasRoom'
      BY <2>1, <2>2, <2>3 DEF HasRoom
    <2> QED BY <1>2, <2>1, <2>4 DEF Bounded
  <1>6. CASE cls = "MappedFileIO"
    <2>1. PICK o \in IF writeIdx + Len(bytes) > Capacity(buffer)
                     THEN Remapped(buffer, Capacity(buffer) * growFactor, mode)
                     ELSE {Outcome(disk, buffer, FALSE, FALSE)} :
            \/ Take(o)
            \/ Take([o EXCEPT !.buffer = PositionedAt(@, writeIdx)])
            \/ /\ Fits(o.buffer, writeIdx, Len(bytes)) /\ o.buffer.live
               /\ Take([o EXCEPT !.buffer = WithPut(o.buffer, writeIdx, bytes), !.disk = WithPut(o.buffer, writeIdx, bytes).data])
      BY <1>6 DEF Write, MappedWrite
    <2>2. MapOK /\ writeIdx \in Nat /\ growFactor \in Nat \ {0}
      BY <1>6, WhenMapped DEF Inv, CallOK
    <2>3. writeIdx + Len(bytes) > Capacity(buffer) => Capacity(buffer) * growFactor <= MaxSize
      BY <1>6 DEF Write
    <2>4. Safe(o, mode) /\ Len(o.disk) <= MaxSize
      <3>1. CASE writeIdx + Len(bytes) > Capacity(buffer)
        <4>1. PICK n : n = Capacity(buffer) * growFactor
          OBVIOUS
        <4>2. PICK l : l = Capacity(buffer)
          OBVIOUS
        <4>3. l \in Nat
          BY <2>2, <4>2 DEF MapOK, BufferOK, ByteBufferType, Capacity
        <4>4. l * growFactor \in Nat /\ l * growFactor >= l
          BY <2>2, <4>3, Times
        <4>5. n \in Nat /\ n >= Capacity(buffer) /\ n <= MaxSize /\ o \in Remapped(buffer, n, mode)
          BY <2>1, <2>3, <3>1, <4>1, <4>2, <4>4
        <4>6. Safe(o, mode)
          BY <1>2, <2>2, <4>5, RemappedSafe DEF MapOK
        <4>7. Len(o.disk) <= MaxSize
          BY <1>2, <4>5, RemappedLength
        <4> QED BY <4>6, <4>7
      <3>2. CASE ~(writeIdx + Len(bytes) > Capacity(buffer))
        <4>1. o = Outcome(disk, buffer, FALSE, FALSE)
          BY <2>1, <3>2
        <4>2. Safe(o, mode)
          BY <1>2, <2>2, <4>1, OutcomeSafe DEF MapOK
        <4> QED BY <1>2, <4>1, <4>2 DEF Outcome
      <3> QED BY <3>1, <3>2
    <2>5. Len(disk') <= MaxSize
      <3>1. CASE Take(o)
        BY <2>4, <3>1 DEF Take
      <3>2. CASE Take([o EXCEPT !.buffer = PositionedAt(@, writeIdx)])
        BY <2>4, <3>2 DEF Take, Safe, OutcomeType
      <3>3. CASE /\ Fits(o.buffer, writeIdx, Len(bytes)) /\ o.buffer.live
                 /\ Take([o EXCEPT !.buffer = WithPut(o.buffer, writeIdx, bytes), !.disk = WithPut(o.buffer, writeIdx, bytes).data])
        <4> DEFINE b == o.buffer
                   w == WithPut(b, writeIdx, bytes)
        <4>1. b \in ByteBufferType /\ b.data = o.disk /\ Len(b.data) \in Nat /\ writeIdx + Len(bytes) <= Len(b.data) /\ o \in OutcomeType
          BY <2>4, <3>3 DEF Safe, BufferOK, MapOf, OutcomeType, Fits, Capacity, ByteBufferType
        <4>2. IsOverlay(w.data, b.data, writeIdx, bytes, BufferByte)
          BY <1>1, <2>2, <4>1, WithPutType
        <4> HIDE DEF w
        <4>3. Len(w.data) = Len(b.data)
          BY <1>1, <2>2, <4>1, <4>2 DEF IsOverlay, Larger
        <4>4. disk' = w.data
          BY <3>3, <4>1 DEF w, Take, OutcomeType
        <4> QED BY <2>4, <4>1, <4>3, <4>4
      <3> QED BY <2>1, <3>1, <3>2, <3>3
    <2> QED BY <1>3, <1>6, <2>5 DEF Bounded
  <1> QED BY <1>3, <1>4, <1>5, <1>6 DEF Class

LEMMA BoundedWriteRound ==
  ASSUME Inv, Bounded, WriteRound
  PROVE  Bounded'
  <1>1. PICK f : RoundFills(f)
    BY RoundFilled
  <1>2. BufferOK(f) /\ Gathers(f) /\ f.size \in Nat /\ rest' \in Seq(Byte) /\ Len(rest') \in Nat /\ f.size + Len(rest') = Held
    BY <1>1 DEF RoundFills, BufferOK, ByteBufferType, Held
  <1>3. cls = "BufferedFileIO" /\ FileOK /\ cls' = cls /\ Len(disk) <= MaxSize /\ HasRoom
    BY DEF Inv, Shape, WriteRound, Bounded
  <1>4. f.size + Len(rest') > 0 => ("App" \notin mode => writeIdx >= 0) /\ WritePlace + (f.size + Len(rest')) <= MaxSize
    BY <1>2, <1>3 DEF HasRoom
  <1>5. CASE FlushOf(f)
    <2>1. /\ Len(disk') <= MaxSize /\ buffer'.size = 0 /\ mode' = mode
          /\ Len(rest') > 0 => ("App" \notin mode => writeIdx' >= 0) /\ WritePlace' + Len(rest') <= MaxSize
      <3>1. PICK k \in Nat : k = Len(rest')
        BY <1>2
      <3>2. /\ Len(disk') <= MaxSize /\ buffer'.size = 0
            /\ k > 0 => ("App" \notin mode => writeIdx' >= 0) /\ WritePlace' + k <= MaxSize
        BY <1>2, <1>3, <1>4, <1>5, <3>1, FlushOfBounded
      <3>3. mode' = mode
        BY <1>2, <1>3, <1>5, FlushOfType
      <3> QED BY <3>1, <3>2, <3>3
    <2>2. Held' = Len(rest')
      BY <1>2, <2>1 DEF Held
    <2> QED BY <2>1, <2>2 DEF Bounded, HasRoom
  <1>6. CASE buffer' = f /\ lost' = FALSE /\ UNCHANGED fileVars
    <2>1. Held' = Held /\ WritePlace' = WritePlace /\ UNCHANGED <<disk, mode, writeIdx>>
      BY <1>2, <1>6 DEF Held, WritePlace, MovedTo, fileVars
    <2> QED BY <1>3, <2>1 DEF Bounded, HasRoom
  <1> QED BY <1>1, <1>5, <1>6 DEF RoundFills

LEMMA BoundedFlush ==
  ASSUME Inv, Bounded, FlushBuffer
  PROVE  Bounded'
  <1>1. cls = "BufferedFileIO" /\ rest = <<>> /\ rest' = <<>> /\ FlushOf(buffer)
    BY DEF FlushBuffer, Flush, Idle
  <1>2. FileOK /\ BufferOK(buffer) /\ Gathers(buffer) /\ Len(disk) <= MaxSize /\ HasRoom /\ buffer.size \in Nat
    BY <1>1 DEF Inv, Shape, Bounded, BufferOK, ByteBufferType
  <1>3. Held = buffer.size
    BY <1>1, <1>2 DEF Held
  <1>4. buffer.size + 0 > 0 => ("App" \notin mode => writeIdx >= 0) /\ WritePlace + (buffer.size + 0) <= MaxSize
    BY <1>2, <1>3 DEF HasRoom
  <1>5. Len(disk') <= MaxSize /\ buffer'.size = 0
    BY <1>1, <1>2, <1>4, FlushOfBounded
  <1> QED BY <1>1, <1>5, EmptyBounded

LEMMA BoundedConfigure ==
  ASSUME Inv, Bounded, Configure
  PROVE  Bounded'
  <1>1. UNCHANGED <<disk, mode, writeIdx, cls, rest>>
    BY DEF Configure, SetBufferCapacity, SetCapacityGrowFactor, fileVars, bufferVars
  <1>2. cls = "BufferedFileIO" => buffer'.size = buffer.size
    <2>1. ASSUME NEW n \in Capacities, SetBufferCapacity(n) PROVE buffer'.size = buffer.size
      <3>1. n \in Nat
        BY StreamAssumption
      <3> QED BY <2>1, <3>1, AllocatedType DEF SetBufferCapacity, Inv, BufferOK
    <2>2. CASE \E f \in Factors : SetCapacityGrowFactor(f)
      BY <2>2 DEF SetCapacityGrowFactor, bufferVars
    <2> QED BY <2>1, <2>2 DEF Configure
  <1> QED BY <1>1, <1>2, BoundedSame

LEMMA BoundedStartLines ==
  ASSUME Inv, Bounded, NEW op \in LineCall \ {"rangeFor"}, StartLines(op)
  PROVE  Bounded'
  <1>1. cls' = cls /\ rest' = rest
    BY DEF StartLines
  <1>2. CASE op = "readAll" /\ cls = "MappedFileIO"
    <2>1. MappedSeekg(0, "Beg") /\ 0 \in Int /\ "Beg" \in Whence
      BY <1>2 DEF StartLines, Whence
    <2>2. MapTarget(0, "Beg") = 0
      BY DEF MapTarget, SeekTarget
    <2>3. Capacity(buffer) > 0
      BY <1>2, WhenMapped DEF MapOK, MapOf
    <2>4. MapTarget(0, "Beg") \in Nat /\ ~(MapTarget(0, "Beg") >= Capacity(buffer))
      BY <2>2, <2>3 DEF Inv, BufferOK, ByteBufferType, Capacity
    <2> QED BY <1>1, <1>2, <2>1, <2>4, BoundedMappedSeek
  <1>3. CASE ~(op = "readAll" /\ cls = "MappedFileIO")
    <2>1. UNCHANGED <<disk, mode, writeIdx, buffer>>
      BY <1>3 DEF StartLines, FileSeekg, fileVars
    <2> QED BY <1>1, <2>1, BoundedSame
  <1> QED BY <1>2, <1>3

LEMMA BoundedClose ==
  ASSUME Inv, Bounded, Close
  PROVE  Bounded'
  BY NoBufferType, EmptyBounded DEF Close, Idle, Bounded

LEMMA BoundedCall == Inv /\ Bounded /\ Call => Bounded'
  <1> SUFFICES ASSUME Inv, Bounded, Call PROVE Bounded'
    OBVIOUS
  <1>1. ASSUME NEW c \in Class, NEW m \in Modes, Open(c, m) PROVE Bounded'
    BY <1>1, BoundedOpen
  <1>2. CASE Close
    BY <1>2, BoundedClose
  <1>3. ASSUME NEW s \in Seeks, Seekg(s[1], s[2]) \/ Seekp(s[1], s[2]) PROVE Bounded'
    BY <1>3, BoundedSeek
  <1>4. CASE Read(2)
    BY <1>4, BoundedRead DEF Read
  <1>5. ASSUME NEW bytes \in Writes, Write(bytes) PROVE Bounded'
    BY <1>5, BoundedWrite
  <1>6. CASE FlushBuffer
    BY <1>6, BoundedFlush
  <1>7. CASE Configure
    BY <1>7, BoundedConfigure
  <1>8. ASSUME NEW op \in LineCall \ {"rangeFor"}, StartLines(op) PROVE Bounded'
    BY <1>8, BoundedStartLines
  <1> QED BY <1>1, <1>2, <1>3, <1>4, <1>5, <1>6, <1>7, <1>8 DEF Call

LEMMA BoundedNext == Inv /\ Bounded /\ [Next]_vars => Bounded'
  <1> SUFFICES ASSUME Inv, Bounded, [Next]_vars PROVE Bounded'
    OBVIOUS
  <1>1. CASE calls < MaxCalls /\ Call /\ calls' = calls + 1
    BY <1>1, BoundedCall
  <1>2. CASE WriteRound
    BY <1>2, BoundedWriteRound
  <1>3. CASE ReadByte
    <2>1. /\ cls' = cls /\ rest' = rest
          /\ \/ cls = "MappedFileIO" /\ (MappedRead(1) \/ MappedReadFails(1))
             \/ cls # "MappedFileIO" /\ (FileRead(1) \/ FileReadFails) /\ UNCHANGED buffer
      BY <1>3 DEF ReadByte
    <2> QED BY <2>1, BoundedRead
  <1>4. CASE CountReturns \/ Return
    <2>1. UNCHANGED <<disk, mode, writeIdx, cls, rest, buffer>>
      BY <1>4 DEF CountReturns, Return, fileVars
    <2> QED BY <2>1, BoundedSame
  <1>5. CASE UNCHANGED vars
    <2>1. UNCHANGED <<disk, mode, writeIdx, cls, rest, buffer>>
      BY <1>5 DEF vars, fileVars, bufferVars
    <2> QED BY <2>1, BoundedSame
  <1> QED BY <1>1, <1>2, <1>3, <1>4, <1>5 DEF Next, Continue

\* size_t holds more than any file, as the files of the model are.
SizesFit == MaxSize < Word /\ \A d \in Disks : Len(d) <= MaxSize

LEMMA BoundedAlways ==
  ASSUME SizesFit
  PROVE  Spec => []Bounded
  <1>1. Init => Bounded
    BY DEF Init, Bounded, SizesFit
  <1> QED BY <1>1, BoundedNext, InvAlways, PTL DEF Spec

------------------------------------------------------------------------------
(* Reading lines of w, whatever class reads them.                             *)

LEMMA SameSeq ==
  ASSUME NEW S, NEW s \in Seq(S), NEW t \in Seq(S), Len(s) = Len(t), \A i \in 1..Len(s) : s[i] = t[i]
  PROVE  s = t
  OBVIOUS

\* The line ends behind a place: finitely many, one less behind the next of
\* them, and none only behind the last byte.
LEMMA LeftCount ==
  ASSUME NEW w \in Seq(FileByte), NEW k
  PROVE  IsFiniteSet(Left(w, k)) /\ Cardinality(Left(w, k)) \in Nat
  <1>1. Left(w, k) \in SUBSET (1..Len(w)) /\ Len(w) \in Nat
    BY DEF Left
  <1>2. IsFiniteSet(1..Len(w))
    BY <1>1, FS_Interval
  <1>3. IsFiniteSet(Left(w, k))
    BY <1>1, <1>2, FS_Subset
  <1> QED BY <1>3, FS_CardinalityType

LEMMA LeftStep ==
  ASSUME NEW w \in Seq(FileByte), NEW k \in Nat, NEW e \in 1..Len(w), k < e,
         \A i \in k + 1 .. e - 1 : w[i] # NewLine, w[e] = NewLine \/ e = Len(w)
  PROVE  Cardinality(Left(w, k)) = Cardinality(Left(w, e)) + 1
  <1>1. Len(w) \in Nat
    OBVIOUS
  <1>2. \A i \in 1..Len(w) : k < i /\ (w[i] = NewLine \/ i = Len(w)) <=> (e < i /\ (w[i] = NewLine \/ i = Len(w))) \/ i = e
    <2> SUFFICES ASSUME NEW i \in 1..Len(w)
                 PROVE  k < i /\ (w[i] = NewLine \/ i = Len(w)) <=> (e < i /\ (w[i] = NewLine \/ i = Len(w))) \/ i = e
      OBVIOUS
    <2>1. CASE i < e
      BY <1>1, <2>1
    <2>2. CASE i = e
      BY <2>2
    <2>3. CASE i > e
      BY <1>1, <2>3
    <2> QED BY <1>1, <2>1, <2>2, <2>3
  <1>3. Left(w, k) = Left(w, e) \cup {e}
    BY <1>1, <1>2 DEF Left
  <1>4. e \notin Left(w, e)
    BY DEF Left
  <1> QED BY <1>3, <1>4, LeftCount, FS_AddElement

LEMMA LeftNone ==
  ASSUME NEW w \in Seq(FileByte), NEW k \in 0..Len(w)
  PROVE  Cardinality(Left(w, k)) = 0 <=> k = Len(w)
  <1>1. Cardinality(Left(w, k)) = 0 <=> Left(w, k) = {}
    BY LeftCount, FS_EmptySet
  <1>2. ASSUME k = Len(w) PROVE Left(w, k) = {}
    BY <1>2 DEF Left
  <1>3. ASSUME k # Len(w) PROVE Len(w) \in Left(w, k)
    BY <1>3 DEF Left
  <1> QED BY <1>1, <1>2, <1>3

\* text is the line of w from its byte k + 1 to its byte e.
IsLine(text, w, k, e) ==
  /\ text \in Seq(FileByte) /\ k \in Nat /\ e \in 0..Len(w) /\ k <= e /\ Len(text) = e - k
  /\ \A i \in 1..Len(text) : text[i] = w[k + i]
  /\ \A i \in 1..Len(text) - 1 : text[i] # NewLine
  /\ e = Len(w) \/ (k < e /\ w[e] = NewLine)

\* A line that is read goes behind what has been read.
LEMMA LineAppended ==
  ASSUME NEW w \in Seq(FileByte), NEW text, NEW k, NEW e, IsLine(text, w, k, e)
  PROVE  SubSeq(w, 1, k) \o text = SubSeq(w, 1, e)
  <1>1. k \in 0..Len(w) /\ e \in 0..Len(w) /\ k <= e /\ Len(text) = e - k /\ text \in Seq(FileByte) /\ Len(w) \in Nat
    BY DEF IsLine
  <1> DEFINE a == SubSeq(w, 1, k)
             b == SubSeq(w, 1, e)
  <1>2. a \in Seq(FileByte) /\ Len(a) = k /\ \A i \in 1..k : a[i] = w[i]
    BY <1>1, Part
  <1>3. b \in Seq(FileByte) /\ Len(b) = e /\ \A i \in 1..e : b[i] = w[i]
    BY <1>1, Part
  <1> HIDE DEF a, b
  <1> DEFINE c == a \o text
  <1>7. /\ c \in Seq(FileByte) /\ Len(c) = Len(a) + Len(text)
        /\ \A i \in 1 .. Len(a) + Len(text) : c[i] = IF i <= Len(a) THEN a[i] ELSE text[i - Len(a)]
    BY <1>1, <1>2, ConcatProperties
  <1> HIDE DEF c
  <1>4. c \in Seq(FileByte) /\ Len(c) = e /\ \A i \in 1..e : c[i] = IF i <= k THEN a[i] ELSE text[i - k]
    <2>1. Len(a) + Len(text) = e
      BY <1>1, <1>2
    <2> QED BY <1>2, <1>7, <2>1
  <1>5. ASSUME NEW i \in 1..e PROVE c[i] = b[i]
    <2>1. CASE i <= k
      BY <1>1, <1>2, <1>3, <1>4, <2>1
    <2>2. CASE i > k
      <3>1. c[i] = text[i - k] /\ i - k \in 1..Len(text)
        BY <1>1, <1>4, <2>2
      <3>2. text[i - k] = w[k + (i - k)]
        BY <3>1 DEF IsLine
      <3> QED BY <1>1, <1>3, <3>1, <3>2
    <2> QED BY <1>1, <2>1, <2>2
  <1>6. c = b
    BY <1>3, <1>4, <1>5, SameSeq
  <1> QED BY <1>6 DEF a, b, c

LEMMA LineReadRight ==
  ASSUME call \in CallType, call.op \in LineCall, call.phase = "reading", NEW w \in Seq(FileByte), NEW p, Reading(call, w, p),
         NEW k, k = p - Len(call.line), NEW text, NEW e, IsLine(text, w, k, e)
  PROVE  CallRight(LineRead(text, FALSE), w, e)
  <1> DEFINE atEnd == text = <<>>
             next == [call EXCEPT !.line = <<>>, !.failed = @ \/ FALSE]
  <1>1. /\ text \in Seq(FileByte) /\ e \in 0..Len(w) /\ k \in 0..Len(w) /\ Len(w) \in Nat /\ Len(text) = e - k /\ k <= e
        /\ call.failed \in BOOLEAN /\ call.dest \in Seq(FileByte) /\ call.count \in Int
    BY DEF IsLine, Reading, CallType
  <1>2. /\ next.op = call.op /\ next.line = <<>> /\ next.dest = call.dest /\ next.count = call.count /\ next.phase = "reading"
        /\ DOMAIN next = {"op", "phase", "at", "line", "dest", "count", "failed"} /\ next \in CallType
    <2>1. (call.failed \/ FALSE) \in BOOLEAN /\ <<>> \in Seq(FileByte)
      BY <1>1
    <2> QED BY <2>1 DEF CallType
  <1>3. atEnd <=> k = e
    BY <1>1, EmptySeq
  <1>4. k < e => Cardinality(Left(w, k)) = Cardinality(Left(w, e)) + 1
    <2> SUFFICES ASSUME k < e PROVE Cardinality(Left(w, k)) = Cardinality(Left(w, e)) + 1
      OBVIOUS
    <2>1. e \in 1..Len(w) /\ k \in Nat
      BY <1>1
    <2>2. ASSUME NEW i \in k + 1 .. e - 1 PROVE w[i] # NewLine
      <3>1. i - k \in 1..Len(text) - 1 /\ i - k \in 1..Len(text) /\ k + (i - k) = i
        <4>1. PICK l : l = Len(text)
          OBVIOUS
        <4>2. l = e - k /\ k \in Nat /\ e \in Nat
          BY <1>1, <4>1
        <4>3. i - k \in 1..(l - 1) /\ i - k \in 1..l /\ k + (i - k) = i
          BY <2>2, <4>2
        <4> QED BY <4>1, <4>3
      <3>2. text[i - k] = w[k + (i - k)] /\ text[i - k] # NewLine
        BY <3>1 DEF IsLine
      <3> QED BY <3>1, <3>2
    <2>3. w[e] = NewLine \/ e = Len(w)
      BY DEF IsLine
    <2> QED BY <2>1, <2>2, <2>3, LeftStep
  <1>5. Cardinality(Left(w, e)) \in Nat /\ Cardinality(Left(w, k)) \in Nat /\ Cardinality(Left(w, 0)) \in Nat
    BY LeftCount
  <1>6. /\ Cardinality(Left(w, e)) = 0 <=> e = Len(w)
        /\ Cardinality(Left(w, k)) = 0 <=> k = Len(w)
    BY <1>1, LeftNone
  <1>7. k = e => e = Len(w)
    BY <1>1 DEF IsLine
  <1> DEFINE r == LineRead(text, FALSE)
  <1>8. CASE call.op = "readLine"
    <2>1. r = [next EXCEPT !.line = text, !.phase = "returned"]
      BY <1>8 DEF LineRead
    <2> HIDE DEF next, r
    <2>2. r.op = "readLine" /\ r.phase = "returned" /\ r.line = text
      BY <1>2, <1>8, <2>1 DEF CallType
    <2>3. k = 0
      BY <1>8 DEF Reading
    <2>4. text = SubSeq(w, 1, e)
      <3>1. SubSeq(w, 1, 0) = <<>>
        BY SubSeqEmpty
      <3>2. SubSeq(w, 1, k) \o text = SubSeq(w, 1, e)
        BY LineAppended
      <3> QED BY <1>1, <2>3, <3>1, <3>2, ConcatEmptySeq
    <2>5. e = Len(w) \/ (text # <<>> /\ text[Len(text)] = NewLine)
      <3>1. CASE e # Len(w)
        <4>1. k < e /\ w[e] = NewLine
          BY <3>1 DEF IsLine
        <4>2. Len(text) \in 1..Len(text) /\ k + Len(text) = e
          BY <1>1, <4>1
        <4>3. text[Len(text)] = w[k + Len(text)]
          BY <4>2 DEF IsLine
        <4> QED BY <1>3, <4>1, <4>2, <4>3
      <3> QED BY <3>1
    <2>6. Returned(r, w, e)
      BY <1>1, <2>2, <2>4, <2>5 DEF Returned, IsLine
    <2> QED BY <2>2, <2>6 DEF CallRight, r
  <1>9. CASE call.op \in {"getNofLines", "end"}
    <2>1. call.dest = <<>> /\ call.count + Cardinality(Left(w, k)) = Cardinality(Left(w, 0))
      BY <1>9 DEF Reading
    <2>2. CASE atEnd
      <3>1. r = [next EXCEPT !.phase = "ended"]
        BY <1>9, <2>2 DEF LineRead
      <3> HIDE DEF next, r
      <3>2. r.op = call.op /\ r.phase = "ended" /\ r.line = <<>> /\ r.dest = call.dest /\ r.count = call.count
        BY <1>2, <3>1 DEF CallType
      <3>3. Cardinality(Left(w, k)) = 0
        BY <1>3, <1>6, <1>7, <2>2
      <3>4. Counted(r, w)
        BY <1>1, <1>5, <1>9, <2>1, <3>2, <3>3 DEF Counted
      <3> QED BY <3>2, <3>4 DEF CallRight, r
    <2>3. CASE ~atEnd
      <3> DEFINE ct == next.count + 1
      <3>1. r = [next EXCEPT !.count = ct]
        BY <1>9, <2>3 DEF LineRead
      <3>2. ct = call.count + 1
        BY <1>2
      <3> HIDE DEF next, r, ct
      <3>3. r.op = call.op /\ r.phase = "reading" /\ r.line = <<>> /\ r.dest = call.dest /\ r.count = ct
        BY <1>2, <3>1 DEF CallType
      <3>4. k < e /\ e - 0 = e /\ Len(r.line) = 0
        BY <1>1, <1>3, <2>3, <3>3
      <3>5. ct + Cardinality(Left(w, e)) = Cardinality(Left(w, 0))
        <4>1. PICK x \in Nat : x = Cardinality(Left(w, k))
          BY <1>5
        <4>2. PICK y \in Nat : y = Cardinality(Left(w, 0))
          BY <1>5
        <4>3. PICK z \in Nat : z = Cardinality(Left(w, e))
          BY <1>5
        <4>4. PICK v \in Int : v = call.count
          BY <1>1
        <4>5. v + x = y /\ x = z + 1 /\ ct = v + 1
          BY <1>4, <2>1, <3>2, <3>4, <4>1, <4>2, <4>3, <4>4
        <4>6. ct + z = y
          BY <4>5
        <4> QED BY <4>2, <4>3, <4>6
      <3>6. Reading(r, w, e)
        BY <1>1, <1>9, <2>1, <3>3, <3>4, <3>5 DEF Reading
      <3> QED BY <3>3, <3>6 DEF CallRight, r
    <2> QED BY <2>2, <2>3
  <1>10. CASE call.op = "readAll"
    <2>1. call.dest = SubSeq(w, 1, k)
      BY <1>10 DEF Reading
    <2>2. CASE atEnd
      <3>1. r = [next EXCEPT !.phase = "returned"]
        BY <1>10, <2>2 DEF LineRead
      <3> HIDE DEF next, r
      <3>2. r.op = call.op /\ r.phase = "returned" /\ r.dest = call.dest
        BY <1>2, <3>1 DEF CallType
      <3>3. r.dest = w
        BY <1>3, <1>7, <2>1, <2>2, <3>2, SubSeqFull
      <3>4. Returned(r, w, e)
        BY <1>10, <3>2, <3>3 DEF Returned
      <3> QED BY <3>2, <3>4 DEF CallRight, r
    <2>3. CASE ~atEnd
      <3> DEFINE d == call.dest \o text
      <3>1. r = [next EXCEPT !.dest = d]
        BY <1>2, <1>10, <2>3 DEF LineRead
      <3>2. d = SubSeq(w, 1, e)
        BY <2>1, LineAppended
      <3> HIDE DEF next, r, d
      <3>3. r.op = call.op /\ r.phase = "reading" /\ r.line = <<>> /\ r.dest = d
        BY <1>2, <3>1 DEF CallType
      <3>4. e - 0 = e /\ Len(r.line) = 0
        BY <1>1, <3>3
      <3>5. Reading(r, w, e)
        BY <1>1, <1>10, <3>2, <3>3, <3>4 DEF Reading
      <3> QED BY <3>3, <3>5 DEF CallRight, r
    <2> QED BY <2>2, <2>3
  <1>11. CASE call.op = "rangeFor"
    <2> DEFINE d == call.dest \o text
               ct == next.count - 1
               ph == IF call.count = 1 THEN "returned" ELSE "reading"
    <2>1. call.dest = SubSeq(w, 1, k) /\ call.count > 0 /\ call.count = Cardinality(Left(w, k))
      BY <1>11 DEF Reading
    <2>2. r = [next EXCEPT !.dest = d, !.count = ct, !.phase = ph]
      BY <1>2, <1>11 DEF LineRead
    <2>3. d = SubSeq(w, 1, e)
      BY <2>1, LineAppended
    <2>4. ct = call.count - 1
      BY <1>2
    <2> HIDE DEF next, r, d, ct, ph
    <2>5. r.op = "rangeFor" /\ r.phase = ph /\ r.line = <<>> /\ r.dest = d /\ r.count = ct
      BY <1>2, <1>11, <2>2 DEF CallType
    <2>6. k < e
      BY <1>1, <1>5, <1>6, <1>7, <2>1
    <2>7. ct = Cardinality(Left(w, e))
      BY <1>1, <1>4, <1>5, <2>1, <2>4, <2>6
    <2>8. CASE call.count = 1
      <3>1. ph = "returned"
        BY <2>8 DEF ph
      <3>2. e = Len(w)
        BY <1>6, <2>4, <2>7, <2>8
      <3>3. d = w
        BY <2>3, <3>2, SubSeqFull
      <3>4. Returned(r, w, e)
        BY <2>5, <3>3 DEF Returned
      <3> QED BY <2>5, <3>1, <3>4 DEF CallRight, r
    <2>9. CASE call.count # 1
      <3>1. ph = "reading"
        BY <2>9 DEF ph
      <3>2. ct > 0
        BY <1>1, <2>1, <2>4, <2>9
      <3>3. e - 0 = e /\ Len(r.line) = 0
        BY <1>1, <2>5
      <3>4. Reading(r, w, e)
        BY <1>1, <2>3, <2>5, <2>7, <3>2, <3>3 DEF Reading
      <3> QED BY <2>5, <3>1, <3>4 DEF CallRight, r
    <2> QED BY <2>8, <2>9
  <1> QED BY <1>8, <1>9, <1>10, <1>11 DEF LineCall

\* readLine asks for a byte and gets the next one of w, or none behind the last.
NextByte(w, p) == IF p < Len(w) THEN <<w[p + 1]>> ELSE <<>>

LEMMA ByteReadRight ==
  ASSUME call \in CallType, call.op \in LineCall, call.phase = "reading", NEW w \in Seq(FileByte), NEW p, Reading(call, w, p)
  PROVE  CallRight(ByteRead(NextByte(w, p)), w, p + Len(NextByte(w, p)))
  <1>1. PICK l \in Seq(FileByte) : l = call.line
    BY DEF CallType
  <1>2. PICK n \in Nat : n = Len(l)
    BY <1>1
  <1>3. PICK k \in 0..Len(w) : k = p - n
    BY <1>1, <1>2 DEF Reading
  <1>4. /\ p \in 0..Len(w) /\ p = k + n /\ Len(w) \in Nat
        /\ \A i \in 1..n : l[i] = w[k + i] /\ l[i] # NewLine
    <2>1. p \in 0..Len(w) /\ Len(w) \in Nat
      BY DEF Reading
    <2>2. k = p - Len(call.line) /\ n = Len(call.line)
      BY <1>1, <1>2, <1>3
    <2>3. \A i \in 1..Len(call.line) : call.line[i] = w[(p - Len(call.line)) + i] /\ call.line[i] # NewLine
      BY DEF Reading
    <2>4. p = k + n
      BY <1>3, <2>1
    <2> QED BY <1>1, <2>1, <2>2, <2>3, <2>4
  <1>5. CASE p = Len(w)
    <2>1. NextByte(w, p) = <<>> /\ p + Len(NextByte(w, p)) = p
      BY <1>4, <1>5 DEF NextByte
    <2>2. ByteRead(<<>>) = LineRead(l, FALSE)
      BY <1>1 DEF ByteRead
    <2>3. IsLine(l, w, k, p)
      BY <1>2, <1>3, <1>4, <1>5 DEF IsLine
    <2>4. CallRight(LineRead(l, FALSE), w, p)
      BY <1>1, <1>2, <1>3, <2>3, LineReadRight
    <2> QED BY <2>1, <2>2, <2>4
  <1>6. CASE p # Len(w)
    <2>1. PICK b \in FileByte : b = w[p + 1]
      BY <1>4, <1>6
    <2>2. p + 1 \in 1..Len(w) /\ NextByte(w, p) = <<b>> /\ p + Len(NextByte(w, p)) = p + 1 /\ b = w[k + (n + 1)]
      BY <1>4, <1>6, <2>1 DEF NextByte
    <2>3. PICK t : t = l \o <<b>>
      OBVIOUS
    <2>4. t \in Seq(FileByte) /\ Len(t) = n + 1 /\ (\A i \in 1..n : t[i] = l[i]) /\ t[n + 1] = b
      BY <1>2, <2>3
    <2>5. <<b>> # <<>> /\ (<<b>> = <<NewLine>> <=> b = NewLine)
      OBVIOUS
    <2>6. \A i \in 1 .. n + 1 : i \in 1..n \/ i = n + 1
      OBVIOUS
    <2>7. \A i \in 1 .. n + 1 : t[i] = w[k + i]
      BY <1>4, <2>2, <2>4, <2>6
    <2>8. CASE b = NewLine
      <3>1. ByteRead(<<b>>) = LineRead(t, FALSE)
        BY <1>1, <2>3, <2>5, <2>8 DEF ByteRead
      <3>2. IsLine(t, w, k, p + 1)
        <4>1. Len(t) = (p + 1) - k /\ k <= p + 1 /\ k < p + 1 /\ p + 1 = k + (n + 1) /\ k \in Nat
          BY <1>4, <2>4
        <4>2. \A i \in 1 .. (n + 1) - 1 : t[i] # NewLine
          BY <1>4, <2>4
        <4> QED BY <2>2, <2>4, <2>7, <2>8, <4>1, <4>2 DEF IsLine
      <3>3. CallRight(LineRead(t, FALSE), w, p + 1)
        BY <1>1, <1>2, <1>3, <3>2, LineReadRight
      <3> QED BY <2>2, <3>1, <3>3
    <2>9. CASE b # NewLine
      <3>1. PICK r : r = [call EXCEPT !.line = t]
        OBVIOUS
      <3>2. ByteRead(<<b>>) = r
        BY <1>1, <2>3, <2>5, <2>9, <3>1 DEF ByteRead
      <3>3. r.op = call.op /\ r.phase = "reading" /\ r.line = t /\ r.dest = call.dest /\ r.count = call.count
        BY <3>1 DEF CallType
      <3>4. (p + 1) - Len(r.line) = k /\ p + 1 \in 0..Len(w)
        BY <1>4, <2>2, <2>4, <3>3
      <3>5. \A i \in 1..Len(r.line) : r.line[i] = w[k + i] /\ r.line[i] # NewLine
        BY <1>4, <2>4, <2>6, <2>7, <2>9, <3>3
      <3>6. /\ call.op = "readLine" => k = 0
            /\ call.op \in {"readAll", "rangeFor"} => call.dest = SubSeq(w, 1, k)
            /\ call.op \in {"getNofLines", "end"} =>
                 call.dest = <<>> /\ call.count + Cardinality(Left(w, k)) = Cardinality(Left(w, 0))
            /\ call.op = "rangeFor" => call.count > 0 /\ call.count = Cardinality(Left(w, k))
        BY <1>1, <1>2, <1>3 DEF Reading
      <3>7. Reading(r, w, p + 1)
        BY <3>3, <3>4, <3>5, <3>6 DEF Reading
      <3>8. CallRight(r, w, p + 1)
        BY <3>3, <3>7 DEF CallRight
      <3> QED BY <2>2, <3>2, <3>8
    <2> QED BY <2>8, <2>9
  <1> QED BY <1>5, <1>6

LEMMA OneByte ==
  ASSUME NEW s \in Seq(FileByte), NEW q \in 1..Len(s)
  PROVE  SubSeq(s, q, q) = <<s[q]>>
  <1>1. PICK t : t = SubSeq(s, q, q)
    OBVIOUS
  <1>2. t \in Seq(FileByte) /\ Len(t) = 1
    BY <1>1, Part
  <1>3. \A i \in 1 .. q - q + 1 : t[i] = s[q + i - 1]
    BY <1>1, Part
  <1>4. t[1] = s[q]
    <2>1. 1 \in 1 .. q - q + 1 /\ q + 1 - 1 = q
      OBVIOUS
    <2> QED BY <1>3, <2>1
  <1>5. <<s[q]>> \in Seq(FileByte) /\ Len(<<s[q]>>) = 1
    OBVIOUS
  <1>6. \A i \in 1..1 : t[i] = <<s[q]>>[i]
    BY <1>4
  <1>7. t = <<s[q]>>
    BY <1>2, <1>5, <1>6, SameSeq
  <1> QED BY <1>1, <1>7

\* What a reader can see is bytes of the file, and a part of it from any place on.
LEMMA VisibleType ==
  ASSUME Inv
  PROVE  Visible \in Seq(FileByte) /\ (cls = "MappedFileIO" => Visible = SubSeq(disk, 1, buffer.size) /\ Len(Visible) = buffer.size)
  <1>1. disk \in Seq(FileByte)
    BY DEF Inv, FileOK
  <1>2. CASE cls = "MappedFileIO"
    <2>1. buffer.size \in Nat /\ buffer.size <= Len(disk)
      BY <1>1, <1>2, WhenMapped DEF MapOK, BufferOK, MapOf, ByteBufferType, Capacity
    <2>2. SubSeq(disk, 1, buffer.size) \in Seq(FileByte) /\ Len(SubSeq(disk, 1, buffer.size)) = buffer.size
      BY <1>1, <2>1, Part
    <2> QED BY <1>2, <2>2 DEF Visible
  <1> QED BY <1>1, <1>2 DEF Visible

LEMMA VisibleFromType ==
  ASSUME Inv, NEW at \in 0..Len(Visible)
  PROVE  /\ VisibleFrom(at) \in Seq(FileByte) /\ Len(VisibleFrom(at)) = Len(Visible) - at
         /\ \A i \in 1..Len(VisibleFrom(at)) : VisibleFrom(at)[i] = Visible[at + i]
  <1> DEFINE v == Visible
             l == Len(v)
  <1>1. v \in Seq(FileByte) /\ l \in Nat /\ at \in 0..l
    BY VisibleType
  <1> HIDE DEF v
  <1>2. /\ SubSeq(v, at + 1, l) \in Seq(FileByte) /\ Len(SubSeq(v, at + 1, l)) = IF at + 1 <= l THEN l - (at + 1) + 1 ELSE 0
        /\ \A i \in 1 .. l - (at + 1) + 1 : SubSeq(v, at + 1, l)[i] = v[(at + 1) + i - 1]
    BY <1>1, Part
  <1>3. Len(SubSeq(v, at + 1, l)) = l - at
    BY <1>1, <1>2
  <1>4. \A i \in 1 .. l - at : SubSeq(v, at + 1, l)[i] = v[at + i]
    <2> SUFFICES ASSUME NEW i \in 1 .. l - at PROVE SubSeq(v, at + 1, l)[i] = v[at + i]
      OBVIOUS
    <2>1. i \in 1 .. l - (at + 1) + 1 /\ (at + 1) + i - 1 = at + i
      BY <1>1
    <2> QED BY <1>2, <2>1
  <1> QED BY <1>2, <1>3, <1>4 DEF VisibleFrom, v

\* read(1) returns the byte behind the read pointer, whichever class reads it.
LEMMA FileByteRead ==
  ASSUME Inv, cls # "MappedFileIO", NEW at \in 0..Len(Visible), readIdx - at \in 0..Len(VisibleFrom(at))
  PROVE  FileBytes(1) = NextByte(VisibleFrom(at), readIdx - at)
  <1> DEFINE w == VisibleFrom(at)
             p == readIdx - at
  <1>1. /\ w \in Seq(FileByte) /\ Len(w) = Len(disk) - at /\ Len(disk) \in Nat /\ disk \in Seq(FileByte)
        /\ \A i \in 1..Len(w) : w[i] = disk[at + i]
    BY VisibleFromType DEF Visible, Inv, FileOK
  <1>2. readIdx \in Nat \cup {-1} /\ at \in Nat /\ p \in 0..Len(w) /\ readIdx = at + p /\ readIdx \in 0..Len(disk)
    BY <1>1 DEF Inv, FileOK
  <1> HIDE DEF w, p
  <1>3. FileBytes(1) = SubSeq(disk, readIdx + 1, Smaller(readIdx + 1, Len(disk)))
    <2>1. MovedTo(readIdx) = readIdx
      BY <1>2 DEF MovedTo
    <2> QED BY <2>1 DEF FileBytes
  <1>4. CASE p < Len(w)
    <2>1. Smaller(readIdx + 1, Len(disk)) = readIdx + 1 /\ readIdx + 1 \in 1..Len(disk)
      BY <1>1, <1>2, <1>4 DEF Smaller
    <2>2. PICK q \in 1..Len(disk) : q = readIdx + 1
      BY <2>1
    <2>3. disk[readIdx + 1] = w[p + 1]
      <3>1. p + 1 \in 1..Len(w) /\ at + (p + 1) = readIdx + 1
        BY <1>1, <1>2, <1>4
      <3>2. PICK j \in 1..Len(w) : j = p + 1
        BY <3>1
      <3>3. w[j] = disk[at + j] /\ at + j = readIdx + 1
        BY <1>1, <3>1, <3>2
      <3> QED BY <3>2, <3>3
    <2>4. SubSeq(disk, q, q) = <<w[p + 1]>>
      BY <1>1, <2>2, <2>3, OneByte
    <2>5. FileBytes(1) = <<w[p + 1]>>
      BY <1>3, <2>1, <2>2, <2>4
    <2>6. NextByte(w, p) = <<w[p + 1]>>
      BY <1>4 DEF NextByte
    <2> QED BY <2>5, <2>6 DEF w, p
  <1>5. CASE ~(p < Len(w))
    <2>1. Smaller(readIdx + 1, Len(disk)) = Len(disk) /\ Len(disk) < readIdx + 1
      BY <1>1, <1>2, <1>5 DEF Smaller
    <2>2. SubSeq(disk, readIdx + 1, Len(disk)) = <<>>
      BY <1>1, <1>2, <2>1, SubSeqEmpty
    <2> QED BY <1>3, <1>5, <2>1, <2>2 DEF NextByte, w, p
  <1> QED BY <1>4, <1>5

LEMMA MappedByteRead ==
  ASSUME Inv, Bounded, SizesFit, cls = "MappedFileIO", NEW at \in 0..Len(Visible), readIdx - at \in 0..Len(VisibleFrom(at))
  PROVE  /\ MappedCount(1) = Len(NextByte(VisibleFrom(at), readIdx - at))
         /\ MappedCount(1) = 0 \/ buffer.live => MappedBytes(1) = NextByte(VisibleFrom(at), readIdx - at)
  <1> DEFINE w == VisibleFrom(at)
             p == readIdx - at
             z == buffer.size
  <1>1. /\ MapOK /\ readIdx \in Nat /\ disk \in Seq(FileByte) /\ Len(disk) \in Nat /\ Len(disk) <= MaxSize
        /\ z \in Nat /\ z <= Len(buffer.data) /\ Len(buffer.data) <= Len(disk) /\ buffer \in ByteBufferType
    <2>1. MapOK /\ readIdx \in Nat
      BY WhenMapped
    <2>2. disk \in Seq(FileByte) /\ Len(disk) <= MaxSize
      BY DEF Bounded, Inv, FileOK
    <2>3. buffer \in ByteBufferType /\ buffer.size <= Len(buffer.data) /\ Len(buffer.data) <= Len(disk)
      BY <2>1 DEF MapOK, BufferOK, MapOf, Capacity
    <2> QED BY <2>1, <2>2, <2>3 DEF ByteBufferType
  <1>2. Visible = SubSeq(disk, 1, z) /\ Len(Visible) = z
    BY VisibleType
  <1>3. \A i \in 1..z : Visible[i] = disk[i]
    BY <1>1, <1>2, Part
  <1>4. w \in Seq(FileByte) /\ Len(w) = z - at /\ \A i \in 1..Len(w) : w[i] = Visible[at + i]
    BY <1>2, VisibleFromType
  <1>5. at \in 0..z /\ p \in 0..Len(w) /\ readIdx = at + p /\ readIdx <= z
    BY <1>1, <1>2, <1>4
  <1> HIDE DEF w, p
  <1>6. RemainingSize(PositionedAt(buffer, readIdx)) = z - readIdx
    <2>1. RemainingSize(PositionedAt(buffer, readIdx)) = (z - readIdx) % Word
      BY <1>1, PositionedType DEF RemainingSize
    <2>2. PICK x : x = z - readIdx
      OBVIOUS
    <2>3. x \in Nat /\ x < Word /\ Word \in Nat \ {0}
      BY <1>1, <1>5, <2>2, ByteAssumption, FileAssumption DEF SizesFit
    <2>4. x % Word = x
      BY <2>3
    <2> QED BY <2>1, <2>2, <2>4
  <1>7. CASE p < Len(w)
    <2>1. z - readIdx >= 1 /\ readIdx + 1 \in 1..z
      BY <1>1, <1>4, <1>5, <1>7
    <2>2. MappedCount(1) = 1
      BY <1>1, <1>6, <2>1 DEF MappedCount, Smaller
    <2>3. ASSUME buffer.live PROVE MappedBytes(1) = <<w[p + 1]>>
      <3>1. buffer.data = disk
        BY <1>1, <2>3 DEF MapOK, MapOf
      <3>2. PICK q \in 1..z : q = readIdx + 1
        BY <2>1
      <3>3. MappedBytes(1) = SubSeq(disk, q, q)
        BY <2>2, <3>1, <3>2 DEF MappedBytes
      <3>4. SubSeq(disk, q, q) = <<disk[q]>>
        <4>1. q \in 1..Len(disk)
          BY <1>1
        <4> QED BY <1>1, <4>1, OneByte
      <3>5. p + 1 \in 1..Len(w) /\ at + (p + 1) = q
        BY <1>4, <1>5, <1>7, <3>2
      <3>6. disk[q] = w[p + 1]
        BY <1>3, <1>4, <3>5
      <3> QED BY <3>3, <3>4, <3>6
    <2>4. NextByte(w, p) = <<w[p + 1]>> /\ Len(<<w[p + 1]>>) = 1
      BY <1>7 DEF NextByte
    <2>5. MappedCount(1) = Len(NextByte(w, p)) /\ (buffer.live => MappedBytes(1) = NextByte(w, p)) /\ MappedCount(1) # 0
      BY <2>2, <2>3, <2>4
    <2> QED BY <2>5 DEF w, p
  <1>8. CASE ~(p < Len(w))
    <2>1. z - readIdx = 0
      <3>1. p = Len(w)
        BY <1>4, <1>5, <1>8
      <3> QED BY <1>1, <1>4, <1>5, <3>1
    <2>2. MappedCount(1) = 0
      BY <1>6, <2>1 DEF MappedCount, Smaller
    <2>3. MappedBytes(1) = <<>>
      <3>1. MappedBytes(1) = SubSeq(buffer.data, readIdx + 1, readIdx)
        BY <1>1, <2>2 DEF MappedBytes
      <3> QED BY <1>1, <3>1, SubSeqEmpty
    <2>4. NextByte(w, p) = <<>>
      BY <1>8 DEF NextByte
    <2> QED BY <2>2, <2>3, <2>4 DEF w, p
  <1> QED BY <1>7, <1>8

\* A call that is not reading lines says nothing.
LEMMA NoLines ==
  ASSUME call'.op = "none"
  PROVE  LineInv'
  BY DEF LineInv

LEMMA SeekToStart ==
  ASSUME Inv, Idle, IF cls = "MappedFileIO" THEN MappedSeekg(0, "Beg") ELSE FileSeekg(0, "Beg")
  PROVE  readIdx' = 0
  <1>1. MapTarget(0, "Beg") = 0
    BY DEF MapTarget, SeekTarget
  <1>2. Lseek(0, "Beg") = 0
    BY DEF Lseek, SeekTarget, Larger
  <1> QED BY <1>1, <1>2 DEF MappedSeekg, FileSeekg

VisibleIs == \A at \in 0..Len(Visible) : VisibleFrom(at) \in Seq(FileByte)

LEMMA VisibleNow == Inv => VisibleIs
  BY VisibleFromType DEF VisibleIs

LEMMA VisibleNext == Inv' => VisibleIs'
  BY VisibleNow, PTL

LEMMA LineStart ==
  ASSUME Inv, Inv', NEW op \in LineCall \ {"rangeFor"}, StartLines(op)
  PROVE  LineInv'
  <1>1. PICK at : at = readIdx'
    OBVIOUS
  <1>2. at \in Nat \cup {-1}
    BY <1>1 DEF Inv, FileOK
  <1>3. call' = [NoCall EXCEPT !.op = op, !.at = at]
    BY <1>1 DEF StartLines
  <1>4. /\ call'.op = op /\ call'.at = at /\ call'.phase = "reading" /\ call'.line = <<>> /\ call'.dest = <<>> /\ call'.count = 0
        /\ op \in {"readLine", "getNofLines", "readAll", "end"}
    BY <1>3 DEF NoCall, LineCall
  <1>5. op = "readAll" => at = 0
    BY <1>1, SeekToStart DEF StartLines
  <1>6. ASSUME at \in 0..Len(Visible') PROVE CallRight(call', VisibleFrom(at)', at - at)
    <2>1. VisibleFrom(at)' \in Seq(FileByte)
      BY <1>6, VisibleNext DEF VisibleIs
    <2>2. PICK w \in Seq(FileByte) : w = VisibleFrom(at)'
      BY <2>1
    <2>3. SubSeq(w, 1, 0) = <<>>
      BY SubSeqEmpty
    <2>4. Cardinality(Left(w, 0)) \in Nat
      BY LeftCount
    <2>5. Reading(call', w, 0)
      <3>1. Len(call'.line) = 0 /\ 0 - 0 = 0 /\ Len(w) \in Nat
        BY <1>4
      <3>2. 0 \in 0..Len(w) /\ \A i \in 1..0 : FALSE
        BY <3>1
      <3>3. 0 + Cardinality(Left(w, 0)) = Cardinality(Left(w, 0))
        BY <2>4
      <3> QED BY <1>4, <2>3, <3>1, <3>2, <3>3 DEF Reading
    <2>6. CallRight(call', w, 0)
      BY <1>4, <2>5 DEF CallRight
    <2>7. at - at = 0
      BY <1>6
    <2> QED BY <2>2, <2>6, <2>7
  <1> QED BY <1>1, <1>4, <1>5, <1>6 DEF LineInv

LEMMA LineByte ==
  ASSUME Inv, Bounded, SizesFit, LineInv, ReadByte
  PROVE  LineInv'
  <1>1. call \in CallType /\ call.op \in LineCall /\ call.phase = "reading" /\ call.op # "none" /\ call.at \in Nat \cup {-1}
    BY DEF ReadByte, Inv, CallOK, LineCall, CallType
  <1>2. UNCHANGED <<disk, cls>> /\ (cls = "MappedFileIO" => buffer'.size = buffer.size)
    <2>1. cls = "MappedFileIO" => buffer \in ByteBufferType /\ readIdx \in Nat
      BY WhenMapped DEF MapOK, BufferOK
    <2>2. CASE cls = "MappedFileIO" /\ MappedRead(1)
      <3>1. MappedCount(1) \in Nat
        BY <2>2, MappedCountType
      <3>2. PICK q \in Nat : q = readIdx + MappedCount(1)
        BY <2>1, <2>2, <3>1
      <3>3. buffer' = buffer \/ buffer' = PositionedAt(buffer, q)
        BY <2>2, <3>2 DEF MappedRead
      <3>4. PositionedAt(buffer, q).size = buffer.size
        BY <2>1, <2>2, PositionedType
      <3> QED BY <2>2, <3>3, <3>4 DEF ReadByte, MappedRead
    <2>3. CASE cls = "MappedFileIO" /\ MappedReadFails(1)
      BY <2>1, <2>3, PositionedType DEF ReadByte, MappedReadFails, fileVars
    <2>4. CASE cls # "MappedFileIO"
      BY <2>4 DEF ReadByte, FileRead, FileReadFails
    <2> QED BY <2>2, <2>3, <2>4 DEF ReadByte
  <1>3. Visible' = Visible /\ \A at : VisibleFrom(at)' = VisibleFrom(at)
    BY <1>2 DEF Visible, VisibleFrom
  \* The call goes on with the byte it was given.
  <1>4. ASSUME NEW bytes, GoesOn(call'), call' = ByteRead(bytes), readIdx' = readIdx + Len(bytes),
               ~call.failed /\ call.at \in 0..Len(Visible) =>
                 bytes = NextByte(VisibleFrom(call.at), readIdx - call.at)
        PROVE  LineInv'
    <2>1. call'.op = call.op /\ call'.at = call.at
      BY <1>4 DEF GoesOn
    <2>3. PICK at : at = call.at
      OBVIOUS
    <2>2. ASSUME ~call'.failed, at \in 0..Len(Visible')
          PROVE  CallRight(call', VisibleFrom(at)', readIdx' - at)
      <3>1. call.at \in 0..Len(Visible)
        BY <1>3, <2>1, <2>2, <2>3
      <3>2. ~call.failed
        <4>1. call.failed => call'.failed
          <5>1. \A text : call.failed => LineRead(text, FALSE).failed
            <6> TAKE text
            <6> HAVE call.failed
            <6>1. PICK next : next = [call EXCEPT !.line = <<>>, !.failed = @ \/ FALSE]
              OBVIOUS
            <6>2. DOMAIN next = {"op", "phase", "at", "line", "dest", "count", "failed"} /\ next.failed
              BY <1>1, <6>1 DEF CallType
            <6>3. \/ LineRead(text, FALSE) \in {[next EXCEPT !.line = text, !.phase = "returned"], [next EXCEPT !.phase = "ended"],
                                                [next EXCEPT !.count = @ + 1], [next EXCEPT !.phase = "returned"], [next EXCEPT !.dest = @ \o text]}
                  \/ \E ph : LineRead(text, FALSE) = [next EXCEPT !.dest = @ \o text, !.count = @ - 1, !.phase = ph]
              BY <1>1, <6>1 DEF LineRead, LineCall
            <6> QED BY <6>2, <6>3
          <5>2. call.failed => [call EXCEPT !.line = @ \o bytes].failed
            BY <1>1 DEF CallType
          <5>3. \/ \E text : ByteRead(bytes) = LineRead(text, FALSE)
                \/ ByteRead(bytes) = [call EXCEPT !.line = @ \o bytes]
            BY DEF ByteRead
          <5> QED BY <1>4, <5>1, <5>2, <5>3
        <4> QED BY <2>2, <4>1
      <3>3. PICK w \in Seq(FileByte) : w = VisibleFrom(call.at)
        BY <3>1, VisibleFromType
      <3>4. PICK p : p = readIdx - call.at
        OBVIOUS
      <3>5. Reading(call, w, p)
        BY <1>1, <3>1, <3>2, <3>3, <3>4 DEF LineInv, CallRight
      <3>6. bytes = NextByte(w, p)
        BY <1>4, <3>1, <3>2, <3>3, <3>4
      <3>7. CallRight(call', w, p + Len(bytes))
        BY <1>1, <1>4, <3>5, <3>6, ByteReadRight
      <3>8. p + Len(bytes) = readIdx' - call'.at
        <4>1. Len(bytes) \in Nat
          BY <3>6 DEF NextByte
        <4>2. readIdx \in Int
          BY DEF Inv, FileOK
        <4> QED BY <1>4, <2>1, <3>1, <3>4, <4>1, <4>2
      <3>9. VisibleFrom(at)' = w
        BY <1>3, <2>3, <3>3
      <3> QED BY <2>1, <2>3, <3>7, <3>8, <3>9
    <2>4. call'.op = "readAll" => call'.at = 0
      BY <1>1, <2>1 DEF LineInv
    <2> QED BY <2>1, <2>2, <2>3, <2>4 DEF LineInv
  <1>5. ASSUME ~call.failed, call.at \in 0..Len(Visible) PROVE readIdx - call.at \in 0..Len(VisibleFrom(call.at))
    BY <1>1, <1>5 DEF LineInv, CallRight, Reading
  <1>6. CASE cls # "MappedFileIO"
    <2>1. CASE FileRead(1) /\ call' = ByteRead(FileBytes(1))
      <3>1. FileBytes(1) \in Seq(FileByte)
        BY FileBytesType DEF Inv
      <3>2. GoesOn(call')
        BY <1>1, <2>1, <3>1, ByteReadType
      <3>3. ~call.failed /\ call.at \in 0..Len(Visible) => FileBytes(1) = NextByte(VisibleFrom(call.at), readIdx - call.at)
        BY <1>5, <1>6, FileByteRead
      <3>4. readIdx' = readIdx + Len(FileBytes(1))
        BY <2>1 DEF FileRead
      <3> QED BY <1>4, <2>1, <3>2, <3>3, <3>4
    <2>2. CASE FileReadFails /\ call' = LineRead(<<>>, TRUE)
      <3>1. <<>> \in Seq(FileByte)
        OBVIOUS
      <3>2. GoesOn(LineRead(<<>>, TRUE))
        BY <1>1, <3>1, LineReadType
      <3>3. LineRead(<<>>, TRUE).failed
        <4>1. PICK next : next = [call EXCEPT !.line = <<>>, !.failed = @ \/ TRUE]
          OBVIOUS
        <4>2. DOMAIN next = {"op", "phase", "at", "line", "dest", "count", "failed"} /\ next.failed
          BY <1>1, <4>1 DEF CallType
        <4>3. \/ LineRead(<<>>, TRUE) \in {[next EXCEPT !.line = <<>>, !.phase = "returned"],
                                            [next EXCEPT !.count = @ + 1], [next EXCEPT !.dest = @ \o <<>>]}
              \/ \E ph : LineRead(<<>>, TRUE) = [next EXCEPT !.dest = @ \o <<>>, !.count = @ - 1, !.phase = ph]
          BY <1>1, <4>1 DEF LineRead, LineCall
        <4> QED BY <4>2, <4>3
      <3> QED BY <1>1, <2>2, <3>2, <3>3 DEF LineInv, GoesOn
    <2> QED BY <1>6, <2>1, <2>2 DEF ReadByte
  <1>7. CASE cls = "MappedFileIO"
    <2>1. CASE MappedReadFails(1) /\ call' = NoCall
      BY <2>1, NoCallType, NoLines
    <2>2. CASE MappedRead(1) /\ crashed' /\ call' = call
      <3>1. readIdx' = readIdx
        BY <2>2 DEF MappedRead, ReadByte
      <3> QED BY <1>3, <2>2, <3>1 DEF LineInv
    <2>3. CASE MappedRead(1) /\ ~crashed' /\ call' = ByteRead(MappedBytes(1))
      <3>1. readIdx' = readIdx + MappedCount(1) /\ (MappedCount(1) = 0 \/ buffer.live) /\ ~MappedReadThrows(1)
        <4>1. MappedCount(1) \in 0..1
          BY <1>7, MappedCountType
        <4> QED BY <2>3, <4>1 DEF MappedRead
      <3>2. MappedBytes(1) \in Seq(FileByte) /\ Len(MappedBytes(1)) = MappedCount(1)
        BY <1>7, <3>1, MappedBytesType
      <3>3. GoesOn(call')
        BY <1>1, <2>3, <3>2, ByteReadType
      <3>4. ~call.failed /\ call.at \in 0..Len(Visible) => MappedBytes(1) = NextByte(VisibleFrom(call.at), readIdx - call.at)
        BY <1>5, <1>7, <3>1, MappedByteRead
      <3>5. readIdx' = readIdx + Len(MappedBytes(1))
        BY <3>1, <3>2
      <3> QED BY <1>4, <2>3, <3>3, <3>4, <3>5
    <2> QED BY <1>7, <2>1, <2>2, <2>3 DEF ReadByte
  <1> QED BY <1>6, <1>7

LEMMA LineCount ==
  ASSUME Inv, LineInv, CountReturns
  PROVE  LineInv'
  <1>1. call \in CallType /\ call.op # "none" /\ call.phase = "ended"
    BY DEF CountReturns, Inv, Shape, CallOK, NoCall
  <1>2. Visible' = Visible /\ \A at : VisibleFrom(at)' = VisibleFrom(at)
    BY DEF CountReturns, Visible, VisibleFrom
  <1>3. PICK at : at = call.at
    OBVIOUS
  <1>4. call'.at = at /\ call'.failed = call.failed /\ readIdx' = at
    BY <1>1, <1>3 DEF CountReturns, CallType
  <1>5. call'.op \in {call.op, "rangeFor"}
    BY <1>1 DEF CountReturns, CallType
  <1>6. call'.op = "readAll" => call'.at = 0
    BY <1>3, <1>4, <1>5 DEF LineInv
  <1>7. ASSUME ~call'.failed, at \in 0..Len(Visible') PROVE CallRight(call', VisibleFrom(at)', readIdx' - at)
    <2>1. PICK w \in Seq(FileByte) : w = VisibleFrom(at)
      BY <1>2, <1>7, VisibleFromType
    <2>2. Counted(call, w)
      BY <1>1, <1>2, <1>3, <1>4, <1>7, <2>1 DEF LineInv, CallRight
    <2>3. PICK n \in Nat : n = Cardinality(Left(w, 0))
      BY LeftCount
    <2>4. call.op \in {"getNofLines", "end"} /\ call.line = <<>> /\ call.dest = <<>> /\ call.count = n
      BY <2>2, <2>3 DEF Counted
    <2>5. PICK c : c = call'
      OBVIOUS
    <2>6. SubSeq(w, 1, 0) = <<>> /\ Len(w) \in Nat /\ Len(<<>>) = 0
      BY SubSeqEmpty
    <2>7. CASE call.op = "end" /\ call.count > 0
      <3>1. c = [call EXCEPT !.op = "rangeFor", !.phase = "reading"]
        BY <2>5, <2>7 DEF CountReturns
      <3>2. c.op = "rangeFor" /\ c.phase = "reading" /\ c.line = <<>> /\ c.dest = <<>> /\ c.count = n
        BY <1>1, <2>4, <3>1 DEF CallType
      <3>3. 0 - Len(c.line) = 0 /\ 0 \in 0..Len(w) /\ n > 0 /\ \A i \in 1..Len(c.line) : FALSE
        <4>1. Len(c.line) = 0
          BY <2>6, <3>2
        <4>2. 0 - Len(c.line) = 0 /\ \A i \in 1..Len(c.line) : FALSE
          BY <4>1
        <4>3. n > 0
          BY <2>4, <2>7
        <4> QED BY <2>6, <4>2, <4>3
      <3>4. Reading(c, w, 0)
        BY <2>3, <2>6, <3>2, <3>3 DEF Reading
      <3> QED BY <3>2, <3>4, <1>2, <1>4, <1>7, <2>1, <2>5 DEF CallRight
    <2>8. CASE ~(call.op = "end" /\ call.count > 0)
      <3>1. c = [call EXCEPT !.phase = "returned"]
        BY <2>5, <2>8 DEF CountReturns
      <3>2. c.op = call.op /\ c.phase = "returned" /\ c.dest = <<>> /\ c.count = n
        BY <1>1, <2>4, <3>1 DEF CallType
      <3>3. call.op = "end" => w = <<>>
        <4>1. call.op = "end" => n = 0
          BY <2>4, <2>8
        <4>2. n = 0 => 0 = Len(w)
          BY <2>3, <2>6, LeftNone
        <4> QED BY <4>1, <4>2, EmptySeq
      <3>4. Returned(c, w, 0)
        BY <2>3, <2>4, <3>2, <3>3 DEF Returned
      <3> QED BY <3>2, <3>4, <1>2, <1>4, <1>7, <2>1, <2>5 DEF CallRight
    <2> QED BY <2>7, <2>8
  <1> QED BY <1>3, <1>4, <1>6, <1>7 DEF LineInv

LEMMA LineCallStep == Inv /\ Inv' /\ LineInv /\ Call => LineInv'
  <1> SUFFICES ASSUME Inv, Inv', LineInv, Call PROVE LineInv'
    OBVIOUS
  <1>1. CASE \E op \in LineCall \ {"rangeFor"} : StartLines(op)
    BY <1>1, LineStart
  <1>2. CASE UNCHANGED call
    <2>1. call.op = "none"
      <3>1. cls = "none" => call.op = "none"
        BY DEF Inv, Shape
      <3>2. cls = "none" \/ Idle \/ \E op \in LineCall \ {"rangeFor"} : StartLines(op)
        BY DEF Call, Open, Close, Seekg, Seekp, Read, Write, FlushBuffer, Configure
      <3> QED BY <1>1, <3>1, <3>2 DEF Idle, StartLines
    <2> QED BY <1>2, <2>1, NoLines
  <1> QED BY <1>1, <1>2 DEF Call, Open, Close, Seekg, Seekp, Read, Write, FlushBuffer, Configure

LEMMA LineNext ==
  ASSUME SizesFit
  PROVE  Inv /\ Inv' /\ Bounded /\ LineInv /\ [Next]_vars => LineInv'
  <1> SUFFICES ASSUME Inv, Inv', Bounded, LineInv, [Next]_vars PROVE LineInv'
    OBVIOUS
  <1>1. CASE calls < MaxCalls /\ Call /\ calls' = calls + 1
    BY <1>1, LineCallStep
  <1>2. CASE WriteRound
    <2>1. call.op = "none" /\ call' = call
      BY <1>2 DEF WriteRound, Inv, Shape
    <2> QED BY <2>1, NoLines
  <1>3. CASE ReadByte
    BY <1>3, LineByte
  <1>4. CASE CountReturns
    BY <1>4, LineCount
  <1>5. CASE Return
    BY <1>5, NoCallType, NoLines DEF Return
  <1>6. CASE UNCHANGED vars
    <2>1. UNCHANGED <<disk, readIdx, buffer, cls, call>>
      BY <1>6 DEF vars, fileVars, bufferVars
    <2>2. Visible' = Visible /\ \A at : VisibleFrom(at)' = VisibleFrom(at)
      BY <2>1 DEF Visible, VisibleFrom
    <2> QED BY <2>1, <2>2 DEF LineInv
  <1> QED BY <1>1, <1>2, <1>3, <1>4, <1>5, <1>6 DEF Next, Continue

LEMMA LinesAlways ==
  ASSUME SizesFit
  PROVE  Spec => []LineInv
  <1>1. Init => LineInv
    BY NoCallType DEF Init, LineInv
  <1> QED BY <1>1, LineNext, InvAlways, BoundedAlways, PTL DEF Spec

LEMMA LinesRead == Inv /\ LineInv => ReadsTheFile
  <1> SUFFICES ASSUME Inv, LineInv, call.phase = "returned", ~call.failed, call.at \in 0..Len(Visible)
               PROVE  CASE call.op = "readAll" -> call.dest = Visible
                        [] call.op \in {"rangeFor", "end"} -> call.dest = VisibleFrom(call.at)
                        [] call.op = "getNofLines" ->
                             readIdx = call.at /\ call.count = NofLines(VisibleFrom(call.at))
                        [] call.op = "readLine" ->
                             /\ call.line = SubSeq(Visible, call.at + 1, readIdx)
                             /\ \A i \in DOMAIN call.line : call.line[i] = NewLine => i = Len(call.line)
                             /\ \/ readIdx = Len(Visible)
                                \/ call.line # <<>> /\ call.line[Len(call.line)] = NewLine
    BY DEF ReadsTheFile
  <1>1. call \in CallType /\ call.op \in LineCall
    BY DEF Inv, Shape, CallOK, NoCall, CallType
  <1>2. PICK v \in Seq(FileByte) : v = Visible
    BY VisibleType
  <1>3. PICK at \in 0..Len(v) : at = call.at
    BY <1>2
  <1>4. PICK w \in Seq(FileByte) : w = VisibleFrom(at)
    BY <1>2, VisibleFromType
  <1>5. PICK p : p = readIdx - at
    OBVIOUS
  <1>6. Returned(call, w, p) /\ (call.op = "readAll" => at = 0)
    BY <1>1, <1>2, <1>3, <1>4, <1>5 DEF LineInv, CallRight, LineCall
  <1>7. readIdx \in Int /\ Len(v) \in Nat
    BY DEF Inv, FileOK
  <1>8. Len(w) = Len(v) - at /\ \A i \in 1..Len(w) : w[i] = v[at + i]
    BY <1>2, <1>4, VisibleFromType
  <1>9. CASE call.op = "readAll"
    <2>1. w = v
      BY <1>2, <1>4, <1>6, <1>9, SubSeqFull DEF VisibleFrom
    <2> QED BY <1>2, <1>6, <1>9, <2>1 DEF Returned
  <1>10. CASE call.op \in {"rangeFor", "end"}
    BY <1>3, <1>4, <1>6, <1>10 DEF Returned
  <1>11. CASE call.op = "getNofLines"
    <2>1. p = 0 /\ call.count = Cardinality(Left(w, 0))
      BY <1>6, <1>11 DEF Returned
    <2>2. readIdx = at
      BY <1>5, <1>7, <2>1
    <2>3. Left(w, 0) = {i \in DOMAIN w : w[i] = NewLine \/ i = Len(w)}
      BY DEF Left
    <2>4. call.count = NofLines(w)
      BY <2>1, <2>3 DEF NofLines
    <2> QED BY <1>3, <1>4, <1>11, <2>2, <2>4
  <1>12. CASE call.op = "readLine"
    <2>1. PICK l \in Seq(FileByte) : l = call.line
      BY <1>1 DEF CallType
    <2>2. /\ p \in 0..Len(w) /\ l = SubSeq(w, 1, p)
          /\ \A i \in 1..Len(l) - 1 : l[i] # NewLine
          /\ p = Len(w) \/ (l # <<>> /\ l[Len(l)] = NewLine)
      BY <1>6, <1>12, <2>1 DEF Returned
    <2>3. readIdx = at + p
      BY <1>5, <1>7, <2>2
    <2>4. l = SubSeq(v, at + 1, at + p)
      <3>1. Len(l) = p /\ \A i \in 1..p : l[i] = w[i]
        BY <2>2, Part
      <3>2. PICK m \in Nat \ {0} : m = at + 1
        OBVIOUS
      <3>3. PICK e \in Nat : e = at + p /\ e <= Len(v)
        BY <1>7, <1>8, <2>2
      <3>4. PICK t \in Seq(FileByte) : t = SubSeq(v, m, e)
        <4>1. SubSeq(v, m, e) \in Seq(FileByte)
          BY <3>2, <3>3, Part
        <4> QED BY <4>1
      <3>5. Len(t) = (IF m <= e THEN e - m + 1 ELSE 0) /\ \A i \in 1 .. e - m + 1 : t[i] = v[m + i - 1]
        BY <3>2, <3>3, <3>4, Part
      <3>6. Len(t) = p /\ e - m + 1 = p
        BY <2>2, <3>2, <3>3, <3>5
      <3>7. ASSUME NEW i \in 1..p PROVE l[i] = t[i]
        <4>1. t[i] = v[m + i - 1] /\ m + i - 1 = at + i
          BY <3>2, <3>5, <3>6
        <4>2. i \in 1..Len(w)
          BY <2>2
        <4> QED BY <1>8, <3>1, <4>1, <4>2
      <3>8. l = t
        BY <3>1, <3>6, <3>7, SameSeq
      <3> QED BY <3>2, <3>3, <3>4, <3>8
    <2>5. \A i \in DOMAIN l : l[i] = NewLine => i = Len(l)
      <3> SUFFICES ASSUME NEW i \in DOMAIN l, i # Len(l) PROVE l[i] # NewLine
        OBVIOUS
      <3>1. i \in 1..Len(l) - 1
        OBVIOUS
      <3> QED BY <2>2, <3>1
    <2>6. readIdx = Len(v) \/ (l # <<>> /\ l[Len(l)] = NewLine)
      <3>1. p = Len(w) => readIdx = Len(v)
        BY <1>7, <1>8, <2>3
      <3> QED BY <2>2, <3>1
    <2> QED BY <1>2, <1>3, <1>12, <2>1, <2>3, <2>4, <2>5, <2>6
  <1> QED BY <1>1, <1>9, <1>10, <1>11, <1>12 DEF LineCall

\* read(string), a range-for, getNofLines and readLine return what the file
\* holds, through any of the classes, from any read pointer, after any calls
\* that came before, if 2^64 is more than the size of any file.
THEOREM ReadsCorrect ==
  ASSUME SizesFit
  PROVE  Spec => []ReadsTheFile
  BY LinesAlways, InvAlways, LinesRead, PTL

------------------------------------------------------------------------------
(* What is waiting, and the invariant.                                        *)

Parts == UNION {{SubSeq(w, i, j) : i \in 1..Len(w), j \in 1..Len(w)} : w \in Writes}
Pieces == Parts \ {<<>>}
Largest == CHOOSE n \in Capacities : \A k \in Capacities : k <= n

\* There is a largest capacity: a capacity is a size_t.
CapacitiesBounded == Capacities # {} => \E n \in Capacities : \A k \in Capacities : k <= n

\* What a buffered stream has accepted and not written.
Waiting == IF cls = "BufferedFileIO" THEN Contents(buffer) ELSE <<>>

\* write() goes on with the end of what it was given; a stream that holds bytes
\* knows where they go; behind what a map shows the file is zeros.
HoldInv ==
  /\ rest # <<>> => \E w \in Writes : \E k \in 0..Len(w) : rest = SubSeq(w, k + 1, Len(w))
  /\ cls = "BufferedFileIO" =>
       /\ Capacity(buffer) \in Capacities \cup {0}
       /\ Held > 0 /\ "App" \notin mode => writeIdx >= 0
  /\ cls = "MappedFileIO" => \A i \in buffer.size + 1 .. Len(disk) : disk[i] = Zero

\* A step of the abstract file.
FileStep == [File!Next]_(File!byteFileVars)

ViewIs ==
  /\ Content \in Seq(FileByte) /\ Place \in Nat
  /\ cls # "MappedFileIO" =>
       /\ Waiting \in Seq(FileByte) /\ (cls = "BufferedFileIO" => Len(Waiting) = buffer.size)
       /\ WritePlace \in Nat /\ Place = WritePlace + Len(Waiting)
       /\ Content = Overlay(disk, WritePlace, Waiting)
       /\ IsOverlay(Content, disk, WritePlace, Waiting, FileByte)
  /\ cls = "MappedFileIO" =>
       /\ buffer.size \in Nat /\ buffer.size <= Len(disk) /\ Len(Content) = buffer.size
       /\ \A i \in 1..buffer.size : Content[i] = disk[i]
       /\ Place = writeIdx /\ ~Appending

LEMMA ViewNow == Inv => ViewIs
  <1> SUFFICES ASSUME Inv PROVE ViewIs
    OBVIOUS
  <1>1. FileOK /\ disk \in Seq(FileByte) /\ Len(disk) \in Nat /\ WritePlace \in Nat
    BY WritePlaceType DEF Inv, FileOK
  <1>2. CASE cls # "MappedFileIO"
    <2>1. Waiting \in Seq(FileByte) /\ (cls = "BufferedFileIO" => Len(Waiting) = buffer.size)
      <3>1. cls = "BufferedFileIO" => Waiting \in Seq(FileByte) /\ Len(Waiting) = buffer.size
        BY ContentsType DEF Inv, Shape, Waiting
      <3>2. cls # "BufferedFileIO" => Waiting \in Seq(FileByte)
        BY DEF Waiting
      <3> QED BY <3>1, <3>2
    <2>2. IsOverlay(Overlay(disk, WritePlace, Waiting), disk, WritePlace, Waiting, FileByte)
      <3> DEFINE at == WritePlace
                 s == Waiting
      <3> HIDE DEF at, s
      <3>1. IsOverlay(Overlay(disk, at, s), disk, at, s, FileByte)
        BY <1>1, <2>1, Overlaid DEF at, s, FileByte
      <3> QED BY <3>1 DEF at, s
    <2>3. Content = Overlay(disk, WritePlace, Waiting)
      BY <1>2 DEF Content, Waiting, Visible, Overlay
    <2>4. Len(Content) = IF Waiting = <<>> THEN Len(disk) ELSE Larger(Len(disk), WritePlace + Len(Waiting))
      BY <2>2, <2>3 DEF IsOverlay
    <2>5. Place = WritePlace + Len(Waiting)
      <3>1. CASE Appending
        <4>1. WritePlace = Len(disk) /\ Place = Len(Content)
          BY <3>1 DEF Appending, WritePlace, Place
        <4>2. CASE Waiting = <<>>
          BY <1>1, <2>4, <4>1, <4>2
        <4>3. CASE Waiting # <<>>
          <5>1. Len(Waiting) \in Nat
            BY <2>1
          <5> QED BY <1>1, <2>4, <4>1, <4>3, <5>1 DEF Larger
        <4> QED BY <4>2, <4>3
      <3>2. CASE ~Appending
        <4>1. "App" \notin mode
          BY <1>2, <3>2 DEF Appending, Inv, Shape, CallOK, Class
        <4>2. WritePlace = MovedTo(writeIdx)
          BY <4>1 DEF WritePlace
        <4>3. cls # "BufferedFileIO" => Len(Waiting) = 0
          BY DEF Waiting
        <4> QED BY <1>1, <2>1, <3>2, <4>2, <4>3 DEF Place
      <3> QED BY <3>1, <3>2
    <2>6. Content \in Seq(FileByte) /\ Place \in Nat
      BY <1>1, <2>1, <2>2, <2>3, <2>5 DEF IsOverlay
    <2> QED BY <1>1, <1>2, <2>1, <2>2, <2>3, <2>5, <2>6 DEF ViewIs
  <1>3. CASE cls = "MappedFileIO"
    <2>1. MapOK /\ writeIdx \in Nat
      BY <1>3, WhenMapped
    <2>2. PICK z : z = buffer.size
      OBVIOUS
    <2>3. z \in Nat /\ z <= Len(disk)
      BY <1>1, <2>1, <2>2 DEF MapOK, BufferOK, MapOf, Capacity, ByteBufferType
    <2>4. SubSeq(disk, 1, z) \in Seq(FileByte) /\ Len(SubSeq(disk, 1, z)) = z /\ \A i \in 1..z : SubSeq(disk, 1, z)[i] = disk[i]
      BY <1>1, <2>3, Part
    <2>5. Content = SubSeq(disk, 1, z)
      BY <1>3, <2>2 DEF Content, Visible
    <2>6. Place = writeIdx /\ ~Appending
      BY <1>3, <2>1 DEF Place, Appending, MovedTo
    <2> QED BY <1>3, <2>1, <2>2, <2>3, <2>4, <2>5, <2>6 DEF ViewIs
  <1> QED BY <1>2, <1>3

LEMMA ViewNext == Inv' => ViewIs'
  BY ViewNow, PTL

------------------------------------------------------------------------------
(* The kinds of steps a writer sees.                                          *)

\* Content stays: at most the place where the next write goes has moved.
LEMMA KeptIsSeen ==
  ASSUME Inv, Inv', cls # "none", UNCHANGED <<cls, mode>>, ~lost', Content' = Content
  PROVE  File!Next
  <1>1. Place' \in Nat
    BY ViewNext DEF ViewIs
  <1>2. CASE ~Appending
    <2>1. ~Appending'
      BY <1>2 DEF Appending
    <2>2. Appending' = Appending
      BY DEF Appending
    <2>3. File!Seek
      BY <1>1, <1>2, <2>2 DEF File!Seek
    <2> QED BY <2>3 DEF File!Next
  <1>3. CASE Appending
    <2>1. Appending'
      BY <1>3 DEF Appending
    <2>2. Place' = Place
      BY <1>3, <2>1 DEF Place
    <2>3. File!Quiet
      BY <1>3, <2>1, <2>2 DEF File!Quiet
    <2> QED BY <2>3 DEF File!Next
  <1> QED BY <1>2, <1>3

\* A piece is written behind what is waiting.
LEMMA WriteIsSeen ==
  ASSUME Inv, Inv', cls # "none", cls # "MappedFileIO", UNCHANGED <<cls, mode>>, ~lost',
         NEW piece \in Pieces, piece \in Seq(FileByte), Place' = Place + Len(piece),
         Content' = Overlay(disk, WritePlace, Waiting \o piece)
  PROVE  File!Next
  <1>1. PICK at : at = WritePlace
    OBVIOUS
  <1>2. PICK u : u = Waiting
    OBVIOUS
  <1>3. u \in Seq(FileByte) /\ at \in Nat /\ Place = at + Len(u) /\ Content \in Seq(FileByte) /\ IsOverlay(Content, disk, at, u, FileByte)
    BY <1>1, <1>2, ViewNow DEF ViewIs
  <1>4. disk \in Seq(FileByte) /\ Len(disk) \in Nat
    BY DEF Inv, FileOK
  <1>5. piece # <<>> /\ Len(piece) \in Nat \ {0} /\ Len(u) \in Nat
    <2>1. piece # <<>>
      BY DEF Pieces
    <2> QED BY <1>3, <2>1, EmptySeq
  <1> DEFINE v == u \o piece
  <1>6. /\ v \in Seq(FileByte) /\ Len(v) = Len(u) + Len(piece)
        /\ \A j \in 1..Len(v) : v[j] = IF j <= Len(u) THEN u[j] ELSE piece[j - Len(u)]
    BY <1>3, <1>5
  <1> HIDE DEF v
  <1>7. v # <<>>
    BY <1>3, <1>5, <1>6
  <1>8. PICK c : c = Content'
    OBVIOUS
  <1>9. IsOverlay(c, disk, at, v, FileByte)
    <2>1. IsOverlay(Overlay(disk, at, v), disk, at, v, FileByte)
      BY <1>3, <1>4, <1>6, Overlaid DEF FileByte
    <2> QED BY <1>1, <1>2, <1>8, <2>1 DEF v
  <1>10. PICK b : b = Content
    OBVIOUS
  <1>11. /\ Len(b) = IF u = <<>> THEN Len(disk) ELSE Larger(Len(disk), at + Len(u))
         /\ \A i \in 1..Len(b) : b[i] = IF i \in at + 1 .. at + Len(u) THEN u[i - at] ELSE IF i <= Len(disk) THEN disk[i] ELSE Zero
    BY <1>3, <1>10 DEF IsOverlay
  <1>12. /\ Len(c) = Larger(Len(disk), at + Len(v))
         /\ \A i \in 1..Len(c) : c[i] = IF i \in at + 1 .. at + Len(v) THEN v[i - at] ELSE IF i <= Len(disk) THEN disk[i] ELSE Zero
    BY <1>7, <1>9 DEF IsOverlay
  <1>13. u = <<>> => Len(u) = 0
    BY <1>3
  <1> DEFINE place == at + Len(u)
             end == place + Len(piece)
  <1>14. Len(c) = IF Len(b) > end THEN Len(b) ELSE end
    BY <1>3, <1>4, <1>5, <1>6, <1>11, <1>12, <1>13 DEF Larger
  <1>15. ASSUME NEW i \in 1..Len(c)
         PROVE  c[i] = IF place < i /\ i <= end THEN piece[i - place] ELSE IF i <= Len(b) THEN b[i] ELSE Zero
    <2>1. i \in Nat /\ i > 0
      BY <1>15
    <2>2. CASE place < i /\ i <= end
      <3>1. i \in at + 1 .. at + Len(v) /\ i - at \in 1..Len(v) /\ ~(i - at <= Len(u)) /\ (i - at) - Len(u) = i - place
        BY <1>3, <1>5, <1>6, <2>1, <2>2
      <3> QED BY <1>6, <1>12, <1>15, <2>2, <3>1
    <2>3. CASE i > end
      <3>1. i \notin at + 1 .. at + Len(v) /\ i \notin at + 1 .. at + Len(u)
        BY <1>3, <1>5, <1>6, <2>1, <2>3
      <3>2. i <= Len(disk) /\ i <= Len(b)
        BY <1>3, <1>4, <1>5, <1>6, <1>11, <1>12, <2>1, <2>3 DEF Larger
      <3>3. c[i] = disk[i]
        BY <1>12, <1>15, <3>1, <3>2
      <3>4. i \in 1..Len(b)
        BY <2>1, <3>2
      <3>5. b[i] = disk[i]
        BY <1>11, <3>1, <3>2, <3>4
      <3> QED BY <2>1, <2>3, <3>2, <3>3, <3>5, <1>3, <1>5
    <2>4. CASE i <= place
      <3>1. i \in at + 1 .. at + Len(v) <=> i \in at + 1 .. at + Len(u)
        BY <1>3, <1>5, <1>6, <2>1, <2>4
      <3>2. CASE i \in at + 1 .. at + Len(u)
        <4>1. u # <<>> /\ i <= Len(b) /\ i - at \in 1..Len(v) /\ i - at <= Len(u)
          BY <1>3, <1>4, <1>5, <1>6, <1>11, <1>13, <2>1, <3>2 DEF Larger
        <4>2. v[i - at] = u[i - at]
          BY <1>6, <4>1
        <4>3. c[i] = v[i - at]
          BY <1>12, <1>15, <3>1, <3>2
        <4>4. i \in 1..Len(b)
          BY <2>1, <4>1
        <4>5. b[i] = u[i - at]
          BY <1>11, <3>2, <4>4
        <4> QED BY <2>1, <2>4, <4>1, <4>2, <4>3, <4>5, <1>3, <1>5
      <3>3. CASE i \notin at + 1 .. at + Len(u)
        <4>1. c[i] = IF i <= Len(disk) THEN disk[i] ELSE Zero
          BY <1>12, <1>15, <3>1, <3>3
        <4>2. i <= Len(b) => b[i] = IF i <= Len(disk) THEN disk[i] ELSE Zero
          BY <1>11, <2>1, <3>3
        <4>3. i <= Len(disk) => i <= Len(b)
          BY <1>3, <1>4, <1>11, <2>1 DEF Larger
        <4> QED BY <2>1, <2>4, <4>1, <4>2, <4>3, <1>3, <1>5
      <3> QED BY <3>2, <3>3
    <2> QED BY <1>3, <1>5, <2>1, <2>2, <2>3, <2>4
  <1>16. UNCHANGED Appending
    BY DEF Appending
  <1> HIDE DEF place, end
  <1>17. Place = place /\ Place' = end
    BY <1>3 DEF place, end
  <1>18. File!Write(piece)
    BY <1>8, <1>10, <1>14, <1>15, <1>16, <1>17 DEF File!Write, end
  <1> QED BY <1>18 DEF File!Next, Pieces, Parts

\* Cardinality as the instance of ByteFile has it.
LEMMA SameCardinality == \A S : File!Cardinality(S) = Cardinality(S)
  BY DEF File!Cardinality, Cardinality

\* What a failing flush, or a close, loses is within the bytes the buffer holds.
LEMMA LossIsSeen ==
  ASSUME CapacitiesBounded, Inv, Inv', cls = "BufferedFileIO", lost',
         NEW n \in Capacities, buffer.size <= n,
         NEW p \in Seq(FileByte), Len(p) <= n, Content' = Overlay(disk, WritePlace, p)
  PROVE  File!Next
  <1>1. PICK at : at = WritePlace
    OBVIOUS
  <1>2. PICK u : u = Waiting
    OBVIOUS
  <1>3. u \in Seq(FileByte) /\ at \in Nat /\ Content \in Seq(FileByte) /\ IsOverlay(Content, disk, at, u, FileByte) /\ Len(u) <= n
    BY <1>1, <1>2, ViewNow DEF ViewIs
  <1>4. disk \in Seq(FileByte) /\ Len(disk) \in Nat /\ n \in Nat /\ Len(u) \in Nat /\ Len(p) \in Nat
    BY <1>3, StreamAssumption DEF Inv, FileOK
  <1>5. PICK b : b = Content
    OBVIOUS
  <1>6. PICK c : c = Content'
    OBVIOUS
  <1>7. IsOverlay(c, disk, at, p, FileByte)
    <2>1. IsOverlay(Overlay(disk, at, p), disk, at, p, FileByte)
      BY <1>3, <1>4, Overlaid DEF FileByte
    <2> QED BY <1>1, <1>6, <2>1
  <1>8. /\ b \in Seq(FileByte) /\ \A i \in 1..Len(b) : b[i] = IF i \in at + 1 .. at + Len(u) THEN u[i - at] ELSE IF i <= Len(disk) THEN disk[i] ELSE Zero
    BY <1>3, <1>5 DEF IsOverlay
  <1>9. /\ c \in Seq(FileByte) /\ Len(c) >= Len(disk)
        /\ \A i \in 1..Len(c) : c[i] = IF i \in at + 1 .. at + Len(p) THEN p[i - at] ELSE IF i <= Len(disk) THEN disk[i] ELSE Zero
    BY <1>3, <1>4, <1>7 DEF IsOverlay, Larger
  <1> DEFINE D == {i \in DOMAIN b : b[i] # Zero /\ (i > Len(c) \/ c[i] # b[i])}
             W == at + 1 .. at + n
  <1>10. D \subseteq W
    <2> SUFFICES ASSUME NEW i \in DOMAIN b, b[i] # Zero, i > Len(c) \/ c[i] # b[i], i \notin W PROVE FALSE
      OBVIOUS
    <2>1. i \in 1..Len(b) /\ i \in Nat /\ i > 0
      BY <1>8
    <2>2. i \notin at + 1 .. at + Len(u) /\ i \notin at + 1 .. at + Len(p)
      BY <1>3, <1>4, <2>1
    <2>3. i <= Len(disk) /\ b[i] = disk[i]
      BY <1>4, <1>8, <2>1, <2>2
    <2>4. i \in 1..Len(c)
      BY <1>4, <1>9, <2>1, <2>3
    <2>5. c[i] = disk[i]
      BY <1>9, <2>2, <2>3, <2>4
    <2> QED BY <1>9, <2>3, <2>4, <2>5
  <1>11. Cardinality(D) <= n
    <2>1. IsFiniteSet(W) /\ Cardinality(W) = n
      <3>1. PICK x \in Int : x = at + 1
        BY <1>3
      <3>2. PICK y \in Int : y = at + n
        BY <1>3, <1>4
      <3>3. IsFiniteSet(x..y) /\ Cardinality(x..y) = IF x > y THEN 0 ELSE y - x + 1
        BY FS_Interval
      <3> QED BY <1>3, <1>4, <3>1, <3>2, <3>3
    <2> HIDE DEF D, W
    <2>2. Cardinality(D) <= Cardinality(W)
      BY <1>10, <2>1, FS_Subset
    <2> QED BY <2>1, <2>2
  <1>12. Cardinality(D) \in Nat
    <2>1. IsFiniteSet(W)
      BY <1>3, <1>4, FS_Interval
    <2> HIDE DEF D, W
    <2>2. IsFiniteSet(D)
      BY <1>10, <2>1, FS_Subset
    <2> QED BY <2>2, FS_CardinalityType
  <1> HIDE DEF D
  <1>13. Largest \in Capacities /\ n <= Largest /\ Largest \in Nat
    <2>1. \E l \in Capacities : \A k \in Capacities : k <= l
      BY DEF CapacitiesBounded
    <2> QED BY <2>1, StreamAssumption DEF Largest
  <1>14. Cardinality(D) <= Largest
    BY <1>4, <1>11, <1>12, <1>13
  <1>15. File!Cardinality(D) <= Largest
    BY <1>14, SameCardinality
  <1>16. File!Lose
    BY <1>5, <1>6, <1>15 DEF File!Lose, D, Largest
  <1> QED BY <1>16 DEF File!Next

------------------------------------------------------------------------------
(* The steps of the plain classes.                                            *)

LEMMA Whole ==
  ASSUME NEW S, NEW s \in Seq(S)
  PROVE  SubSeq(s, 1, Len(s)) = s
  <1>1. PICK n \in Nat : n = Len(s)
    OBVIOUS
  <1>2. /\ SubSeq(s, 1, n) \in Seq(S) /\ Len(SubSeq(s, 1, n)) = IF 1 <= n THEN n - 1 + 1 ELSE 0
        /\ \A i \in 1 .. n - 1 + 1 : SubSeq(s, 1, n)[i] = s[1 + i - 1]
    BY <1>1, Part
  <1> DEFINE t == SubSeq(s, 1, n)
  <1>3. t \in Seq(S) /\ Len(t) = n /\ \A i \in 1..n : t[i] = s[i]
    BY <1>1, <1>2
  <1> HIDE DEF t
  <1>4. t = s
    BY <1>1, <1>3, SameSeq
  <1> QED BY <1>1, <1>4 DEF t

\* A step that leaves the file and what is waiting for it.
LEMMA PlainKept ==
  ASSUME Inv, Inv', HoldInv, cls # "none", cls # "MappedFileIO", UNCHANGED <<cls, mode, disk>>, ~lost',
         Waiting' = Waiting, buffer'.size = buffer.size, rest = <<>>,
         cls = "BufferedFileIO" => Capacity(buffer') \in Capacities \cup {0},
         cls = "BufferedFileIO" /\ buffer.size > 0 /\ "App" \notin mode => writeIdx' = writeIdx,
         rest' = <<>> \/ (rest' \in Writes /\ writeIdx' >= 0)
  PROVE  HoldInv' /\ File!Next
  <1>1. cls = "BufferedFileIO" => buffer.size \in Nat
    BY DEF Inv, BufferOK, ByteBufferType
  <1>2. ASSUME cls = "BufferedFileIO", buffer.size > 0, "App" \notin mode PROVE writeIdx >= 0 /\ writeIdx' = writeIdx
    <2>1. Held > 0
      BY <1>1, <1>2 DEF Held
    <2> QED BY <1>2, <2>1 DEF HoldInv
  <1>3. rest' # <<>> => \E w \in Writes : \E k \in 0..Len(w) : rest' = SubSeq(w, k + 1, Len(w))
    <2>1. ASSUME rest' \in Writes PROVE rest' = SubSeq(rest', 0 + 1, Len(rest')) /\ 0 \in 0..Len(rest')
      <3>1. PICK w : w = rest'
        OBVIOUS
      <3>2. w \in Seq(Byte)
        BY <2>1, <3>1, StreamAssumption
      <3>3. SubSeq(w, 1, Len(w)) = w /\ Len(w) \in Nat /\ 0 + 1 = 1
        BY <3>2, Whole
      <3> QED BY <3>1, <3>3
    <2> QED BY <2>1
  <1>4. cls = "BufferedFileIO" /\ Held' > 0 /\ "App" \notin mode => writeIdx' >= 0
    <2>1. CASE rest' = <<>>
      <3>1. Held' = buffer'.size + 0
        BY <2>1 DEF Held
      <3> QED BY <1>1, <1>2, <3>1
    <2>2. CASE rest' # <<>>
      BY <2>2
    <2> QED BY <2>1, <2>2
  <1>5. HoldInv'
    BY <1>3, <1>4 DEF HoldInv
  <1>6. /\ Content = Overlay(disk, WritePlace, Waiting)
        /\ Content' = Overlay(disk, WritePlace', Waiting)
    BY ViewNow, ViewNext DEF ViewIs
  <1>7. Content' = Content
    <2>1. CASE Waiting = <<>>
      BY <1>6, <2>1 DEF Overlay
    <2>2. CASE Waiting # <<>>
      <3>1. cls = "BufferedFileIO" /\ buffer.size > 0
        <4>1. cls = "BufferedFileIO" /\ Waiting \in Seq(FileByte) /\ Len(Waiting) = buffer.size
          BY <2>2, ViewNow DEF ViewIs, Waiting
        <4>2. Len(Waiting) # 0
          BY <2>2, <4>1, EmptySeq
        <4> QED BY <1>1, <4>1, <4>2
      <3>2. WritePlace' = WritePlace
        BY <1>2, <3>1 DEF WritePlace, MovedTo
      <3> QED BY <1>6, <3>2
    <2> QED BY <2>1, <2>2
  <1>8. File!Next
    BY <1>7, KeptIsSeen
  <1> QED BY <1>5, <1>8

\* The buffer itself is untouched, too.
LEMMA BufferKept ==
  ASSUME Inv, Inv', HoldInv, cls # "none", cls # "MappedFileIO", UNCHANGED <<cls, mode, disk, buffer>>, ~lost', rest = <<>>,
         writeIdx' = writeIdx \/ (cls = "BufferedFileIO" => buffer.size = 0 \/ "App" \in mode),
         rest' = <<>> \/ (rest' \in Writes /\ writeIdx' >= 0)
  PROVE  HoldInv' /\ File!Next
  <1>1. Waiting' = Waiting
    BY DEF Waiting
  <1>2. cls = "BufferedFileIO" => Capacity(buffer') \in Capacities \cup {0}
    BY DEF HoldInv
  <1>3. buffer'.size = buffer.size
    OBVIOUS
  <1>4. cls = "BufferedFileIO" => buffer.size \in Nat
    BY DEF Inv, BufferOK, ByteBufferType
  <1>5. cls = "BufferedFileIO" /\ buffer.size > 0 /\ "App" \notin mode => writeIdx' = writeIdx
    BY <1>4
  <1> QED BY <1>1, <1>2, <1>3, <1>5, PlainKept

LEMMA SeesPlainSeek ==
  ASSUME Inv, Inv', HoldInv, NEW s \in Seeks, Seekg(s[1], s[2]) \/ Seekp(s[1], s[2]), cls # "MappedFileIO"
  PROVE  HoldInv' /\ File!Next
  <1>1. Idle /\ ~lost' /\ UNCHANGED <<rest, cls, buffer>> /\ rest = <<>> /\ cls # "none"
    BY DEF Seekg, Seekp, Idle
  <1>2. UNCHANGED <<disk, mode>>
    BY DEF Seekg, Seekp, FileSeekg, FileSeekp
  <1>3. writeIdx' = writeIdx \/ buffer.size = 0 \/ "App" \in mode
    BY DEF Seekg, Seekp, FileSeekg
  <1> QED BY <1>1, <1>2, <1>3, BufferKept

LEMMA SeesPlainRead ==
  ASSUME Inv, Inv', HoldInv, Read(2) \/ ReadByte, cls # "MappedFileIO"
  PROVE  HoldInv' /\ File!Next
  <1>1. ~lost' /\ UNCHANGED <<rest, cls, buffer>> /\ \E n \in {1, 2} : FileRead(n) \/ FileReadFails
    BY DEF Read, ReadByte
  <1>2. rest = <<>> /\ cls # "none"
    BY DEF Read, ReadByte, Idle, Inv, Shape, LineCall
  <1>3. UNCHANGED <<disk, mode, writeIdx>>
    BY <1>1 DEF FileRead, FileReadFails
  <1> QED BY <1>1, <1>2, <1>3, BufferKept

LEMMA SeesPlainCall ==
  ASSUME Inv, Inv', HoldInv, (\E op \in LineCall \ {"rangeFor"} : StartLines(op)) \/ CountReturns \/ Return, cls # "MappedFileIO"
  PROVE  HoldInv' /\ File!Next
  <1>1. rest = <<>> /\ cls # "none"
    <2>1. Idle \/ call.phase # "reading"
      BY DEF StartLines, CountReturns, Return
    <2>2. NoCall.phase = "reading"
      BY DEF NoCall
    <2> QED BY <2>1, <2>2 DEF Idle, Inv, Shape
  <1>2. ~lost' /\ UNCHANGED <<rest, cls>> /\ UNCHANGED <<disk, mode, writeIdx, buffer>>
    BY DEF StartLines, CountReturns, Return, FileSeekg, fileVars
  <1> QED BY <1>1, <1>2, BufferKept

LEMMA SeesConfigure ==
  ASSUME Inv, Inv', HoldInv, Configure, cls # "MappedFileIO"
  PROVE  HoldInv' /\ File!Next
  <1>1. PICK n \in Capacities : SetBufferCapacity(n)
    BY DEF Configure
  <1>2. cls = "BufferedFileIO" /\ rest = <<>> /\ UNCHANGED <<cls, call, rest, disk, mode, writeIdx>> /\ ~lost' /\ n \in Nat \ {0}
    BY <1>1, StreamAssumption DEF Configure, Idle, SetBufferCapacity, fileVars
  <1>3. PICK b : b = buffer
    OBVIOUS
  <1>4. PICK t : t = Allocated(b, n)
    OBVIOUS
  <1>5. b \in ByteBufferType /\ Gathers(b) /\ BufferOK(b) /\ b.size \in Nat /\ b.size <= Len(b.data) /\ Len(b.data) \in Nat
    BY <1>2, <1>3 DEF Inv, Shape, BufferOK, Capacity, ByteBufferType
  <1>6. t \in ByteBufferType /\ t.size = b.size /\ Len(b.data) <= Len(t.data) /\ \A i \in 1..Len(b.data) : t.data[i] = b.data[i]
    BY <1>2, <1>4, <1>5, AllocatedType
  <1>7. Capacity(t) \in {Capacity(b), n}
    <2>1. CASE ~(Capacity(b) < n)
      BY <1>4, <2>1 DEF Allocated
    <2>2. CASE Capacity(b) < n
      <3> DEFINE g == Fill(Garbage, n - Len(b.data))
      <3>1. g \in Seq({Garbage}) /\ Len(g) = n - Len(b.data)
        BY <1>2, <1>5, <2>2 DEF Fill, Capacity
      <3>2. b.data \in Seq(BufferByte)
        BY <1>5 DEF ByteBufferType, BufferByte
      <3> HIDE DEF g
      <3>3. Len(b.data \o g) = n
        BY <1>2, <1>5, <3>1, <3>2
      <3>4. t.data = b.data \o g
        BY <1>4, <1>5, <2>2 DEF Allocated, g, ByteBufferType
      <3> QED BY <3>3, <3>4 DEF Capacity
    <2> QED BY <2>1, <2>2
  <1>8. Contents(t) = Contents(b)
    <2>1. t.data \in Seq(BufferByte) /\ b.data \in Seq(BufferByte) /\ Len(t.data) \in Nat
      BY <1>5, <1>6 DEF ByteBufferType, BufferByte
    <2>2. PICK z \in Nat : z = b.size
      BY <1>5
    <2>3. /\ SubSeq(t.data, 1, z) \in Seq(BufferByte) /\ Len(SubSeq(t.data, 1, z)) = z /\ \A i \in 1..z : SubSeq(t.data, 1, z)[i] = t.data[i]
      BY <1>5, <1>6, <2>1, <2>2, Part
    <2>4. /\ SubSeq(b.data, 1, z) \in Seq(BufferByte) /\ Len(SubSeq(b.data, 1, z)) = z /\ \A i \in 1..z : SubSeq(b.data, 1, z)[i] = b.data[i]
      BY <1>5, <2>1, <2>2, Part
    <2>5. \A i \in 1..z : SubSeq(t.data, 1, z)[i] = SubSeq(b.data, 1, z)[i]
      BY <1>5, <1>6, <2>2, <2>3, <2>4
    <2>6. SubSeq(t.data, 1, z) = SubSeq(b.data, 1, z)
      BY <2>3, <2>4, <2>5, SameSeq
    <2> QED BY <1>6, <2>2, <2>6 DEF Contents
  <1>9. buffer' = t
    BY <1>1, <1>3, <1>4 DEF SetBufferCapacity
  <1>10. Waiting' = Waiting
    BY <1>2, <1>3, <1>8, <1>9 DEF Waiting
  <1>11. Capacity(buffer') \in Capacities \cup {0} /\ buffer'.size = buffer.size
    BY <1>2, <1>3, <1>6, <1>7, <1>9 DEF HoldInv
  <1> QED BY <1>2, <1>10, <1>11, PlainKept

------------------------------------------------------------------------------
(* Writing and flushing.                                                      *)

\* A part of what one call was given.
LEMMA PieceOf ==
  ASSUME NEW w \in Writes, NEW k \in 0..Len(w), NEW n \in 1..(Len(w) - k), NEW s, s = SubSeq(w, k + 1, Len(w))
  PROVE  SubSeq(s, 1, n) \in Pieces /\ Len(SubSeq(s, 1, n)) = n /\ SubSeq(s, 1, n) \in Seq(Byte)
  <1>1. w \in Seq(Byte) /\ Len(w) \in Nat /\ k \in Nat /\ n \in Nat \ {0}
    BY StreamAssumption
  <1>2. /\ s \in Seq(Byte) /\ Len(s) = Len(w) - k /\ \A i \in 1..(Len(w) - k) : s[i] = w[k + i]
    <2>1. PICK m : m = k + 1
      OBVIOUS
    <2>2. PICK l : l = Len(w)
      OBVIOUS
    <2>3. /\ SubSeq(w, m, l) \in Seq(Byte) /\ Len(SubSeq(w, m, l)) = IF m <= l THEN l - m + 1 ELSE 0
          /\ \A i \in 1 .. l - m + 1 : SubSeq(w, m, l)[i] = w[m + i - 1]
      BY <1>1, <2>1, <2>2, Part
    <2> QED BY <1>1, <2>1, <2>2, <2>3
  <1>3. /\ SubSeq(s, 1, n) \in Seq(Byte) /\ Len(SubSeq(s, 1, n)) = IF 1 <= n THEN n - 1 + 1 ELSE 0
        /\ \A i \in 1 .. n - 1 + 1 : SubSeq(s, 1, n)[i] = s[1 + i - 1]
    BY <1>1, <1>2, Part
  <1> DEFINE t == SubSeq(s, 1, n)
             x == k + 1
             y == k + n
             v == SubSeq(w, x, y)
  <1>4. t \in Seq(Byte) /\ Len(t) = n /\ \A i \in 1..n : t[i] = w[k + i]
    BY <1>1, <1>2, <1>3
  <1>5. x \in 1..Len(w) /\ y \in 1..Len(w) /\ x <= y
    BY <1>1
  <1>6. /\ v \in Seq(Byte) /\ Len(v) = n /\ \A i \in 1..n : v[i] = w[k + i]
    <2>1. /\ v \in Seq(Byte) /\ Len(v) = IF x <= y THEN y - x + 1 ELSE 0
          /\ \A i \in 1 .. y - x + 1 : v[i] = w[x + i - 1]
      BY <1>1, <1>5, Part
    <2> QED BY <1>1, <1>5, <2>1
  <1> HIDE DEF t, v, x, y
  <1>7. t = v
    BY <1>4, <1>6, SameSeq
  <1>8. v \in Parts
    BY <1>5 DEF Parts, v
  <1>9. t # <<>>
    BY <1>1, <1>4, EmptySeq
  <1> QED BY <1>4, <1>7, <1>8, <1>9 DEF Pieces, t

\* What place a write that succeeded leaves.
LEMMA PlaceAfter ==
  ASSUME FileOK, NEW bytes \in Seq(FileByte), NEW n \in 1..Len(bytes), FileWrite(bytes, n), "App" \in mode \/ writeIdx >= 0
  PROVE  WritePlace' = WritePlace + n
  <1>1. disk \in Seq(FileByte) /\ Len(disk) \in Nat /\ WritePlace \in Nat /\ n \in Nat \ {0} /\ mode' = mode
    BY WritePlaceType DEF FileOK, FileWrite
  <1>2. CASE "App" \in mode
    <2>1. PICK s : s = SubSeq(bytes, 1, n)
      OBVIOUS
    <2>2. s \in Seq(FileByte) /\ Len(s) = n
      BY <2>1, Part
    <2>3. PICK at : at = WritePlace
      OBVIOUS
    <2>4. IsOverlay(Overlay(disk, at, s), disk, at, s, FileByte)
      BY <1>1, <2>2, <2>3, Overlaid DEF FileByte
    <2>5. disk' = Overlay(disk, at, s)
      BY <2>1, <2>3 DEF FileWrite
    <2>6. Len(disk') = Larger(Len(disk), at + n) /\ at = Len(disk)
      BY <1>1, <1>2, <2>2, <2>3, <2>4, <2>5, EmptySeq DEF IsOverlay, WritePlace
    <2> QED BY <1>1, <1>2, <2>3, <2>6 DEF WritePlace, Larger
  <1>3. CASE "App" \notin mode
    BY <1>1, <1>3 DEF WritePlace, MovedTo, FileWrite, FileOK
  <1> QED BY <1>2, <1>3

\* A plain stream that has nothing waiting shows the file.
LEMMA NothingWaiting ==
  ASSUME Inv, cls # "MappedFileIO", cls = "BufferedFileIO" => buffer.size = 0
  PROVE  Waiting = <<>> /\ Content = disk /\ Place = WritePlace
  <1>1. Waiting \in Seq(FileByte) /\ Len(Waiting) = 0
    BY ViewNow DEF ViewIs, Waiting
  <1>2. Waiting = <<>>
    BY <1>1, EmptySeq
  <1>3. Content = disk /\ Place = WritePlace + 0 /\ WritePlace \in Nat
    BY <1>1, <1>2, ViewNow DEF ViewIs, Overlay
  <1> QED BY <1>2, <1>3

LEMMA NothingWaitingNext ==
  ASSUME Inv', cls' # "MappedFileIO", cls' = "BufferedFileIO" => buffer'.size = 0
  PROVE  Content' = disk' /\ Place' = WritePlace'
  <1>1. Waiting' \in Seq(FileByte) /\ Len(Waiting') = 0
    BY ViewNext DEF ViewIs, Waiting
  <1>2. Waiting' = <<>>
    BY <1>1, EmptySeq
  <1>3. Content' = Overlay(disk', WritePlace', Waiting') /\ Place' = WritePlace' + Len(Waiting') /\ WritePlace' \in Nat
    BY ViewNext DEF ViewIs
  <1>4. Content' = disk'
    BY <1>2, <1>3 DEF Overlay
  <1>5. Place' = WritePlace'
    <2>1. PICK x : x = WritePlace'
      OBVIOUS
    <2>2. PICK l : l = Len(Waiting')
      OBVIOUS
    <2>3. PICK p : p = Place'
      OBVIOUS
    <2>4. x \in Nat /\ l = 0 /\ p = x + l
      BY <1>1, <1>3, <2>1, <2>2, <2>3
    <2>5. p = x
      BY <2>4
    <2> QED BY <2>1, <2>3, <2>5
  <1> QED BY <1>4, <1>5

LEMMA SeesFileWrite ==
  ASSUME Inv, Inv', HoldInv, NEW bytes \in Writes, Write(bytes), cls = "FileIO"
  PROVE  HoldInv' /\ File!Next
  <1>1. /\ Idle /\ rest = <<>> /\ ~lost' /\ writeIdx >= 0 /\ UNCHANGED <<buffer, rest, cls>>
        /\ FileWriteFails \/ \E n \in 1..Len(bytes) : FileWrite(bytes, n)
    BY DEF Write, Idle
  <1>2. CASE FileWriteFails
    <2>1. UNCHANGED <<disk, mode, writeIdx>>
      BY <1>2 DEF FileWriteFails
    <2> QED BY <1>1, <2>1, BufferKept
  <1>3. ASSUME NEW n \in 1..Len(bytes), FileWrite(bytes, n) PROVE HoldInv' /\ File!Next
    <2>1. bytes \in Seq(Byte) /\ bytes \in Seq(FileByte) /\ Len(bytes) \in Nat
      BY StreamAssumption DEF FileByte
    <2>2. SubSeq(bytes, 1, Len(bytes)) = bytes
      BY <2>1, Whole
    <2> DEFINE piece == SubSeq(bytes, 1, n)
    <2>3. piece \in Pieces /\ Len(piece) = n /\ piece \in Seq(FileByte)
      <3>1. PICK k : k = 0
        OBVIOUS
      <3>2. k \in 0..Len(bytes) /\ n \in 1..(Len(bytes) - k) /\ k + 1 = 1
        BY <2>1, <3>1
      <3>3. bytes = SubSeq(bytes, k + 1, Len(bytes))
        BY <2>2, <3>2
      <3>4. piece \in Pieces /\ Len(piece) = n
        BY <3>2, <3>3, PieceOf
      <3> QED BY <2>1, <3>4, Part
    <2>4. Content = disk /\ Waiting = <<>> /\ Place = WritePlace
      BY NothingWaiting
    <2>5. Content' = disk' /\ Place' = WritePlace'
      BY <1>1, NothingWaitingNext
    <2>6. disk' = Overlay(disk, WritePlace, piece) /\ mode' = mode
      BY <1>3 DEF FileWrite
    <2>7. Waiting \o piece = piece
      BY <2>3, <2>4
    <2>8. WritePlace' = WritePlace + n
      BY <1>1, <1>3, <2>1, PlaceAfter DEF Inv
    <2> HIDE DEF piece
    <2>9. File!Next
      BY <1>1, <2>3, <2>4, <2>5, <2>6, <2>7, <2>8, WriteIsSeen
    <2>10. HoldInv'
      BY <1>1 DEF HoldInv
    <2> QED BY <2>9, <2>10
  <1> QED BY <1>1, <1>2, <1>3

LEMMA SeesBufferedWrite ==
  ASSUME Inv, Inv', HoldInv, NEW bytes \in Writes, Write(bytes), cls = "BufferedFileIO"
  PROVE  HoldInv' /\ File!Next
  <1>1. Idle /\ rest = <<>> /\ ~lost' /\ writeIdx >= 0 /\ rest' = bytes /\ UNCHANGED <<fileVars, buffer, cls>>
    BY DEF Write, Idle
  <1>2. UNCHANGED <<disk, mode, writeIdx>>
    BY <1>1 DEF fileVars
  <1> QED BY <1>1, <1>2, BufferKept

\* The buffer f holds a piece behind what was waiting.
HoldsMore(f, piece) ==
  /\ BufferOK(f) /\ Gathers(f) /\ Capacity(f) = Capacity(buffer)
  /\ piece \in Seq(FileByte) /\ (piece = <<>> \/ piece \in Pieces)
  /\ Contents(f) = Waiting \o piece
  /\ f.size > 0 /\ "App" \notin mode => writeIdx >= 0

LEMMA FlushIsSeen ==
  ASSUME CapacitiesBounded, Inv, Inv', HoldInv, cls = "BufferedFileIO", cls' = cls, NEW f, NEW piece, HoldsMore(f, piece), FlushOf(f)
  PROVE  /\ File!Next /\ Capacity(buffer') = Capacity(buffer) /\ buffer'.size = 0 /\ mode' = mode
         /\ writeIdx >= 0 => writeIdx' >= 0
  <1> DEFINE all == Contents(f)
  <1>1. BufferOK(f) /\ Gathers(f) /\ Capacity(f) = Capacity(buffer) /\ piece \in Seq(FileByte)
    BY DEF HoldsMore
  <1>2. all \in Seq(FileByte) /\ Len(all) = f.size /\ all = Waiting \o piece
    BY <1>1, ContentsType DEF HoldsMore
  <1>3. Waiting \in Seq(FileByte) /\ Len(Waiting) = buffer.size /\ WritePlace \in Nat /\ Place = WritePlace + Len(Waiting)
        /\ Content = Overlay(disk, WritePlace, Waiting)
    BY ViewNow DEF ViewIs
  <1>4. f.size \in Nat /\ f.size <= Capacity(f) /\ Capacity(f) \in Nat /\ buffer.size \in Nat
    BY <1>1, <1>3 DEF BufferOK, Capacity, ByteBufferType
  <1>5. f.size = Len(Waiting) + Len(piece)
    <2>1. PICK w : w = Waiting
      OBVIOUS
    <2>2. w \in Seq(FileByte) /\ piece \in Seq(FileByte)
      BY <1>1, <1>3, <2>1
    <2>3. Len(w \o piece) = Len(w) + Len(piece)
      BY <2>2
    <2>4. all = w \o piece
      BY <1>2, <2>1
    <2> HIDE DEF all
    <2> QED BY <1>2, <2>1, <2>3, <2>4
  <1>6. buffer.size <= f.size
    BY <1>1, <1>3, <1>4, <1>5
  <1> HIDE DEF all
  <1>7. Capacity(buffer') = Capacity(buffer) /\ buffer'.size = 0
    <2>1. buffer' = Cleared(f) /\ f \in ByteBufferType
      BY <1>1 DEF FlushOf, BufferOK
    <2> QED BY <1>1, <2>1, ClearedType DEF Capacity
  <1>8. Content' = disk' /\ Place' = WritePlace'
    BY <1>7, NothingWaitingNext
  <1>9. FileOK /\ disk \in Seq(FileByte)
    BY DEF Inv, FileOK
  <1>10. f.size = 0 => all = <<>> /\ Waiting = <<>> /\ Content = disk
    <2>1. f.size = 0 => Len(all) = 0 /\ Len(Waiting) = 0
      BY <1>1, <1>2, <1>3, <1>4, <1>5
    <2>2. f.size = 0 => all = <<>> /\ Waiting = <<>>
      BY <1>2, <1>3, <2>1, EmptySeq
    <2> QED BY <1>3, <2>2 DEF Overlay
  \* What is lost is at most what the buffer held.
  <1>11. ASSUME lost', f.size > 0, NEW p \in Seq(FileByte), Len(p) <= f.size, disk' = Overlay(disk, WritePlace, p) PROVE File!Next
    <2>1. PICK n : n = Capacity(buffer)
      OBVIOUS
    <2>2. n \in Capacities /\ buffer.size <= n /\ Len(p) <= n
      BY <1>1, <1>4, <1>6, <1>11, <2>1 DEF HoldInv
    <2> QED BY <1>8, <1>11, <2>2, LossIsSeen
  <1>12. ASSUME NEW n \in 0..f.size, n = 0 => f.size = 0, FileWrite(Contents(f), n), lost' = (n < f.size)
         PROVE  File!Next /\ mode' = mode /\ (writeIdx >= 0 => writeIdx' >= 0)
    <2>1. disk' = Overlay(disk, WritePlace, SubSeq(all, 1, n)) /\ mode' = mode /\ writeIdx' = writeIdx + n /\ FileWrite(all, n)
      BY <1>12 DEF FileWrite, all
    <2>2. writeIdx >= 0 => writeIdx' >= 0
      BY <1>4, <1>9, <1>12, <2>1 DEF FileOK
    <2>3. CASE f.size = 0
      <3>1. SubSeq(all, 1, n) = <<>>
        BY <1>10, <2>3
      <3>2. disk' = disk /\ ~lost'
        <4>1. ~(n < f.size)
          BY <1>12, <2>3
        <4>2. ~lost'
          BY <1>12, <4>1, Zenon
        <4>3. disk' = disk
          BY <2>1, <3>1 DEF Overlay
        <4> QED BY <4>2, <4>3
      <3> QED BY <1>8, <1>10, <2>1, <2>2, <2>3, <3>2, KeptIsSeen
    <2>4. CASE n = f.size /\ f.size > 0
      <3>1. disk' = Overlay(disk, WritePlace, all) /\ ~lost'
        <4>1. SubSeq(all, 1, Len(all)) = all
          BY <1>2, Whole
        <4>2. ~(n < f.size)
          BY <1>4, <2>4
        <4>3. ~lost'
          BY <1>12, <4>2, Zenon
        <4>4. SubSeq(all, 1, n) = all
          BY <1>2, <2>4, <4>1
        <4> QED BY <2>1, <4>3, <4>4
      <3>2. CASE piece = <<>>
        <4>1. all = Waiting
          BY <1>2, <1>3, <3>2
        <4> QED BY <1>3, <1>8, <2>1, <2>2, <3>1, <4>1, KeptIsSeen
      <3>3. CASE piece \in Pieces
        <4>1. WritePlace' = WritePlace + n
          <5>1. n \in 1..Len(all) /\ ("App" \in mode \/ writeIdx >= 0)
            BY <1>2, <1>4, <2>4 DEF HoldsMore
          <5> QED BY <1>2, <1>9, <2>1, <5>1, PlaceAfter
        <4>2. Place' = Place + Len(piece)
          BY <1>1, <1>3, <1>5, <1>8, <2>4, <4>1
        <4> QED BY <1>1, <1>2, <1>8, <2>1, <2>2, <3>1, <3>3, <4>2, WriteIsSeen
      <3> QED BY <3>2, <3>3 DEF HoldsMore
    <2>5. CASE n < f.size /\ f.size > 0
      <3>1. SubSeq(all, 1, n) \in Seq(FileByte) /\ Len(SubSeq(all, 1, n)) <= f.size
        BY <1>2, <1>4, <2>5, Part
      <3>2. lost'
        BY <1>12, <2>5
      <3> QED BY <1>11, <2>1, <2>2, <2>5, <3>1, <3>2
    <2> QED BY <1>4, <1>12, <2>3, <2>4, <2>5
  <1>13. CASE FileWriteFails /\ lost' = (f.size > 0)
    <2>1. UNCHANGED <<disk, mode, writeIdx>>
      BY <1>13 DEF FileWriteFails
    <2>2. CASE f.size = 0
      <3>1. ~lost'
        <4>1. ~(f.size > 0)
          BY <2>2
        <4> QED BY <1>13, <4>1, Zenon
      <3> QED BY <1>7, <1>8, <1>10, <2>1, <2>2, <3>1, KeptIsSeen
    <2>3. CASE f.size > 0
      <3>1. lost'
        BY <1>13, <2>3
      <3>2. <<>> \in Seq(FileByte) /\ Len(<<>>) <= f.size /\ disk' = Overlay(disk, WritePlace, <<>>)
        BY <2>1, <2>3, <1>4 DEF Overlay
      <3> QED BY <1>7, <1>11, <2>1, <2>3, <3>1, <3>2
    <2> QED BY <1>4, <2>2, <2>3
  <1> QED BY <1>7, <1>12, <1>13 DEF FlushOf, all

LEMMA SeesFlush ==
  ASSUME CapacitiesBounded, Inv, Inv', HoldInv, FlushBuffer
  PROVE  HoldInv' /\ File!Next
  <1>1. cls = "BufferedFileIO" /\ Idle /\ rest = <<>> /\ FlushOf(buffer) /\ UNCHANGED <<rest, cls>>
    BY DEF FlushBuffer, Flush, Idle
  <1>2. BufferOK(buffer) /\ Gathers(buffer) /\ buffer.size \in Nat
    BY <1>1 DEF Inv, Shape, BufferOK, ByteBufferType
  <1>3. Waiting \in Seq(FileByte) /\ Contents(buffer) = Waiting
    BY <1>1, ViewNow DEF ViewIs, Waiting
  <1>4. Waiting \o <<>> = Waiting
    BY <1>3
  <1>5. Held = buffer.size
    BY <1>1, <1>2 DEF Held
  <1>6. buffer.size > 0 /\ "App" \notin mode => writeIdx >= 0
    BY <1>1, <1>5 DEF HoldInv
  <1>7. HoldsMore(buffer, <<>>)
    BY <1>2, <1>3, <1>4, <1>6 DEF HoldsMore
  <1>8. /\ File!Next /\ Capacity(buffer') = Capacity(buffer) /\ buffer'.size = 0 /\ mode' = mode
    BY <1>1, <1>7, FlushIsSeen
  <1>9. Held' = 0
    BY <1>1, <1>8 DEF Held
  <1>10. HoldInv'
    BY <1>1, <1>8, <1>9 DEF HoldInv
  <1> QED BY <1>8, <1>10

LEMMA RoundHolds ==
  ASSUME Inv, HoldInv, WriteRound
  PROVE  \E f, piece : /\ HoldsMore(f, piece)
                       /\ FlushOf(f) \/ (buffer' = f /\ ~lost' /\ UNCHANGED fileVars)
                       /\ \E w \in Writes : \E k \in 0..Len(w) : rest' = SubSeq(w, k + 1, Len(w))
  <1>1. PICK f : RoundFills(f)
    BY RoundFilled
  <1>2. PICK n \in 0..Len(rest) : RoundTakes(f, n)
    BY <1>1 DEF RoundFills
  <1>3. /\ rest # <<>> /\ rest \in Seq(Byte) /\ cls = "BufferedFileIO" /\ BufferOK(buffer) /\ Gathers(buffer)
        /\ buffer.size \in Nat /\ buffer.size <= Len(buffer.data) /\ Len(buffer.data) \in Nat /\ buffer.data \in Seq(BufferByte)
    BY DEF WriteRound, Inv, Shape, CallOK, BufferOK, ByteBufferType, BufferByte, Capacity
  <1>4. Len(rest) \in Nat \ {0} /\ n \in Nat /\ n <= Len(rest)
    BY <1>2, <1>3, EmptySeq
  <1>5. PICK w \in Writes : \E k \in 0..Len(w) : rest = SubSeq(w, k + 1, Len(w))
    BY <1>3 DEF HoldInv
  <1>6. PICK k \in 0..Len(w) : rest = SubSeq(w, k + 1, Len(w))
    BY <1>5
  <1>7. w \in Seq(Byte) /\ Len(w) \in Nat /\ k \in Nat /\ k <= Len(w)
    BY <1>5, <1>6, StreamAssumption
  <1>8. Len(rest) = Len(w) - k /\ \A i \in 1..(Len(w) - k) : rest[i] = w[k + i]
    <2>1. PICK m : m = k + 1
      OBVIOUS
    <2>2. PICK l : l = Len(w)
      OBVIOUS
    <2>3. /\ Len(SubSeq(w, m, l)) = IF m <= l THEN l - m + 1 ELSE 0
          /\ \A i \in 1 .. l - m + 1 : SubSeq(w, m, l)[i] = w[m + i - 1]
      BY <1>7, <2>1, <2>2, Part
    <2>4. PICK r : r = rest
      OBVIOUS
    <2>5. r = SubSeq(w, m, l)
      BY <1>6, <2>1, <2>2, <2>4
    <2>6. l \in Nat /\ l - m + 1 = l - k /\ (IF m <= l THEN l - m + 1 ELSE 0) = l - k /\ \A i \in Nat : m + i - 1 = k + i
      BY <1>7, <2>1, <2>2
    <2>7. Len(r) = l - k
      BY <2>3, <2>5, <2>6
    <2>8. ASSUME NEW i \in 1..(l - k) PROVE r[i] = w[k + i]
      <3>1. i \in Nat /\ i \in 1 .. l - m + 1 /\ m + i - 1 = k + i
        BY <2>6, <2>8
      <3>2. SubSeq(w, m, l)[i] = w[m + i - 1]
        BY <2>3, <3>1
      <3> QED BY <2>5, <3>1, <3>2
    <2> QED BY <2>2, <2>4, <2>7, <2>8
  <1> DEFINE piece == SubSeq(rest, 1, n)
  <1>9. piece \in Seq(Byte) /\ Len(piece) = n /\ piece \in Seq(FileByte) /\ (piece = <<>> \/ piece \in Pieces)
    <2>1. piece \in Seq(Byte) /\ Len(piece) = n
      BY <1>3, <1>4, Part
    <2>2. piece \in Seq(FileByte)
      BY <2>1 DEF FileByte
    <2>3. n = 0 => piece = <<>>
      BY <2>1, EmptySeq
    <2>4. n # 0 => piece \in Pieces
      <3> SUFFICES ASSUME n # 0 PROVE piece \in Pieces
        OBVIOUS
      <3>1. n \in 1..(Len(w) - k)
        BY <1>4, <1>7, <1>8
      <3> QED BY <1>5, <1>6, <3>1, PieceOf
    <2> QED BY <2>1, <2>2, <2>3, <2>4
  <1>10. \E j \in 0..Len(w) : rest' = SubSeq(w, j + 1, Len(w))
    <2>1. PICK l : l = Len(rest)
      OBVIOUS
    <2>2. PICK m : m = n + 1
      OBVIOUS
    <2>3. PICK j : j = k + n
      OBVIOUS
    <2>4. PICK x : x = j + 1
      OBVIOUS
    <2>5. PICK y : y = Len(w)
      OBVIOUS
    <2>6. /\ SubSeq(rest, m, l) \in Seq(Byte) /\ Len(SubSeq(rest, m, l)) = IF m <= l THEN l - m + 1 ELSE 0
          /\ \A i \in 1 .. l - m + 1 : SubSeq(rest, m, l)[i] = rest[m + i - 1]
      BY <1>3, <1>4, <2>1, <2>2, Part
    <2>7. /\ SubSeq(w, x, y) \in Seq(Byte) /\ Len(SubSeq(w, x, y)) = IF x <= y THEN y - x + 1 ELSE 0
          /\ \A i \in 1 .. y - x + 1 : SubSeq(w, x, y)[i] = w[x + i - 1]
      BY <1>4, <1>7, <2>3, <2>4, <2>5, Part
    <2>8. Len(SubSeq(rest, m, l)) = y - j /\ Len(SubSeq(w, x, y)) = y - j
      <3>1. l = y - k /\ m = n + 1 /\ x = k + n + 1 /\ j = k + n /\ y \in Nat /\ l \in Nat /\ n <= l
        BY <1>4, <1>7, <1>8, <2>1, <2>2, <2>3, <2>4, <2>5
      <3>2. (IF m <= l THEN l - m + 1 ELSE 0) = y - j
        BY <1>4, <1>7, <3>1
      <3>3. (IF x <= y THEN y - x + 1 ELSE 0) = y - j
        BY <1>4, <1>7, <3>1
      <3> QED BY <2>6, <2>7, <3>2, <3>3
    <2>9. ASSUME NEW i \in 1..(y - j) PROVE SubSeq(rest, m, l)[i] = SubSeq(w, x, y)[i]
      <3>1. i \in Nat /\ n + i \in 1..(Len(w) - k) /\ i \in 1 .. l - m + 1 /\ i \in 1 .. y - x + 1
        BY <1>4, <1>7, <1>8, <2>1, <2>2, <2>3, <2>4, <2>5
      <3>2. SubSeq(rest, m, l)[i] = rest[n + i] /\ m + i - 1 = n + i
        BY <1>4, <2>2, <2>6, <3>1
      <3>3. rest[n + i] = w[k + (n + i)]
        BY <1>8, <3>1
      <3>4. SubSeq(w, x, y)[i] = w[j + i] /\ x + i - 1 = j + i
        BY <1>4, <1>7, <2>3, <2>4, <2>7, <3>1
      <3>5. k + (n + i) = j + i
        BY <1>4, <1>7, <2>3, <3>1
      <3> QED BY <3>2, <3>3, <3>4, <3>5
    <2>10. SubSeq(rest, m, l) = SubSeq(w, x, y)
      BY <2>6, <2>7, <2>8, <2>9, SameSeq
    <2>11. rest' = SubSeq(rest, m, l)
      BY <1>2, <2>1, <2>2 DEF RoundTakes
    <2>12. j \in 0..Len(w)
      BY <1>4, <1>7, <1>8, <2>3
    <2> QED BY <2>4, <2>5, <2>10, <2>11, <2>12
  <1> HIDE DEF piece
  <1>11. IsOverlay(f.data, buffer.data, buffer.size, piece, BufferByte) /\ f.size = buffer.size + n
    BY <1>2 DEF RoundTakes, piece
  <1>12. BufferOK(f) /\ Gathers(f) /\ Capacity(f) = Capacity(buffer) /\ (FlushOf(f) \/ (buffer' = f /\ ~lost' /\ UNCHANGED fileVars))
    BY <1>1 DEF RoundFills
  <1>13. Contents(f) = Waiting \o piece
    <2>1. PICK u : u = Waiting
      OBVIOUS
    <2>2. PICK z : z = buffer.size
      OBVIOUS
    <2>3. u \in Seq(FileByte) /\ Len(u) = z /\ z \in Nat /\ z + n <= Len(buffer.data)
      <3>1. f.size <= Len(buffer.data)
        BY <1>12 DEF BufferOK, Capacity
      <3> QED BY <1>3, <1>11, <2>1, <2>2, <3>1, ViewNow DEF ViewIs
    <2>4. \A i \in 1..z : u[i] = buffer.data[i]
      <3>1. u = SubSeq(buffer.data, 1, z)
        BY <1>3, <2>1, <2>2 DEF Waiting, Contents
      <3> QED BY <1>3, <2>2, <2>3, <3>1, Part
    <2> DEFINE v == u \o piece
    <2>5. /\ v \in Seq(FileByte) /\ Len(v) = z + n
          /\ \A i \in 1..(z + n) : v[i] = IF i <= z THEN u[i] ELSE piece[i - z]
      BY <1>4, <1>9, <2>3
    <2>6. Contents(f) \in Seq(FileByte) /\ Len(Contents(f)) = z + n
      BY <1>11, <1>12, <2>2, ContentsType
    <2>7. /\ f.data \in Seq(BufferByte) /\ z + n <= Len(f.data)
          /\ \A i \in 1..Len(f.data) : f.data[i] = IF i \in z + 1 .. z + n THEN piece[i - z] ELSE IF i <= Len(buffer.data) THEN buffer.data[i] ELSE Zero
      BY <1>9, <1>11, <1>12, <2>2, <2>3 DEF IsOverlay, Capacity
    <2>8. \A i \in 1..(z + n) : Contents(f)[i] = f.data[i]
      <3>1. PICK e : e = z + n
        OBVIOUS
      <3>2. e \in Nat /\ e <= Len(f.data)
        BY <1>4, <2>3, <2>7, <3>1
      <3>3. \A i \in 1..e : SubSeq(f.data, 1, e)[i] = f.data[i]
        BY <2>7, <3>2, Part
      <3> QED BY <1>11, <2>2, <3>1, <3>3 DEF Contents
    <2> HIDE DEF v
    <2>9. ASSUME NEW i \in 1..(z + n) PROVE Contents(f)[i] = v[i]
      <3>1. i \in Nat /\ i >= 1 /\ i <= z + n /\ i \in 1..Len(f.data)
        BY <1>4, <2>3, <2>7
      <3>2. CASE i <= z
        <4>1. i \in 1..z /\ i \notin z + 1 .. z + n /\ i <= Len(buffer.data)
          BY <1>3, <1>4, <2>3, <3>1, <3>2
        <4>2. f.data[i] = buffer.data[i]
          BY <2>7, <3>1, <4>1
        <4>3. v[i] = u[i]
          BY <2>5, <3>2
        <4> QED BY <2>4, <2>8, <4>1, <4>2, <4>3
      <3>3. CASE ~(i <= z)
        <4>1. i \in z + 1 .. z + n
          BY <1>4, <2>3, <3>1, <3>3
        <4>2. f.data[i] = piece[i - z]
          BY <2>7, <3>1, <4>1
        <4>3. v[i] = piece[i - z]
          BY <2>5, <3>3
        <4> QED BY <2>8, <4>2, <4>3
      <3> QED BY <3>2, <3>3
    <2>10. Contents(f) = v
      BY <2>5, <2>6, <2>9, SameSeq
    <2> QED BY <2>1, <2>10 DEF v
  <1>14. f.size > 0 /\ "App" \notin mode => writeIdx >= 0
    <2>1. Held > 0
      BY <1>3, <1>4 DEF Held
    <2> QED BY <1>3, <2>1 DEF HoldInv
  <1>15. HoldsMore(f, piece)
    BY <1>9, <1>12, <1>13, <1>14 DEF HoldsMore
  <1> QED BY <1>5, <1>10, <1>12, <1>15

LEMMA SeesWriteRound ==
  ASSUME CapacitiesBounded, Inv, Inv', HoldInv, WriteRound
  PROVE  HoldInv' /\ File!Next
  <1>1. PICK f, piece : /\ HoldsMore(f, piece)
                        /\ FlushOf(f) \/ (buffer' = f /\ ~lost' /\ UNCHANGED fileVars)
                        /\ \E w \in Writes : \E k \in 0..Len(w) : rest' = SubSeq(w, k + 1, Len(w))
    BY RoundHolds
  <1>2. /\ rest # <<>> /\ rest \in Seq(Byte) /\ cls = "BufferedFileIO" /\ cls' = cls /\ buffer.size \in Nat
    BY DEF WriteRound, Inv, Shape, CallOK, BufferOK, ByteBufferType
  <1>3. "App" \notin mode => writeIdx >= 0
    <2>1. Len(rest) \in Nat /\ Len(rest) # 0
      BY <1>2, EmptySeq
    <2>2. Held > 0
      BY <1>2, <2>1 DEF Held
    <2> QED BY <1>2, <2>2 DEF HoldInv
  <1>4. CASE FlushOf(f)
    <2>1. /\ File!Next /\ Capacity(buffer') = Capacity(buffer) /\ mode' = mode
          /\ writeIdx >= 0 => writeIdx' >= 0
      BY <1>1, <1>2, <1>4, FlushIsSeen
    <2>2. HoldInv'
      BY <1>1, <1>2, <1>3, <2>1 DEF HoldInv
    <2> QED BY <2>1, <2>2
  <1>5. CASE buffer' = f /\ ~lost' /\ UNCHANGED fileVars
    <2>1. UNCHANGED <<disk, mode, writeIdx, offset>>
      BY <1>5 DEF fileVars
    <2>2. HoldInv'
      BY <1>1, <1>2, <1>3, <1>5, <2>1 DEF HoldInv, HoldsMore
    <2>3. WritePlace' = WritePlace
      BY <2>1 DEF WritePlace, MovedTo
    <2>4. /\ Waiting \in Seq(FileByte) /\ Content = Overlay(disk, WritePlace, Waiting) /\ Place = WritePlace + Len(Waiting)
          /\ Content' = Overlay(disk, WritePlace, Waiting') /\ Place' = WritePlace + Len(Waiting') /\ WritePlace \in Nat
      BY <1>2, <2>1, <2>3, ViewNow, ViewNext DEF ViewIs
    <2>5. Waiting' = Waiting \o piece /\ piece \in Seq(FileByte)
      BY <1>1, <1>2, <1>5 DEF Waiting, HoldsMore
    <2>6. CASE piece = <<>>
      <3>1. Waiting' = Waiting
        BY <2>4, <2>5, <2>6
      <3> QED BY <1>2, <1>5, <2>1, <2>2, <2>4, <3>1, KeptIsSeen
    <2>7. CASE piece \in Pieces
      <3>1. PICK u : u = Waiting
        OBVIOUS
      <3>2. PICK x : x = WritePlace
        OBVIOUS
      <3>3. Len(u \o piece) = Len(u) + Len(piece) /\ Len(u) \in Nat /\ Len(piece) \in Nat /\ x \in Nat
        BY <2>4, <2>5, <3>1, <3>2
      <3>4. Place = x + Len(u) /\ Place' = x + Len(u \o piece)
        BY <2>4, <2>5, <3>1, <3>2
      <3>5. Place' = Place + Len(piece)
        BY <3>3, <3>4
      <3> QED BY <1>2, <1>5, <2>1, <2>2, <2>4, <2>5, <2>7, <3>5, WriteIsSeen
    <2> QED BY <1>1, <2>6, <2>7 DEF HoldsMore
  <1> QED BY <1>1, <1>4, <1>5
------------------------------------------------------------------------------
(* The steps of a map: what it shows stays, and behind it the file is zeros.   *)

\* The first k bytes of the file are in t, and behind them t has only zeros.
Shows(t, k) ==
  /\ k <= Len(t) /\ \A i \in 1..k : t[i] = disk[i]
  /\ \A i \in k + 1 .. Len(t) : t[i] = Zero

LEMMA ResizedShows ==
  ASSUME disk \in Seq(FileByte), NEW k \in Nat, Shows(disk, k), NEW n \in Nat, k <= n
  PROVE  Shows(Resized(disk, n), k)
  <1> DEFINE t == Resized(disk, n)
  <1>1. Len(t) = n /\ \A i \in 1..n : i <= Len(disk) => t[i] = disk[i]
    BY ResizedType
  <1>2. \A i \in 1..n : ~(i <= Len(disk)) => t[i] = Zero
    BY DEF Resized
  <1> HIDE DEF t
  <1>3. Len(disk) \in Nat /\ k <= Len(disk)
    BY DEF Shows
  <1>4. \A i \in 1..k : t[i] = disk[i]
    BY <1>1, <1>3
  <1>5. ASSUME NEW i \in k + 1 .. n PROVE t[i] = Zero
    <2>1. i \in 1..n
      BY <1>5
    <2>2. CASE i <= Len(disk)
      BY <1>1, <2>1, <2>2 DEF Shows
    <2>3. CASE ~(i <= Len(disk))
      BY <1>2, <2>1, <2>3
    <2> QED BY <2>2, <2>3
  <1>6. Shows(t, k)
    BY <1>1, <1>4, <1>5 DEF Shows
  <1> QED BY <1>6 DEF t

LEMMA RemappedShows ==
  ASSUME disk \in Seq(FileByte), NEW k \in Nat, Shows(disk, k), NEW n \in Nat, k <= n,
         NEW b, NEW m, NEW o \in Remapped(b, n, m)
  PROVE  Shows(o.disk, k)
  <1> DEFINE r == Resized(disk, n)
  <1>1. \E d, c, f, t : o = Outcome(d, c, f, t) /\ d \in {disk, r}
    <2> DEFINE u == [b EXCEPT !.live = FALSE]
               v == OverMemory(u, r, TRUE)
    <2>1. o \in {Outcome(r, v, FALSE, FALSE), Outcome(disk, u, TRUE, FALSE), Outcome(r, u, TRUE, TRUE), Outcome(disk, u, FALSE, FALSE)}
      BY DEF Remapped
    <2> HIDE DEF u, v, r
    <2> QED BY <2>1
  <1> HIDE DEF r
  <1>2. o.disk \in {disk, r}
    BY <1>1 DEF Outcome
  <1> QED BY <1>2, ResizedShows DEF r

LEMMA PositionSetShows ==
  ASSUME disk \in Seq(FileByte), NEW k \in Nat, Shows(disk, k), NEW b, NEW m, NEW p, NEW factor \in Nat \ {0},
         NEW o \in PositionSet(b, p, factor, m)
  PROVE  Shows(o.disk, k)
  <1>1. CASE p < Capacity(b)
    BY <1>1 DEF PositionSet, Outcome
  <1>2. CASE ~(p < Capacity(b))
    <2>1. PICK q \in Remapped(b, factor * Len(disk), m) : o = IF q.throws THEN q ELSE [q EXCEPT !.buffer = PositionedAt(@, p)]
      BY <1>2 DEF PositionSet
    <2>2. PICK n : n = factor * Len(disk)
      OBVIOUS
    <2>3. n \in Nat /\ k <= n
      <3>1. Len(disk) \in Nat /\ k <= Len(disk)
        BY DEF Shows
      <3>2. n \in Nat /\ n >= Len(disk)
        BY <2>2, <3>1, Times
      <3> QED BY <3>1, <3>2
    <2>4. Shows(q.disk, k)
      BY <2>1, <2>2, <2>3, RemappedShows
    <2>5. o.disk = q.disk
      <3>1. \E d, c, f, t : q = Outcome(d, c, f, t)
        BY <2>1 DEF Remapped
      <3> QED BY <2>1, <3>1 DEF Outcome
    <2> QED BY <2>4, <2>5
  <1> QED BY <1>1, <1>2

\* What is known of an open map.
LEMMA MapShows ==
  ASSUME Inv, HoldInv, cls = "MappedFileIO"
  PROVE  /\ disk \in Seq(FileByte) /\ Len(disk) \in Nat /\ buffer.size \in Nat /\ Shows(disk, buffer.size)
         /\ buffer.size <= Capacity(buffer) /\ Capacity(buffer) <= Len(disk) /\ Capacity(buffer) \in Nat \ {0}
         /\ MapOK /\ writeIdx \in Nat /\ readIdx \in Nat /\ growFactor \in Nat \ {0} /\ rest = <<>>
  <1>1. disk \in Seq(FileByte) /\ Len(disk) \in Nat /\ MapOK /\ writeIdx \in Nat /\ readIdx \in Nat /\ growFactor \in Nat \ {0} /\ rest = <<>>
    BY WhenMapped DEF Inv, FileOK, CallOK
  <1>2. buffer.size \in Nat /\ buffer.size <= Capacity(buffer) /\ Capacity(buffer) <= Len(disk) /\ Capacity(buffer) \in Nat \ {0}
    BY <1>1 DEF MapOK, BufferOK, MapOf, ByteBufferType, Capacity
  <1>3. Shows(disk, buffer.size)
    BY <1>1, <1>2 DEF HoldInv, Shows
  <1> QED BY <1>1, <1>2, <1>3

LEMMA MappedKept ==
  ASSUME Inv, Inv', HoldInv, cls = "MappedFileIO", UNCHANGED <<cls, mode, rest>>, ~lost', buffer'.size = buffer.size,
         Shows(disk', buffer.size)
  PROVE  HoldInv' /\ File!Next
  <1>1. PICK k : k = buffer.size
    OBVIOUS
  <1>2. PICK d : d = disk'
    OBVIOUS
  <1>3. rest = <<>> /\ k \in Nat /\ Shows(d, k)
    BY <1>1, <1>2, MapShows
  <1>4. HoldInv'
    <2>1. \A i \in k + 1 .. Len(d) : d[i] = Zero
      BY <1>3 DEF Shows
    <2> QED BY <1>1, <1>2, <1>3, <2>1 DEF HoldInv
  <1>5. Content \in Seq(FileByte) /\ Len(Content) = k /\ \A i \in 1..k : Content[i] = disk[i]
    BY <1>1, ViewNow DEF ViewIs
  <1>6. Content' \in Seq(FileByte) /\ Len(Content') = k /\ \A i \in 1..k : Content'[i] = d[i]
    BY <1>1, <1>2, ViewNext DEF ViewIs
  <1>7. PICK c : c = Content'
    OBVIOUS
  <1>8. c = Content
    <2>1. \A i \in 1..k : c[i] = Content[i]
      BY <1>3, <1>5, <1>6, <1>7 DEF Shows
    <2>2. c \in Seq(FileByte) /\ Len(c) = k
      BY <1>6, <1>7
    <2>3. PICK a : a = Content
      OBVIOUS
    <2>4. a \in Seq(FileByte) /\ Len(a) = k /\ \A i \in 1..Len(c) : c[i] = a[i]
      BY <1>5, <2>1, <2>2, <2>3
    <2> QED BY <2>2, <2>3, <2>4, SameSeq
  <1> QED BY <1>4, <1>7, <1>8, KeptIsSeen

\* A step to an outcome that shows what the map showed.
LEMMA TakeKept ==
  ASSUME Inv, Inv', HoldInv, cls = "MappedFileIO", UNCHANGED <<cls, mode, rest>>, ~lost',
         NEW o, Take(o), o.buffer.size = buffer.size, Shows(o.disk, buffer.size)
  PROVE  HoldInv' /\ File!Next
  <1>1. disk' = o.disk /\ buffer' = o.buffer
    BY DEF Take
  <1> QED BY <1>1, MappedKept

\* A seek of a map, alone or at the start of read(string).
LEMMA MoveKept ==
  ASSUME Inv, Inv', HoldInv, cls = "MappedFileIO", UNCHANGED <<cls, rest>>, ~lost', NEW off, NEW whence,
         MapTarget(off, whence) \in Nat, MappedSeekg(off, whence) \/ MappedSeekp(off, whence)
  PROVE  HoldInv' /\ File!Next
  <1> DEFINE p == MapTarget(off, whence)
  <1>1. PICK o \in PositionSet(buffer, p, growFactor, mode) : Take(o) /\ mode' = mode
    BY DEF MappedSeekg, MappedSeekp
  <1> HIDE DEF p
  <1>2. p \in Nat
    BY DEF p
  <1>3. disk \in Seq(FileByte) /\ buffer.size \in Nat /\ Shows(disk, buffer.size) /\ MapOK /\ growFactor \in Nat \ {0}
    BY MapShows
  <1>4. o.buffer.size = buffer.size
    <2>1. BufferOK(buffer) /\ MapOf(buffer, disk) /\ Blamed(buffer, mode, FALSE)
      BY <1>3 DEF MapOK
    <2>2. disk \in Seq(FileByte) /\ growFactor \in Nat \ {0}
      BY <1>3
    <2>3. o \in PositionSet(buffer, p, growFactor, mode)
      BY <1>1
    <2> QED BY <1>2, <2>1, <2>2, <2>3, PositionSetSafe
  <1>5. Shows(o.disk, buffer.size)
    BY <1>1, <1>3, PositionSetShows
  <1> QED BY <1>1, <1>4, <1>5, TakeKept

LEMMA SeesMappedSeek ==
  ASSUME Inv, Inv', HoldInv, NEW s \in Seeks, Seekg(s[1], s[2]) \/ Seekp(s[1], s[2]), cls = "MappedFileIO"
  PROVE  HoldInv' /\ File!Next
  <1>1. /\ (MappedSeekg(s[1], s[2]) \/ MappedSeekp(s[1], s[2])) /\ MapTarget(s[1], s[2]) \in Nat
        /\ ~lost' /\ UNCHANGED <<cls, rest>>
    BY FileAssumption DEF Seekg, Seekp, MapSeekAllowed
  <1> QED BY <1>1, MoveKept

\* A step that leaves the file, and of the map all but its position.
LEMMA MapUntouched ==
  ASSUME Inv, Inv', HoldInv, cls = "MappedFileIO", UNCHANGED <<cls, mode, rest, disk>>, ~lost', buffer'.size = buffer.size
  PROVE  HoldInv' /\ File!Next
  BY MapShows, MappedKept

LEMMA SeesMappedRead ==
  ASSUME Inv, Inv', HoldInv, Read(2) \/ ReadByte, cls = "MappedFileIO"
  PROVE  HoldInv' /\ File!Next
  <1>1. ~lost' /\ UNCHANGED <<rest, cls>> /\ \E n \in {1, 2} : MappedRead(n) \/ MappedReadFails(n)
    BY DEF Read, ReadByte
  <1>2. PICK n \in {1, 2} : MappedRead(n) \/ MappedReadFails(n)
    BY <1>1
  <1>3. UNCHANGED <<disk, mode>>
    BY <1>2 DEF MappedRead, MappedReadFails, fileVars
  <1>4. buffer'.size = buffer.size
    <2>1. buffer' = buffer \/ \E p : buffer' = PositionedAt(buffer, p)
      BY <1>2 DEF MappedRead, MappedReadFails
    <2>2. buffer \in ByteBufferType
      BY MapShows DEF MapOK, BufferOK
    <2> QED BY <2>1, <2>2 DEF PositionedAt, ByteBufferType
  <1> QED BY <1>1, <1>3, <1>4, MapUntouched

LEMMA SeesMappedCall ==
  ASSUME Inv, Inv', HoldInv, (\E op \in LineCall \ {"rangeFor"} : StartLines(op)) \/ CountReturns \/ Return, cls = "MappedFileIO"
  PROVE  HoldInv' /\ File!Next
  <1>1. ~lost' /\ UNCHANGED <<rest, cls>>
    BY DEF StartLines, CountReturns, Return
  <1>2. CASE UNCHANGED <<disk, mode, buffer>>
    BY <1>1, <1>2, MapUntouched
  <1>3. CASE MappedSeekg(0, "Beg")
    <2>1. MapTarget(0, "Beg") = 0
      BY DEF MapTarget, SeekTarget
    <2> QED BY <1>1, <1>3, <2>1, MoveKept
  <1> QED BY <1>2, <1>3 DEF StartLines, CountReturns, Return, fileVars
\* What the map is when a write has grown it, where it must.
LEMMA GrownFor ==
  ASSUME Inv, HoldInv, cls = "MappedFileIO", NEW need,
         NEW o \in IF need THEN Remapped(buffer, Capacity(buffer) * growFactor, mode)
                   ELSE {Outcome(disk, buffer, FALSE, FALSE)}
  PROVE  Safe(o, mode) /\ o.buffer.size = buffer.size /\ Shows(o.disk, buffer.size)
  <1>1. /\ disk \in Seq(FileByte) /\ buffer.size \in Nat /\ Shows(disk, buffer.size) /\ MapOK
        /\ buffer.size <= Capacity(buffer) /\ Capacity(buffer) \in Nat \ {0} /\ growFactor \in Nat \ {0}
    BY MapShows
  <1>2. CASE need
    <2>1. PICK l : l = Capacity(buffer)
      OBVIOUS
    <2>2. PICK n : n = l * growFactor
      OBVIOUS
    <2>3. n \in Nat /\ n >= l
      BY <1>1, <2>1, <2>2, Times
    <2>4. o \in Remapped(buffer, n, mode) /\ n >= Capacity(buffer) /\ buffer.size <= n
      BY <1>1, <1>2, <2>1, <2>2, <2>3
    <2>5. Safe(o, mode) /\ IsRemapped(o, buffer, n)
      BY <1>1, <2>3, <2>4, RemappedSafe DEF MapOK
    <2>6. Shows(o.disk, buffer.size)
      BY <1>1, <2>3, <2>4, RemappedShows
    <2> QED BY <2>5, <2>6 DEF IsRemapped
  <1>3. CASE ~need
    <2>1. o = Outcome(disk, buffer, FALSE, FALSE)
      BY <1>3
    <2>2. Safe(o, mode)
      BY <1>1, <2>1, OutcomeSafe DEF MapOK
    <2>3. o.disk = disk /\ o.buffer = buffer
      BY <2>1 DEF Outcome
    <2> QED BY <1>1, <2>2, <2>3
  <1> QED BY <1>2, <1>3

\* What a write that succeeds leaves in the map.
LEMMA PutIsSeen ==
  ASSUME Inv, Inv', HoldInv, cls = "MappedFileIO", UNCHANGED <<cls, mode, rest>>, ~lost', NEW bytes \in Pieces, bytes \in Seq(FileByte),
         NEW o, Safe(o, mode), o.buffer.size = buffer.size, o.buffer.live, Shows(o.disk, buffer.size),
         buffer' = WithPut(o.buffer, writeIdx, bytes), disk' = WithPut(o.buffer, writeIdx, bytes).data,
         writeIdx' = WithPut(o.buffer, writeIdx, bytes).position
  PROVE  HoldInv' /\ File!Next
  <1>1. PICK k : k = buffer.size
    OBVIOUS
  <1>2. PICK f : f = o.disk
    OBVIOUS
  <1>3. PICK at : at = writeIdx
    OBVIOUS
  <1>4. k \in Nat /\ Shows(f, k) /\ at \in Nat /\ rest = <<>>
    BY <1>1, <1>2, <1>3, MapShows
  <1>5. f \in Seq(FileByte) /\ Len(f) \in Nat /\ o.buffer \in ByteBufferType /\ o.buffer.data = f
    BY <1>2 DEF Safe, OutcomeType, MapOf, BufferOK
  <1>6. PICK len : len = Len(bytes)
    OBVIOUS
  <1>7. len \in Nat \ {0} /\ bytes # <<>>
    BY <1>6, EmptySeq DEF Pieces
  <1>8. PICK w : w = WithPut(o.buffer, at, bytes)
    OBVIOUS
  <1>9. /\ IsOverlay(w.data, f, at, bytes, BufferByte)
        /\ w.position = at + len /\ w.size = Larger(k, at + len)
    <2>1. PICK b : b = o.buffer
      OBVIOUS
    <2>2. b \in ByteBufferType /\ b.data = f /\ b.size = k /\ w = WithPut(b, at, bytes)
      BY <1>1, <1>5, <1>8, <2>1
    <2>3. /\ IsOverlay(WithPut(b, at, bytes).data, b.data, at, bytes, BufferByte)
          /\ WithPut(b, at, bytes).position = at + Len(bytes)
          /\ WithPut(b, at, bytes).size = Larger(b.size, at + Len(bytes))
      BY <1>4, <2>2, WithPutType
    <2> QED BY <1>6, <2>2, <2>3
  <1>10. PICK d : d = w.data
    OBVIOUS
  <1>11. PICK z : z = w.size
    OBVIOUS
  <1>12. z \in Nat /\ k <= z /\ at + len <= z /\ (z = IF k > at + len THEN k ELSE at + len)
    BY <1>4, <1>7, <1>9, <1>11 DEF Larger
  <1>13. ASSUME NEW i \in 1..Len(d)
         PROVE  d[i] = IF at < i /\ i <= at + len THEN bytes[i - at] ELSE IF i <= k THEN disk[i] ELSE Zero
    <2>1. i \in Nat /\ i > 0 /\ i \in 1..Len(d)
      BY <1>13
    <2>2. d[i] = IF i \in at + 1 .. at + len THEN bytes[i - at] ELSE IF i <= Len(f) THEN f[i] ELSE Zero
      BY <1>6, <1>9, <1>10, <2>1 DEF IsOverlay
    <2>3. i \in at + 1 .. at + len <=> at < i /\ i <= at + len
      BY <1>4, <1>7, <2>1
    <2>4. i <= k => i <= Len(f) /\ f[i] = disk[i]
      BY <1>4, <1>5, <2>1 DEF Shows
    <2>5. ~(i <= k) /\ i <= Len(f) => f[i] = Zero
      BY <1>4, <1>5, <2>1 DEF Shows
    <2> QED BY <2>2, <2>3, <2>4, <2>5
  <1>14. disk' = d /\ buffer'.size = z /\ writeIdx' = at + len
    BY <1>3, <1>8, <1>9, <1>10, <1>11
  <1>15. HoldInv'
    <2>1. ASSUME NEW i \in z + 1 .. Len(d) PROVE d[i] = Zero
      <3>1. i \in 1..Len(d) /\ i > k /\ i > at + len
        BY <1>4, <1>7, <1>12, <2>1
      <3>2. ~(at < i /\ i <= at + len) /\ ~(i <= k)
        BY <1>4, <1>7, <3>1
      <3> QED BY <1>13, <3>1, <3>2
    <2> QED BY <1>4, <1>14, <2>1 DEF HoldInv
  <1>16. PICK a : a = Content
    OBVIOUS
  <1>17. Len(a) = k /\ (\A i \in 1..k : a[i] = disk[i]) /\ Place = at /\ ~Appending
    BY <1>1, <1>3, <1>16, ViewNow DEF ViewIs
  <1>18. PICK c : c = Content'
    OBVIOUS
  <1>19. Len(c) = z /\ (\A i \in 1..z : c[i] = d[i]) /\ Place' = at + len /\ z <= Len(d) /\ Len(d) \in Nat
    <2>1. ViewIs' /\ disk' \in Seq(FileByte)
      BY ViewNext DEF Inv, FileOK
    <2>2. Len(disk') \in Nat
      BY <2>1
    <2> QED BY <1>14, <1>18, <2>1, <2>2 DEF ViewIs
  <1>20. ASSUME NEW i \in 1..Len(c)
         PROVE  c[i] = IF at < i /\ i <= at + len THEN bytes[i - at] ELSE IF i <= Len(a) THEN a[i] ELSE Zero
    <2>1. i \in 1..Len(d) /\ i \in 1..z /\ i \in Nat
      BY <1>12, <1>19, <1>20
    <2>2. c[i] = d[i]
      BY <1>19, <2>1
    <2>3. i <= k => a[i] = disk[i]
      BY <1>4, <1>17, <2>1
    <2> QED BY <1>13, <1>17, <2>1, <2>2, <2>3
  <1>21. Appending' = Appending
    BY DEF Appending
  <1>22. File!Write(bytes)
    BY <1>6, <1>12, <1>16, <1>17, <1>18, <1>19, <1>20, <1>21 DEF File!Write
  <1>23. File!Next
    BY <1>22 DEF File!Next, Pieces, Parts
  <1> QED BY <1>15, <1>23

LEMMA SeesMappedWrite ==
  ASSUME Inv, Inv', HoldInv, NEW bytes \in Writes, Write(bytes), cls = "MappedFileIO"
  PROVE  HoldInv' /\ File!Next
  <1>1. MappedWrite(bytes) /\ ~lost' /\ UNCHANGED <<cls, rest>> /\ mode' = mode
    BY DEF Write, MappedWrite
  <1>2. bytes \in Seq(FileByte) /\ bytes \in Pieces
    <2>1. bytes \in Seq(Byte) /\ bytes # <<>> /\ Len(bytes) \in Nat \ {0}
      BY StreamAssumption, EmptySeq
    <2>2. PICK n : n = Len(bytes)
      OBVIOUS
    <2>3. PICK k : k = 0
      OBVIOUS
    <2>4. k \in 0..Len(bytes) /\ n \in 1..(Len(bytes) - k) /\ k + 1 = 1
      BY <2>1, <2>2, <2>3
    <2>5. SubSeq(bytes, 1, n) = bytes
      BY <2>1, <2>2, Whole
    <2>6. bytes = SubSeq(bytes, k + 1, Len(bytes))
      BY <2>2, <2>4, <2>5
    <2>7. SubSeq(bytes, 1, n) \in Pieces
      BY <2>4, <2>6, PieceOf
    <2>8. bytes \in Pieces
      BY <2>5, <2>7
    <2>9. bytes \in Seq(FileByte)
      BY <2>1 DEF FileByte
    <2> QED BY <2>8, <2>9
  <1>3. PICK o \in IF writeIdx + Len(bytes) > Capacity(buffer)
                   THEN Remapped(buffer, Capacity(buffer) * growFactor, mode)
                   ELSE {Outcome(disk, buffer, FALSE, FALSE)} :
          \/ Take(o)
          \/ Take([o EXCEPT !.buffer = PositionedAt(@, writeIdx)])
          \/ /\ o.buffer.live
             /\ Take([o EXCEPT !.buffer = WithPut(o.buffer, writeIdx, bytes), !.disk = WithPut(o.buffer, writeIdx, bytes).data])
             /\ writeIdx' = WithPut(o.buffer, writeIdx, bytes).position
    BY <1>1 DEF MappedWrite
  <1>4. Safe(o, mode) /\ o.buffer.size = buffer.size /\ Shows(o.disk, buffer.size)
    <2>1. PICK need : need = (writeIdx + Len(bytes) > Capacity(buffer))
      OBVIOUS
    <2> QED BY <1>3, <2>1, GrownFor
  <1>5. CASE Take(o)
    BY <1>1, <1>4, <1>5, TakeKept
  <1>6. CASE Take([o EXCEPT !.buffer = PositionedAt(@, writeIdx)])
    <2> DEFINE r == [o EXCEPT !.buffer = PositionedAt(@, writeIdx)]
    <2>1. writeIdx \in Nat
      BY MapShows
    <2>2. r.disk = o.disk /\ r.buffer = PositionedAt(o.buffer, writeIdx)
      BY <1>4, <2>1, PositionedSafe
    <2>3. r.buffer.size = buffer.size
      <3>1. o.buffer \in ByteBufferType
        BY <1>4 DEF Safe, BufferOK
      <3>2. PositionedAt(o.buffer, writeIdx).size = o.buffer.size
        BY <2>1, <3>1, PositionedType
      <3> QED BY <1>4, <2>2, <3>2
    <2>4. Take(r)
      BY <1>6
    <2>5. Shows(r.disk, buffer.size)
      BY <1>4, <2>2
    <2> HIDE DEF r
    <2> QED BY <1>1, <2>3, <2>4, <2>5, TakeKept
  <1>7. CASE /\ o.buffer.live
             /\ Take([o EXCEPT !.buffer = WithPut(o.buffer, writeIdx, bytes), !.disk = WithPut(o.buffer, writeIdx, bytes).data])
             /\ writeIdx' = WithPut(o.buffer, writeIdx, bytes).position
    <2> DEFINE w == WithPut(o.buffer, writeIdx, bytes)
               r == [o EXCEPT !.buffer = w, !.disk = w.data]
    <2>1. Take(r)
      BY <1>7
    <2> HIDE DEF w
    <2>2. r.buffer = w /\ r.disk = w.data
      BY <1>4 DEF Safe, OutcomeType
    <2> HIDE DEF r
    <2>3. buffer' = w /\ disk' = w.data
      BY <2>1, <2>2 DEF Take
    <2> QED BY <1>1, <1>2, <1>4, <1>7, <2>3, PutIsSeen DEF w
  <1> QED BY <1>3, <1>5, <1>6, <1>7
------------------------------------------------------------------------------
(* Opening and closing.                                                       *)

\* d is c, and zeros behind it.
LEMMA PaddedTo ==
  ASSUME NEW c \in Seq(FileByte), NEW d \in Seq(FileByte), Len(c) <= Len(d),
         \A i \in 1..Len(c) : d[i] = c[i], \A i \in Len(c) + 1 .. Len(d) : d[i] = Zero,
         c = Content, d = Content'
  PROVE  File!Padded
  <1>1. PICK k \in Nat : k = Len(c)
    OBVIOUS
  <1>2. /\ SubSeq(d, 1, k) \in Seq(FileByte) /\ Len(SubSeq(d, 1, k)) = IF 1 <= k THEN k - 1 + 1 ELSE 0
        /\ \A i \in 1 .. k - 1 + 1 : SubSeq(d, 1, k)[i] = d[1 + i - 1]
    BY <1>1, Part
  <1> DEFINE t == SubSeq(d, 1, k)
  <1>3. t \in Seq(FileByte) /\ Len(t) = k /\ \A i \in 1..k : t[i] = d[i]
    BY <1>1, <1>2
  <1> HIDE DEF t
  <1>4. t = c
    BY <1>1, <1>3, SameSeq
  <1>5. SubSeq(d, 1, Len(c)) = c
    BY <1>1, <1>4 DEF t
  <1> QED BY <1>5 DEF File!Padded

\* Without a stream the file is what there is to see.
LEMMA ClosedView == ASSUME Inv, cls = "none" PROVE Content = disk
  BY DEF Content, Visible

LEMMA ClosedViewNext == ASSUME Inv', cls' = "none" PROVE Content' = disk'
  BY DEF Content, Visible

LEMMA SeesOpenPlain ==
  ASSUME Inv, Inv', HoldInv, NEW c \in Class, NEW m \in Modes, cls = "none", Open(c, m), c # "MappedFileIO"
  PROVE  HoldInv' /\ File!Next
  <1>1. OpenPlain(c, m) /\ ~lost' /\ rest' = rest /\ rest = <<>>
    BY WhenClosed DEF Open
  <1>2. cls' = c /\ c # "none" /\ disk' \in {disk, <<>>}
    BY <1>1 DEF OpenPlain, OpenFile, Class
  <1>3. buffer'.size = 0 /\ Capacity(buffer') \in Capacities \cup {0}
    <2>1. CASE buffer' = NoBuffer
      BY <2>1, NoBufferType, EmptySeq DEF Capacity
    <2>2. ASSUME NEW n \in Capacities, buffer' = Cleared(Allocated(NoBuffer, n)) PROVE buffer'.size = 0 /\ Capacity(buffer') = n
      <3>1. n \in Nat \ {0}
        BY StreamAssumption
      <3>2. PICK a : a = Allocated(NoBuffer, n)
        OBVIOUS
      <3>3. a \in ByteBufferType
        BY <3>1, <3>2, NoBufferType, AllocatedType
      <3>4. Cleared(a).size = 0 /\ Len(Cleared(a).data) = Len(a.data)
        BY <3>3, ClearedType
      <3>5. Len(a.data) = n
        <4> DEFINE g == Fill(Garbage, n)
        <4>1. g \in Seq({Garbage}) /\ Len(g) = n
          BY <3>1 DEF Fill
        <4>2. <<>> \o g = g
          BY <4>1
        <4>3. Len(NoBuffer.data) = 0 /\ NoBuffer.data = <<>> /\ n - 0 = n /\ 0 < n
          BY <3>1, NoBufferType
        <4>4. a.data = NoBuffer.data \o Fill(Garbage, n - Len(NoBuffer.data))
          BY <3>2, <4>3 DEF Allocated, Capacity, NoBuffer
        <4> HIDE DEF g
        <4>5. a.data = g
          BY <4>2, <4>3, <4>4 DEF g
        <4> QED BY <4>1, <4>5
      <3> QED BY <2>2, <3>2, <3>4, <3>5 DEF Capacity
    <2> QED BY <1>1, <2>1, <2>2 DEF OpenPlain
  <1>4. HoldInv'
    <2>1. Held' = 0
      BY <1>1, <1>3 DEF Held
    <2> QED BY <1>1, <1>2, <1>3, <2>1 DEF HoldInv
  <1>5. Content' \in {Content, <<>>}
    BY <1>2, <1>3, ClosedView, NothingWaitingNext
  <1>6. File!Open
    BY <1>1, <1>2, <1>5 DEF File!Open
  <1> QED BY <1>4, <1>6 DEF File!Next

LEMMA SeesOpenMapped ==
  ASSUME Inv, Inv', HoldInv, NEW m \in Modes, cls = "none", Open("MappedFileIO", m)
  PROVE  HoldInv' /\ File!Next
  <1>1. OpenMapped(m) /\ ~lost' /\ rest' = <<>>
    BY WhenClosed DEF Open
  <1>2. disk \in Seq(FileByte) /\ Len(disk) \in Nat /\ Content = disk /\ disk' \in Seq(FileByte)
    BY ClosedView DEF Inv, FileOK
  \* An attempt that fails.
  <1>3. ASSUME cls' = cls, disk' = <<>> \/ Shows(disk', Len(disk)) PROVE HoldInv' /\ File!Next
    <2>1. HoldInv'
      BY <1>1, <1>3 DEF HoldInv
    <2>2. Content' = disk'
      BY <1>3, ClosedViewNext
    <2>3. Content' = <<>> \/ File!Padded
      <3>1. PICK d : d = disk'
        OBVIOUS
      <3>2. CASE Shows(d, Len(disk))
        BY <1>2, <2>2, <3>1, <3>2, PaddedTo DEF Shows
      <3> QED BY <1>3, <2>2, <3>1, <3>2
    <2>4. File!Open
      BY <1>1, <1>3, <2>3 DEF File!Open
    <2> QED BY <2>1, <2>4 DEF File!Next
  <1>4. Shows(disk, Len(disk))
    BY <1>2 DEF Shows
  <1>5. OpenFile(m) \in {disk, <<>>}
    BY DEF OpenFile
  <1>6. CASE disk' = OpenFile(m) /\ cls' = cls
    BY <1>3, <1>4, <1>5, <1>6
  <1>7. CASE OpenFile(m) # <<>>
             /\ \E o \in PositionSet(PositionedAt(OverMemory(NoBuffer, OpenFile(m), FALSE), 0), IF "App" \in m THEN Len(OpenFile(m)) ELSE 0, 2, m) :
                  /\ disk' = o.disk
                  /\ IF o.throws THEN cls' = cls ELSE cls' = "MappedFileIO" /\ buffer' = o.buffer
    <2> DEFINE end == IF "App" \in m THEN Len(disk) ELSE 0
               a == OverMemory(NoBuffer, disk, FALSE)
               b == PositionedAt(a, 0)
    <2>1. OpenFile(m) = disk /\ Len(disk) \in Nat \ {0} /\ end \in Nat
      BY <1>2, <1>5, <1>7, EmptySeq
    <2>2. a \in ByteBufferType /\ a.data = disk /\ a.size = Len(disk) /\ a.live
      BY <1>2, NoBufferType, OverMemoryType
    <2> HIDE DEF a
    <2>3. b \in ByteBufferType /\ b.data = disk /\ b.size = Len(disk) /\ b.live
      BY <2>2, PositionedType
    <2>4. PICK f : f = 2
      OBVIOUS
    <2>5. PICK o \in PositionSet(b, end, f, m) :
                  /\ disk' = o.disk
                  /\ IF o.throws THEN cls' = cls ELSE cls' = "MappedFileIO" /\ buffer' = o.buffer
      BY <1>7, <2>1, <2>4 DEF a
    <2> HIDE DEF b, end
    <2>6. BufferOK(b) /\ MapOf(b, disk) /\ Blamed(b, m, FALSE)
      BY <2>1, <2>3 DEF BufferOK, MapOf, Blamed, Capacity
    <2>7. f \in Nat \ {0} /\ end \in Nat
      BY <2>1, <2>4
    <2>8. o.buffer.size = Len(disk)
      BY <1>2, <2>3, <2>6, <2>7, PositionSetSafe
    <2>9. Shows(o.disk, Len(disk))
      BY <1>2, <1>4, <2>7, PositionSetShows
    <2>10. CASE o.throws
      BY <1>3, <2>5, <2>9, <2>10
    <2>11. CASE ~o.throws
      <3>1. PICK d : d = disk'
        OBVIOUS
      <3>2. PICK k : k = Len(disk)
        OBVIOUS
      <3>3. cls' = "MappedFileIO" /\ buffer'.size = k /\ Shows(d, k) /\ k \in Nat
        BY <1>2, <2>5, <2>8, <2>9, <2>11, <3>1, <3>2
      <3>4. HoldInv'
        <4>1. \A i \in k + 1 .. Len(d) : d[i] = Zero
          BY <3>3 DEF Shows
        <4> QED BY <1>1, <3>1, <3>3, <4>1 DEF HoldInv
      <3>5. PICK c : c = Content'
        OBVIOUS
      <3>6. c \in Seq(FileByte) /\ Len(c) = k /\ \A i \in 1..k : c[i] = d[i]
        BY <3>1, <3>3, <3>5, ViewNext DEF ViewIs
      <3>7. \A i \in 1..k : c[i] = disk[i]
        BY <3>3, <3>6 DEF Shows
      <3>8. c = disk
        BY <1>2, <3>2, <3>6, <3>7, SameSeq
      <3>9. File!Open
        BY <1>1, <1>2, <3>3, <3>5, <3>8 DEF File!Open
      <3> QED BY <3>4, <3>9 DEF File!Next
    <2> QED BY <2>10, <2>11
  <1> QED BY <1>1, <1>6, <1>7 DEF OpenMapped

LEMMA SeesClose ==
  ASSUME CapacitiesBounded, Inv, Inv', HoldInv, Close
  PROVE  HoldInv' /\ File!Next
  <1>1. /\ cls # "none" /\ rest = <<>> /\ rest' = <<>> /\ cls' = "none" /\ disk' = disk
        /\ lost' <=> cls = "BufferedFileIO" /\ buffer.size > 0
    BY DEF Close, Idle
  <1>2. HoldInv'
    BY <1>1 DEF HoldInv
  <1>3. Content' = disk /\ disk \in Seq(FileByte) /\ Len(disk) \in Nat
    BY <1>1, ClosedViewNext DEF Inv, FileOK
  <1>4. ASSUME ~lost', File!Padded PROVE File!Next
    BY <1>1, <1>4 DEF File!Next, File!Close
  <1>5. CASE cls = "MappedFileIO"
    <2>1. PICK k : k = buffer.size
      OBVIOUS
    <2>2. PICK c : c = Content
      OBVIOUS
    <2>3. c \in Seq(FileByte) /\ Len(c) = k /\ (\A i \in 1..k : c[i] = disk[i]) /\ Shows(disk, k) /\ ~lost'
      BY <1>1, <1>5, <2>1, <2>2, ViewNow, MapShows DEF ViewIs
    <2>4. File!Padded
      BY <1>3, <2>2, <2>3, PaddedTo DEF Shows
    <2> QED BY <1>2, <1>4, <2>3, <2>4
  <1>6. CASE cls # "MappedFileIO" /\ (cls = "BufferedFileIO" => buffer.size = 0)
    <2>1. Content = disk
      BY <1>6, NothingWaiting
    <2>2. ~lost'
      BY <1>1, <1>6
    <2>3. File!Padded
      BY <1>3, <2>1, PaddedTo
    <2> QED BY <1>2, <1>4, <2>2, <2>3
  <1>7. CASE cls = "BufferedFileIO" /\ buffer.size # 0
    <2>1. buffer.size \in Nat \ {0} /\ buffer.size <= Capacity(buffer) /\ Capacity(buffer) \in Nat
      BY <1>7 DEF Inv, BufferOK, ByteBufferType, Capacity
    <2>2. lost'
      BY <1>1, <1>7, <2>1
    <2>3. PICK n : n = Capacity(buffer)
      OBVIOUS
    <2>4. n \in Capacities /\ buffer.size <= n /\ n \in Nat
      BY <1>7, <2>1, <2>3 DEF HoldInv
    <2>5. PICK p : p = <<>>
      OBVIOUS
    <2>6. p \in Seq(FileByte) /\ Len(p) <= n /\ Overlay(disk, WritePlace, p) = disk
      BY <2>4, <2>5 DEF Overlay
    <2>7. File!Next
      BY <1>3, <1>7, <2>2, <2>4, <2>6, LossIsSeen
    <2> QED BY <1>2, <2>7
  <1> QED BY <1>5, <1>6, <1>7

------------------------------------------------------------------------------
(* Every step.                                                                *)

\* Nothing a writer sees has changed.
LEMMA SeesNothing ==
  ASSUME HoldInv, UNCHANGED <<fileVars, buffer, rest, lost, cls>>
  PROVE  HoldInv' /\ FileStep
  <1>1. UNCHANGED <<disk, mode, readIdx, writeIdx, offset, faults>>
    BY DEF fileVars
  <1>2. HoldInv'
    BY <1>1 DEF HoldInv, Held
  <1>3. WritePlace' = WritePlace /\ Visible' = Visible
    BY <1>1 DEF WritePlace, MovedTo, Visible
  <1>4. Content' = Content /\ Appending' = Appending
    BY <1>1, <1>3 DEF Content, Appending
  <1>5. Place' = Place
    BY <1>1, <1>4 DEF Place, MovedTo
  <1> QED BY <1>2, <1>4, <1>5 DEF FileStep, File!byteFileVars

LEMMA HoldInit == Init => HoldInv /\ File!Init
  BY DEF Init, HoldInv, File!Init

LEMMA HoldCall ==
  ASSUME CapacitiesBounded, Inv, Inv', HoldInv, Call
  PROVE  HoldInv' /\ FileStep
  <1>1. cls \in Class \cup {"none"}
    BY DEF Inv, CallOK
  <1>2. ASSUME NEW c \in Class, NEW m \in Modes, Open(c, m) PROVE HoldInv' /\ File!Next
    <2>1. cls = "none"
      BY <1>2 DEF Open
    <2> QED BY <1>2, <2>1, SeesOpenPlain, SeesOpenMapped
  <1>3. CASE Close
    BY <1>3, SeesClose DEF FileStep
  <1>4. ASSUME NEW s \in Seeks, Seekg(s[1], s[2]) \/ Seekp(s[1], s[2]) PROVE HoldInv' /\ File!Next
    BY <1>4, SeesPlainSeek, SeesMappedSeek
  <1>5. CASE Read(2)
    BY <1>5, SeesPlainRead, SeesMappedRead DEF FileStep
  <1>6. ASSUME NEW bytes \in Writes, Write(bytes) PROVE HoldInv' /\ File!Next
    <2>1. cls \in Class
      BY <1>1, <1>6 DEF Write, Idle
    <2> QED BY <1>6, <2>1, SeesFileWrite, SeesBufferedWrite, SeesMappedWrite DEF Class
  <1>7. CASE FlushBuffer
    BY <1>7, SeesFlush DEF FileStep
  <1>8. CASE Configure /\ cls = "MappedFileIO"
    <2>1. UNCHANGED <<fileVars, buffer, rest, lost, cls>>
      BY <1>8 DEF Configure, SetCapacityGrowFactor, bufferVars
    <2> QED BY <2>1, SeesNothing
  <1>9. CASE Configure /\ cls # "MappedFileIO"
    BY <1>9, SeesConfigure DEF FileStep
  <1>10. CASE \E op \in LineCall \ {"rangeFor"} : StartLines(op)
    BY <1>10, SeesPlainCall, SeesMappedCall DEF FileStep
  <1> QED BY <1>2, <1>3, <1>4, <1>5, <1>6, <1>7, <1>8, <1>9, <1>10 DEF Call, FileStep

LEMMA HoldNext ==
  ASSUME CapacitiesBounded, Inv, Inv', HoldInv, [Next]_vars
  PROVE  HoldInv' /\ FileStep
  <1>1. CASE Call
    BY <1>1, HoldCall
  <1>2. CASE WriteRound
    BY <1>2, SeesWriteRound DEF FileStep
  <1>3. CASE ReadByte
    BY <1>3, SeesPlainRead, SeesMappedRead DEF FileStep
  <1>4. CASE CountReturns \/ Return
    BY <1>4, SeesPlainCall, SeesMappedCall DEF FileStep
  <1>5. CASE UNCHANGED vars
    BY <1>5, SeesNothing DEF vars, bufferVars
  <1> QED BY <1>1, <1>2, <1>3, <1>4, <1>5 DEF Next, Continue

\* Every class keeps the promise of ByteFile: buffering, flushing at the
\* capacity, growing a map and moving it lose and misplace no byte of what a
\* client wrote, whatever the bytes, the capacities and the bounds, unless a
\* system call fails or the stream is closed before a flush.
THEOREM FileImplemented == CapacitiesBounded /\ Spec => ImplementsFile
  <1> SUFFICES ASSUME CapacitiesBounded PROVE Spec => ImplementsFile
    OBVIOUS
  <1>1. Init => HoldInv /\ File!Init
    BY HoldInit
  <1>2. Inv /\ Inv' /\ HoldInv /\ [Next]_vars => HoldInv' /\ [File!Next]_(File!byteFileVars)
    BY HoldNext DEF FileStep
  <1> QED BY <1>1, <1>2, InvAlways, PTL DEF Spec, ImplementsFile, File!Spec
==============================================================================
