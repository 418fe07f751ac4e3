------------------------------ MODULE FileStreams ------------------------------
(****************************************************************************)
(* A client that opens a file, as a stream of any of the three classes, and *)
(* uses it: seeks, reads, writes, whole lines and whole files.  Reading     *)
(* lines is a loop over the virtual read, one byte a step.                  *)
(****************************************************************************)
EXTENDS MappedFileIO, FiniteSets

CONSTANTS
  NewLine,     \* '\n'
  Modes,       \* the flags streams are opened with
  Disks,       \* what the file holds initially
  Seeks,       \* the offsets and origins a client seeks with
  Writes,      \* what a client writes in one call
  Capacities,  \* the capacities a client gives a buffer
  Factors,     \* the growth factors a client sets
  MaxCalls     \* bound: the calls the client makes

ASSUME StreamAssumption ==
  /\ NewLine \in Byte
  /\ \A m \in Modes : "Read" \in m
  /\ Disks \subseteq Seq(Byte)
  /\ Seeks \subseteq Int \X Whence
  /\ Writes \subseteq Seq(Byte) \ {<<>>}
  /\ Capacities \subseteq Nat \ {0}
  /\ Factors \subseteq Nat \ {0}
  /\ MaxCalls \in Nat

VARIABLES
  cls,  \* the class of the open stream, or "none"
  call,  \* the call that is reading lines
  calls  \* how many calls the client has made

vars == <<fileVars, bufferVars, mappedVars, cls, call, calls>>

Class == {"FileIO", "BufferedFileIO", "MappedFileIO"}
LineCall == {"readLine", "getNofLines", "readAll", "end", "rangeFor"}

NoCall ==
  [op |-> "none", phase |-> "reading", at |-> 0, line |-> <<>>, dest |-> <<>>,
   count |-> 0, failed |-> FALSE]

Init ==
  /\ disk \in Disks
  /\ mode = {} /\ readIdx = 0 /\ writeIdx = 0 /\ offset = 0 /\ faults = 0
  /\ buffer = NoBuffer /\ rest = <<>> /\ lost = FALSE
  /\ growFactor = 2 /\ crashed = FALSE
  /\ cls = "none" /\ call = NoCall /\ calls = 0

Idle == cls # "none" /\ call.op = "none" /\ rest = <<>> /\ ~crashed
------------------------------------------------------------------------------
(* Opening and closing.                                                      *)

OpenFile(m) == IF "Trunc" \in m THEN <<>> ELSE disk

\* The constructors of FileIO and BufferedFileIO.  The inherited constructor of
\* the latter leaves its buffer without memory.
OpenPlain(c, m) ==
  /\ disk' = OpenFile(m)
  /\ writeIdx' = IF "App" \in m THEN Len(disk') ELSE 0
  /\ offset' = writeIdx'
  /\ buffer' \in IF c = "FileIO" THEN {NoBuffer}
                 ELSE {NoBuffer} \cup {Cleared(Allocated(NoBuffer, n)) : n \in Capacities}
  /\ cls' = c
  /\ UNCHANGED faults

\* The constructor of MappedFileIO: an empty file cannot be mapped, and a
\* stream that appends has grown its map when it is ready.
OpenMapped(m) ==
  LET memory == OpenFile(m)
      atStart == PositionedAt(OverMemory(NoBuffer, memory, FALSE), 0)
      end == IF "App" \in m THEN Len(memory) ELSE 0
  IN \/ /\ memory # <<>> => Fault
        /\ memory = <<>> => UNCHANGED faults
        /\ disk' = memory /\ UNCHANGED <<cls, buffer, offset, writeIdx>>
     \/ /\ memory # <<>>
        /\ end * 2 <= MaxSize
        /\ \E o \in PositionSet(atStart, end, 2, m) :
             /\ disk' = o.disk
             /\ IF o.failed THEN Fault ELSE UNCHANGED faults
             /\ IF o.throws THEN UNCHANGED <<cls, buffer, writeIdx>>
                ELSE cls' = "MappedFileIO" /\ buffer' = o.buffer /\ writeIdx' = end
        /\ UNCHANGED offset

Open(c, m) ==
  /\ cls = "none"
  /\ IF c = "MappedFileIO" THEN OpenMapped(m) ELSE OpenPlain(c, m)
  /\ mode' = IF cls' = "none" THEN {} ELSE m
  /\ lost' = FALSE
  /\ UNCHANGED <<readIdx, rest, mappedVars, call>>

\* close, and the destructor: what a buffer still holds is gone.
Close ==
  /\ Idle
  /\ lost' = (cls = "BufferedFileIO" /\ buffer.size > 0)
  /\ cls' = "none" /\ mode' = {} /\ buffer' = NoBuffer
  /\ readIdx' = 0 /\ writeIdx' = 0 /\ offset' = 0 /\ growFactor' = 2
  /\ UNCHANGED <<disk, faults, rest, crashed, call>>
------------------------------------------------------------------------------
(* Seeks, reads and writes: one call of the virtual function each.           *)

\* The client keeps a map's pointers in it or lets it grow within the bound, and
\* flushes a buffer before it moves where the buffer goes.
MapSeekAllowed(off, whence) ==
  /\ MapTarget(off, whence) \in 0..MaxSize
  /\ MapTarget(off, whence) >= Capacity(buffer) => growFactor * Len(disk) <= MaxSize

FileSeekAllowed(off, whence) == Lseek(off, whence) <= MaxSize

Seekg(off, whence) ==
  /\ Idle
  /\ IF cls = "MappedFileIO"
     THEN MapSeekAllowed(off, whence) /\ MappedSeekg(off, whence)
     ELSE FileSeekAllowed(off, whence) /\ FileSeekg(off, whence) /\ UNCHANGED buffer
  /\ lost' = FALSE
  /\ UNCHANGED <<rest, mappedVars, cls, call>>

Seekp(off, whence) ==
  /\ Idle
  /\ IF cls = "MappedFileIO"
     THEN MapSeekAllowed(off, whence) /\ MappedSeekp(off, whence)
     ELSE /\ buffer.size = 0 \/ "App" \in mode
          /\ FileSeekAllowed(off, whence) /\ FileSeekp(off, whence) /\ UNCHANGED buffer
  /\ lost' = FALSE
  /\ UNCHANGED <<rest, mappedVars, cls, call>>

Read(n) ==
  /\ Idle
  /\ IF cls = "MappedFileIO" THEN MappedRead(n) \/ MappedReadFails(n)
     ELSE FileRead(n) \/ FileReadFails
  /\ cls # "MappedFileIO" => UNCHANGED <<buffer, mappedVars>>
  /\ lost' = FALSE
  /\ UNCHANGED <<rest, cls, call>>

\* A client writes where tellp() is defined, and within the bound.
Write(bytes) ==
  /\ Idle
  /\ lost' = FALSE
  /\ CASE cls = "FileIO" ->
            /\ writeIdx >= 0 /\ WritePlace + Len(bytes) <= MaxSize
            /\ FileWriteFails \/ \E n \in 1..Len(bytes) : FileWrite(bytes, n)
            /\ UNCHANGED <<buffer, rest, mappedVars>>
       [] cls = "BufferedFileIO" ->
            /\ writeIdx >= 0 /\ WritePlace + buffer.size + Len(bytes) <= MaxSize
            /\ Capacity(buffer) > 0
            /\ rest' = bytes
            /\ UNCHANGED <<fileVars, buffer, mappedVars>>
       [] cls = "MappedFileIO" ->
            /\ writeIdx + Len(bytes) > Capacity(buffer)
                 => Capacity(buffer) * growFactor <= MaxSize
            /\ MappedWrite(bytes)
            /\ UNCHANGED rest
  /\ UNCHANGED <<cls, call>>

WriteRound ==
  /\ rest # <<>>
  /\ BufferedWriteRound
  /\ UNCHANGED <<mappedVars, cls, call>>

FlushBuffer ==
  /\ Idle /\ cls = "BufferedFileIO"
  /\ Flush
  /\ UNCHANGED <<mappedVars, cls, call>>

Configure ==
  /\ Idle
  /\ \/ cls = "BufferedFileIO" /\ \E n \in Capacities : SetBufferCapacity(n) /\ UNCHANGED mappedVars
     \/ cls = "MappedFileIO" /\ \E f \in Factors : SetCapacityGrowFactor(f)
  /\ UNCHANGED <<cls, call>>
------------------------------------------------------------------------------
(* Lines: readLine, and the loops over it in getNofLines, in read(string)    *)
(* and in a range-for, whose end() counts the lines before the first is read.*)

StartLines(op) ==
  /\ Idle
  /\ IF op # "readAll" THEN UNCHANGED <<fileVars, buffer>>
     ELSE IF cls = "MappedFileIO" THEN MappedSeekg(0, "Beg")
     ELSE FileSeekg(0, "Beg") /\ UNCHANGED buffer
  /\ call' = [NoCall EXCEPT !.op = op, !.at = readIdx']
  /\ lost' = FALSE
  /\ UNCHANGED <<rest, mappedVars, cls>>

\* readLine returns this text, or -1 having cleared it.  The loops stop at an
\* empty line that is no failure.
LineRead(text, failed) ==
  LET atEnd == text = <<>> /\ ~failed
      next == [call EXCEPT !.line = <<>>, !.failed = @ \/ failed]
  IN CASE call.op = "readLine" -> [next EXCEPT !.line = text, !.phase = "returned"]
       [] call.op \in {"getNofLines", "end"} ->
            IF atEnd THEN [next EXCEPT !.phase = "ended"]
            ELSE [next EXCEPT !.count = @ + 1]
       [] call.op = "readAll" ->
            IF atEnd THEN [next EXCEPT !.phase = "returned"]
            ELSE [next EXCEPT !.dest = @ \o text]
       [] call.op = "rangeFor" ->
            [next EXCEPT !.dest = @ \o text, !.count = @ - 1,
                         !.phase = IF call.count = 1 THEN "returned" ELSE @]

\* readLine after a read(1) that returned these bytes.
ByteRead(bytes) ==
  IF bytes = <<>> THEN LineRead(call.line, FALSE)
  ELSE IF bytes = <<NewLine>> THEN LineRead(call.line \o bytes, FALSE)
  ELSE [call EXCEPT !.line = @ \o bytes]

ReadByte ==
  /\ call.op \in LineCall /\ call.phase = "reading" /\ ~crashed
  /\ IF cls = "MappedFileIO"
     THEN \/ MappedRead(1)
             /\ call' = IF crashed' THEN call ELSE ByteRead(MappedBytes(1))
          \/ MappedReadFails(1) /\ call' = NoCall
     ELSE /\ \/ FileRead(1) /\ call' = ByteRead(FileBytes(1))
             \/ FileReadFails /\ call' = LineRead(<<>>, TRUE)
          /\ UNCHANGED <<buffer, mappedVars>>
  /\ lost' = FALSE
  /\ UNCHANGED <<rest, cls>>

\* getNofLines puts the read pointer back; a range-for goes on to its lines.
CountReturns ==
  /\ call.phase = "ended"
  /\ readIdx' = call.at
  /\ call' = IF call.op = "end" /\ call.count > 0
             THEN [call EXCEPT !.op = "rangeFor", !.phase = "reading"]
             ELSE [call EXCEPT !.phase = "returned"]
  /\ lost' = FALSE
  /\ UNCHANGED <<disk, mode, writeIdx, offset, faults, buffer, rest, mappedVars, cls>>

Return ==
  /\ call.phase = "returned"
  /\ call' = NoCall
  /\ lost' = FALSE
  /\ UNCHANGED <<fileVars, buffer, rest, mappedVars, cls>>
------------------------------------------------------------------------------
\* Within a call: what the thread does next.
Continue == WriteRound \/ ReadByte \/ CountReturns \/ Return

\* A new call of the client.
Call ==
  \/ \E c \in Class, m \in Modes : Open(c, m)
  \/ Close
  \/ \E s \in Seeks : Seekg(s[1], s[2]) \/ Seekp(s[1], s[2])
  \/ Read(2)
  \/ \E bytes \in Writes : Write(bytes)
  \/ FlushBuffer
  \/ Configure
  \/ \E op \in LineCall \ {"rangeFor"} : StartLines(op)

Next ==
  \/ calls < MaxCalls /\ Call /\ calls' = calls + 1
  \/ Continue /\ UNCHANGED calls

Spec == Init /\ [][Next]_vars

\* A thread in a call goes on.
FairSpec == Spec /\ WF_vars(Continue /\ UNCHANGED calls)
------------------------------------------------------------------------------
StreamTypeOK ==
  /\ disk \in Seq(Byte \cup {Zero})
  /\ mode \in Modes \cup {{}}
  /\ readIdx \in Nat \cup {-1} /\ writeIdx \in Nat \cup {-1} /\ offset \in Nat
  /\ faults \in 0..MaxFaults
  /\ buffer \in ByteBufferType /\ buffer.size <= Capacity(buffer)
  /\ rest \in Seq(Byte)
  /\ lost \in BOOLEAN /\ crashed \in BOOLEAN
  /\ growFactor \in Nat \ {0}
  /\ cls \in Class \cup {"none"}
  /\ call.op \in LineCall \cup {"none"} /\ calls \in 0..MaxCalls

\* What a reader of the stream can see: buffered bytes are not in the file yet.
Visible == IF cls = "MappedFileIO" THEN SubSeq(disk, 1, buffer.size) ELSE disk
VisibleFrom(at) == SubSeq(Visible, at + 1, Len(Visible))

\* The newlines in s, and the line that is not terminated by one.
NofLines(s) ==
  Cardinality({i \in DOMAIN s : s[i] = NewLine \/ i = Len(s)})

\* Reading line by line misses nothing and repeats nothing: read(string) returns
\* the whole file, a range-for the file from the read pointer on, whatever lies
\* between the two pointers of the stream and the one offset of its descriptor;
\* getNofLines returns the number of lines and moves no pointer.
ReadsTheFile ==
  (call.phase = "returned" /\ ~call.failed /\ call.at \in 0..Len(Visible)) =>
    CASE call.op = "readAll" -> call.dest = Visible
      [] call.op \in {"rangeFor", "end"} -> call.dest = VisibleFrom(call.at)
      [] call.op = "getNofLines" ->
           readIdx = call.at /\ call.count = NofLines(VisibleFrom(call.at))
      [] call.op = "readLine" ->
           /\ call.line = SubSeq(Visible, call.at + 1, readIdx)
           /\ \A i \in DOMAIN call.line : call.line[i] = NewLine => i = Len(call.line)
           /\ \/ readIdx = Len(Visible)
              \/ call.line # <<>> /\ call.line[Len(call.line)] = NewLine

\* A stream that may write and whose system calls succeed never touches memory
\* outside its map, however often seeks and writes move the map.
StaysInMap == (crashed /\ "Write" \in mode) => faults > 0

\* A call returns: write() has placed its bytes after finitely many flushes, and
\* the loops over the lines meet the end of the file.
CallsReturn ==
  (rest # <<>> \/ call.op # "none") ~> ((rest = <<>> /\ call.op = "none") \/ crashed)
------------------------------------------------------------------------------
\* The file as its writer sees it, the bytes still buffered in their place.
Appending == cls \in {"FileIO", "BufferedFileIO"} /\ "App" \in mode

Content ==
  IF cls = "BufferedFileIO" THEN Overlay(disk, WritePlace, Contents(buffer)) ELSE Visible

Place ==
  IF Appending THEN Len(Content)
  ELSE IF cls = "BufferedFileIO" THEN MovedTo(writeIdx) + buffer.size
  ELSE MovedTo(writeIdx)

File == INSTANCE ByteFile WITH
  content <- Content, place <- Place, appending <- Appending,
  isOpen <- cls # "none", lost <- lost,
  Chunk <- (UNION {{SubSeq(w, i, j) : i \in 1..Len(w), j \in 1..Len(w)} : w \in Writes}) \ {<<>>},
  Window <- CHOOSE n \in Capacities : \A k \in Capacities : k <= n

\* Every class keeps the promise of ByteFile: buffering, flushing at the capacity,
\* growing a map and moving between its memories lose and misplace no byte,
\* unless a system call fails or the stream is closed before a flush.
ImplementsFile == File!Spec
==============================================================================
