----------------------------- MODULE MappedFileIO -----------------------------
(****************************************************************************)
(* A MappedFileIO with a shared mapping: the memory of its ByteBuffer is    *)
(* the file.  Growing it unmaps, resizes the file and maps it again, and    *)
(* each of these may fail; touching memory that is not mapped crashes.      *)
(****************************************************************************)
EXTENDS BufferedFileIO

VARIABLES
  growFactor,  \* m_growFactor
  crashed      \* the process touched memory outside the map

mappedVars == <<growFactor, crashed>>

\* ftruncate
Resized(file, n) == [i \in 1..n |-> IF i <= Len(file) THEN file[i] ELSE Zero]

\* The outcomes of a step of the map: the file and the buffer it leaves,
\* whether a system call failed that might have succeeded, whether it throws.
Outcome(file, b, failed, throws) ==
  [disk |-> file, buffer |-> b, failed |-> failed, throws |-> throws]

\* remap, for the buffer b of a stream with the flags m: a failing ftruncate
\* returns, a failing mmap throws, and either leaves the buffer unmapped.  A
\* file that is not open for writing is never resized.
Remapped(b, size, m) ==
  LET unmapped == [b EXCEPT !.live = FALSE]
      file == Resized(disk, size)
  IN IF "Write" \in m
     THEN {Outcome(file, OverMemory(unmapped, file, TRUE), FALSE, FALSE),
           Outcome(disk, unmapped, TRUE, FALSE),
           Outcome(file, unmapped, TRUE, TRUE)}
     ELSE {Outcome(disk, unmapped, FALSE, FALSE)}

\* set_position: a position beyond the capacity grows the map, once.
PositionSet(b, p, factor, m) ==
  IF p < Capacity(b)
  THEN {Outcome(disk, PositionedAt(b, p), FALSE, FALSE)}
  ELSE {IF o.throws THEN o ELSE [o EXCEPT !.buffer = PositionedAt(@, p)] :
          o \in Remapped(b, factor * Len(disk), m)}

Take(o) ==
  /\ disk' = o.disk
  /\ buffer' = o.buffer
  /\ IF o.failed THEN Fault ELSE UNCHANGED faults

\* compute_position
MapTarget(off, whence) == SeekTarget(off, whence, buffer.position, buffer.size)

MappedSeekg(off, whence) ==
  /\ readIdx' = MapTarget(off, whence)
  /\ \E o \in PositionSet(buffer, readIdx', growFactor, mode) : Take(o)
  /\ UNCHANGED <<mode, writeIdx, offset>>

MappedSeekp(off, whence) ==
  /\ writeIdx' = MapTarget(off, whence)
  /\ \E o \in PositionSet(buffer, writeIdx', growFactor, mode) : Take(o)
  /\ UNCHANGED <<mode, readIdx, offset>>

\* read(n): how many bytes it asks the buffer for.  Behind the size the
\* difference wraps, and all n are asked for.
MappedCount(n) ==
  Smaller(n, RemainingSize(PositionedAt(buffer, readIdx)))

MappedReadThrows(n) == buffer.size = 0 \/ ~Fits(buffer, readIdx, MappedCount(n))
MappedBytes(n) == SubSeq(buffer.data, readIdx + 1, readIdx + MappedCount(n))

MappedRead(n) ==
  /\ ~MappedReadThrows(n)
  /\ IF MappedCount(n) > 0 /\ ~buffer.live
     THEN crashed' = TRUE /\ UNCHANGED <<buffer, readIdx>>
     ELSE /\ readIdx' = readIdx + MappedCount(n)
          /\ buffer' = PositionedAt(buffer, readIdx')
          /\ UNCHANGED crashed
  /\ UNCHANGED <<disk, mode, writeIdx, offset, faults, growFactor>>

MappedReadFails(n) ==
  /\ MappedReadThrows(n)
  /\ buffer' = PositionedAt(buffer, readIdx)
  /\ UNCHANGED <<fileVars, mappedVars>>

\* write: the map grows by its factor, once; what does not fit then throws.
MappedWrite(bytes) ==
  /\ "Write" \in mode
  /\ \E o \in IF writeIdx + Len(bytes) > Capacity(buffer)
              THEN Remapped(buffer, Capacity(buffer) * growFactor, mode)
              ELSE {Outcome(disk, buffer, FALSE, FALSE)} :
       LET fits == ~o.throws /\ Fits(o.buffer, writeIdx, Len(bytes))
           written == WithPut(o.buffer, writeIdx, bytes)
       IN \/ o.throws /\ Take(o) /\ UNCHANGED <<writeIdx, crashed>>
          \/ /\ ~o.throws /\ ~fits
             /\ Take([o EXCEPT !.buffer = PositionedAt(@, writeIdx)])
             /\ UNCHANGED <<writeIdx, crashed>>
          \/ /\ fits /\ ~o.buffer.live
             /\ crashed' = TRUE
             /\ Take(o) /\ UNCHANGED writeIdx
          \/ /\ fits /\ o.buffer.live
             /\ Take([o EXCEPT !.buffer = written, !.disk = written.data])
             /\ writeIdx' = written.position
             /\ UNCHANGED crashed
  /\ UNCHANGED <<mode, readIdx, offset, growFactor>>

SetCapacityGrowFactor(factor) ==
  /\ growFactor' = factor
  /\ UNCHANGED <<fileVars, bufferVars, crashed>>
==============================================================================
