-------------------------------- MODULE FileIO --------------------------------
(****************************************************************************)
(* A FileIO stream over one file: two pointers of the stream, one offset of *)
(* the descriptor that both move, and system calls that may fail or write   *)
(* less than they were given.                                               *)
(****************************************************************************)
EXTENDS ByteBuffer

CONSTANTS
  MaxSize,   \* bound: the bytes the file may grow to
  MaxFaults  \* bound: the system calls that fail

ASSUME FileAssumption == MaxSize \in Nat /\ MaxFaults \in Nat

VARIABLES
  disk,      \* the bytes of the file
  mode,      \* m_openMode, as a set of flags
  readIdx,   \* m_readIdx
  writeIdx,  \* m_writeIdx
  offset,    \* the descriptor's offset
  faults     \* how many system calls have failed

fileVars == <<disk, mode, readIdx, writeIdx, offset, faults>>

Whence == {"Beg", "Cur", "End"}

\* A system call has failed.
Fault == faults < MaxFaults /\ faults' = faults + 1

\* lseek: -1 and no movement if the target is before the file.
SeekTarget(off, whence, current, end) ==
  off + CASE whence = "Beg" -> 0
          [] whence = "Cur" -> current
          [] whence = "End" -> end

Lseek(off, whence) == Larger(SeekTarget(off, whence, offset, Len(disk)), -1)

\* Where the descriptor is after lseek(idx): a pointer of -1 does not move it.
MovedTo(idx) == IF idx >= 0 THEN idx ELSE offset

FileSeekg(off, whence) ==
  /\ readIdx' = Lseek(off, whence)
  /\ offset' = MovedTo(readIdx')
  /\ UNCHANGED <<disk, mode, writeIdx, faults>>

FileSeekp(off, whence) ==
  /\ writeIdx' = Lseek(off, whence)
  /\ offset' = MovedTo(writeIdx')
  /\ UNCHANGED <<disk, mode, readIdx, faults>>

FileBytesMutant(n) == SubSeq(disk, offset + 1, Smaller(offset + n, Len(disk)))

\* What read(n) finds at the read pointer.
FileBytes(n) ==
  SubSeq(disk, MovedTo(readIdx) + 1, Smaller(MovedTo(readIdx) + n, Len(disk)))

FileRead(n) ==
  /\ readIdx' = readIdx + Len(FileBytes(n))
  /\ offset' = MovedTo(readIdx) + Len(FileBytes(n))
  /\ UNCHANGED <<disk, mode, writeIdx, faults>>

FileReadFails ==
  /\ Fault
  /\ offset' = MovedTo(readIdx)
  /\ UNCHANGED <<disk, mode, readIdx, writeIdx>>

\* ::write puts the bytes at the offset, or at the end of a file opened for
\* appending.
WritePlace == IF "App" \in mode THEN Len(disk) ELSE MovedTo(writeIdx)

\* write: n of the bytes reach the file.
FileWrite(bytes, n) ==
  /\ "Write" \in mode
  /\ disk' = Overlay(disk, WritePlace, SubSeq(bytes, 1, n))
  /\ offset' = IF bytes = <<>> THEN MovedTo(writeIdx) ELSE WritePlace + n
  /\ writeIdx' = writeIdx + n
  /\ IF n = Len(bytes) THEN UNCHANGED faults ELSE Fault
  /\ UNCHANGED <<mode, readIdx>>

\* write: -1.
FileWriteFails ==
  /\ IF "Write" \in mode THEN Fault ELSE UNCHANGED faults
  /\ offset' = MovedTo(writeIdx)
  /\ UNCHANGED <<disk, mode, readIdx, writeIdx>>
==============================================================================
