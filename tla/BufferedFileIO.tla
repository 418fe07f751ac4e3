---------------------------- MODULE BufferedFileIO ----------------------------
(****************************************************************************)
(* A BufferedFileIO: writes gather in a ByteBuffer, which is written to the *)
(* file when it is full or flushed.  write() is a loop, one round a step.   *)
(****************************************************************************)
EXTENDS FileIO

VARIABLES
  buffer,  \* the ByteBuffer of the stream: m_buffer here, m_mapBuffer when mapped
  rest,    \* the bytes write() has still to place
  lost     \* whether the last step dropped bytes that write() had accepted

bufferVars == <<buffer, rest, lost>>

SetBufferCapacity(capacity) ==
  /\ buffer' = Allocated(buffer, capacity)
  /\ lost' = FALSE
  /\ UNCHANGED <<rest, fileVars>>

\* flush, of the buffer b: it is cleared whatever became of the write.
FlushOf(b) ==
  /\ \/ \E n \in 0..b.size : /\ n = 0 => b.size = 0
                             /\ FileWrite(Contents(b), n)
                             /\ lost' = (n < b.size)
     \/ FileWriteFails /\ lost' = (b.size > 0)
  /\ buffer' = Cleared(b)

Flush == FlushOf(buffer) /\ UNCHANGED rest

BufferedWriteRoundMutant ==
  LET n == Smaller(Len(rest), RemainingCapacity(buffer))
  IN /\ rest' = SubSeq(rest, n + 1, Len(rest))
     /\ buffer' = WithPut(buffer, buffer.position, SubSeq(rest, 1, n))
     /\ lost' = FALSE
     /\ UNCHANGED fileVars

\* One round of write().
BufferedWriteRound ==
  LET n == Smaller(Len(rest), RemainingCapacity(buffer))
      filled == WithPut(buffer, buffer.position, SubSeq(rest, 1, n))
  IN /\ rest' = SubSeq(rest, n + 1, Len(rest))
     /\ IF RemainingCapacity(filled) = 0
        THEN FlushOf(filled)
        ELSE buffer' = filled /\ lost' = FALSE /\ UNCHANGED fileVars
==============================================================================
