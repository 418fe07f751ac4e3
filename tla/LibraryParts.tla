----------------------------- MODULE LibraryParts -----------------------------
(****************************************************************************)
(* Six parts of the library that keep their state to themselves, side by    *)
(* side: an InputBox, the queues of one thread, a Signal with its           *)
(* Connections, a Thread object, the ByteBuffers of a program, and the      *)
(* collectors of its metrics.  MCLibrary gives their constants values and   *)
(* runs them with the other parts; LibraryProofs proves what is said of     *)
(* them here for every value.                                               *)
(****************************************************************************)
CONSTANTS
  Char, Nul, Hint, MaxLength, LabelWidth, MaxKeys,  \* the box
  Value, Moved, Capacities, Limits, MaxQueued,      \* the queues
  Thread, Kind, MaxConnections, MaxCalls,           \* the signal
  Byte, NullByte, Garbage, Word, Buffers, Values, Sizes, MaxOps,  \* the byte buffers
  Tid, MaxCollectors, MaxReading, MaxCollects       \* the collectors of metrics

VARIABLES
  m_content, m_curr_length, m_is_placeholder, m_insert_toggle, cursor, focused, text, caret, onText, keys,
  ring, m_policy, deque, limited, m_capacity, queued, answer, expected,
  m_connections, kind, expired, calling, slots, asked, called, before, due, cut, wrong, calls,
  m_thread, m_policy_, m_daemon, m_cancelled, m_started, wanted, body, killed, object, at, after, aiming,
  joined, tornDown, crashed,
  bufs, fields, appended, heap, wronglyDeleted, tame, ops,
  m_metrics_map, collectors, reading

Box == INSTANCE InputBox
Queues == INSTANCE SequentialQueues WITH MaxLength <- MaxQueued
Slots == INSTANCE Signals
Threads == INSTANCE ThreadObject WITH m_policy <- m_policy_
Bytes == INSTANCE ByteBufferCalls WITH Zero <- NullByte, MaxCalls <- MaxOps, wrong <- wronglyDeleted
Calls == INSTANCE Metrics

\* The content of the box is the text of a line editor.
EditsTheText == Box!EditsTheText

\* The ring behind a circular queue is the deque that it should be.
RingIsDeque == Queues!RingIsDeque

\* An emission calls the slots that are connected, in their order.
SlotsFollowConnections == Slots!SlotsFollowConnections

\* A join or a stop finds run ended and tearDown called.
EndsWell == Threads!EndsWell

\* A value is got back as it was put, and each memory is deleted by one buffer.
GivesBack == Bytes!GivesBack

\* An event has the figures of its own call, and names link callers and callees.
ReportsTheCall == Calls!ReportsTheCall
=============================================================================
