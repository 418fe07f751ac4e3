--------------------------- MODULE SequentialQueues ---------------------------
(****************************************************************************)
(* The queues of one thread.  A CircularQueue keeps its elements in a       *)
(* RingBuffer, which data() also gives to the program; a Queue keeps them   *)
(* in a std::queue beside a capacity.  A capacity of 0 is left out of the   *)
(* circular queue: its first put divides by zero.                           *)
(****************************************************************************)
EXTENDS Integers, Sequences, SequencesExt

CONSTANTS
  Value,       \* the elements
  Moved,       \* what std::move leaves behind, and a place never written
  Capacities,  \* the capacities of the circular queues
  Limits,      \* the capacities given to Queue::capacity, and m_capacity's first values
  MaxLength    \* bound on the length and the capacity of a Queue

VARIABLES
  ring,      \* the RingBuffer: m_buffer, m_size, m_front_idx, m_back_idx
  m_policy,  \* the CircularQueue's loss policy
  deque,     \* what the circular queue should hold, oldest first
  limited, m_capacity, \* the Queue: not m_unlimited, and its capacity
  queued,    \* its std::queue
  answer,    \* what the last call returned, and whether it succeeded
  expected   \* what it should have returned

queueVars == <<ring, m_policy, deque, limited, m_capacity, queued, answer, expected>>

Refused == [ok |-> FALSE, value |-> Moved]
Got(v) == [ok |-> TRUE, value |-> v]
Done == Got(Moved)

Capacity == Len(ring.buffer)
Step(i, n) == (i + n) % Capacity

\* RingBuffer's constructors: of a capacity, or full of a vector's elements.
NewRing(elements, n) ==
  [buffer |-> elements \o [i \in 1..n |-> Moved], size |-> Len(elements), front |-> 0, back |-> 0]

\* CircularQueue(capacity, policy) refuses BLOCK; CircularQueue(RingBuffer&&)
\* leaves the policy unset.
Init ==
  /\ \/ \E n \in Capacities : ring = NewRing(<<>>, n) /\ m_policy \in {"ERROR", "OVERWRITE_OLDEST"}
     \/ \E n \in Capacities, v \in Value :
          ring = NewRing([i \in 1..n |-> v], 0) /\ m_policy \in {"ERROR", "OVERWRITE_OLDEST", "BLOCK"}
  /\ deque = SubSeq(ring.buffer, 1, ring.size)
  /\ limited = FALSE /\ m_capacity \in Limits /\ queued = <<>>
  /\ answer = Done /\ expected = Done

-----------------------------------------------------------------------------
full == ring.size = Capacity
Place(pos) == Step(ring.front, pos) + 1
At(pos) == ring.buffer[Place(pos)]

\* RingBuffer::put
PutMutant(r, v) ==
  [buffer |-> [r.buffer EXCEPT ![r.back + 1] = v],
   front  |-> r.front,
   back   |-> Step(r.back, 1),
   size   |-> IF r.size < Capacity THEN r.size + 1 ELSE r.size]

Put(r, v) ==
  [buffer |-> [r.buffer EXCEPT ![r.back + 1] = v],
   front  |-> IF r.size >= Capacity THEN Step(r.front, 1) ELSE r.front,
   back   |-> Step(r.back, 1),
   size   |-> IF r.size < Capacity THEN r.size + 1 ELSE r.size]

CircularOnly == UNCHANGED <<limited, m_capacity, queued>>

\* CircularQueue::push and tryPush: both refuse on a full queue under ERROR.
Push(v) ==
  LET refused == full /\ m_policy = "ERROR"
  IN  /\ ring' = IF refused THEN ring ELSE Put(ring, v)
      /\ answer' = IF refused THEN Refused ELSE Done
      /\ expected' = IF Len(deque) = Capacity /\ m_policy = "ERROR" THEN Refused ELSE Done
      /\ deque' = IF Len(deque) < Capacity THEN Append(deque, v)
                  ELSE IF m_policy = "ERROR" THEN deque ELSE Append(Tail(deque), v)
      /\ UNCHANGED m_policy /\ CircularOnly

\* RingBuffer::popFront: the element is moved out of its slot.
WithoutFront(r) ==
  IF r.size = 0 THEN r ELSE [r EXCEPT !.buffer[r.front + 1] = Moved, !.front = Step(@, 1), !.size = @ - 1]

\* CircularQueue::pop and tryPop; RingBuffer::popFront and tryPopFront.
PopFront ==
  /\ ring' = WithoutFront(ring)
  /\ answer' = IF ring.size = 0 THEN Refused ELSE Got(ring.buffer[ring.front + 1])
  /\ expected' = IF deque = <<>> THEN Refused ELSE Got(Head(deque))
  /\ deque' = IF deque = <<>> THEN deque ELSE Tail(deque)
  /\ UNCHANGED m_policy /\ CircularOnly

\* RingBuffer::popBack and tryPopBack
PopBack ==
  LET last == Step(ring.back, Capacity - 1)
  IN  /\ ring' = IF ring.size = 0 THEN ring
                 ELSE [ring EXCEPT !.buffer[last + 1] = Moved, !.back = last, !.size = @ - 1]
      /\ answer' = IF ring.size = 0 THEN Refused ELSE Got(ring.buffer[last + 1])
      /\ expected' = IF deque = <<>> THEN Refused ELSE Got(Last(deque))
      /\ deque' = IF deque = <<>> THEN deque ELSE Front(deque)
      /\ UNCHANGED m_policy /\ CircularOnly

\* RingBuffer::at and operator[], front and back, their try forms and peek;
\* pos is -1 for back, which asks for the size less one, modulo 2^64.
Read(pos) ==
  LET asked == IF pos = -1 THEN ring.size - 1 ELSE pos
  IN  /\ answer' = IF asked \in 0..ring.size - 1 THEN Got(At(asked)) ELSE Refused
      /\ expected' = IF pos = -1 THEN IF deque = <<>> THEN Refused ELSE Got(Last(deque))
                     ELSE IF pos < Len(deque) THEN Got(deque[pos + 1]) ELSE Refused
      /\ UNCHANGED <<ring, m_policy, deque>> /\ CircularOnly

\* An assignment through the reference that at returns.
Write(pos, v) ==
  /\ pos < ring.size
  /\ ring' = [ring EXCEPT !.buffer[Place(pos)] = v]
  /\ deque' = [deque EXCEPT ![pos + 1] = v]
  /\ UNCHANGED <<m_policy, answer, expected>> /\ CircularOnly

\* RingBuffer::clear
Clear ==
  /\ ring' = NewRing(<<>>, Capacity)
  /\ deque' = <<>>
  /\ UNCHANGED <<m_policy, answer, expected>> /\ CircularOnly

\* CircularQueue::setLossPolicy: throws unless the policy is BLOCK.
SetLossPolicy(p) ==
  /\ m_policy' = IF m_policy = "BLOCK" THEN p ELSE m_policy
  /\ answer' = IF m_policy = "BLOCK" THEN Done ELSE Refused
  /\ expected' = answer'
  /\ UNCHANGED <<ring, deque>> /\ CircularOnly

-----------------------------------------------------------------------------
QueueOnly == UNCHANGED <<ring, m_policy, deque>>

\* Queue::push and tryPush: a limited queue grows by the element it takes.
QueuePush(v) ==
  LET refused == limited /\ Len(queued) = m_capacity
  IN  /\ Len(queued) < MaxLength /\ m_capacity < MaxLength
      /\ queued' = IF refused THEN queued ELSE Append(queued, v)
      /\ m_capacity' = IF refused \/ ~limited THEN m_capacity ELSE m_capacity + 1
      /\ answer' = IF refused THEN Refused ELSE Done
      /\ expected' = answer'
      /\ UNCHANGED limited /\ QueueOnly

\* Queue::pop, tryPop and peek
QueueTake(keeps) ==
  /\ answer' = IF queued = <<>> THEN Refused ELSE Got(Head(queued))
  /\ expected' = answer'
  /\ queued' = IF queued = <<>> \/ keeps THEN queued ELSE Tail(queued)
  /\ UNCHANGED <<limited, m_capacity>> /\ QueueOnly

\* Queue::capacity
QueueCapacity(n) ==
  /\ m_capacity' = IF n > m_capacity THEN n ELSE m_capacity
  /\ limited' = TRUE
  /\ UNCHANGED <<queued, answer, expected>> /\ QueueOnly

Next ==
  \/ \E v \in Value : Push(v) \/ QueuePush(v) \/ \E pos \in 0..Capacity - 1 : Write(pos, v)
  \/ PopFront \/ PopBack \/ Clear
  \/ \E pos \in -1..Capacity : Read(pos)
  \/ \E p \in {"ERROR", "OVERWRITE_OLDEST", "BLOCK"} : SetLossPolicy(p)
  \/ \E keeps \in BOOLEAN : QueueTake(keeps)
  \/ \E n \in Limits : QueueCapacity(n)

Spec == Init /\ [][Next]_queueVars
-----------------------------------------------------------------------------
\* Through any sequence of calls, wrapped around or not, the indices and the
\* size of a RingBuffer denote the deque: each element is where at looks for
\* it, none of them was moved away, and every call gives what the deque gives,
\* an element being lost only to a push on a full queue that may overwrite.
RingIsDeque ==
  /\ ring.size = Len(deque) /\ \A i \in 0..ring.size - 1 : At(i) = deque[i + 1]
  /\ ring.back = Step(ring.front, ring.size)
  /\ answer = expected
=============================================================================
