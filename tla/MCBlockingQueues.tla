-------------------------- MODULE MCBlockingQueues --------------------------
(****************************************************************************)
(* The callers that block, as one instance for TLC: a behaviour chooses the *)
(* ring or the queue, and its threads make the steps of that one only.      *)
(****************************************************************************)
EXTENDS MCConcurrentRingBuffer

CONSTANTS t4, NoThread, NoValue

VARIABLES part, m_queue, m_size_, m_capacity, m_unlimited, built, mutex, pc_, op_, arg_, cap, got_, ok_

\* Two producers, one of which may try, and two consumers that only block.
Threads4 == {t1, t2, t3, t4}
ProducersConsumers ==
  [t \in Threads4 |-> CASE t = t1 -> {"push", "tryPush"}
                        [] t = t2 -> {"push"}
                        [] OTHER  -> {"pop"}]

Q == INSTANCE ConcurrentQueue WITH
       Thread <- Threads4, Value <- {v1}, Calls <- ProducersConsumers,
       BoundedCaps <- {1, 2}, StdQueues <- {}, NewCaps <- {}, MaxLen <- 3,
       m_size <- m_size_, pc <- pc_, op <- op_, arg <- arg_, got <- got_, ok <- ok_

QueuesInit ==
  /\ part \in {"ring", "queue"}
  /\ Init /\ (part = "queue" => usage = OneConsumer /\ m_size = 0)
  /\ Q!Init /\ (part = "ring" => m_capacity = 1)

QueuesNext ==
  /\ UNCHANGED part
  /\ IF part = "ring" THEN Next
     ELSE UNCHANGED <<usage, m_buffer, m_size, m_front_idx, m_back_idx, pc, op, arg, pos, got, seen, ok>>
  /\ IF part = "queue" THEN Q!Next
     ELSE UNCHANGED <<m_queue, m_size_, m_capacity, m_unlimited, built, mutex, pc_, op_, arg_, cap, got_, ok_>>

\* The threads of the one not chosen are between calls, where nothing is owed to them.
QueuesSpec ==
  /\ QueuesInit /\ [][QueuesNext]_<<part, ringVars, Q!vars>>
  /\ \A t \in Thread : WF_ringVars(RingStep(t))
  /\ Q!Fairness
-------------------------------------------------------------------------------
(* What ConcurrentQueue says of its blocking calls. *)

\* A pop or a push asleep is woken if an element, or room, stays.
CallersServed == Q!CallersServed
==============================================================================
