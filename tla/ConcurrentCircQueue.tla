-------------------------- MODULE ConcurrentCircQueue --------------------------
(****************************************************************************)
(* ccl::ds::queue::ConcurrentCircQueue: a ConcurrentRingBuffer behind a     *)
(* loss policy.  The queue reads full() and empty() of the ring, decides,   *)
(* and then makes a ring call; its own mutex only guards the wait on        *)
(* m_full_cv.  The ring's calls are the actions of ConcurrentRingBuffer: a  *)
(* queue operation enters one with Enter and resumes when it has returned.  *)
(****************************************************************************)
EXTENDS ConcurrentRingBuffer

CONSTANTS
  NoThread,    \* the owner of a free mutex
  Policies,    \* the policies a queue is built with
  QueueCalls   \* QueueCalls[t]: the queue operations thread t may call

QueueOps == {"push", "tryPush", "pop", "tryPop", "peek"}

\* The ring calls the queue operations are made of.
RingCalls == [t \in Thread |-> {"put", "popFront", "tryFront"}]

ASSUME CircAssumption ==
  /\ Usages = {RingCalls}
  /\ NoThread \notin Thread
  /\ Policies \subseteq {"BLOCK", "ERROR", "OVERWRITE_OLDEST"}
  /\ QueueCalls \in [Thread -> SUBSET QueueOps]

VARIABLES
  m_policy,  \* the loss policy
  m_mutex,   \* owner of the queue's own mutex
  qpc,       \* where each thread is in its queue operation
  qop,       \* the queue operation it is in
  qarg       \* the element it pushes

queueVars == <<m_policy, m_mutex, qpc, qop, qarg>>
circVars == <<ringVars, queueVars>>

QueueLabels == {"idle", "tryFull", "error", "block", "lock", "fullTest", "fullWait", "fullAsleep",
                "put", "putting", "tryEmpty", "pop", "popping", "fullNotify", "peek", "peeking"}
FirstQueueLabel(o) == CASE o = "push"    -> "error"
                        [] o = "tryPush" -> "tryFull"
                        [] o = "pop"     -> "pop"
                        [] o = "tryPop"  -> "tryEmpty"
                        [] o = "peek"    -> "peek"

FullSleepers == {t \in Thread : qpc[t] = "fullAsleep"}

Full == m_size = Capacity

CircInit ==
  /\ Init /\ m_size = 0
  /\ m_policy \in Policies
  /\ m_mutex = NoThread
  /\ qpc = [t \in Thread |-> "idle"]
  /\ qop = [t \in Thread |-> "none"]
  /\ qarg = [t \in Thread |-> Blank]

QueueGoto(t, label) == qpc' = [qpc EXCEPT ![t] = label]

\* A queue operation ends, the ring untouched.
QueueReturn(t) ==
  /\ QueueGoto(t, "idle")
  /\ qop' = [qop EXCEPT ![t] = "none"]
  /\ qarg' = [qarg EXCEPT ![t] = Blank]
  /\ UNCHANGED <<m_policy, m_mutex>>

\* It ends with false or an exception.
GiveUp(t) ==
  /\ QueueReturn(t)
  /\ ok' = [ok EXCEPT ![t] = FALSE]
  /\ UNCHANGED <<ring, pc, op, arg, pos, got, seen>>

QueueMove(t, label) ==
  /\ QueueGoto(t, label)
  /\ UNCHANGED <<ringVars, m_policy, m_mutex, qop, qarg>>

QueueCall(t) ==
  /\ qpc[t] = "idle"
  /\ \E o \in QueueCalls[t], v \in Value :
       /\ QueueGoto(t, FirstQueueLabel(o))
       /\ qop' = [qop EXCEPT ![t] = o]
       /\ qarg' = [qarg EXCEPT ![t] = IF o \in {"push", "tryPush"} THEN v ELSE Blank]
  /\ UNCHANGED <<ringVars, m_policy, m_mutex>>

-------------------------------------------------------------------------------
(* push and tryPush. *)

TryFullMutant(t) == qpc[t] = "tryFull" /\ QueueMove(t, "error")

TryFull(t) ==
  /\ qpc[t] = "tryFull"
  /\ IF Full THEN GiveUp(t) ELSE QueueMove(t, "error")

ErrorTestMutant(t) == qpc[t] = "error" /\ QueueMove(t, "block")

\* full() && m_policy == ERROR throws; full() is read again for BLOCK.
ErrorTest(t) ==
  /\ qpc[t] = "error"
  /\ IF Full /\ m_policy = "ERROR" THEN GiveUp(t) ELSE QueueMove(t, "block")

BlockTest(t) ==
  /\ qpc[t] = "block"
  /\ QueueMove(t, IF Full /\ m_policy = "BLOCK" THEN "lock" ELSE "put")

FullLock(t) ==
  /\ qpc[t] = "lock"
  /\ m_mutex = NoThread
  /\ m_mutex' = t
  /\ QueueGoto(t, "fullTest")
  /\ UNCHANGED <<ringVars, m_policy, qop, qarg>>

\* The wait predicate; the ring may change between it and the sleep, since pop
\* does not take m_mutex.
FullTest(t) ==
  /\ qpc[t] = "fullTest"
  /\ IF Full
     THEN QueueMove(t, "fullWait")
     ELSE /\ m_mutex' = NoThread
          /\ QueueGoto(t, "put")
          /\ UNCHANGED <<ringVars, m_policy, qop, qarg>>

FullWait(t) ==
  /\ qpc[t] = "fullWait"
  /\ m_mutex' = NoThread
  /\ QueueGoto(t, "fullAsleep")
  /\ UNCHANGED <<ringVars, m_policy, qop, qarg>>

FullWakeup(t) == qpc[t] = "fullAsleep" /\ QueueMove(t, "lock")

StartPut(t) ==
  /\ qpc[t] = "put"
  /\ Enter(t, "put", qarg[t])
  /\ QueueGoto(t, "putting")
  /\ UNCHANGED <<m_policy, m_mutex, qop, qarg>>

EndPut(t) ==
  /\ qpc[t] = "putting" /\ pc[t] = "idle"
  /\ QueueReturn(t)
  /\ UNCHANGED ringVars

-------------------------------------------------------------------------------
(* pop, tryPop and peek. *)

TryEmpty(t) ==
  /\ qpc[t] = "tryEmpty"
  /\ IF m_size = 0 THEN GiveUp(t) ELSE QueueMove(t, "pop")

StartPop(t) ==
  /\ qpc[t] = "pop"
  /\ Enter(t, "popFront", Blank)
  /\ QueueGoto(t, "popping")
  /\ UNCHANGED <<m_policy, m_mutex, qop, qarg>>

EndPop(t) == qpc[t] = "popping" /\ pc[t] = "idle" /\ QueueMove(t, "fullNotify")

\* m_full_cv.notify_one, without the queue's mutex.
FullNotify(t) ==
  /\ qpc[t] = "fullNotify"
  /\ \/ \E s \in FullSleepers : qpc' = [qpc EXCEPT ![t] = "idle", ![s] = "lock"]
     \/ FullSleepers = {} /\ QueueGoto(t, "idle")
  /\ qop' = [qop EXCEPT ![t] = "none"]
  /\ UNCHANGED <<ringVars, m_policy, m_mutex, qarg>>

StartPeek(t) ==
  /\ qpc[t] = "peek"
  /\ Enter(t, "tryFront", Blank)
  /\ QueueGoto(t, "peeking")
  /\ UNCHANGED <<m_policy, m_mutex, qop, qarg>>

EndPeek(t) ==
  /\ qpc[t] = "peeking" /\ pc[t] = "idle"
  /\ QueueReturn(t)
  /\ UNCHANGED ringVars

-------------------------------------------------------------------------------
QueueStep(t) ==
  \/ TryFull(t) \/ ErrorTest(t) \/ BlockTest(t) \/ FullLock(t) \/ FullTest(t) \/ FullWait(t)
  \/ StartPut(t) \/ EndPut(t)
  \/ TryEmpty(t) \/ StartPop(t) \/ EndPop(t) \/ FullNotify(t)
  \/ StartPeek(t) \/ EndPeek(t)

InnerStep(t) == RingStep(t) /\ UNCHANGED queueVars
InnerWakeup(t) == SpuriousWakeup(t) /\ UNCHANGED queueVars

CircNext ==
  \E t \in Thread : \/ QueueCall(t) \/ QueueStep(t) \/ FullWakeup(t)
                    \/ InnerStep(t) \/ InnerWakeup(t)

CircSpec == CircInit /\ [][CircNext]_circVars
CircFairSpec ==
  CircSpec /\ \A t \in Thread : WF_circVars(QueueStep(t)) /\ WF_circVars(InnerStep(t))

-------------------------------------------------------------------------------
(* Properties. *)

\* Every variable of the queue keeps its type, and so does its ring.
CircTypeOK ==
  /\ TypeOK
  /\ m_policy \in Policies
  /\ m_mutex \in Thread \cup {NoThread}
  /\ qpc \in [Thread -> QueueLabels]
  /\ qop \in [Thread -> QueueOps \cup {"none"}]
  /\ qarg \in [Thread -> Value \cup {Blank}]

\* tryPush and tryPop never sleep.
TriesNeverSleep ==
  \A t \in Thread :
    qop[t] \in {"tryPush", "tryPop"} => qpc[t] # "fullAsleep" /\ pc[t] # "asleep"

\* The queue is linearizable to a FIFO of Capacity elements, lossy only under
\* OVERWRITE_OLDEST.
Fifo == INSTANCE FifoQueue WITH
          items <- [i \in 1 .. m_size |-> m_buffer[(m_front_idx + i - 1) % Capacity]],
          lossy <- m_policy = "OVERWRITE_OLDEST", limit <- Capacity, NoValue <- Blank
ImplementsFifo == Fifo!Spec

CircTrafficStops ==
  <>[][\A t \in Thread : ~QueueCall(t) /\ ~FullWakeup(t) /\ ~InnerWakeup(t)]_circVars

\* A pop unblocks a push that sleeps on a full queue.
QueuePushersServed ==
  CircTrafficStops => \A t \in Thread : (t \in FullSleepers /\ ~Full)
                                          ~> (t \notin FullSleepers \/ Full)
==============================================================================
