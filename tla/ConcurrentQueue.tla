--------------------------- MODULE ConcurrentQueue ---------------------------
(****************************************************************************)
(* ccl::ds::queue::ConcurrentQueue: a std::queue guarded by m_mutex, with   *)
(* the condition variables m_notEmpty (poppers sleep on it) and m_notFull   *)
(* (pushers sleep on it), an element counter m_size kept beside the queue,  *)
(* and a capacity that capacity(value) raises without taking the mutex.     *)
(*                                                                          *)
(* A call is cut where another thread can come between: taking the mutex,   *)
(* testing the wait predicate, moving the element, counting it, unlocking   *)
(* and notifying.  A condition-variable wait releases the mutex and falls   *)
(* asleep in one step; a woken thread (spuriously or not) takes the mutex   *)
(* again and re-tests.  The wait predicate reads up to three atomics; since *)
(* m_unlimited only falls and m_capacity only grows, and m_size cannot      *)
(* change under the mutex, its loads give one of the outcomes of a single   *)
(* read.                                                                    *)
(****************************************************************************)
EXTENDS Integers, Sequences, FiniteSets

CONSTANTS
  Thread,       \* the threads sharing the queue
  Value,        \* the elements they exchange
  NoThread,     \* the owner of a free mutex
  NoValue,      \* a destination nothing was stored to yet
  Calls,        \* Calls[t]: the operations thread t may call
  BoundedCaps,  \* max_capacity given to ConcurrentQueue(max_capacity)
  StdQueues,    \* contents of the std::queue the queue is built from; the
                \* default constructor is the empty one
  NewCaps,      \* values given to capacity(value)
  MaxLen        \* bound: elements an unlimited queue holds in a model

Pushes == {"push", "tryPush"}
Pops == {"pop", "tryPop"}
Ops == Pushes \cup Pops \cup {"peek", "capacity"}

ASSUME QueueAssumption ==
  /\ IsFiniteSet(Thread)
  /\ NoThread \notin Thread
  /\ NoValue \notin Value
  /\ Calls \in [Thread -> SUBSET Ops]
  /\ BoundedCaps \subseteq Nat
  /\ StdQueues \subseteq Seq(Value)
  /\ NewCaps \subseteq Nat
  /\ MaxLen \in Nat

VARIABLES
  m_queue,      \* the std::queue, oldest element first
  m_size,       \* atomic element counter
  m_capacity,   \* atomic capacity
  m_unlimited,  \* atomic flag: the capacity is not applied
  built,        \* the capacity it was built with, -1 for none (not a field: what
                \* the properties compare with)
  mutex,        \* owner of m_mutex
  pc,           \* where each thread is in its call
  op,           \* the operation it is in, "none" between calls
  arg,          \* the value it pushes
  cap,          \* the (value, old) locals of capacity()
  got,          \* the destination of its last pop or peek
  ok            \* whether its last call did what it was asked to

limits == <<m_capacity, m_unlimited, built>>
vars == <<m_queue, m_size, m_capacity, m_unlimited, built, mutex, pc, op, arg, cap, got, ok>>

Labels == {"idle", "lock", "test", "asleep", "mutate", "count", "unlock", "notify",
           "load", "cas", "store"}

NoCap == [value |-> 0, old |-> 0]

\* The threads asleep on m_notEmpty and on m_notFull.
NotEmptySleepers == {t \in Thread : pc[t] = "asleep" /\ op[t] = "pop"}
NotFullSleepers == {t \in Thread : pc[t] = "asleep" /\ op[t] = "push"}

\* A definition named ...Mutant is the next one with a plausible fault; the runs
\* use it to show that their properties can fail.
RoomMutant == m_unlimited \/ m_size <= m_capacity
Room == m_unlimited \/ m_size < m_capacity

\* The wait predicate of a blocking call; a non-blocking one returns false on
\* its opposite.
Ready(t) == IF op[t] \in Pushes THEN Room ELSE m_queue # <<>>

Init ==
  /\ \/ /\ m_queue = <<>>
        /\ m_capacity \in BoundedCaps
        /\ m_unlimited = FALSE
        /\ built = m_capacity
     \/ /\ m_queue \in StdQueues
        /\ m_capacity = Len(m_queue)
        /\ m_unlimited = TRUE
        /\ built = -1
  /\ m_size = Len(m_queue)
  /\ mutex = NoThread
  /\ pc = [t \in Thread |-> "idle"]
  /\ op = [t \in Thread |-> "none"]
  /\ arg = [t \in Thread |-> NoValue]
  /\ cap = [t \in Thread |-> NoCap]
  /\ got = [t \in Thread |-> NoValue]
  /\ ok = [t \in Thread |-> TRUE]

Goto(t, label) == pc' = [pc EXCEPT ![t] = label]

Return(t) ==
  /\ Goto(t, "idle")
  /\ op' = [op EXCEPT ![t] = "none"]

-------------------------------------------------------------------------------
(* A thread enters an operation. *)

\* A bound of the model, not of the code: pushes to an unlimited queue stop at
\* MaxLen elements.
BelowMaxLen ==
  m_unlimited => Len(m_queue) + Cardinality({t \in Thread : op[t] \in Pushes}) < MaxLen

CallPush(t, o, v) ==
  /\ BelowMaxLen
  /\ Goto(t, "lock")
  /\ op' = [op EXCEPT ![t] = o]
  /\ arg' = [arg EXCEPT ![t] = v]
  /\ UNCHANGED cap

CallTake(t, o) ==
  /\ Goto(t, "lock")
  /\ op' = [op EXCEPT ![t] = o]
  /\ UNCHANGED <<arg, cap>>

CallCapacity(t, n) ==
  /\ Goto(t, "load")
  /\ op' = [op EXCEPT ![t] = "capacity"]
  /\ cap' = [cap EXCEPT ![t].value = n]
  /\ UNCHANGED arg

Call(t) ==
  /\ pc[t] = "idle"
  /\ \/ \E o \in Calls[t] \cap Pushes, v \in Value : CallPush(t, o, v)
     \/ \E o \in Calls[t] \cap (Pops \cup {"peek"}) : CallTake(t, o)
     \/ "capacity" \in Calls[t] /\ \E n \in NewCaps : CallCapacity(t, n)
  /\ UNCHANGED <<m_queue, m_size, limits, mutex, got, ok>>

-------------------------------------------------------------------------------
(* The steps of push, tryPush, pop, tryPop and peek. *)

Lock(t) ==
  /\ pc[t] = "lock"
  /\ mutex = NoThread
  /\ mutex' = t
  /\ Goto(t, "test")
  /\ UNCHANGED <<m_queue, m_size, limits, op, arg, cap, got, ok>>

\* The predicate holds, or the non-blocking call found what it needs.
TestPasses(t) ==
  /\ op[t] \in Pushes \cup Pops
  /\ Ready(t)
  /\ Goto(t, "mutate")
  /\ ok' = [ok EXCEPT ![t] = TRUE]
  /\ UNCHANGED <<mutex, op, arg, got>>

\* cv.wait: release the mutex and sleep, as one step.
FallAsleep(t) ==
  /\ op[t] \in {"push", "pop"}
  /\ ~Ready(t)
  /\ mutex' = NoThread
  /\ Goto(t, "asleep")
  /\ UNCHANGED <<op, arg, got, ok>>

Refuse(t) ==
  /\ op[t] \in {"tryPush", "tryPop", "peek"}
  /\ ~Ready(t)
  /\ mutex' = NoThread
  /\ Return(t)
  /\ arg' = [arg EXCEPT ![t] = NoValue]
  /\ ok' = [ok EXCEPT ![t] = FALSE]
  /\ UNCHANGED got

PeekFront(t) ==
  /\ op[t] = "peek"
  /\ Ready(t)
  /\ got' = [got EXCEPT ![t] = Head(m_queue)]
  /\ ok' = [ok EXCEPT ![t] = TRUE]
  /\ mutex' = NoThread
  /\ Return(t)
  /\ UNCHANGED arg

Test(t) ==
  /\ pc[t] = "test"
  /\ TestPasses(t) \/ FallAsleep(t) \/ Refuse(t) \/ PeekFront(t)
  /\ UNCHANGED <<m_queue, m_size, limits, cap>>

\* m_queue.push(std::move(value)), or the front moved out and popped.
Mutate(t) ==
  /\ pc[t] = "mutate"
  /\ IF op[t] \in Pushes
     THEN /\ m_queue' = Append(m_queue, arg[t])
          /\ arg' = [arg EXCEPT ![t] = NoValue]
          /\ UNCHANGED got
     ELSE /\ got' = [got EXCEPT ![t] = Head(m_queue)]
          /\ m_queue' = Tail(m_queue)
          /\ UNCHANGED arg
  /\ Goto(t, "count")
  /\ UNCHANGED <<m_size, limits, mutex, op, cap, ok>>

CountedOnceMutant(t) == IF op[t] \in Pushes THEN m_size + 1 ELSE m_size
Counted(t) == IF op[t] \in Pushes THEN m_size + 1 ELSE m_size - 1

Count(t) ==
  /\ pc[t] = "count"
  /\ m_size' = Counted(t)
  /\ Goto(t, "unlock")
  /\ UNCHANGED <<m_queue, limits, mutex, op, arg, cap, got, ok>>

Unlock(t) ==
  /\ pc[t] = "unlock"
  /\ mutex' = NoThread
  /\ Goto(t, "notify")
  /\ UNCHANGED <<m_queue, m_size, limits, op, arg, cap, got, ok>>

\* A push notifies m_notEmpty, a pop m_notFull.
SleepersMutant(t) == IF op[t] \in Pushes THEN NotFullSleepers ELSE NotEmptySleepers
Sleepers(t) == IF op[t] \in Pushes THEN NotEmptySleepers ELSE NotFullSleepers

\* notify_one wakes one sleeper, any one, if there is one.
Notify(t) ==
  /\ pc[t] = "notify"
  /\ \/ \E s \in Sleepers(t) : pc' = [pc EXCEPT ![t] = "idle", ![s] = "lock"]
     \/ Sleepers(t) = {} /\ Goto(t, "idle")
  /\ op' = [op EXCEPT ![t] = "none"]
  /\ UNCHANGED <<m_queue, m_size, limits, mutex, arg, cap, got, ok>>

SpuriousWakeup(t) ==
  /\ pc[t] = "asleep"
  /\ Goto(t, "lock")
  /\ UNCHANGED <<m_queue, m_size, limits, mutex, op, arg, cap, got, ok>>

-------------------------------------------------------------------------------
(* The steps of capacity(value), which takes no lock and notifies nobody. *)

LoadCapacity(t) ==
  /\ pc[t] = "load"
  /\ cap' = [cap EXCEPT ![t].old = m_capacity]
  /\ Goto(t, "cas")
  /\ UNCHANGED <<m_queue, m_size, limits, mutex, op, arg, got, ok>>

CompareExchangeMutant(t) ==
  /\ pc[t] = "cas"
  /\ m_capacity' = cap[t].value
  /\ Goto(t, "store")
  /\ UNCHANGED <<m_queue, m_size, m_unlimited, built, mutex, op, arg, cap, got, ok>>

\* value > old && !compare_exchange_weak(old, value); a spurious failure of the
\* exchange reloads the same old and is a stuttering step.
CompareExchange(t) ==
  /\ pc[t] = "cas"
  /\ \/ /\ cap[t].value <= cap[t].old
        /\ Goto(t, "store")
        /\ UNCHANGED <<m_capacity, cap>>
     \/ /\ cap[t].value > cap[t].old
        /\ m_capacity = cap[t].old
        /\ m_capacity' = cap[t].value
        /\ Goto(t, "store")
        /\ UNCHANGED cap
     \/ /\ cap[t].value > cap[t].old
        /\ m_capacity # cap[t].old
        /\ cap' = [cap EXCEPT ![t].old = m_capacity]
        /\ UNCHANGED <<m_capacity, pc>>
  /\ UNCHANGED <<m_queue, m_size, m_unlimited, built, mutex, op, arg, got, ok>>

StoreLimited(t) ==
  /\ pc[t] = "store"
  /\ m_unlimited' = FALSE
  /\ cap' = [cap EXCEPT ![t] = NoCap]
  /\ Return(t)
  /\ UNCHANGED <<m_queue, m_size, m_capacity, built, mutex, arg, got, ok>>

-------------------------------------------------------------------------------
Step(t) ==
  \/ Lock(t) \/ Test(t) \/ Mutate(t) \/ Count(t) \/ Unlock(t) \/ Notify(t)
  \/ LoadCapacity(t) \/ CompareExchange(t) \/ StoreLimited(t)

Next == \E t \in Thread : Call(t) \/ Step(t) \/ SpuriousWakeup(t)

\* A thread inside a call keeps running; nobody has to call, and no wakeup is
\* owed to chance.
Fairness == \A t \in Thread : WF_vars(Step(t))

Spec == Init /\ [][Next]_vars
FairSpec == Spec /\ Fairness
-------------------------------------------------------------------------------
(* Properties. *)

\* Every variable keeps its type; in particular the counter never underflows.
TypeOK ==
  /\ m_queue \in Seq(Value)
  /\ m_size \in Nat
  /\ m_capacity \in Nat
  /\ m_unlimited \in BOOLEAN
  /\ built \in Nat \cup {-1}
  /\ mutex \in Thread \cup {NoThread}
  /\ pc \in [Thread -> Labels]
  /\ op \in [Thread -> Ops \cup {"none"}]
  /\ arg \in [Thread -> Value \cup {NoValue}]
  /\ cap \in [Thread -> [value : Nat, old : Nat]]
  /\ got \in [Thread -> Value \cup {NoValue}]
  /\ ok \in [Thread -> BOOLEAN]

\* Whenever m_mutex is free the atomic counter read by size(), empty() and full()
\* is the number of queued elements, whatever push and pop did in between.
CountAgrees == mutex = NoThread => m_size = Len(m_queue)

\* A queue built with a capacity never holds more elements than its capacity,
\* with any mix of blocking and non-blocking pushes and capacity() calls.
WithinCapacity == built # -1 => Len(m_queue) <= m_capacity

InFlight(ops, labels) == Cardinality({t \in Thread : op[t] \in ops /\ pc[t] \in labels})

\* notify_one wakes one thread and tryPop steals elements, yet no wakeup is lost:
\* while a popper sleeps, each queued element is matched by a push that has still
\* to notify or by a popper already on its way to the queue.
ElementsAnnounced ==
  NotEmptySleepers # {} =>
    Len(m_queue) <= InFlight(Pushes, {"count", "unlock", "notify"})
                      + InFlight({"pop"}, {"lock", "test", "mutate"})

\* The dual for m_notFull: while a pusher sleeps, each free slot of those the
\* queue was built with is matched by a pop that has still to notify or by a
\* pusher already on its way.  The slots that capacity() adds are not: it
\* notifies nobody.
SlotsAnnounced ==
  NotFullSleepers # {} =>
    built - Len(m_queue) <= InFlight(Pops, {"count", "unlock", "notify"})
                              + InFlight({"push"}, {"lock", "test", "mutate"})

\* The thread between its test and its mutation has already taken effect for the
\* other threads: the mutex is its own until it unlocks.
Deciding == mutex # NoThread /\ pc[mutex] = "mutate"
DecidedItems ==
  CASE Deciding /\ op[mutex] \in Pushes -> Append(m_queue, arg[mutex])
    [] Deciding /\ op[mutex] \in Pops   -> Tail(m_queue)
    [] OTHER                            -> m_queue
DecidedGot ==
  IF Deciding /\ op[mutex] \in Pops
  THEN [got EXCEPT ![mutex] = Head(m_queue)]
  ELSE got

Fifo == INSTANCE FifoQueue WITH
          items <- DecidedItems,
          lossy <- FALSE,
          limit <- IF m_unlimited THEN -1 ELSE m_capacity,
          got   <- DecidedGot

\* The queue is linearizable to the abstract FIFO: first in first out, nothing
\* lost or duplicated, a push only with room, a refusal only when there is cause.
ImplementsFifo == Fifo!Spec

\* From some point on nobody enters a new operation and no sleeper is woken by
\* chance; std::mutex being unfair, endless traffic could starve a thread.
TrafficStops == <>[][\A t \in Thread : ~Call(t) /\ ~SpuriousWakeup(t)]_vars

\* A pop asleep on m_notEmpty is woken if an element stays queued, and a push
\* asleep on m_notFull if the queue stays below its capacity: callers wait only
\* while the queue is empty, or full.
CallersServed ==
  TrafficStops =>
    \A t \in Thread :
      /\ (t \in NotEmptySleepers /\ m_queue # <<>>)
           ~> (t \notin NotEmptySleepers \/ m_queue = <<>>)
      /\ (t \in NotFullSleepers /\ Room)
           ~> (t \notin NotFullSleepers \/ ~Room)
==============================================================================
