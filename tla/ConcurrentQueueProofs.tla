------------------------ MODULE ConcurrentQueueProofs ------------------------
(****************************************************************************)
(* Proofs about ConcurrentQueue, for every set of threads, values, calls,   *)
(* capacities and bounds.                                                   *)
(****************************************************************************)
EXTENDS ConcurrentQueue, SequenceTheorems, FiniteSetTheorems, TLAPS

\* A thread is past its lock exactly while it owns m_mutex.
Locked == {"test", "mutate", "count", "unlock"}
OwnerInv == \A t \in Thread : pc[t] \in Locked <=> mutex = t

\* Which operations reach which label.
CallInv ==
  \A t \in Thread :
    /\ pc[t] = "idle" <=> op[t] = "none"
    /\ pc[t] \in {"load", "cas", "store"} <=> op[t] = "capacity"
    /\ pc[t] = "asleep" => op[t] \in {"push", "pop"}
    /\ pc[t] \in {"mutate", "count", "unlock", "notify"} => op[t] \in Pushes \cup Pops
    /\ op[t] \in Pushes /\ pc[t] \in {"lock", "test", "asleep", "mutate"} => arg[t] \in Value

\* The counter lags the queue only between the mutation and the count.
SizeInv ==
  \/ /\ m_size = Len(m_queue)
     /\ \A t \in Thread : pc[t] # "count"
  \/ \E t \in Thread :
       /\ pc[t] = "count"
       /\ op[t] \in Pushes => m_size + 1 = Len(m_queue)
       /\ op[t] \in Pops => m_size = Len(m_queue) + 1

\* A thread that decided to remove still has an element to remove.
TakeInv == \A t \in Thread : pc[t] = "mutate" /\ op[t] \in Pops => m_queue # <<>>

IInv == TypeOK /\ OwnerInv /\ CallInv /\ SizeInv /\ TakeInv

USE DEF Pushes, Pops, Ops, Labels

LEMMA InitInv == Init => IInv
<1> SUFFICES ASSUME Init PROVE IInv
  OBVIOUS
<1>1. /\ m_queue \in Seq(Value) /\ m_capacity \in Nat /\ m_unlimited \in BOOLEAN
      /\ built \in Nat \cup {-1}
  <2>1. CASE /\ m_queue = <<>> /\ m_capacity \in BoundedCaps
             /\ m_unlimited = FALSE /\ built = m_capacity
    BY <2>1, QueueAssumption, EmptySeq
  <2>2. CASE /\ m_queue \in StdQueues /\ m_capacity = Len(m_queue)
             /\ m_unlimited = TRUE /\ built = -1
    <3>1. m_queue \in Seq(Value)
      BY <2>2, QueueAssumption
    <3> QED BY <2>2, <3>1, LenProperties
  <2> QED BY <2>1, <2>2 DEF Init
<1>2. m_size = Len(m_queue) /\ m_size \in Nat
  BY <1>1, LenProperties DEF Init
<1>3. TypeOK
  BY <1>1, <1>2 DEF Init, TypeOK, NoCap
<1>4. OwnerInv /\ CallInv /\ SizeInv /\ TakeInv
  BY <1>2, QueueAssumption DEF Init, OwnerInv, CallInv, SizeInv, TakeInv, Locked
<1> QED BY <1>3, <1>4 DEF IInv

LEMMA StepInv == IInv /\ [Next]_vars => IInv'
<1> SUFFICES ASSUME IInv, [Next]_vars PROVE IInv'
  OBVIOUS
<1> USE QueueAssumption DEF IInv, Goto, Return, limits
<1>1. ASSUME NEW t \in Thread, Call(t) PROVE IInv'
  <2>1. ASSUME NEW o \in Pushes, NEW v \in Value, CallPush(t, o, v) PROVE IInv'
    <3>1. TypeOK'
      BY <1>1, <2>1 DEF Call, CallPush, TypeOK
    <3>2. OwnerInv' /\ CallInv'
      BY <1>1, <2>1 DEF Call, CallPush, TypeOK, OwnerInv, CallInv, Locked
    <3>3. SizeInv' /\ TakeInv'
      BY <1>1, <2>1 DEF Call, CallPush, TypeOK, SizeInv, TakeInv, CallInv
    <3> QED BY <3>1, <3>2, <3>3
  <2>2. ASSUME NEW o \in Pops \cup {"peek"}, CallTake(t, o) PROVE IInv'
    <3>1. TypeOK'
      BY <1>1, <2>2 DEF Call, CallTake, TypeOK
    <3>2. OwnerInv' /\ CallInv'
      BY <1>1, <2>2 DEF Call, CallTake, TypeOK, OwnerInv, CallInv, Locked
    <3>3. SizeInv' /\ TakeInv'
      BY <1>1, <2>2 DEF Call, CallTake, TypeOK, SizeInv, TakeInv, CallInv
    <3> QED BY <3>1, <3>2, <3>3
  <2>3. ASSUME NEW n \in NewCaps, CallCapacity(t, n) PROVE IInv'
    <3>1. cap' \in [Thread -> [value : Nat, old : Nat]]
      BY <2>3 DEF CallCapacity, TypeOK
    <3>2. TypeOK'
      BY <1>1, <2>3, <3>1 DEF Call, CallCapacity, TypeOK
    <3>3. OwnerInv' /\ CallInv'
      BY <1>1, <2>3 DEF Call, CallCapacity, TypeOK, OwnerInv, CallInv, Locked
    <3>4. SizeInv' /\ TakeInv'
      BY <1>1, <2>3 DEF Call, CallCapacity, TypeOK, SizeInv, TakeInv, CallInv
    <3> QED BY <3>2, <3>3, <3>4
  <2> QED BY <1>1, <2>1, <2>2, <2>3 DEF Call
<1>2. ASSUME NEW t \in Thread, Lock(t) PROVE IInv'
  BY <1>2 DEF Lock, TypeOK, OwnerInv, CallInv, SizeInv, TakeInv, Locked
<1>3. ASSUME NEW t \in Thread, Test(t) PROVE IInv'
  <2>1. CASE TestPasses(t)
    BY <1>3, <2>1 DEF Test, TestPasses, Ready, TypeOK, OwnerInv, CallInv, SizeInv, TakeInv, Locked
  <2>2. CASE FallAsleep(t)
    BY <1>3, <2>2 DEF Test, FallAsleep, TypeOK, OwnerInv, CallInv, SizeInv, TakeInv, Locked
  <2>3. CASE Refuse(t)
    BY <1>3, <2>3 DEF Test, Refuse, TypeOK, OwnerInv, CallInv, SizeInv, TakeInv, Locked
  <2>4. CASE PeekFront(t)
    BY <1>3, <2>4 DEF Test, PeekFront, Ready, TypeOK, OwnerInv, CallInv, SizeInv, TakeInv, Locked
  <2> QED BY <1>3, <2>1, <2>2, <2>3, <2>4 DEF Test
<1>4. ASSUME NEW t \in Thread, Mutate(t) PROVE IInv'
  <2>1. CASE op[t] \in Pushes
    <3>1. arg[t] \in Value /\ m_queue \in Seq(Value)
      BY <1>4, <2>1 DEF Mutate, CallInv, TypeOK
    <3>2. m_queue' = Append(m_queue, arg[t])
      BY <1>4, <2>1 DEF Mutate
    <3>3. m_queue' \in Seq(Value) /\ Len(m_queue') = Len(m_queue) + 1
      BY <3>1, <3>2, AppendProperties
    <3>4. TypeOK'
      BY <1>4, <2>1, <3>3 DEF Mutate, TypeOK
    <3>5. OwnerInv' /\ CallInv' /\ TakeInv'
      BY <1>4, <2>1 DEF Mutate, TypeOK, OwnerInv, CallInv, TakeInv, Locked
    <3>6. SizeInv'
      BY <1>4, <2>1, <3>3 DEF Mutate, TypeOK, OwnerInv, SizeInv, Locked
    <3> QED BY <3>4, <3>5, <3>6
  <2>2. CASE op[t] \in Pops
    <3>1. m_queue # <<>> /\ m_queue \in Seq(Value)
      BY <1>4, <2>2 DEF Mutate, TakeInv, TypeOK
    <3>2. m_queue' = Tail(m_queue) /\ got' = [got EXCEPT ![t] = Head(m_queue)]
      BY <1>4, <2>2 DEF Mutate
    <3>3. /\ m_queue' \in Seq(Value)
          /\ Head(m_queue) \in Value
          /\ Len(m_queue') = Len(m_queue) - 1
      BY <3>1, <3>2, HeadTailProperties
    <3>4. TypeOK'
      BY <1>4, <2>2, <3>2, <3>3 DEF Mutate, TypeOK
    <3>5. OwnerInv' /\ CallInv' /\ TakeInv'
      BY <1>4, <2>2 DEF Mutate, TypeOK, OwnerInv, CallInv, TakeInv, Locked
    <3>6. Len(m_queue) \in Nat /\ Len(m_queue') \in Nat
      BY <3>1, <3>3, LenProperties
    <3>7. SizeInv'
      BY <1>4, <2>2, <3>3, <3>6 DEF Mutate, TypeOK, OwnerInv, SizeInv, Locked
    <3> QED BY <3>4, <3>5, <3>7
  <2> QED BY <1>4, <2>1, <2>2 DEF Mutate, CallInv
<1>5. ASSUME NEW t \in Thread, Count(t) PROVE IInv'
  BY <1>5 DEF Count, Counted, TypeOK, OwnerInv, CallInv, SizeInv, TakeInv, Locked
<1>6. ASSUME NEW t \in Thread, Unlock(t) PROVE IInv'
  BY <1>6 DEF Unlock, TypeOK, OwnerInv, CallInv, SizeInv, TakeInv, Locked
<1>7. ASSUME NEW t \in Thread, Notify(t) PROVE IInv'
  <2>1. CASE Goto(t, "idle")
    BY <1>7, <2>1 DEF Notify, Sleepers, TypeOK, OwnerInv, CallInv, SizeInv, TakeInv, Locked
  <2>2. ASSUME NEW s \in NotEmptySleepers \cup NotFullSleepers,
               pc' = [pc EXCEPT ![t] = "idle", ![s] = "lock"]
        PROVE  IInv'
    <3>1. s \in Thread /\ pc[s] = "asleep" /\ s # t
      BY <1>7, <2>2 DEF Notify, Sleepers, NotEmptySleepers, NotFullSleepers
    <3>2. TypeOK'
      BY <1>7, <2>2, <3>1 DEF Notify, Sleepers, TypeOK
    <3>3. OwnerInv'
      BY <1>7, <2>2, <3>1 DEF Notify, Sleepers, TypeOK, OwnerInv, Locked
    <3>4. CallInv'
      BY <1>7, <2>2, <3>1 DEF Notify, Sleepers, TypeOK, CallInv
    <3>5. SizeInv' /\ TakeInv'
      BY <1>7, <2>2, <3>1 DEF Notify, Sleepers, TypeOK, SizeInv, TakeInv
    <3> QED BY <3>2, <3>3, <3>4, <3>5
  <2> QED BY <1>7, <2>1, <2>2 DEF Notify, Sleepers
<1>8. ASSUME NEW t \in Thread, LoadCapacity(t) \/ CompareExchange(t) PROVE IInv'
  <2>1. cap[t].value \in Nat /\ cap' \in [Thread -> [value : Nat, old : Nat]]
    <3>1. cap[t] \in [value : Nat, old : Nat] /\ m_capacity \in Nat
      BY DEF TypeOK
    <3>2. CASE cap' = [cap EXCEPT ![t].old = m_capacity]
      BY <3>1, <3>2 DEF TypeOK
    <3>3. CASE cap' = cap
      BY <3>1, <3>3 DEF TypeOK
    <3> QED BY <1>8, <3>1, <3>2, <3>3 DEF LoadCapacity, CompareExchange
  <2>2. TypeOK'
    BY <1>8, <2>1 DEF LoadCapacity, CompareExchange, TypeOK
  <2>3. pc[t] \in {"load", "cas"}
    BY <1>8 DEF LoadCapacity, CompareExchange
  <2>4. \E label \in {"cas", "store"} : pc' = [pc EXCEPT ![t] = label]
    BY <1>8 DEF LoadCapacity, CompareExchange, TypeOK
  <2>5. UNCHANGED <<m_queue, m_size, mutex, op, arg>>
    BY <1>8 DEF LoadCapacity, CompareExchange
  <2>6. OwnerInv' /\ CallInv'
    BY <2>3, <2>4, <2>5 DEF TypeOK, OwnerInv, CallInv, Locked
  <2>7. SizeInv' /\ TakeInv'
    BY <2>3, <2>4, <2>5 DEF TypeOK, SizeInv, TakeInv
  <2> QED BY <2>2, <2>6, <2>7
<1>9. ASSUME NEW t \in Thread, StoreLimited(t) PROVE IInv'
  <2>1. NoCap \in [value : Nat, old : Nat]
    BY DEF NoCap
  <2>2. TypeOK'
    BY <1>9, <2>1 DEF StoreLimited, TypeOK
  <2>3. OwnerInv'
    BY <1>9 DEF StoreLimited, TypeOK, OwnerInv, Locked
  <2>4. CallInv'
    BY <1>9 DEF StoreLimited, TypeOK, CallInv
  <2>5. SizeInv' /\ TakeInv'
    BY <1>9 DEF StoreLimited, TypeOK, SizeInv, TakeInv
  <2> QED BY <2>2, <2>3, <2>4, <2>5
<1>10. ASSUME NEW t \in Thread, SpuriousWakeup(t) PROVE IInv'
  BY <1>10 DEF SpuriousWakeup, TypeOK, OwnerInv, CallInv, SizeInv, TakeInv, Locked
<1>11. CASE UNCHANGED vars
  BY <1>11 DEF vars, TypeOK, OwnerInv, CallInv, SizeInv, TakeInv
<1> QED BY <1>1, <1>2, <1>3, <1>4, <1>5, <1>6, <1>7, <1>8, <1>9, <1>10, <1>11 DEF Next, Step

\* The variables stay in their types, the counter never going below zero.
THEOREM TypeCorrect == Spec => []TypeOK
<1>1. IInv => TypeOK
  BY DEF IInv
<1> QED BY <1>1, InitInv, StepInv, PTL DEF Spec

\* Whenever the mutex is free m_size is the number of queued elements.
THEOREM CountCorrect == Spec => []CountAgrees
<1>1. IInv => CountAgrees
  BY QueueAssumption DEF IInv, OwnerInv, SizeInv, CountAgrees, Locked
<1> QED BY <1>1, InitInv, StepInv, PTL DEF Spec

-------------------------------------------------------------------------------
(* The capacity of a queue built with one. *)

\* The capacity it was built with is that of the queue or less, and a push that
\* passed its test still has room when it mutates: pops and capacity() only make
\* more.
BoundInv ==
  built # -1 =>
    /\ m_unlimited = FALSE
    /\ built <= m_capacity
    /\ Len(m_queue) <= m_capacity
    /\ \A t \in Thread : pc[t] = "mutate" /\ op[t] \in Pushes => Len(m_queue) < m_capacity

LEMMA InitBound == Init => BoundInv
<1> SUFFICES ASSUME Init, built # -1 PROVE BoundInv
  BY DEF BoundInv
<1>1. m_queue = <<>> /\ m_capacity \in Nat /\ m_unlimited = FALSE /\ built = m_capacity
  BY QueueAssumption DEF Init
<1>2. Len(m_queue) = 0
  BY <1>1, EmptySeq
<1> QED BY <1>1, <1>2 DEF Init, BoundInv

\* What the queue was built with stays what it was.
LEMMA BuiltStays == [Next]_vars => built' = built
BY DEF vars, limits, Next, Step, Call, Lock, Test, Mutate, Count, Unlock, Notify,
       LoadCapacity, CompareExchange, StoreLimited, SpuriousWakeup

LEMMA StepBound == IInv /\ BoundInv /\ [Next]_vars => BoundInv'
<1> SUFFICES ASSUME IInv, BoundInv, [Next]_vars, built # -1, built' = built PROVE BoundInv'
  BY BuiltStays DEF BoundInv
<1> USE DEF Goto, Return, limits
<1>1. /\ m_queue \in Seq(Value) /\ Len(m_queue) \in Nat /\ m_capacity \in Nat
      /\ built \in Nat /\ pc \in [Thread -> Labels]
  BY LenProperties DEF IInv, TypeOK
<1>2. ASSUME NEW t \in Thread, Call(t) PROVE BoundInv'
  BY <1>1, <1>2 DEF Call, CallPush, CallTake, CallCapacity, BoundInv, IInv, TypeOK
<1>3. ASSUME NEW t \in Thread, Test(t) PROVE BoundInv'
  <2>1. m_size = Len(m_queue)
    BY <1>3 DEF Test, IInv, SizeInv, OwnerInv, Locked
  <2>2. CASE TestPasses(t)
    BY <1>1, <1>3, <2>1, <2>2 DEF Test, TestPasses, Ready, Room, BoundInv, IInv, TypeOK
  <2>3. CASE FallAsleep(t) \/ Refuse(t) \/ PeekFront(t)
    BY <1>1, <1>3, <2>3 DEF Test, FallAsleep, Refuse, PeekFront, BoundInv, IInv, TypeOK
  <2> QED BY <1>3, <2>2, <2>3 DEF Test
<1>4. ASSUME NEW t \in Thread, Mutate(t) PROVE BoundInv'
  <2>1. \A u \in Thread : pc'[u] # "mutate"
    BY <1>1, <1>4 DEF Mutate, IInv, OwnerInv, Locked
  <2>2. Len(m_queue') <= m_capacity
    <3>1. CASE op[t] \in Pushes
      <4>1. arg[t] \in Value /\ Len(m_queue) < m_capacity /\ m_queue' = Append(m_queue, arg[t])
        BY <1>4, <3>1 DEF Mutate, IInv, CallInv, BoundInv
      <4> QED BY <1>1, <4>1, AppendProperties
    <3>2. CASE op[t] \in Pops
      <4>1. m_queue # <<>> /\ Len(m_queue) <= m_capacity /\ m_queue' = Tail(m_queue)
        BY <1>4, <3>2 DEF Mutate, IInv, TakeInv, BoundInv
      <4> QED BY <1>1, <4>1, HeadTailProperties
    <3> QED BY <1>4, <3>1, <3>2 DEF Mutate, IInv, CallInv
  <2> QED BY <1>4, <2>1, <2>2 DEF Mutate, BoundInv
<1>5. ASSUME NEW t \in Thread, Lock(t) \/ Count(t) \/ Unlock(t) \/ SpuriousWakeup(t) PROVE BoundInv'
  BY <1>1, <1>5 DEF Lock, Count, Unlock, SpuriousWakeup, BoundInv
<1>6. ASSUME NEW t \in Thread, Notify(t) PROVE BoundInv'
  <2>1. \A u \in Thread : pc'[u] = "mutate" => pc[u] = "mutate" /\ op'[u] = op[u]
    BY <1>1, <1>6 DEF Notify, Sleepers, NotEmptySleepers, NotFullSleepers, IInv, TypeOK
  <2> QED BY <1>6, <2>1 DEF Notify, Sleepers, BoundInv
<1>7. ASSUME NEW t \in Thread, LoadCapacity(t) \/ CompareExchange(t) PROVE BoundInv'
  <2>1. m_capacity' >= m_capacity /\ m_capacity' \in Nat
    <3>1. cap[t] \in [value : Nat, old : Nat]
      BY DEF IInv, TypeOK
    <3> QED BY <1>1, <1>7, <3>1 DEF LoadCapacity, CompareExchange
  <2>2. \A u \in Thread : pc'[u] = "mutate" => pc[u] = "mutate"
    BY <1>1, <1>7 DEF LoadCapacity, CompareExchange
  <2>3. UNCHANGED <<m_queue, m_unlimited, op>>
    BY <1>7 DEF LoadCapacity, CompareExchange
  <2> QED BY <1>1, <2>1, <2>2, <2>3 DEF BoundInv
<1>8. ASSUME NEW t \in Thread, StoreLimited(t) PROVE BoundInv'
  BY <1>1, <1>8 DEF StoreLimited, BoundInv, IInv, TypeOK
<1>9. CASE UNCHANGED vars
  BY <1>9 DEF vars, BoundInv
<1> QED BY <1>2, <1>3, <1>4, <1>5, <1>6, <1>7, <1>8, <1>9 DEF Next, Step

\* A queue built with a capacity never exceeds it.
THEOREM CapacityCorrect == Spec => []WithinCapacity
<1>1. BoundInv => WithinCapacity
  BY DEF BoundInv, WithinCapacity
<1> QED BY <1>1, InitInv, StepInv, InitBound, StepBound, PTL DEF Spec

-------------------------------------------------------------------------------
(* No lost wakeup on m_notEmpty: ElementsAnnounced. *)

\* The pushes that have still to notify, and the poppers on their way.
Announcing == {t \in Thread : op[t] \in Pushes /\ pc[t] \in {"count", "unlock", "notify"}}
Coming == {t \in Thread : op[t] \in {"pop"} /\ pc[t] \in {"lock", "test", "mutate"}}

\* Cardinality of a set of threads that gains or loses one.
LEMMA OneMoreOrLess ==
  ASSUME NEW S \in SUBSET Thread, NEW t \in Thread
  PROVE  /\ Cardinality(S) \in Nat
         /\ t \notin S => Cardinality(S \cup {t}) = Cardinality(S) + 1
         /\ t \in S => Cardinality(S \ {t}) = Cardinality(S) - 1
<1>1. IsFiniteSet(S)
  BY QueueAssumption, FS_Subset
<1> QED BY <1>1, FS_CardinalityType, FS_AddElement, FS_RemoveElement

\* A set squeezed between S and S with one more element.
LEMMA Between ==
  ASSUME NEW S, NEW T, NEW x, S \subseteq T, T \subseteq S \cup {x}
  PROVE  T = S \/ (x \notin S /\ T = S \cup {x})
OBVIOUS

\* What a step has to do to keep the balance of elements and announcements.
LEMMA Balance ==
  ASSUME IInv, ElementsAnnounced, NEW t \in Thread,
         NotEmptySleepers' \subseteq NotEmptySleepers, m_queue' \in Seq(Value),
         \/ /\ Len(m_queue') = Len(m_queue)
            /\ Announcing \subseteq Announcing' /\ Announcing' \subseteq Announcing \cup {t}
            /\ Coming \subseteq Coming' /\ Coming' \subseteq Coming \cup {t}
         \/ /\ Len(m_queue') = Len(m_queue) + 1
            /\ t \notin Announcing /\ Announcing' = Announcing \cup {t}
            /\ Coming' = Coming
         \/ /\ Len(m_queue') = Len(m_queue) - 1
            /\ Announcing' = Announcing
            /\ Coming' = Coming \/ (t \in Coming /\ Coming' = Coming \ {t})
  PROVE  ElementsAnnounced'
<1> DEFINE a == Cardinality(Announcing) b == Cardinality(Coming)
<1>1. /\ Announcing \in SUBSET Thread /\ Coming \in SUBSET Thread
      /\ Len(m_queue) \in Nat /\ Len(m_queue') \in Nat
  BY LenProperties DEF Announcing, Coming, IInv, TypeOK
<1>2. /\ a \in Nat /\ b \in Nat
      /\ t \notin Announcing => Cardinality(Announcing \cup {t}) = a + 1
      /\ t \notin Coming => Cardinality(Coming \cup {t}) = b + 1
      /\ t \in Coming => Cardinality(Coming \ {t}) = b - 1
  BY <1>1, OneMoreOrLess
<1>3. NotEmptySleepers # {} => Len(m_queue) <= a + b
  BY DEF ElementsAnnounced, InFlight, Announcing, Coming
<1>4. NotEmptySleepers' # {} => Len(m_queue') <= Cardinality(Announcing') + Cardinality(Coming')
  <2>1. CASE Len(m_queue') = Len(m_queue)
    <3>1. /\ Announcing \subseteq Announcing' /\ Announcing' \subseteq Announcing \cup {t}
          /\ Coming \subseteq Coming' /\ Coming' \subseteq Coming \cup {t}
      BY <1>1, <2>1
    <3>2. /\ Announcing' = Announcing \/ (t \notin Announcing /\ Announcing' = Announcing \cup {t})
          /\ Coming' = Coming \/ (t \notin Coming /\ Coming' = Coming \cup {t})
      BY <3>1, Between
    <3>3. Cardinality(Announcing') \in {a, a + 1} /\ Cardinality(Coming') \in {b, b + 1}
      BY <1>2, <3>2
    <3> QED BY <1>1, <1>2, <1>3, <2>1, <3>3
  <2>2. CASE Len(m_queue') = Len(m_queue) + 1
    <3>1. t \notin Announcing /\ Announcing' = Announcing \cup {t} /\ Coming' = Coming
      BY <1>1, <2>2
    <3>2. Cardinality(Announcing') = a + 1 /\ Cardinality(Coming') = b
      BY <1>2, <3>1
    <3> QED BY <1>1, <1>2, <1>3, <2>2, <3>2
  <2>3. CASE Len(m_queue') = Len(m_queue) - 1
    <3>1. /\ Announcing' = Announcing
          /\ Coming' = Coming \/ (t \in Coming /\ Coming' = Coming \ {t})
      BY <1>1, <2>3
    <3>2. Cardinality(Announcing') = a /\ Cardinality(Coming') \in {b, b - 1}
      BY <1>2, <3>1
    <3> QED BY <1>1, <1>2, <1>3, <2>3, <3>2
  <2> QED BY <2>1, <2>2, <2>3
<1> QED BY <1>4 DEF ElementsAnnounced, InFlight, Announcing, Coming

LEMMA StepAnnounced == IInv /\ ElementsAnnounced /\ [Next]_vars => ElementsAnnounced'
<1> SUFFICES ASSUME IInv, ElementsAnnounced, [Next]_vars PROVE ElementsAnnounced'
  OBVIOUS
<1> USE DEF Goto, Return, limits
<1>0. IInv'
  BY StepInv
<1>1. /\ m_queue \in Seq(Value) /\ m_queue' \in Seq(Value) /\ Len(m_queue) \in Nat
      /\ pc \in [Thread -> Labels] /\ op \in [Thread -> Ops \cup {"none"}]
  BY <1>0, LenProperties DEF IInv, TypeOK
<1>2. ASSUME NEW t \in Thread, Call(t) PROVE ElementsAnnounced'
  <2>1. pc[t] = "idle" /\ \E o \in Ops, l \in {"lock", "load"} :
          pc' = [pc EXCEPT ![t] = l] /\ op' = [op EXCEPT ![t] = o]
    BY <1>2 DEF Call, CallPush, CallTake, CallCapacity
  <2>2. m_queue' = m_queue
    BY <1>2 DEF Call
  <2>3. /\ NotEmptySleepers' = NotEmptySleepers /\ Announcing' = Announcing
        /\ Coming \subseteq Coming' /\ Coming' \subseteq Coming \cup {t}
    BY <1>1, <2>1 DEF NotEmptySleepers, Announcing, Coming
  <2> QED BY <1>1, <2>2, <2>3, Balance
<1>3. ASSUME NEW t \in Thread, Lock(t) PROVE ElementsAnnounced'
  <2>1. /\ m_queue' = m_queue
        /\ NotEmptySleepers' = NotEmptySleepers /\ Announcing' = Announcing /\ Coming' = Coming
    BY <1>1, <1>3 DEF Lock, NotEmptySleepers, Announcing, Coming
  <2> QED BY <1>1, <2>1, Balance
<1>4. ASSUME NEW t \in Thread, Test(t) PROVE ElementsAnnounced'
  <2>1. CASE op[t] = "pop" /\ FallAsleep(t)
    <3>1. m_queue' = <<>>
      BY <1>4, <2>1 DEF Test, FallAsleep, Ready
    <3>2. Announcing' \in SUBSET Thread /\ Coming' \in SUBSET Thread
      BY DEF Announcing, Coming
    <3>3. Cardinality(Announcing') \in Nat /\ Cardinality(Coming') \in Nat
      BY <1>4, <3>2, OneMoreOrLess
    <3>4. Len(m_queue') = 0
      BY <3>1, EmptySeq
    <3> QED BY <3>3, <3>4 DEF ElementsAnnounced, InFlight, Announcing, Coming
  <2>2. CASE ~(op[t] = "pop" /\ FallAsleep(t))
    <3>1. m_queue' = m_queue
      BY <1>4 DEF Test
    <3>2. CASE TestPasses(t)
      <4>1. NotEmptySleepers' = NotEmptySleepers /\ Announcing' = Announcing /\ Coming' = Coming
        BY <1>1, <1>4, <3>2 DEF Test, TestPasses, NotEmptySleepers, Announcing, Coming
      <4> QED BY <1>1, <3>1, <4>1, Balance
    <3>3. CASE FallAsleep(t)
      <4>1. op[t] = "push" /\ op' = op /\ pc' = [pc EXCEPT ![t] = "asleep"] /\ pc[t] = "test"
        BY <1>4, <2>2, <3>3 DEF Test, FallAsleep
      <4>2. NotEmptySleepers' = NotEmptySleepers /\ Announcing' = Announcing /\ Coming' = Coming
        BY <1>1, <4>1 DEF NotEmptySleepers, Announcing, Coming
      <4> QED BY <1>1, <3>1, <4>2, Balance
    <3>4. CASE Refuse(t) \/ PeekFront(t)
      <4>1. /\ op[t] \in {"tryPush", "tryPop", "peek"} /\ op' = [op EXCEPT ![t] = "none"]
            /\ pc' = [pc EXCEPT ![t] = "idle"] /\ pc[t] = "test"
        BY <1>4, <3>4 DEF Test, Refuse, PeekFront
      <4>2. NotEmptySleepers' = NotEmptySleepers /\ Announcing' = Announcing /\ Coming' = Coming
        BY <1>1, <4>1 DEF NotEmptySleepers, Announcing, Coming
      <4> QED BY <1>1, <3>1, <4>2, Balance
    <3> QED BY <1>4, <3>2, <3>3, <3>4 DEF Test
  <2> QED BY <2>1, <2>2
<1>5. ASSUME NEW t \in Thread, Mutate(t) PROVE ElementsAnnounced'
  <2>1. pc[t] = "mutate" /\ pc' = [pc EXCEPT ![t] = "count"] /\ op' = op
    BY <1>5 DEF Mutate
  <2>2. NotEmptySleepers' = NotEmptySleepers
    BY <1>1, <2>1 DEF NotEmptySleepers
  <2>3. CASE op[t] \in Pushes
    <3>1. arg[t] \in Value /\ m_queue' = Append(m_queue, arg[t])
      BY <1>5, <2>3 DEF Mutate, IInv, CallInv
    <3>2. Len(m_queue') = Len(m_queue) + 1
      BY <1>1, <3>1, AppendProperties
    <3>3. t \notin Announcing /\ Announcing' = Announcing \cup {t} /\ Coming' = Coming
      BY <1>1, <2>1, <2>3 DEF Announcing, Coming
    <3> QED BY <1>1, <2>2, <3>2, <3>3, Balance
  <2>4. CASE op[t] \in Pops
    <3>1. m_queue # <<>> /\ m_queue' = Tail(m_queue)
      BY <1>5, <2>4 DEF Mutate, IInv, TakeInv
    <3>2. Len(m_queue') = Len(m_queue) - 1
      BY <1>1, <3>1, HeadTailProperties
    <3>3. Announcing' = Announcing
      BY <1>1, <2>1, <2>4 DEF Announcing
    <3>4. Coming' = Coming \/ (t \in Coming /\ Coming' = Coming \ {t})
      BY <1>1, <2>1, <2>4 DEF Coming
    <3> QED BY <1>1, <2>2, <3>2, <3>3, <3>4, Balance
  <2> QED BY <1>5, <2>3, <2>4 DEF Mutate, IInv, CallInv
<1>6. ASSUME NEW t \in Thread, Count(t) \/ Unlock(t) PROVE ElementsAnnounced'
  <2>1. /\ m_queue' = m_queue
        /\ NotEmptySleepers' = NotEmptySleepers /\ Announcing' = Announcing /\ Coming' = Coming
    BY <1>1, <1>6 DEF Count, Counted, Unlock, NotEmptySleepers, Announcing, Coming
  <2> QED BY <1>1, <2>1, Balance
<1>7. ASSUME NEW t \in Thread, Notify(t) PROVE ElementsAnnounced'
  <2>0. m_queue' = m_queue /\ op' = [op EXCEPT ![t] = "none"] /\ pc[t] = "notify"
    BY <1>7 DEF Notify, Sleepers
  <2>1. CASE op[t] \in Pushes /\ NotEmptySleepers = {}
    <3>1. pc' = [pc EXCEPT ![t] = "idle"]
      BY <1>7, <2>1 DEF Notify, Sleepers
    <3>2. NotEmptySleepers' = {}
      BY <1>1, <2>0, <2>1, <3>1 DEF NotEmptySleepers
    <3> QED BY <3>2 DEF ElementsAnnounced
  <2>2. CASE op[t] \in Pushes /\ NotEmptySleepers # {}
    <3>1. PICK s \in NotEmptySleepers : pc' = [pc EXCEPT ![t] = "idle", ![s] = "lock"]
      BY <1>7, <2>2 DEF Notify, Sleepers
    <3>2. s \in Thread /\ s # t /\ pc[s] = "asleep" /\ op[s] = "pop"
      BY <2>0, <3>1 DEF NotEmptySleepers
    <3>3. t \in Announcing /\ Announcing' = Announcing \ {t}
      BY <1>1, <2>0, <2>2, <3>1, <3>2 DEF Announcing
    <3>4. s \notin Coming /\ Coming' = Coming \cup {s}
      BY <1>1, <2>0, <2>2, <3>1, <3>2 DEF Coming
    <3>5. Announcing \in SUBSET Thread /\ Coming \in SUBSET Thread
      BY DEF Announcing, Coming
    <3>6. /\ Cardinality(Announcing') = Cardinality(Announcing) - 1
          /\ Cardinality(Coming') = Cardinality(Coming) + 1
          /\ Cardinality(Announcing) \in Nat /\ Cardinality(Coming) \in Nat
      BY <3>2, <3>3, <3>4, <3>5, OneMoreOrLess
    <3>7. Len(m_queue) <= Cardinality(Announcing) + Cardinality(Coming)
      BY <2>2 DEF ElementsAnnounced, InFlight, Announcing, Coming
    <3>8. Len(m_queue') <= Cardinality(Announcing') + Cardinality(Coming')
      BY <1>1, <2>0, <3>6, <3>7
    <3> QED BY <3>8 DEF ElementsAnnounced, InFlight, Announcing, Coming
  <2>3. CASE op[t] \in Pops
    <3>1. CASE pc' = [pc EXCEPT ![t] = "idle"]
      BY <1>1, <2>0, <2>3, <3>1, Balance DEF NotEmptySleepers, Announcing, Coming
    <3>2. ASSUME NEW s \in NotFullSleepers, pc' = [pc EXCEPT ![t] = "idle", ![s] = "lock"]
          PROVE  ElementsAnnounced'
      <4>1. s \in Thread /\ s # t /\ pc[s] = "asleep" /\ op[s] = "push"
        BY <2>0, <3>2 DEF NotFullSleepers
      <4>2. NotEmptySleepers' = NotEmptySleepers /\ Announcing' = Announcing /\ Coming' = Coming
        BY <1>1, <2>0, <2>3, <3>2, <4>1 DEF NotEmptySleepers, Announcing, Coming
      <4> QED BY <1>1, <2>0, <4>2, Balance
    <3> QED BY <1>7, <2>3, <3>1, <3>2 DEF Notify, Sleepers
  <2> QED BY <2>0, <2>1, <2>2, <2>3 DEF IInv, CallInv
<1>8. ASSUME NEW t \in Thread, LoadCapacity(t) \/ CompareExchange(t) PROVE ElementsAnnounced'
  <2>1. pc[t] \in {"load", "cas"} /\ op' = op /\ m_queue' = m_queue
    BY <1>8 DEF LoadCapacity, CompareExchange
  <2>2. \E label \in {"cas", "store"} : pc' = [pc EXCEPT ![t] = label]
    BY <1>1, <1>8 DEF LoadCapacity, CompareExchange
  <2>3. NotEmptySleepers' = NotEmptySleepers /\ Announcing' = Announcing /\ Coming' = Coming
    BY <1>1, <2>1, <2>2 DEF NotEmptySleepers, Announcing, Coming
  <2> QED BY <1>1, <2>1, <2>3, Balance
<1>9. ASSUME NEW t \in Thread, StoreLimited(t) PROVE ElementsAnnounced'
  <2>1. /\ m_queue' = m_queue
        /\ NotEmptySleepers' = NotEmptySleepers /\ Announcing' = Announcing /\ Coming' = Coming
    BY <1>1, <1>9 DEF StoreLimited, NotEmptySleepers, Announcing, Coming
  <2> QED BY <1>1, <2>1, Balance
<1>10. ASSUME NEW t \in Thread, SpuriousWakeup(t) PROVE ElementsAnnounced'
  <2>1. /\ m_queue' = m_queue
        /\ NotEmptySleepers' \subseteq NotEmptySleepers /\ Announcing' = Announcing
        /\ Coming \subseteq Coming' /\ Coming' \subseteq Coming \cup {t}
    BY <1>1, <1>10 DEF SpuriousWakeup, NotEmptySleepers, Announcing, Coming
  <2> QED BY <1>1, <2>1, Balance
<1>11. CASE UNCHANGED vars
  BY <1>11 DEF vars, ElementsAnnounced, InFlight, NotEmptySleepers
<1> QED BY <1>2, <1>3, <1>4, <1>5, <1>6, <1>7, <1>8, <1>9, <1>10, <1>11 DEF Next, Step

\* No wakeup of a popper is lost, whatever the threads, calls and capacities.
THEOREM WakeupCorrect == Spec => []ElementsAnnounced
<1>1. Init => ElementsAnnounced
  BY DEF Init, ElementsAnnounced, NotEmptySleepers
<1> QED BY <1>1, InitInv, StepInv, StepAnnounced, PTL DEF Spec

-------------------------------------------------------------------------------
(* No lost wakeup on m_notFull: SlotsAnnounced. *)

\* The pops that have still to notify, and the pushers on their way.
Freeing == {t \in Thread : op[t] \in Pops /\ pc[t] \in {"count", "unlock", "notify"}}
Filling == {t \in Thread : op[t] \in {"push"} /\ pc[t] \in {"lock", "test", "mutate"}}

\* What a step has to do to keep the balance of slots and announcements.
LEMMA SlotBalance ==
  ASSUME IInv, SlotsAnnounced, NEW t \in Thread,
         NotFullSleepers' \subseteq NotFullSleepers, m_queue' \in Seq(Value),
         built' = built,
         \/ /\ Len(m_queue') = Len(m_queue)
            /\ Freeing \subseteq Freeing' /\ Freeing' \subseteq Freeing \cup {t}
            /\ Filling \subseteq Filling' /\ Filling' \subseteq Filling \cup {t}
         \/ /\ Len(m_queue') = Len(m_queue) - 1
            /\ t \notin Freeing /\ Freeing' = Freeing \cup {t}
            /\ Filling' = Filling
         \/ /\ Len(m_queue') = Len(m_queue) + 1
            /\ Freeing' = Freeing
            /\ Filling' = Filling \/ (t \in Filling /\ Filling' = Filling \ {t})
  PROVE  SlotsAnnounced'
<1> DEFINE a == Cardinality(Freeing) b == Cardinality(Filling)
<1>1. /\ Freeing \in SUBSET Thread /\ Filling \in SUBSET Thread
      /\ Len(m_queue) \in Nat /\ Len(m_queue') \in Nat /\ built \in Int
  BY LenProperties DEF Freeing, Filling, IInv, TypeOK
<1>2. /\ a \in Nat /\ b \in Nat
      /\ t \notin Freeing => Cardinality(Freeing \cup {t}) = a + 1
      /\ t \notin Filling => Cardinality(Filling \cup {t}) = b + 1
      /\ t \in Filling => Cardinality(Filling \ {t}) = b - 1
  BY <1>1, OneMoreOrLess
<1>3. NotFullSleepers # {} => built - Len(m_queue) <= a + b
  BY DEF SlotsAnnounced, InFlight, Freeing, Filling
<1>4. NotFullSleepers' # {} =>
        built - Len(m_queue') <= Cardinality(Freeing') + Cardinality(Filling')
  <2>1. CASE Len(m_queue') = Len(m_queue)
    <3>1. /\ Freeing \subseteq Freeing' /\ Freeing' \subseteq Freeing \cup {t}
          /\ Filling \subseteq Filling' /\ Filling' \subseteq Filling \cup {t}
      BY <1>1, <2>1
    <3>2. /\ Freeing' = Freeing \/ (t \notin Freeing /\ Freeing' = Freeing \cup {t})
          /\ Filling' = Filling \/ (t \notin Filling /\ Filling' = Filling \cup {t})
      BY <3>1, Between
    <3>3. Cardinality(Freeing') \in {a, a + 1} /\ Cardinality(Filling') \in {b, b + 1}
      BY <1>2, <3>2
    <3> QED BY <1>1, <1>2, <1>3, <2>1, <3>3
  <2>2. CASE Len(m_queue') = Len(m_queue) - 1
    <3>1. t \notin Freeing /\ Freeing' = Freeing \cup {t} /\ Filling' = Filling
      BY <1>1, <2>2
    <3>2. Cardinality(Freeing') = a + 1 /\ Cardinality(Filling') = b
      BY <1>2, <3>1
    <3> QED BY <1>1, <1>2, <1>3, <2>2, <3>2
  <2>3. CASE Len(m_queue') = Len(m_queue) + 1
    <3>1. /\ Freeing' = Freeing
          /\ Filling' = Filling \/ (t \in Filling /\ Filling' = Filling \ {t})
      BY <1>1, <2>3
    <3>2. Cardinality(Freeing') = a /\ Cardinality(Filling') \in {b, b - 1}
      BY <1>2, <3>1
    <3> QED BY <1>1, <1>2, <1>3, <2>3, <3>2
  <2> QED BY <2>1, <2>2, <2>3
<1> QED BY <1>4 DEF SlotsAnnounced, InFlight, Freeing, Filling

LEMMA StepSlots == IInv /\ BoundInv /\ SlotsAnnounced /\ [Next]_vars => SlotsAnnounced'
<1> SUFFICES ASSUME IInv, BoundInv, SlotsAnnounced, [Next]_vars PROVE SlotsAnnounced'
  OBVIOUS
<1> USE DEF Goto, Return, limits
<1>0. IInv'
  BY StepInv
<1>1. /\ m_queue \in Seq(Value) /\ m_queue' \in Seq(Value) /\ Len(m_queue) \in Nat
      /\ pc \in [Thread -> Labels] /\ op \in [Thread -> Ops \cup {"none"}]
      /\ m_capacity \in Nat /\ built \in Int /\ built' = built
  BY <1>0, BuiltStays, LenProperties DEF IInv, TypeOK
<1>2. ASSUME NEW t \in Thread, Call(t) PROVE SlotsAnnounced'
  <2>1. pc[t] = "idle" /\ \E o \in Ops, l \in {"lock", "load"} :
          pc' = [pc EXCEPT ![t] = l] /\ op' = [op EXCEPT ![t] = o]
    BY <1>2 DEF Call, CallPush, CallTake, CallCapacity
  <2>2. m_queue' = m_queue /\ built' = built
    BY <1>2 DEF Call
  <2>3. /\ NotFullSleepers' = NotFullSleepers /\ Freeing' = Freeing
        /\ Filling \subseteq Filling' /\ Filling' \subseteq Filling \cup {t}
    BY <1>1, <2>1 DEF NotFullSleepers, Freeing, Filling
  <2> QED BY <1>1, <2>2, <2>3, SlotBalance
<1>3. ASSUME NEW t \in Thread, Lock(t) \/ Count(t) \/ Unlock(t) PROVE SlotsAnnounced'
  <2>1. /\ m_queue' = m_queue /\ built' = built /\ op' = op
        /\ NotFullSleepers' = NotFullSleepers /\ Freeing' = Freeing /\ Filling' = Filling
    BY <1>1, <1>3 DEF Lock, Count, Unlock, NotFullSleepers, Freeing, Filling
  <2> QED BY <1>1, <2>1, SlotBalance
<1>4. ASSUME NEW t \in Thread, Test(t) PROVE SlotsAnnounced'
  <2>0. /\ pc[t] = "test" /\ m_size = Len(m_queue)
        /\ m_queue' = m_queue /\ built' = built
    BY <1>4 DEF Test, IInv, OwnerInv, SizeInv, Locked
  <2>1. CASE TestPasses(t)
    <3>1. op' = op /\ pc' = [pc EXCEPT ![t] = "mutate"]
      BY <2>1 DEF TestPasses
    <3>2. NotFullSleepers' = NotFullSleepers /\ Freeing' = Freeing /\ Filling' = Filling
      BY <1>1, <2>0, <3>1 DEF NotFullSleepers, Freeing, Filling
    <3> QED BY <1>1, <2>0, <3>1, <3>2, SlotBalance
  <2>2. CASE op[t] = "push" /\ FallAsleep(t)
    <3>1. built - Len(m_queue) <= 0
      <4>1. m_size >= m_capacity
        BY <1>1, <2>2 DEF FallAsleep, Ready, Room, IInv, TypeOK
      <4> QED BY <1>1, <2>0, <4>1 DEF BoundInv
    <3>2. Freeing' \in SUBSET Thread /\ Filling' \in SUBSET Thread /\ op' = op
      BY <2>2 DEF FallAsleep, Freeing, Filling
    <3>3. Cardinality(Freeing') \in Nat /\ Cardinality(Filling') \in Nat
      BY <1>4, <3>2, OneMoreOrLess
    <3>4. built' - Len(m_queue') <= Cardinality(Freeing') + Cardinality(Filling')
      BY <1>1, <2>0, <3>1, <3>3
    <3> QED BY <3>2, <3>4 DEF SlotsAnnounced, InFlight, Freeing, Filling
  <2>3. CASE op[t] = "pop" /\ FallAsleep(t)
    <3>1. op' = op /\ pc' = [pc EXCEPT ![t] = "asleep"]
      BY <2>3 DEF FallAsleep
    <3>2. NotFullSleepers' = NotFullSleepers /\ Freeing' = Freeing /\ Filling' = Filling
      BY <1>1, <2>0, <2>3, <3>1 DEF NotFullSleepers, Freeing, Filling
    <3> QED BY <1>1, <2>0, <3>1, <3>2, SlotBalance
  <2>4. CASE Refuse(t) \/ PeekFront(t)
    <3>1. /\ op[t] \in {"tryPush", "tryPop", "peek"} /\ op' = [op EXCEPT ![t] = "none"]
          /\ pc' = [pc EXCEPT ![t] = "idle"]
      BY <2>4 DEF Refuse, PeekFront
    <3>2. NotFullSleepers' = NotFullSleepers /\ Freeing' = Freeing /\ Filling' = Filling
      BY <1>1, <2>0, <3>1 DEF NotFullSleepers, Freeing, Filling
    <3> QED BY <1>1, <2>0, <3>1, <3>2, SlotBalance
  <2> QED BY <1>4, <2>1, <2>2, <2>3, <2>4 DEF Test, FallAsleep
<1>5. ASSUME NEW t \in Thread, Mutate(t) PROVE SlotsAnnounced'
  <2>1. /\ pc[t] = "mutate" /\ pc' = [pc EXCEPT ![t] = "count"] /\ op' = op
        /\ built' = built
    BY <1>5 DEF Mutate
  <2>2. NotFullSleepers' = NotFullSleepers
    BY <1>1, <2>1 DEF NotFullSleepers
  <2>3. CASE op[t] \in Pushes
    <3>1. arg[t] \in Value /\ m_queue' = Append(m_queue, arg[t])
      BY <1>5, <2>3 DEF Mutate, IInv, CallInv
    <3>2. Len(m_queue') = Len(m_queue) + 1
      BY <1>1, <3>1, AppendProperties
    <3>3. Freeing' = Freeing
      BY <1>1, <2>1, <2>3 DEF Freeing
    <3>4. Filling' = Filling \/ (t \in Filling /\ Filling' = Filling \ {t})
      BY <1>1, <2>1, <2>3 DEF Filling
    <3> QED BY <1>1, <2>1, <2>2, <3>2, <3>3, <3>4, SlotBalance
  <2>4. CASE op[t] \in Pops
    <3>1. m_queue # <<>> /\ m_queue' = Tail(m_queue)
      BY <1>5, <2>4 DEF Mutate, IInv, TakeInv
    <3>2. Len(m_queue') = Len(m_queue) - 1
      BY <1>1, <3>1, HeadTailProperties
    <3>3. t \notin Freeing /\ Freeing' = Freeing \cup {t} /\ Filling' = Filling
      BY <1>1, <2>1, <2>4 DEF Freeing, Filling
    <3> QED BY <1>1, <2>1, <2>2, <3>2, <3>3, SlotBalance
  <2> QED BY <1>5, <2>3, <2>4 DEF Mutate, IInv, CallInv
<1>6. ASSUME NEW t \in Thread, Notify(t) PROVE SlotsAnnounced'
  <2>0. /\ m_queue' = m_queue /\ built' = built
        /\ op' = [op EXCEPT ![t] = "none"] /\ pc[t] = "notify"
    BY <1>1, <1>6 DEF Notify
  <2>1. CASE op[t] \in Pops /\ NotFullSleepers = {}
    <3>1. pc' = [pc EXCEPT ![t] = "idle"]
      BY <1>6, <2>1 DEF Notify, Sleepers
    <3>2. NotFullSleepers' = {}
      BY <1>1, <2>0, <2>1, <3>1 DEF NotFullSleepers
    <3> QED BY <2>0, <3>2 DEF SlotsAnnounced
  <2>2. CASE op[t] \in Pops /\ NotFullSleepers # {}
    <3>1. PICK s \in NotFullSleepers : pc' = [pc EXCEPT ![t] = "idle", ![s] = "lock"]
      BY <1>6, <2>2 DEF Notify, Sleepers
    <3>2. s \in Thread /\ s # t /\ pc[s] = "asleep" /\ op[s] = "push"
      BY <2>0, <3>1 DEF NotFullSleepers
    <3>3. t \in Freeing /\ Freeing' = Freeing \ {t}
      BY <1>1, <2>0, <2>2, <3>1, <3>2 DEF Freeing
    <3>4. s \notin Filling /\ Filling' = Filling \cup {s}
      BY <1>1, <2>0, <2>2, <3>1, <3>2 DEF Filling
    <3>5. Freeing \in SUBSET Thread /\ Filling \in SUBSET Thread
      BY DEF Freeing, Filling
    <3>6. /\ Cardinality(Freeing') = Cardinality(Freeing) - 1
          /\ Cardinality(Filling') = Cardinality(Filling) + 1
          /\ Cardinality(Freeing) \in Nat /\ Cardinality(Filling) \in Nat
      BY <3>2, <3>3, <3>4, <3>5, OneMoreOrLess
    <3>7. built - Len(m_queue) <= Cardinality(Freeing) + Cardinality(Filling)
      BY <2>2 DEF SlotsAnnounced, InFlight, Freeing, Filling
    <3>8. built' - Len(m_queue') <= Cardinality(Freeing') + Cardinality(Filling')
      BY <1>1, <2>0, <3>6, <3>7
    <3> QED BY <2>0, <3>8 DEF SlotsAnnounced, InFlight, Freeing, Filling
  <2>3. CASE op[t] \in Pushes
    <3>1. CASE pc' = [pc EXCEPT ![t] = "idle"]
      <4>1. NotFullSleepers' = NotFullSleepers /\ Freeing' = Freeing /\ Filling' = Filling
        BY <1>1, <2>0, <2>3, <3>1 DEF NotFullSleepers, Freeing, Filling
      <4> QED BY <1>1, <2>0, <4>1, SlotBalance
    <3>2. ASSUME NEW s \in NotEmptySleepers, pc' = [pc EXCEPT ![t] = "idle", ![s] = "lock"]
          PROVE  SlotsAnnounced'
      <4>1. s \in Thread /\ s # t /\ pc[s] = "asleep" /\ op[s] = "pop"
        BY <2>0, <3>2 DEF NotEmptySleepers
      <4>2. NotFullSleepers' = NotFullSleepers /\ Freeing' = Freeing /\ Filling' = Filling
        BY <1>1, <2>0, <2>3, <3>2, <4>1 DEF NotFullSleepers, Freeing, Filling
      <4> QED BY <1>1, <2>0, <4>2, SlotBalance
    <3> QED BY <1>6, <2>3, <3>1, <3>2 DEF Notify, Sleepers
  <2> QED BY <2>0, <2>1, <2>2, <2>3 DEF IInv, CallInv
<1>7. ASSUME NEW t \in Thread, LoadCapacity(t) \/ CompareExchange(t) \/ StoreLimited(t)
      PROVE  SlotsAnnounced'
  <2>1. op[t] = "capacity" /\ m_queue' = m_queue
    BY <1>7 DEF LoadCapacity, CompareExchange, StoreLimited, IInv, CallInv
  <2>2. /\ \E label \in {"cas", "store", "idle"} : pc' = [pc EXCEPT ![t] = label]
        /\ \E o \in {"capacity", "none"} : op' = [op EXCEPT ![t] = o]
    BY <1>1, <1>7, <2>1 DEF LoadCapacity, CompareExchange, StoreLimited
  <2>3. NotFullSleepers' = NotFullSleepers /\ Freeing' = Freeing /\ Filling' = Filling
    BY <1>1, <2>1, <2>2 DEF NotFullSleepers, Freeing, Filling
  <2> QED BY <1>1, <2>1, <2>3, SlotBalance
<1>8. ASSUME NEW t \in Thread, SpuriousWakeup(t) PROVE SlotsAnnounced'
  <2>1. /\ m_queue' = m_queue /\ built' = built /\ op' = op
        /\ NotFullSleepers' \subseteq NotFullSleepers /\ Freeing' = Freeing
        /\ Filling \subseteq Filling' /\ Filling' \subseteq Filling \cup {t}
    BY <1>1, <1>8 DEF SpuriousWakeup, NotFullSleepers, Freeing, Filling
  <2> QED BY <1>1, <2>1, SlotBalance
<1>9. CASE UNCHANGED vars
  BY <1>9 DEF vars, SlotsAnnounced, InFlight, NotFullSleepers
<1> QED BY <1>2, <1>3, <1>4, <1>5, <1>6, <1>7, <1>8, <1>9 DEF Next, Step

\* No wakeup of a pusher is lost, whatever the threads, calls and capacities: only
\* the room that capacity() makes is not announced on m_notFull.
THEOREM SlotsCorrect == Spec => []SlotsAnnounced
<1>1. Init => SlotsAnnounced
  BY DEF Init, SlotsAnnounced, NotFullSleepers
<1> QED BY <1>1, InitInv, StepInv, InitBound, StepBound, StepSlots, PTL DEF Spec

-------------------------------------------------------------------------------
(* The queue implements FifoQueue: push and pop take effect at their test. *)

\* What DecidedItems and DecidedGot are, by where the threads stand.
DecisionInv ==
  /\ (\A t \in Thread : pc[t] # "mutate") => DecidedItems = m_queue /\ DecidedGot = got
  /\ \A t \in Thread :
       pc[t] = "mutate" =>
         /\ op[t] \in Pushes => /\ DecidedItems = Append(m_queue, arg[t])
                                /\ DecidedGot = got
         /\ op[t] \in Pops => /\ DecidedItems = Tail(m_queue)
                              /\ DecidedGot = [got EXCEPT ![t] = Head(m_queue)]

LEMMA Decision == IInv => DecisionInv
<1> SUFFICES ASSUME IInv PROVE DecisionInv
  OBVIOUS
<1>1. ASSUME \A t \in Thread : pc[t] # "mutate"
      PROVE  DecidedItems = m_queue /\ DecidedGot = got
  <2>1. ~Deciding
    BY <1>1 DEF Deciding, IInv, TypeOK
  <2> QED BY <2>1 DEF DecidedItems, DecidedGot
<1>2. ASSUME NEW t \in Thread, pc[t] = "mutate"
      PROVE  /\ op[t] \in Pushes => /\ DecidedItems = Append(m_queue, arg[t])
                                    /\ DecidedGot = got
             /\ op[t] \in Pops => /\ DecidedItems = Tail(m_queue)
                                  /\ DecidedGot = [got EXCEPT ![t] = Head(m_queue)]
  <2>1. mutex = t /\ Deciding
    BY <1>2, QueueAssumption DEF Deciding, IInv, OwnerInv, Locked
  <2> QED BY <2>1 DEF DecidedItems, DecidedGot
<1> QED BY <1>1, <1>2 DEF DecisionInv

\* A step that neither moves an element nor takes or carries out a decision.
LEMMA SameDecision ==
  ASSUME IInv, DecisionInv, DecisionInv', UNCHANGED <<m_queue, got>>,
         \A u \in Thread :
           /\ pc'[u] = "mutate" <=> pc[u] = "mutate"
           /\ pc[u] = "mutate" => op'[u] = op[u] /\ arg'[u] = arg[u]
  PROVE  UNCHANGED <<DecidedItems, DecidedGot>>
<1>1. CASE \A u \in Thread : pc[u] # "mutate"
  BY <1>1 DEF DecisionInv
<1>2. ASSUME NEW u \in Thread, pc[u] = "mutate" PROVE UNCHANGED <<DecidedItems, DecidedGot>>
  <2>1. op[u] \in Pushes \cup Pops
    BY <1>2 DEF IInv, CallInv
  <2>2. pc'[u] = "mutate" /\ op'[u] = op[u] /\ arg'[u] = arg[u]
    BY <1>2
  <2>3. CASE op[u] \in Pushes
    <3>1. DecidedItems = Append(m_queue, arg[u]) /\ DecidedGot = got
      BY <1>2, <2>3 DEF DecisionInv
    <3>2. DecidedItems' = Append(m_queue', arg'[u]) /\ DecidedGot' = got'
      BY <2>2, <2>3 DEF DecisionInv
    <3> QED BY <2>2, <3>1, <3>2
  <2>4. CASE op[u] \in Pops
    <3>1. DecidedItems = Tail(m_queue) /\ DecidedGot = [got EXCEPT ![u] = Head(m_queue)]
      BY <1>2, <2>4 DEF DecisionInv
    <3>2. DecidedItems' = Tail(m_queue') /\ DecidedGot' = [got' EXCEPT ![u] = Head(m_queue')]
      BY <2>2, <2>4 DEF DecisionInv
    <3> QED BY <3>1, <3>2
  <2> QED BY <2>1, <2>3, <2>4
<1> QED BY <1>1, <1>2

LEMMA InitFifo == Init => Fifo!Init
<1> SUFFICES ASSUME Init PROVE Fifo!Init
  OBVIOUS
<1>1. DecidedItems = m_queue /\ DecidedGot = got
  BY DEF Init, DecidedItems, DecidedGot, Deciding
<1>2. m_queue \in Seq(Value) /\ m_capacity \in Nat
  BY InitInv DEF IInv, TypeOK
<1> QED BY <1>1, <1>2 DEF Init, Fifo!Init, Fifo!NoLimit

LEMMA StepFifo == IInv /\ [Next]_vars => [Fifo!Next]_(Fifo!fifoVars)
<1> SUFFICES ASSUME IInv, [Next]_vars PROVE [Fifo!Next]_(Fifo!fifoVars)
  OBVIOUS
<1>0. IInv' /\ DecisionInv /\ DecisionInv'
  BY StepInv, Decision, PTL
<1>1. /\ pc \in [Thread -> Labels] /\ op \in [Thread -> Ops \cup {"none"}]
      /\ arg \in [Thread -> Value \cup {NoValue}] /\ m_capacity \in Nat
      /\ m_unlimited \in BOOLEAN
  BY DEF IInv, TypeOK
<1> DEFINE Same == UNCHANGED <<DecidedItems, DecidedGot>>
<1>2. ASSUME Same, UNCHANGED <<m_capacity, m_unlimited, ok>> PROVE [Fifo!Next]_(Fifo!fifoVars)
  BY <1>2 DEF Fifo!fifoVars
<1> HIDE DEF Same
<1> USE DEF Goto, Return, limits
<1>3. ASSUME NEW t \in Thread, Call(t) PROVE [Fifo!Next]_(Fifo!fifoVars)
  <2>1. \A u \in Thread :
           /\ pc'[u] = "mutate" <=> pc[u] = "mutate"
           /\ pc[u] = "mutate" => op'[u] = op[u] /\ arg'[u] = arg[u]
    BY <1>1, <1>3 DEF Call, CallPush, CallTake, CallCapacity
  <2>2. Same
    BY <1>0, <1>3, <2>1, SameDecision DEF Call, Same
  <2> QED BY <1>2, <1>3, <2>2 DEF Call
<1>4. ASSUME NEW t \in Thread, Lock(t) \/ Count(t) \/ Unlock(t) \/ SpuriousWakeup(t)
      PROVE  [Fifo!Next]_(Fifo!fifoVars)
  <2>1. \A u \in Thread :
           /\ pc'[u] = "mutate" <=> pc[u] = "mutate"
           /\ pc[u] = "mutate" => op'[u] = op[u] /\ arg'[u] = arg[u]
    BY <1>1, <1>4 DEF Lock, Count, Unlock, SpuriousWakeup
  <2>2. UNCHANGED <<m_queue, got, m_capacity, m_unlimited, ok>>
    BY <1>4 DEF Lock, Count, Unlock, SpuriousWakeup
  <2>3. Same
    BY <1>0, <2>1, <2>2, SameDecision DEF Same
  <2> QED BY <1>2, <2>2, <2>3
<1>5. ASSUME NEW t \in Thread, Notify(t) PROVE [Fifo!Next]_(Fifo!fifoVars)
  <2>1. \A u \in Thread :
           /\ pc'[u] = "mutate" <=> pc[u] = "mutate"
           /\ pc[u] = "mutate" => op'[u] = op[u] /\ arg'[u] = arg[u]
    BY <1>1, <1>5 DEF Notify, Sleepers, NotEmptySleepers, NotFullSleepers
  <2>2. UNCHANGED <<m_queue, got, m_capacity, m_unlimited, ok>>
    BY <1>5 DEF Notify
  <2>3. Same
    BY <1>0, <2>1, <2>2, SameDecision DEF Same
  <2> QED BY <1>2, <2>2, <2>3
<1>6. ASSUME NEW t \in Thread, Mutate(t) PROVE [Fifo!Next]_(Fifo!fifoVars)
  <2>1. \A u \in Thread : pc'[u] # "mutate"
    BY <1>1, <1>6 DEF Mutate, IInv, OwnerInv, Locked
  <2>2. DecidedItems' = m_queue' /\ DecidedGot' = got'
    BY <1>0, <2>1 DEF DecisionInv
  <2>3. pc[t] = "mutate" /\ op[t] \in Pushes \cup Pops
    BY <1>6 DEF Mutate, IInv, CallInv
  <2>4. DecidedItems = m_queue' /\ DecidedGot = got'
    BY <1>0, <1>6, <2>3 DEF Mutate, DecisionInv
  <2>5. UNCHANGED <<m_capacity, m_unlimited, ok>>
    BY <1>6 DEF Mutate
  <2> QED BY <1>2, <2>2, <2>4, <2>5 DEF Same
<1>7. ASSUME NEW t \in Thread, Test(t) PROVE [Fifo!Next]_(Fifo!fifoVars)
  <2>0. /\ pc[t] = "test" /\ m_size = Len(m_queue)
        /\ UNCHANGED <<m_queue, m_capacity, m_unlimited>>
    BY <1>7 DEF Test, IInv, OwnerInv, SizeInv, Locked
  <2>1. \A u \in Thread : pc[u] # "mutate"
    BY <2>0 DEF IInv, OwnerInv, Locked
  <2>2. DecidedItems = m_queue /\ DecidedGot = got
    BY <1>0, <2>1 DEF DecisionInv
  <2>3. Room <=> Fifo!HasRoom
    BY <1>1, <2>0, <2>2 DEF Room, Fifo!HasRoom, Fifo!NoLimit
  <2>4. CASE TestPasses(t)
    <3>1. /\ pc'[t] = "mutate" /\ op' = op /\ arg' = arg /\ got' = got
          /\ ok' = [ok EXCEPT ![t] = TRUE]
      BY <1>1, <2>4 DEF TestPasses
    <3>2. CASE op[t] \in Pushes
      <4>1. arg[t] \in Value
        BY <2>0, <3>2 DEF IInv, CallInv
      <4>2. Fifo!HasRoom
        BY <2>3, <2>4, <3>2 DEF TestPasses, Ready
      <4>3. DecidedItems' = Append(DecidedItems, arg[t]) /\ DecidedGot' = DecidedGot
        BY <1>0, <2>0, <2>2, <3>1, <3>2 DEF DecisionInv
      <4>4. Fifo!Enqueue(t, arg[t])
        BY <2>0, <3>1, <4>2, <4>3 DEF Fifo!Enqueue
      <4> QED BY <4>1, <4>4 DEF Fifo!Next
    <3>3. CASE op[t] \in Pops
      <4>1. DecidedItems # <<>>
        BY <2>2, <2>4, <3>3 DEF TestPasses, Ready
      <4>2. /\ DecidedItems' = Tail(DecidedItems)
            /\ DecidedGot' = [DecidedGot EXCEPT ![t] = Head(DecidedItems)]
        BY <1>0, <2>0, <2>2, <3>1, <3>3 DEF DecisionInv
      <4>3. Fifo!Dequeue(t)
        BY <2>0, <3>1, <4>1, <4>2 DEF Fifo!Dequeue
      <4> QED BY <4>3 DEF Fifo!Next
    <3> QED BY <2>4, <3>2, <3>3 DEF TestPasses
  <2>5. CASE FallAsleep(t) \/ Refuse(t) \/ PeekFront(t)
    <3>1. \A u \in Thread : pc'[u] # "mutate"
      BY <1>1, <2>1, <2>5 DEF FallAsleep, Refuse, PeekFront
    <3>2. DecidedItems' = m_queue /\ DecidedGot' = got'
      BY <1>0, <2>0, <3>1 DEF DecisionInv
    <3>3. CASE FallAsleep(t)
      <4>1. UNCHANGED <<ok, got>>
        BY <3>3 DEF FallAsleep
      <4> QED BY <1>2, <2>0, <2>2, <3>2, <4>1 DEF Same
    <3>4. CASE Refuse(t)
      <4>1. DecidedItems = <<>> \/ ~Fifo!HasRoom
        BY <2>2, <2>3, <3>4 DEF Refuse, Ready
      <4>2. UNCHANGED <<DecidedItems, DecidedGot>> /\ ok' = [ok EXCEPT ![t] = FALSE]
        BY <2>2, <3>2, <3>4 DEF Refuse
      <4>3. Fifo!Refuse(t)
        BY <2>0, <4>1, <4>2 DEF Fifo!Refuse
      <4> QED BY <4>3 DEF Fifo!Next
    <3>5. CASE PeekFront(t)
      <4>1. DecidedItems # <<>>
        BY <2>2, <3>5 DEF PeekFront, Ready
      <4>2. /\ DecidedItems' = DecidedItems /\ ok' = [ok EXCEPT ![t] = TRUE]
            /\ DecidedGot' = [DecidedGot EXCEPT ![t] = Head(DecidedItems)]
        BY <2>2, <3>2, <3>5 DEF PeekFront
      <4>3. Fifo!Peek(t)
        BY <2>0, <4>1, <4>2 DEF Fifo!Peek
      <4> QED BY <4>3 DEF Fifo!Next
    <3> QED BY <2>5, <3>3, <3>4, <3>5
  <2> QED BY <1>7, <2>4, <2>5 DEF Test
<1>8. ASSUME NEW t \in Thread, LoadCapacity(t) \/ CompareExchange(t) \/ StoreLimited(t)
      PROVE  [Fifo!Next]_(Fifo!fifoVars)
  <2>1. \A u \in Thread :
           /\ pc'[u] = "mutate" <=> pc[u] = "mutate"
           /\ pc[u] = "mutate" => op'[u] = op[u] /\ arg'[u] = arg[u]
    BY <1>1, <1>8 DEF LoadCapacity, CompareExchange, StoreLimited
  <2>2. UNCHANGED <<m_queue, got, ok>>
    BY <1>8 DEF LoadCapacity, CompareExchange, StoreLimited
  <2>3. Same
    BY <1>0, <2>1, <2>2, SameDecision DEF Same
  <2>4. CASE UNCHANGED limits
    BY <1>2, <2>2, <2>3, <2>4
  <2>5. CASE CompareExchange(t) /\ m_capacity' # m_capacity
    <3>1. cap[t] \in [value : Nat, old : Nat]
      BY DEF IInv, TypeOK
    <3>2. m_capacity' \in Nat /\ m_capacity' > m_capacity /\ m_unlimited' = m_unlimited
      BY <1>1, <2>5, <3>1 DEF CompareExchange
    <3>3. CASE m_unlimited
      BY <2>2, <2>3, <3>2, <3>3 DEF Same, Fifo!fifoVars
    <3>4. CASE ~m_unlimited
      <4>1. Fifo!SetLimit
        BY <2>2, <2>3, <3>2, <3>4 DEF Same, Fifo!SetLimit
      <4> QED BY <4>1 DEF Fifo!Next
    <3> QED BY <3>3, <3>4
  <2>6. CASE StoreLimited(t) /\ m_unlimited
    <3>1. m_unlimited' = FALSE /\ m_capacity' = m_capacity
      BY <2>6 DEF StoreLimited
    <3>2. Fifo!SetLimit
      BY <1>1, <2>2, <2>3, <2>6, <3>1 DEF Same, Fifo!SetLimit, Fifo!NoLimit
    <3> QED BY <3>2 DEF Fifo!Next
  <2> QED BY <1>1, <1>8, <2>4, <2>5, <2>6 DEF LoadCapacity, CompareExchange, StoreLimited
<1>9. CASE UNCHANGED vars
  BY <1>2, <1>9 DEF vars, Same, DecidedItems, DecidedGot, Deciding
<1> QED BY <1>3, <1>4, <1>5, <1>6, <1>7, <1>8, <1>9 DEF Next, Step

\* The queue is linearizable to FifoQueue, whatever the threads, values, calls,
\* capacities and bounds: each step is a step of the abstract queue or changes
\* nothing its callers see.
THEOREM FifoImplemented == Spec => ImplementsFifo
<1> QED BY InitInv, StepInv, InitFifo, StepFifo, PTL DEF Spec, ImplementsFifo, Fifo!Spec
===============================================================================
