------------------------ MODULE MCConcurrentRingBuffer ------------------------
(* Instances of ConcurrentRingBuffer for TLC. *)
EXTENDS ConcurrentRingBuffer, TLC

CONSTANTS t1, t2, t3, v1, v2

Threads3 == {t1, t2, t3}

\* Two threads put; the third pops in every way and reads in place.
OneConsumer ==
  [t \in Thread |-> IF t = t3 THEN RingOps \ {"put"} ELSE {"put"}]

\* A thread puts, two pop by the blocking calls.
BlockingConsumers == [t \in Thread |-> IF t = t1 THEN {"put"} ELSE Pops]

\* A thread puts, two try to pop.
TryingConsumers == [t \in Thread |-> IF t = t1 THEN {"put"} ELSE TryPops]

SafeUsages == {OneConsumer, BlockingConsumers}
UnsafeUsages == {TryingConsumers}
ASSUME MCUsagesAreSafe == \A u \in SafeUsages : SafeUsage(u)
==============================================================================
