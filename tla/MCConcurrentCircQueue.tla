------------------------ MODULE MCConcurrentCircQueue ------------------------
(* Instances of ConcurrentCircQueue for TLC. *)
EXTENDS ConcurrentCircQueue, TLC

CONSTANTS t1, t2, v1, v2

Threads2 == {t1, t2}
QueueUsages == {RingCalls}

\* One thread pushes, one pops and peeks.
OneToOne ==
  [t \in Thread |-> IF t = t1 THEN {"push", "tryPush"} ELSE {"pop", "tryPop", "peek"}]

\* One thread pushes and one pops, both blocking.
OneToOneBlocking == [t \in Thread |-> IF t = t1 THEN {"push"} ELSE {"pop"}]
==============================================================================
