-------------------------- MODULE MCConcurrentQueue --------------------------
(* Instances of ConcurrentQueue for TLC. *)
EXTENDS ConcurrentQueue, TLC

CONSTANTS t1, t2, t3, v1, v2

Threads3 == {t1, t2, t3}

\* A producer, a consumer, and a thread that blocks on either side; the last two
\* may raise the capacity at the same time.
AnyCall ==
  [t \in Thread |-> CASE t = t1 -> {"push", "tryPush"}
                      [] t = t2 -> {"pop", "tryPop", "peek", "capacity"}
                      [] OTHER  -> {"push", "pop", "capacity"}]

\* The values are interchangeable.
ValueSymmetry == Permutations(Value)

SomeQueues == {<<>>, <<v1, v1>>, <<v2, v2>>}
==============================================================================
