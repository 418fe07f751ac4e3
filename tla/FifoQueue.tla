------------------------------ MODULE FifoQueue ------------------------------
(****************************************************************************)
(* What a thread-safe blocking FIFO promises its callers: every operation   *)
(* takes effect at one instant, elements leave in the order they entered,   *)
(* none is lost or duplicated, an insertion happens only while there is     *)
(* room and a removal only while there is an element, and a non-blocking    *)
(* call refuses only when it has to.  A lossy queue makes room for an       *)
(* insertion by dropping its oldest element.                                *)
(****************************************************************************)
EXTENDS Integers, Sequences

CONSTANTS
  Thread,   \* the callers
  Value,    \* the elements they exchange
  NoValue   \* what a caller holds before its first element

NoLimit == -1   \* the limit of a queue nobody bounded

VARIABLES
  items,  \* the queued elements, oldest first
  lossy,  \* whether an insertion may drop the oldest element
  limit,  \* NoLimit, or the number of elements the queue may hold
  got,    \* got[t]: the last element t removed or peeked at
  ok      \* ok[t]: whether t's last operation did what it was asked to

fifoVars == <<items, lossy, limit, got, ok>>

HasRoom == limit = NoLimit \/ Len(items) < limit

Init ==
  /\ items \in Seq(Value)
  /\ lossy \in BOOLEAN
  /\ limit \in Nat \cup {NoLimit}
  /\ got = [t \in Thread |-> NoValue]
  /\ ok = [t \in Thread |-> TRUE]

Enqueue(t, v) ==
  /\ HasRoom
  /\ items' = Append(items, v)
  /\ ok' = [ok EXCEPT ![t] = TRUE]
  /\ UNCHANGED <<lossy, limit, got>>

\* A full lossy queue takes an element in the place of its oldest.
Replace(t, v) ==
  /\ lossy /\ ~HasRoom /\ items # <<>>
  /\ items' = Append(Tail(items), v)
  /\ ok' = [ok EXCEPT ![t] = TRUE]
  /\ UNCHANGED <<lossy, limit, got>>

Dequeue(t) ==
  /\ items # <<>>
  /\ items' = Tail(items)
  /\ got' = [got EXCEPT ![t] = Head(items)]
  /\ ok' = [ok EXCEPT ![t] = TRUE]
  /\ UNCHANGED <<lossy, limit>>

Peek(t) ==
  /\ items # <<>>
  /\ got' = [got EXCEPT ![t] = Head(items)]
  /\ ok' = [ok EXCEPT ![t] = TRUE]
  /\ UNCHANGED <<items, lossy, limit>>

Refuse(t) ==
  /\ items = <<>> \/ ~HasRoom
  /\ ok' = [ok EXCEPT ![t] = FALSE]
  /\ UNCHANGED <<items, lossy, limit, got>>

\* A limit, once set, is only ever raised.
SetLimit ==
  /\ limit' \in Nat
  /\ limit = NoLimit \/ limit' > limit
  /\ UNCHANGED <<items, lossy, got, ok>>

Next ==
  \/ \E t \in Thread : \/ Dequeue(t)
                       \/ Peek(t)
                       \/ Refuse(t)
                       \/ \E v \in Value : Enqueue(t, v) \/ Replace(t, v)
  \/ SetLimit

Spec == Init /\ [][Next]_fifoVars
==============================================================================
