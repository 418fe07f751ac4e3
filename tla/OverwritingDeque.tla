--------------------------- MODULE OverwritingDeque ---------------------------
(****************************************************************************)
(* What a thread-safe ring buffer promises: a deque of at most Capacity     *)
(* elements where put always succeeds, dropping the oldest element when the *)
(* deque is full, where an element is popped from either end only when      *)
(* there is one, and where a try call refuses only on an empty deque.       *)
(****************************************************************************)
EXTENDS Naturals, Sequences

CONSTANTS
  Thread,    \* the callers
  Value,     \* the elements they exchange
  Blank,     \* what a caller holds before its first element
  Capacity   \* the number of elements kept

VARIABLES
  items,  \* the elements, oldest first
  got,    \* got[t]: the last element t popped
  ok      \* ok[t]: whether t's last call had an effect

dequeVars == <<items, got, ok>>

Init ==
  /\ items \in Seq(Value) /\ Len(items) <= Capacity
  /\ got = [t \in Thread |-> Blank]
  /\ ok = [t \in Thread |-> TRUE]

Put(t, v) ==
  /\ items' = IF Len(items) = Capacity THEN Append(Tail(items), v) ELSE Append(items, v)
  /\ ok' = [ok EXCEPT ![t] = TRUE]
  /\ UNCHANGED got

PopFront(t) ==
  /\ items # <<>>
  /\ got' = [got EXCEPT ![t] = Head(items)]
  /\ items' = Tail(items)
  /\ ok' = [ok EXCEPT ![t] = TRUE]

PopBack(t) ==
  /\ items # <<>>
  /\ got' = [got EXCEPT ![t] = items[Len(items)]]
  /\ items' = SubSeq(items, 1, Len(items) - 1)
  /\ ok' = [ok EXCEPT ![t] = TRUE]

Refuse(t) ==
  /\ items = <<>>
  /\ ok' = [ok EXCEPT ![t] = FALSE]
  /\ UNCHANGED <<items, got>>

Next ==
  \E t \in Thread : \/ PopFront(t) \/ PopBack(t) \/ Refuse(t)
                    \/ \E v \in Value : Put(t, v)

Spec == Init /\ [][Next]_dequeVars
==============================================================================
