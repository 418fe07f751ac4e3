------------------------- MODULE ConcurrentRingBuffer -------------------------
(****************************************************************************)
(* ccl::ds::buffers::ConcurrentRingBuffer: a ring of Capacity slots under   *)
(* m_mutex, with m_cv for the poppers that wait for an element.             *)
(*                                                                          *)
(* Everything a critical section touches is read under the mutex, except    *)
(* m_size, which each section changes at most once: a critical section is   *)
(* one step.  The calls are cut at the reads made outside the mutex: the    *)
(* emptiness test of the try pops, the bound check of at(), and the use of  *)
(* the reference at() returns after unlocking.                              *)
(****************************************************************************)
EXTENDS Integers, Sequences, FiniteSets

CONSTANTS
  Thread,    \* the threads sharing the buffer
  Value,     \* the elements they exchange
  Blank,     \* the content of a slot that holds no element: default built or moved from
  Usages,    \* the ways a program may share the buffer: which operations each thread calls
  Capacity,  \* the constructor's capacity
  Word       \* 2^64 in the code: size_t arithmetic wraps at Word

Pops == {"popFront", "popBack"}
TryPops == {"tryPopFront", "tryPopBack"}
Reads == {"tryFront", "tryBack"}
RingOps == {"put"} \cup Pops \cup TryPops \cup Reads

ASSUME RingAssumption ==
  /\ IsFiniteSet(Thread)
  /\ Blank \notin Value
  /\ Usages \subseteq [Thread -> SUBSET RingOps]
  /\ Capacity \in Nat \ {0}
  /\ Word \in Nat /\ Word > 2 * Capacity

VARIABLES
  usage,        \* the program's way, which never changes
  m_buffer,     \* the slots
  m_size,       \* atomic element counter
  m_front_idx,  \* slot of the oldest element
  m_back_idx,   \* slot the next put fills
  pc,           \* where each thread is in its call
  op,           \* the operation it is in, "none" between calls
  arg,          \* the value it puts
  pos,          \* the position, then the slot, of a tryFront or tryBack
  got,          \* the last element it popped
  seen,         \* the last element it read in place, Blank if there was none
  ok            \* whether its last put or pop had an effect

ring == <<usage, m_buffer, m_size, m_front_idx, m_back_idx>>
ringVars == <<usage, m_buffer, m_size, m_front_idx, m_back_idx, pc, op, arg, pos, got, seen, ok>>

Slots == 0 .. Capacity - 1
\* A definition named ...Mutant is the next one with a plausible fault.
Following(i) == (i + 1) % Capacity
PrecedingMutant(i) == i
Preceding(i) == (i + Capacity - 1) % Capacity

RingLabels == {"idle", "put", "notify", "test", "asleep", "empty", "take", "bound", "index", "read"}
FirstLabel(o) == CASE o = "put"     -> "put"
                   [] o \in Pops    -> "test"
                   [] o \in TryPops -> "empty"
                   [] o \in Reads   -> "bound"

Sleepers == {t \in Thread : pc[t] = "asleep"}

\* ConcurrentRingBuffer(capacity) and, with every slot filled, the constructors
\* from a vector.
Init ==
  /\ usage \in Usages
  /\ \/ m_buffer = [i \in Slots |-> Blank] /\ m_size = 0
     \/ m_buffer \in [Slots -> Value] /\ m_size = Capacity
  /\ m_front_idx = 0
  /\ m_back_idx = 0
  /\ pc = [t \in Thread |-> "idle"]
  /\ op = [t \in Thread |-> "none"]
  /\ arg = [t \in Thread |-> Blank]
  /\ pos = [t \in Thread |-> 0]
  /\ got = [t \in Thread |-> Blank]
  /\ seen = [t \in Thread |-> Blank]
  /\ ok = [t \in Thread |-> TRUE]

Goto(t, label) == pc' = [pc EXCEPT ![t] = label]

Return(t) ==
  /\ Goto(t, "idle")
  /\ op' = [op EXCEPT ![t] = "none"]

Enter(t, o, v) ==
  /\ pc[t] = "idle"
  /\ Goto(t, FirstLabel(o))
  /\ op' = [op EXCEPT ![t] = o]
  /\ arg' = [arg EXCEPT ![t] = IF o = "put" THEN v ELSE Blank]
  /\ pos' = [pos EXCEPT ![t] = IF o = "tryBack" THEN (m_size + Word - 1) % Word ELSE 0]
  /\ UNCHANGED <<ring, got, seen, ok>>

RingCall(t) == \E o \in usage[t], v \in Value : Enter(t, o, v)

-------------------------------------------------------------------------------
(* put. *)

PutMutant(t) ==
  /\ pc[t] = "put"
  /\ m_buffer' = [m_buffer EXCEPT ![m_back_idx] = arg[t]]
  /\ m_back_idx' = Following(m_back_idx)
  /\ m_size' = IF m_size < Capacity THEN m_size + 1 ELSE m_size
  /\ ok' = [ok EXCEPT ![t] = TRUE]
  /\ arg' = [arg EXCEPT ![t] = Blank]
  /\ Goto(t, "notify")
  /\ UNCHANGED <<usage, m_front_idx, op, pos, got, seen>>

\* The slot at the back is filled; a full ring gives up its oldest element.
Put(t) ==
  /\ pc[t] = "put"
  /\ m_front_idx' = IF m_size = Capacity THEN Following(m_front_idx) ELSE m_front_idx
  /\ m_buffer' = [m_buffer EXCEPT ![m_back_idx] = arg[t]]
  /\ m_back_idx' = Following(m_back_idx)
  /\ m_size' = IF m_size < Capacity THEN m_size + 1 ELSE m_size
  /\ ok' = [ok EXCEPT ![t] = TRUE]
  /\ arg' = [arg EXCEPT ![t] = Blank]
  /\ Goto(t, "notify")
  /\ UNCHANGED <<usage, op, pos, got, seen>>

NotifyMutant(t) ==
  /\ pc[t] = "notify"
  /\ Return(t)
  /\ UNCHANGED <<ring, arg, pos, got, seen, ok>>

Notify(t) ==
  /\ pc[t] = "notify"
  /\ \/ \E s \in Sleepers : pc' = [pc EXCEPT ![t] = "idle", ![s] = "test"]
     \/ Sleepers = {} /\ Goto(t, "idle")
  /\ op' = [op EXCEPT ![t] = "none"]
  /\ UNCHANGED <<ring, arg, pos, got, seen, ok>>

-------------------------------------------------------------------------------
(* The pops. *)

\* _popFront and _popBack: no test of their own.
PopEnd(t) ==
  /\ LET front == op[t] \in {"popFront", "tryPopFront"}
         slot == IF front THEN m_front_idx ELSE Preceding(m_back_idx)
     IN  /\ got' = [got EXCEPT ![t] = m_buffer[slot]]
         /\ m_buffer' = [m_buffer EXCEPT ![slot] = Blank]
         /\ m_front_idx' = IF front THEN Following(m_front_idx) ELSE m_front_idx
         /\ m_back_idx' = IF front THEN m_back_idx ELSE slot
  /\ m_size' = (m_size + Word - 1) % Word
  /\ ok' = [ok EXCEPT ![t] = TRUE]
  /\ Return(t)
  /\ UNCHANGED usage

\* popFront and popBack under the mutex: pop, or wait for an element.
Test(t) ==
  /\ pc[t] = "test"
  /\ \/ m_size # 0 /\ PopEnd(t)
     \/ m_size = 0 /\ Goto(t, "asleep") /\ UNCHANGED <<ring, op, got, ok>>
  /\ UNCHANGED <<arg, pos, seen>>

SpuriousWakeup(t) ==
  /\ pc[t] = "asleep"
  /\ Goto(t, "test")
  /\ UNCHANGED <<ring, op, arg, pos, got, seen, ok>>

\* tryPopFront and tryPopBack test for emptiness before they take the mutex...
Empty(t) ==
  /\ pc[t] = "empty"
  /\ \/ m_size # 0 /\ Goto(t, "take") /\ UNCHANGED <<op, ok>>
     \/ m_size = 0 /\ Return(t) /\ ok' = [ok EXCEPT ![t] = FALSE]
  /\ UNCHANGED <<ring, arg, pos, got, seen>>

\* ... and pop without testing again.
Take(t) ==
  /\ pc[t] = "take"
  /\ PopEnd(t)
  /\ UNCHANGED <<arg, pos, seen>>

-------------------------------------------------------------------------------
(* tryAt, behind tryFront and tryBack. *)

\* boundCheck, outside the mutex: out of range is caught and returned as false.
Bound(t) ==
  /\ pc[t] = "bound"
  /\ \/ pos[t] < m_size /\ Goto(t, "index") /\ UNCHANGED <<op, seen>>
     \/ pos[t] >= m_size /\ Return(t) /\ seen' = [seen EXCEPT ![t] = Blank]
  /\ UNCHANGED <<ring, arg, pos, got, ok>>

IndexMutant(t) ==
  /\ pc[t] = "index"
  /\ Goto(t, "read")
  /\ UNCHANGED <<ring, op, arg, pos, got, seen, ok>>

\* at() computes the reference under the mutex and returns it.
Index(t) ==
  /\ pc[t] = "index"
  /\ pos' = [pos EXCEPT ![t] = (m_front_idx + pos[t]) % Capacity]
  /\ Goto(t, "read")
  /\ UNCHANGED <<ring, op, arg, got, seen, ok>>

\* dst = the referenced slot, with the mutex released: whatever it holds by now.
Read(t) ==
  /\ pc[t] = "read"
  /\ seen' = [seen EXCEPT ![t] = m_buffer[pos[t]]]
  /\ pos' = [pos EXCEPT ![t] = 0]
  /\ Return(t)
  /\ UNCHANGED <<ring, arg, got, ok>>

-------------------------------------------------------------------------------
RingStep(t) ==
  Put(t) \/ Notify(t) \/ Test(t) \/ Empty(t) \/ Take(t) \/ Bound(t) \/ Index(t) \/ Read(t)

Next == \E t \in Thread : RingCall(t) \/ RingStep(t) \/ SpuriousWakeup(t)

Spec == Init /\ [][Next]_ringVars
FairSpec == Spec /\ \A t \in Thread : WF_ringVars(RingStep(t))

-------------------------------------------------------------------------------
(* Properties. *)

\* Every variable keeps its type.
TypeOK ==
  /\ usage \in Usages
  /\ m_buffer \in [Slots -> Value \cup {Blank}]
  /\ m_size \in 0 .. Word - 1
  /\ m_front_idx \in Slots
  /\ m_back_idx \in Slots
  /\ pc \in [Thread -> RingLabels]
  /\ op \in [Thread -> RingOps \cup {"none"}]
  /\ arg \in [Thread -> Value \cup {Blank}]
  /\ pos \in [Thread -> 0 .. Word - 1]
  /\ got \in [Thread -> Value \cup {Blank}]
  /\ seen \in [Thread -> Value \cup {Blank}]
  /\ ok \in [Thread -> BOOLEAN]

\* The usages the code supports: a thread that tries to pop is the only popper.
SafeUsage(u) ==
  \A t, r \in Thread : t # r /\ u[t] \cap TryPops # {} => u[r] \cap (Pops \cup TryPops) = {}

\* The ring is thread-safe: whatever the threads do, its counter and its two
\* indices describe the same run of occupied slots.
Occupied == {(m_front_idx + i) % Capacity : i \in 0 .. m_size - 1}
RingConsistent ==
  /\ m_size <= Capacity
  /\ m_back_idx = (m_front_idx + m_size) % Capacity
  /\ \A i \in Slots : m_buffer[i] # Blank <=> i \in Occupied

\* No lost wakeup: while a popper sleeps each element in the ring is matched by
\* a put that has still to notify or by a popper about to test.
ElementsAnnounced ==
  Sleepers # {} => m_size <= Cardinality({t \in Thread : pc[t] \in {"notify", "test"}})

\* The ring is linearizable to a deque that drops its oldest element when full.
Deque == INSTANCE OverwritingDeque WITH
           items <- [i \in 1 .. m_size |-> m_buffer[(m_front_idx + i - 1) % Capacity]]
ImplementsDeque == Deque!Spec

\* A read in place returns an element of the ring, never a slot emptied since.
ReadsAnElement ==
  [][\A t \in Thread : pc[t] = "read" /\ pc'[t] = "idle" => seen'[t] # Blank]_ringVars

\* From some point on nobody makes a new call or wakes up by chance.
TrafficStops == <>[][\A t \in Thread : ~RingCall(t) /\ ~SpuriousWakeup(t)]_ringVars

\* A popper asleep on m_cv is woken if the ring stays non-empty.
PoppersServed ==
  TrafficStops => \A t \in Thread : (pc[t] = "asleep" /\ m_size # 0)
                                      ~> (pc[t] # "asleep" \/ m_size = 0)
==============================================================================
