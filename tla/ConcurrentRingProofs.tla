-------------------------- MODULE ConcurrentRingProofs --------------------------
(****************************************************************************)
(* ConcurrentRingBuffer and the ConcurrentCircQueue over it, for every      *)
(* number of threads, value, capacity and policy.  In a program that uses   *)
(* the ring safely its counter, its indices and its slots never part, no    *)
(* wakeup is lost, and it implements OverwritingDeque.  The queue is such a *)
(* program, as it makes no try pop: its ring holds whatever is called of    *)
(* the queue, and with one pushing thread it implements FifoQueue.          *)
(****************************************************************************)
EXTENDS ConcurrentCircQueue, SequenceTheorems, FiniteSetTheorems, TLAPS

\* What a thread is doing is something its program may call.
CallInv ==
  \A t \in Thread :
    /\ pc[t] = "put" => arg[t] \in Value
    /\ pc[t] \in {"test", "asleep"} => op[t] \in usage[t] \cap Pops
    /\ pc[t] \in {"empty", "take"} => op[t] \in usage[t] \cap TryPops
    /\ pc[t] = "read" => pos[t] \in Slots

\* The element a tryPop saw is still there when it takes it.
TakeInv == \A t \in Thread : pc[t] = "take" => m_size # 0

IInv == TypeOK /\ CallInv

\* RingConsistent without the modulus: the slots of the run of m_size elements
\* from m_front_idx, which may wrap, are those that hold an element.
InRun(i, f, n) == (f <= i /\ i < f + n) \/ i + Capacity < f + n
RunInv ==
  /\ m_size <= Capacity
  /\ m_back_idx = IF m_front_idx + m_size < Capacity THEN m_front_idx + m_size ELSE m_front_idx + m_size - Capacity
  /\ \A i \in Slots : m_buffer[i] # Blank <=> InRun(i, m_front_idx, m_size)

SafeInv == SafeUsage(usage) /\ RunInv /\ TakeInv

SafeProgram == \A u \in Usages : SafeUsage(u)

-------------------------------------------------------------------------------
(* Arithmetic modulo the capacity. *)

\* A remainder is smaller than the modulus.
LEMMA ModRange ==
  ASSUME NEW n \in Nat \ {0}, NEW x \in Nat
  PROVE  x % n \in 0 .. n - 1
  BY SMT

\* Below twice the modulus a remainder is one subtraction.
LEMMA ModWrap ==
  ASSUME NEW n \in Nat \ {0}, NEW x \in 0 .. 2 * n - 1
  PROVE  x % n = IF x < n THEN x ELSE x - n
  <1>1. CASE x < n
    BY <1>1, SMT
  <1>2. CASE x >= n
    BY <1>2, SMT
  <1> QED BY <1>1, <1>2

\* The same, for the capacity.
LEMMA WrapSlots ==
  \A x \in 0 .. 2 * Capacity - 1 : x % Capacity = IF x < Capacity THEN x ELSE x - Capacity
  <1>1. Capacity \in Nat \ {0}
    BY RingAssumption
  <1> QED BY <1>1, ModWrap, Zenon

\* The slot after a slot, and the one before it.
LEMMA Neighbours ==
  ASSUME NEW i \in Slots
  PROVE  /\ Following(i) \in Slots /\ Preceding(i) \in Slots
         /\ Following(i) = IF i = Capacity - 1 THEN 0 ELSE i + 1
         /\ Preceding(i) = IF i = 0 THEN Capacity - 1 ELSE i - 1
  <1>1. Capacity \in Nat \ {0}
    BY RingAssumption
  <1>2. Following(i) = IF i + 1 < Capacity THEN i + 1 ELSE i + 1 - Capacity
    <2>1. i + 1 \in 0 .. 2 * Capacity - 1
      BY <1>1 DEF Slots
    <2> QED BY <1>1, <2>1, WrapSlots DEF Following, Slots
  <1>3. Preceding(i) = IF i + Capacity - 1 < Capacity THEN i + Capacity - 1 ELSE i - 1
    <2>1. i + Capacity - 1 \in 0 .. 2 * Capacity - 1
      BY <1>1 DEF Slots
    <2>2. (i + Capacity - 1) - Capacity = i - 1
      BY <1>1 DEF Slots
    <2> QED BY <1>1, <2>1, <2>2, WrapSlots DEF Preceding, Slots
  <1> QED BY <1>1, <1>2, <1>3 DEF Slots

\* The slots occupied by a run of n elements from slot f.
LEMMA RunOf ==
  ASSUME NEW f \in Slots, NEW n \in 0 .. Capacity, NEW i \in Slots
  PROVE  i \in {(f + j) % Capacity : j \in 0 .. n - 1} <=> InRun(i, f, n)
  <1>1. Capacity \in Nat \ {0}
    BY RingAssumption
  <1>2. ASSUME NEW j \in 0 .. n - 1
        PROVE  (f + j) % Capacity = IF f + j < Capacity THEN f + j ELSE f + j - Capacity
    <2>1. f + j \in 0 .. 2 * Capacity - 1
      BY <1>1 DEF Slots
    <2> QED BY <1>1, <2>1, WrapSlots DEF Slots
  <1>3. ASSUME NEW j \in 0 .. n - 1, i = (f + j) % Capacity
        PROVE  InRun(i, f, n)
    BY <1>1, <1>2, <1>3 DEF InRun, Slots
  <1>4. ASSUME InRun(i, f, n)
        PROVE  \E j \in 0 .. n - 1 : i = (f + j) % Capacity
    <2>1. CASE f <= i /\ i < f + n
      <3>1. i - f \in 0 .. n - 1 /\ f + (i - f) = i /\ i < Capacity
        BY <1>1, <2>1 DEF Slots
      <3>2. (f + (i - f)) % Capacity = i
        BY <1>1, <1>2, <3>1 DEF Slots
      <3> QED BY <3>1, <3>2
    <2>2. CASE i + Capacity < f + n
      <3>1. i + Capacity - f \in 0 .. n - 1 /\ f + (i + Capacity - f) = i + Capacity /\ ~(i + Capacity < Capacity)
        BY <1>1, <2>2 DEF Slots
      <3>2. (f + (i + Capacity - f)) % Capacity = (i + Capacity) - Capacity
        BY <1>1, <1>2, <3>1 DEF Slots
      <3>3. (i + Capacity) - Capacity = i
        BY <1>1 DEF Slots
      <3> QED BY <3>1, <3>2, <3>3
    <2> QED BY <1>4, <2>1, <2>2 DEF InRun
  <1> QED BY <1>3, <1>4

-------------------------------------------------------------------------------
(* Types, for every program. *)

\* The counter stays in its word, whether it goes up, down or around.
LEMMA Counter ==
  ASSUME m_size \in 0 .. Word - 1
  PROVE  /\ (m_size + Word - 1) % Word \in 0 .. Word - 1
         /\ m_size < Capacity => m_size + 1 \in 0 .. Word - 1
  <1>1. Word \in Nat \ {0} /\ Word > 2 * Capacity /\ Capacity \in Nat \ {0}
    BY RingAssumption
  <1>2. m_size + Word - 1 \in Nat
    BY <1>1
  <1> QED BY <1>1, <1>2, ModRange

LEMMA SlotOf ==
  ASSUME NEW f \in Slots, NEW n \in Nat
  PROVE  (f + n) % Capacity \in Slots
  <1>1. Capacity \in Nat \ {0} /\ f + n \in Nat
    BY RingAssumption DEF Slots
  <1> QED BY <1>1, ModRange DEF Slots

LEMMA InitTypes == Init => IInv
  <1> SUFFICES ASSUME Init PROVE IInv
    OBVIOUS
  <1>1. Capacity \in Nat \ {0} /\ Word \in Nat /\ Word > 2 * Capacity
    BY RingAssumption
  <1>2. m_size \in 0 .. Word - 1 /\ m_front_idx \in Slots /\ m_back_idx \in Slots /\ 0 \in 0 .. Word - 1
    BY <1>1 DEF Init, Slots
  <1> QED BY <1>2 DEF Init, IInv, TypeOK, CallInv, RingLabels

\* _popFront and _popBack.
LEMMA PopEndTypes ==
  ASSUME IInv, NEW t \in Thread, op[t] \in Pops \cup TryPops, PopEnd(t), UNCHANGED <<arg, pos, seen>>
  PROVE  IInv'
  <1> DEFINE front == op[t] \in {"popFront", "tryPopFront"}
             slot == IF front THEN m_front_idx ELSE Preceding(m_back_idx)
  <1>1. slot \in Slots
    BY Neighbours DEF IInv, TypeOK
  <1>2. m_size' \in 0 .. Word - 1
    BY Counter DEF IInv, TypeOK, PopEnd
  <1>3. m_front_idx' \in Slots /\ m_back_idx' \in Slots
    BY Neighbours DEF IInv, TypeOK, PopEnd
  <1>4. got' = [got EXCEPT ![t] = m_buffer[slot]] /\ m_buffer' = [m_buffer EXCEPT ![slot] = Blank]
    BY DEF PopEnd
  <1>5. got' \in [Thread -> Value \cup {Blank}] /\ m_buffer' \in [Slots -> Value \cup {Blank}]
    BY <1>1, <1>4 DEF IInv, TypeOK
  <1>6. /\ pc' = [pc EXCEPT ![t] = "idle"] /\ op' = [op EXCEPT ![t] = "none"]
        /\ ok' = [ok EXCEPT ![t] = TRUE] /\ UNCHANGED usage
    BY DEF PopEnd, Return, Goto
  <1>7. TypeOK'
    BY <1>2, <1>3, <1>5, <1>6 DEF IInv, TypeOK, RingLabels
  <1>8. CallInv'
    BY <1>6 DEF IInv, TypeOK, CallInv
  <1> QED BY <1>7, <1>8 DEF IInv

\* A thread enters a call its program may make.
LEMMA EnterTypes ==
  ASSUME IInv, NEW t \in Thread, NEW o \in usage[t], NEW v, o = "put" => v \in Value, Enter(t, o, v)
  PROVE  IInv'
  <1> USE DEF IInv
  <1>1. o \in RingOps
    BY RingAssumption DEF TypeOK
  <1>2. FirstLabel(o) \in RingLabels /\ FirstLabel(o) \notin {"asleep", "take", "read"}
        /\ (FirstLabel(o) = "put" => o = "put") /\ (FirstLabel(o) = "test" => o \in Pops)
        /\ (FirstLabel(o) = "empty" => o \in TryPops)
    BY <1>1 DEF FirstLabel, RingLabels, RingOps, Pops, TryPops, Reads
  <1>3. (m_size + Word - 1) % Word \in 0 .. Word - 1 /\ 0 \in 0 .. Word - 1
    BY Counter, RingAssumption DEF TypeOK
  <1>4. pos' \in [Thread -> 0 .. Word - 1]
    BY <1>3 DEF Enter, TypeOK
  <1>5. arg' \in [Thread -> Value \cup {Blank}] /\ (o = "put" => arg'[t] \in Value)
    BY DEF Enter, TypeOK
  <1>6. /\ pc' = [pc EXCEPT ![t] = FirstLabel(o)] /\ op' = [op EXCEPT ![t] = o]
        /\ UNCHANGED <<ring, got, seen, ok>>
        /\ \A r \in Thread \ {t} : arg'[r] = arg[r] /\ pos'[r] = pos[r]
    BY DEF Enter, Goto, TypeOK
  <1>7. TypeOK'
    BY <1>1, <1>2, <1>4, <1>5, <1>6 DEF TypeOK, ring
  <1>8. CallInv'
    BY <1>2, <1>5, <1>6 DEF TypeOK, CallInv, ring
  <1> QED BY <1>7, <1>8

LEMMA StepTypes == IInv /\ [Next]_ringVars => IInv'
  <1> SUFFICES ASSUME IInv, [Next]_ringVars PROVE IInv'
    OBVIOUS
  <1> USE DEF IInv
  <1>1. ASSUME NEW t \in Thread, RingCall(t) PROVE IInv'
    BY <1>1, EnterTypes DEF RingCall
  <1>2. ASSUME NEW t \in Thread, Put(t) PROVE IInv'
    <2>1. arg[t] \in Value
      BY <1>2 DEF Put, CallInv
    <2>2. m_front_idx' \in Slots /\ m_back_idx' \in Slots
      BY <1>2, Neighbours DEF Put, TypeOK
    <2>3. m_size' \in 0 .. Word - 1
      BY <1>2, Counter DEF Put, TypeOK
    <2>4. TypeOK'
      BY <1>2, <2>1, <2>2, <2>3 DEF Put, Goto, TypeOK, RingLabels
    <2>5. CallInv'
      BY <1>2 DEF Put, Goto, TypeOK, CallInv
    <2> QED BY <2>4, <2>5
  <1>3. ASSUME NEW t \in Thread, Notify(t) PROVE IInv'
    <2>1. /\ op' = [op EXCEPT ![t] = "none"]
          /\ UNCHANGED <<ring, arg, pos, got, seen, ok>>
          /\ pc[t] = "notify"
      BY <1>3 DEF Notify
    <2>2. CASE Sleepers = {} /\ Goto(t, "idle")
      <3>1. TypeOK'
        BY <2>1, <2>2 DEF TypeOK, RingLabels, ring, Goto
      <3>2. CallInv'
        BY <2>1, <2>2 DEF TypeOK, CallInv, ring, Goto
      <3> QED BY <3>1, <3>2
    <2>3. ASSUME NEW s \in Sleepers, pc' = [pc EXCEPT ![t] = "idle", ![s] = "test"] PROVE IInv'
      <3>1. s \in Thread /\ pc[s] = "asleep" /\ s # t
        BY <2>1 DEF Sleepers
      <3>2. TypeOK'
        BY <2>1, <2>3, <3>1 DEF TypeOK, RingLabels, ring
      <3>3. CallInv'
        BY <2>1, <2>3, <3>1 DEF TypeOK, CallInv, ring
      <3> QED BY <3>2, <3>3
    <2> QED BY <1>3, <2>2, <2>3 DEF Notify
  <1>4. ASSUME NEW t \in Thread, Test(t) PROVE IInv'
    <2>1. CASE PopEnd(t)
      <3>1. op[t] \in Pops \cup TryPops /\ UNCHANGED <<arg, pos, seen>>
        BY <1>4 DEF Test, CallInv
      <3> QED BY <2>1, <3>1, PopEndTypes
    <2>2. CASE Goto(t, "asleep") /\ UNCHANGED <<ring, op, got, ok>>
      <3>1. pc[t] = "test" /\ UNCHANGED <<arg, pos, seen>>
        BY <1>4 DEF Test
      <3>2. TypeOK'
        BY <2>2, <3>1 DEF Goto, TypeOK, RingLabels, ring
      <3>3. CallInv'
        BY <2>2, <3>1 DEF Goto, TypeOK, CallInv, ring
      <3> QED BY <3>2, <3>3
    <2> QED BY <1>4, <2>1, <2>2 DEF Test
  <1>5. ASSUME NEW t \in Thread, SpuriousWakeup(t) PROVE IInv'
    <2>1. TypeOK'
      BY <1>5 DEF SpuriousWakeup, Goto, TypeOK, RingLabels, ring
    <2>2. CallInv'
      BY <1>5 DEF SpuriousWakeup, Goto, TypeOK, CallInv, ring
    <2> QED BY <2>1, <2>2
  <1>6. ASSUME NEW t \in Thread, Empty(t) PROVE IInv'
    <2>1. TypeOK'
      BY <1>6 DEF Empty, Return, Goto, TypeOK, RingLabels, ring
    <2>2. CallInv'
      BY <1>6 DEF Empty, Return, Goto, TypeOK, CallInv, ring
    <2> QED BY <2>1, <2>2
  <1>7. ASSUME NEW t \in Thread, Take(t) PROVE IInv'
    <2>1. op[t] \in Pops \cup TryPops /\ UNCHANGED <<arg, pos, seen>> /\ PopEnd(t)
      BY <1>7 DEF Take, CallInv
    <2> QED BY <2>1, PopEndTypes
  <1>8. ASSUME NEW t \in Thread, Bound(t) PROVE IInv'
    <2>1. TypeOK'
      BY <1>8 DEF Bound, Return, Goto, TypeOK, RingLabels, ring
    <2>2. CallInv'
      BY <1>8 DEF Bound, Return, Goto, TypeOK, CallInv, ring
    <2> QED BY <2>1, <2>2
  <1>9. ASSUME NEW t \in Thread, Index(t) PROVE IInv'
    <2>1. (m_front_idx + pos[t]) % Capacity \in Slots
      BY SlotOf DEF TypeOK
    <2>2. Slots \subseteq 0 .. Word - 1
      BY RingAssumption DEF Slots
    <2>3. TypeOK'
      BY <1>9, <2>1, <2>2 DEF Index, Goto, TypeOK, RingLabels, ring
    <2>4. CallInv'
      BY <1>9, <2>1 DEF Index, Goto, TypeOK, CallInv, ring
    <2> QED BY <2>3, <2>4
  <1>10. ASSUME NEW t \in Thread, Read(t) PROVE IInv'
    <2>1. m_buffer[pos[t]] \in Value \cup {Blank} /\ 0 \in 0 .. Word - 1
      BY <1>10, RingAssumption DEF Read, TypeOK, CallInv
    <2>2. TypeOK'
      BY <1>10, <2>1 DEF Read, Return, Goto, TypeOK, RingLabels, ring
    <2>3. CallInv'
      BY <1>10 DEF Read, Return, Goto, TypeOK, CallInv, ring
    <2> QED BY <2>2, <2>3
  <1>11. CASE UNCHANGED ringVars
    BY <1>11 DEF TypeOK, CallInv, ringVars
  <1> QED BY <1>1, <1>2, <1>3, <1>4, <1>5, <1>6, <1>7, <1>8, <1>9, <1>10, <1>11 DEF Next, RingStep

\* Every variable keeps its type, whatever the threads call: even where two try
\* pops race the indices stay inside the buffer and the counter in its word.
THEOREM RingTypeCorrect == Spec => []TypeOK
  <1>1. Init => IInv
    BY InitTypes
  <1>2. IInv /\ [Next]_ringVars => IInv'
    BY StepTypes
  <1>3. IInv => TypeOK
    BY DEF IInv
  <1> QED BY <1>1, <1>2, <1>3, PTL DEF Spec

-------------------------------------------------------------------------------
(* Consistency, for safe programs. *)

LEMMA RunIsConsistent ==
  ASSUME IInv, RunInv
  PROVE  RingConsistent
  <1>1. m_front_idx \in Slots /\ m_size \in 0 .. Capacity /\ Capacity \in Nat \ {0}
    BY RingAssumption DEF IInv, TypeOK, RunInv
  <1>2. m_front_idx + m_size \in 0 .. 2 * Capacity - 1
    BY <1>1 DEF Slots
  <1>3. m_back_idx = (m_front_idx + m_size) % Capacity
    <2>1. (m_front_idx + m_size) % Capacity
            = IF m_front_idx + m_size < Capacity THEN m_front_idx + m_size ELSE m_front_idx + m_size - Capacity
      BY <1>1, <1>2, WrapSlots DEF Slots
    <2> QED BY <2>1 DEF RunInv
  <1>4. \A i \in Slots : m_buffer[i] # Blank <=> i \in Occupied
    BY <1>1, RunOf DEF RunInv, Occupied
  <1> QED BY <1>3, <1>4 DEF RingConsistent, RunInv

LEMMA InitSafe == SafeProgram /\ Init => SafeInv
  <1> SUFFICES ASSUME SafeProgram, Init PROVE SafeInv
    OBVIOUS
  <1>1. Capacity \in Nat \ {0} /\ Blank \notin Value
    BY RingAssumption
  <1>2. RunInv
    BY <1>1 DEF Init, RunInv, InRun, Slots
  <1>3. SafeUsage(usage) /\ TakeInv
    BY DEF SafeProgram, Init, TakeInv
  <1> QED BY <1>2, <1>3 DEF SafeInv

\* A put extends the run at its back, or moves a full one by a slot.
LEMMA PutRun ==
  ASSUME IInv, RunInv, NEW t \in Thread, Put(t)
  PROVE  RunInv'
  <1> USE DEF InRun, Slots
  <1>1. /\ Capacity \in Nat \ {0} /\ m_front_idx \in Slots /\ m_back_idx \in Slots
        /\ m_size \in 0 .. Capacity /\ arg[t] # Blank
    BY RingAssumption DEF IInv, TypeOK, CallInv, RunInv, Put
  <1>2. /\ m_buffer' = [m_buffer EXCEPT ![m_back_idx] = arg[t]]
        /\ m_back_idx' = IF m_back_idx = Capacity - 1 THEN 0 ELSE m_back_idx + 1
    BY <1>1, Neighbours DEF Put
  <1>3. \A i \in Slots : m_buffer'[i] = IF i = m_back_idx THEN arg[t] ELSE m_buffer[i]
    BY <1>2 DEF IInv, TypeOK
  <1>4. CASE m_size = Capacity
    <2>1. m_size' = m_size /\ m_front_idx' = IF m_front_idx = Capacity - 1 THEN 0 ELSE m_front_idx + 1
      BY <1>1, <1>4, Neighbours DEF Put
    <2>2. m_back_idx = m_front_idx
      BY <1>1, <1>4 DEF RunInv
    <2>3. \A i \in Slots : m_buffer'[i] # Blank
      BY <1>1, <1>3, <1>4 DEF RunInv
    <2>4. m_front_idx' \in Slots /\ m_back_idx' = m_front_idx'
      BY <1>1, <1>2, <2>1, <2>2
    <2>5. \A i \in Slots : InRun(i, m_front_idx', m_size')
      BY <1>1, <1>4, <2>1, <2>4
    <2> QED BY <1>1, <1>4, <2>1, <2>3, <2>4, <2>5 DEF RunInv
  <1>5. CASE m_size # Capacity
    <2>1. m_size' = m_size + 1 /\ m_front_idx' = m_front_idx
      BY <1>1, <1>5 DEF Put
    <2>2. \A i \in Slots : m_buffer'[i] # Blank <=> InRun(i, m_front_idx', m_size')
      BY <1>1, <1>3, <1>5, <2>1 DEF RunInv
    <2> QED BY <1>1, <1>2, <1>5, <2>1, <2>2 DEF RunInv
  <1> QED BY <1>4, <1>5

\* A pop of a ring that is not empty shortens the run at its front or at its back.
LEMMA PopRun ==
  ASSUME IInv, RunInv, m_size # 0, NEW t \in Thread, PopEnd(t)
  PROVE  RunInv' /\ m_size' = m_size - 1
  <1> USE DEF InRun, Slots
  <1>1. /\ Capacity \in Nat \ {0} /\ m_front_idx \in Slots /\ m_back_idx \in Slots
        /\ m_size \in 1 .. Capacity /\ Word \in Nat \ {0} /\ Word > 2 * Capacity
    BY RingAssumption DEF IInv, TypeOK, RunInv
  <1>2. m_size' = m_size - 1
    <2>1. m_size + Word - 1 \in 0 .. 2 * Word - 1 /\ ~(m_size + Word - 1 < Word) /\ (m_size + Word - 1) - Word = m_size - 1
      BY <1>1
    <2>2. (m_size + Word - 1) % Word = (m_size + Word - 1) - Word
      BY <1>1, <2>1, ModWrap
    <2> QED BY <2>1, <2>2 DEF PopEnd
  <1>3. CASE op[t] \in {"popFront", "tryPopFront"}
    <2>1. /\ m_buffer' = [m_buffer EXCEPT ![m_front_idx] = Blank]
          /\ m_front_idx' = IF m_front_idx = Capacity - 1 THEN 0 ELSE m_front_idx + 1
          /\ m_back_idx' = m_back_idx
      BY <1>1, <1>3, Neighbours DEF PopEnd
    <2>2. \A i \in Slots : m_buffer'[i] = IF i = m_front_idx THEN Blank ELSE m_buffer[i]
      BY <2>1 DEF IInv, TypeOK
    <2>3. \A i \in Slots : m_buffer'[i] # Blank <=> InRun(i, m_front_idx', m_size')
      BY <1>1, <1>2, <2>1, <2>2 DEF RunInv
    <2> QED BY <1>1, <1>2, <2>1, <2>3 DEF RunInv
  <1>4. CASE op[t] \notin {"popFront", "tryPopFront"}
    <2> DEFINE slot == IF m_back_idx = 0 THEN Capacity - 1 ELSE m_back_idx - 1
    <2>1. /\ m_buffer' = [m_buffer EXCEPT ![slot] = Blank]
          /\ m_front_idx' = m_front_idx
          /\ m_back_idx' = slot
      BY <1>1, <1>4, Neighbours DEF PopEnd
    <2>2. \A i \in Slots : m_buffer'[i] = IF i = slot THEN Blank ELSE m_buffer[i]
      BY <1>1, <2>1 DEF IInv, TypeOK
    <2>3. \A i \in Slots : m_buffer'[i] # Blank <=> InRun(i, m_front_idx', m_size')
      BY <1>1, <1>2, <2>1, <2>2 DEF RunInv
    <2> QED BY <1>1, <1>2, <2>1, <2>3 DEF RunInv
  <1> QED BY <1>2, <1>3, <1>4

\* A pop leaves no other thread in the middle of a tryPop.
LEMMA PopAlone ==
  ASSUME IInv, SafeUsage(usage), NEW t \in Thread, op[t] \in usage[t] \cap (Pops \cup TryPops),
         pc' = [pc EXCEPT ![t] = "idle"]
  PROVE  TakeInv'
  <1>1. ASSUME NEW r \in Thread, pc'[r] = "take" PROVE FALSE
    <2>1. r # t /\ pc[r] = "take"
      BY <1>1 DEF IInv, TypeOK
    <2>2. op[r] \in usage[r] \cap TryPops
      BY <2>1 DEF IInv, CallInv
    <2> QED BY <2>1, <2>2 DEF SafeUsage
  <1> QED BY <1>1 DEF TakeInv

\* Entering a call touches neither the ring nor a try pop in progress.
LEMMA EnterSafe ==
  ASSUME IInv, SafeInv, NEW t \in Thread, NEW o \in usage[t], NEW v, Enter(t, o, v)
  PROVE  SafeInv'
  <1>1. o \in RingOps
    BY RingAssumption DEF IInv, TypeOK
  <1>2. FirstLabel(o) # "take"
    BY <1>1 DEF FirstLabel, RingOps, Pops, TryPops, Reads
  <1>3. UNCHANGED ring /\ \A r \in Thread : pc'[r] = "take" => pc[r] = "take"
    BY <1>2 DEF Enter, Goto, IInv, TypeOK
  <1> QED BY <1>3 DEF SafeInv, RunInv, InRun, TakeInv, ring

LEMMA StepSafe == IInv /\ SafeInv /\ [Next]_ringVars => SafeInv'
  <1> SUFFICES ASSUME IInv, SafeInv, [Next]_ringVars PROVE SafeInv'
    OBVIOUS
  <1> USE DEF SafeInv
  <1>1. ASSUME UNCHANGED ring, \A r \in Thread : pc'[r] = "take" => pc[r] = "take" \/ m_size # 0
        PROVE  SafeInv'
    BY <1>1 DEF RunInv, InRun, TakeInv, ring
  <1>2. ASSUME NEW t \in Thread, RingCall(t) PROVE SafeInv'
    BY <1>2, EnterSafe DEF RingCall
  <1>3. ASSUME NEW t \in Thread, Put(t) PROVE SafeInv'
    <2>1. RunInv'
      BY <1>3, PutRun
    <2>2. usage' = usage /\ pc' = [pc EXCEPT ![t] = "notify"] /\ m_size' \in {m_size, m_size + 1} /\ m_size \in Nat
      BY <1>3, RingAssumption DEF Put, Goto, IInv, TypeOK
    <2>3. TakeInv'
      BY <2>2 DEF TakeInv, IInv, TypeOK
    <2> QED BY <2>1, <2>2, <2>3 DEF SafeUsage
  <1>4. ASSUME NEW t \in Thread, Notify(t) PROVE SafeInv'
    BY <1>1, <1>4 DEF Notify, Goto, Sleepers, IInv, TypeOK
  <1>5. ASSUME NEW t \in Thread, Test(t) PROVE SafeInv'
    <2>1. CASE m_size # 0 /\ PopEnd(t)
      <3>1. /\ pc' = [pc EXCEPT ![t] = "idle"] /\ usage' = usage
            /\ op[t] \in usage[t] \cap (Pops \cup TryPops)
        BY <1>5, <2>1 DEF Test, PopEnd, Return, Goto, IInv, CallInv
      <3> QED BY <2>1, <3>1, PopRun, PopAlone DEF SafeUsage
    <2>2. CASE Goto(t, "asleep") /\ UNCHANGED <<ring, op, got, ok>>
      BY <1>1, <2>2 DEF Goto, IInv, TypeOK
    <2> QED BY <1>5, <2>1, <2>2 DEF Test
  <1>6. ASSUME NEW t \in Thread, SpuriousWakeup(t) PROVE SafeInv'
    BY <1>1, <1>6 DEF SpuriousWakeup, Goto, IInv, TypeOK
  <1>7. ASSUME NEW t \in Thread, Empty(t) PROVE SafeInv'
    BY <1>1, <1>7 DEF Empty, Return, Goto, IInv, TypeOK
  <1>8. ASSUME NEW t \in Thread, Take(t) PROVE SafeInv'
    <2>1. /\ pc' = [pc EXCEPT ![t] = "idle"] /\ usage' = usage /\ PopEnd(t) /\ m_size # 0
          /\ op[t] \in usage[t] \cap (Pops \cup TryPops)
      BY <1>8 DEF Take, PopEnd, Return, Goto, IInv, CallInv, TakeInv
    <2> QED BY <2>1, PopRun, PopAlone DEF SafeUsage
  <1>9. ASSUME NEW t \in Thread, Bound(t) PROVE SafeInv'
    BY <1>1, <1>9 DEF Bound, Return, Goto, IInv, TypeOK
  <1>10. ASSUME NEW t \in Thread, Index(t) PROVE SafeInv'
    BY <1>1, <1>10 DEF Index, Goto, IInv, TypeOK
  <1>11. ASSUME NEW t \in Thread, Read(t) PROVE SafeInv'
    BY <1>1, <1>11 DEF Read, Return, Goto, IInv, TypeOK
  <1>12. CASE UNCHANGED ringVars
    BY <1>1, <1>12 DEF ringVars, ring
  <1> QED BY <1>2, <1>3, <1>4, <1>5, <1>6, <1>7, <1>8, <1>9, <1>10, <1>11, <1>12 DEF Next, RingStep

\* A program in which every thread that tries to pop is the only popper never
\* lets the counter, the two indices and the slots part, for any capacity.
THEOREM RingCorrect == SafeProgram /\ Spec => []RingConsistent
  <1>1. SafeProgram /\ Init => IInv /\ SafeInv
    BY InitTypes, InitSafe
  <1>2. IInv /\ SafeInv /\ [Next]_ringVars => IInv' /\ SafeInv'
    BY StepTypes, StepSafe
  <1>3. IInv /\ SafeInv => RingConsistent
    BY RunIsConsistent DEF SafeInv
  <1> QED BY <1>1, <1>2, <1>3, PTL DEF Spec

-------------------------------------------------------------------------------
(* No lost wakeup on m_cv, for safe programs. *)

\* The threads that account for an element: a put that has still to notify, a
\* popper about to test.
Accounting == {t \in Thread : pc[t] \in {"notify", "test"}}

\* How the number of them changes when one thread moves.
LEMMA AccountingStep ==
  ASSUME NEW S \in SUBSET Thread, NEW t \in Thread
  PROVE  /\ Cardinality(S) \in Nat
         /\ t \notin S => Cardinality(S \cup {t}) = Cardinality(S) + 1
         /\ t \in S => Cardinality(S \ {t}) = Cardinality(S) - 1
  <1>1. IsFiniteSet(S)
    BY RingAssumption, FS_Subset
  <1> QED BY <1>1, FS_CardinalityType, FS_AddElement, FS_RemoveElement

LEMMA StepAccounted ==
  IInv /\ SafeInv /\ ElementsAnnounced /\ [Next]_ringVars => ElementsAnnounced'
  <1> SUFFICES ASSUME IInv, SafeInv, ElementsAnnounced, [Next]_ringVars PROVE ElementsAnnounced'
    OBVIOUS
  <1> USE DEF Goto, Return, ring
  <1>1. pc \in [Thread -> RingLabels] /\ m_size \in Nat /\ Accounting \in SUBSET Thread
    BY RingAssumption DEF IInv, TypeOK, Accounting
  <1>2. Sleepers # {} => m_size <= Cardinality(Accounting)
    BY DEF ElementsAnnounced, Accounting
  <1>3. ASSUME m_size' = m_size, Sleepers' \subseteq Sleepers, NEW t \in Thread,
               Accounting' \in {Accounting, Accounting \cup {t}}
        PROVE  ElementsAnnounced'
    <2>1. Cardinality(Accounting') \in {Cardinality(Accounting), Cardinality(Accounting) + 1}
          /\ Cardinality(Accounting) \in Nat
      BY <1>1, <1>3, AccountingStep
    <2>2. Sleepers' # {} => m_size' <= Cardinality(Accounting')
      BY <1>1, <1>2, <1>3, <2>1
    <2> QED BY <2>2 DEF ElementsAnnounced, Accounting
  <1>4. ASSUME NEW t \in Thread, RingCall(t) PROVE ElementsAnnounced'
    <2>1. PICK o \in usage[t], v \in Value : Enter(t, o, v)
      BY <1>4 DEF RingCall
    <2>2. o \in RingOps
      BY RingAssumption DEF IInv, TypeOK
    <2>3. FirstLabel(o) # "asleep" /\ FirstLabel(o) # "notify"
      BY <2>2 DEF FirstLabel, RingOps, Pops, TryPops, Reads
    <2>4. pc[t] = "idle" /\ pc' = [pc EXCEPT ![t] = FirstLabel(o)] /\ m_size' = m_size
      BY <2>1 DEF Enter
    <2>5. Sleepers' \subseteq Sleepers /\ Accounting' \in {Accounting, Accounting \cup {t}}
      BY <1>1, <2>3, <2>4 DEF Sleepers, Accounting
    <2> QED BY <1>3, <2>4, <2>5
  <1>5. ASSUME NEW t \in Thread, Put(t) PROVE ElementsAnnounced'
    <2>1. pc[t] = "put" /\ pc' = [pc EXCEPT ![t] = "notify"] /\ m_size' \in {m_size, m_size + 1}
      BY <1>1, <1>5 DEF Put
    <2>2. t \notin Accounting /\ Accounting' = Accounting \cup {t} /\ Sleepers' = Sleepers
      BY <1>1, <2>1 DEF Sleepers, Accounting
    <2>3. Cardinality(Accounting') = Cardinality(Accounting) + 1 /\ Cardinality(Accounting) \in Nat
      BY <1>1, <2>2, AccountingStep
    <2>4. Sleepers' # {} => m_size' <= Cardinality(Accounting')
      BY <1>1, <1>2, <2>1, <2>2, <2>3
    <2> QED BY <2>4 DEF ElementsAnnounced, Accounting
  <1>6. ASSUME NEW t \in Thread, Notify(t) PROVE ElementsAnnounced'
    <2>1. pc[t] = "notify" /\ m_size' = m_size
      BY <1>6 DEF Notify
    <2>2. CASE Sleepers = {}
      <3>1. pc' = [pc EXCEPT ![t] = "idle"]
        BY <1>6, <2>2 DEF Notify
      <3>2. Sleepers' = {}
        BY <1>1, <2>2, <3>1 DEF Sleepers
      <3> QED BY <3>2 DEF ElementsAnnounced
    <2>3. CASE Sleepers # {}
      <3>1. PICK s \in Sleepers : pc' = [pc EXCEPT ![t] = "idle", ![s] = "test"]
        BY <1>6, <2>3 DEF Notify
      <3>2. s \in Thread /\ s # t /\ pc[s] = "asleep"
        BY <2>1, <3>1 DEF Sleepers
      <3>3. t \in Accounting /\ s \notin Accounting \ {t}
            /\ Accounting' = (Accounting \ {t}) \cup {s}
        BY <1>1, <2>1, <3>1, <3>2 DEF Accounting
      <3>4. Cardinality(Accounting \ {t}) = Cardinality(Accounting) - 1
        BY <1>1, <3>3, AccountingStep
      <3>5. Cardinality(Accounting') = Cardinality(Accounting \ {t}) + 1
        BY <1>1, <3>2, <3>3, AccountingStep
      <3>6. Cardinality(Accounting) \in Nat
        BY <1>1, <3>2, AccountingStep
      <3>7. m_size' <= Cardinality(Accounting')
        BY <1>1, <1>2, <2>1, <2>3, <3>4, <3>5, <3>6
      <3> QED BY <3>7 DEF ElementsAnnounced, Accounting
    <2> QED BY <2>2, <2>3
  <1>7. ASSUME NEW t \in Thread, Test(t) PROVE ElementsAnnounced'
    <2>1. CASE m_size # 0 /\ PopEnd(t)
      <3>1. m_size' = m_size - 1
        BY <2>1, PopRun DEF SafeInv
      <3>2. pc[t] = "test" /\ pc' = [pc EXCEPT ![t] = "idle"]
        BY <1>7, <2>1 DEF Test, PopEnd
      <3>3. t \in Accounting /\ Accounting' = Accounting \ {t} /\ Sleepers' = Sleepers
        BY <1>1, <3>2 DEF Sleepers, Accounting
      <3>4. Cardinality(Accounting') = Cardinality(Accounting) - 1 /\ Cardinality(Accounting) \in Nat
        BY <1>1, <3>3, AccountingStep
      <3>5. Sleepers' # {} => m_size' <= Cardinality(Accounting')
        BY <1>1, <1>2, <3>1, <3>3, <3>4
      <3> QED BY <3>5 DEF ElementsAnnounced, Accounting
    <2>2. CASE m_size = 0 /\ UNCHANGED ring
      <3>1. Accounting' \in SUBSET Thread
        BY DEF Accounting
      <3>2. Cardinality(Accounting') \in Nat
        BY <1>7, <3>1, AccountingStep
      <3>3. m_size' <= Cardinality(Accounting')
        BY <2>2, <3>2
      <3> QED BY <3>3 DEF ElementsAnnounced, Accounting
    <2> QED BY <1>7, <2>1, <2>2 DEF Test
  <1>8. ASSUME NEW t \in Thread, SpuriousWakeup(t) PROVE ElementsAnnounced'
    <2>1. Sleepers' \subseteq Sleepers /\ Accounting' = Accounting \cup {t} /\ m_size' = m_size
      BY <1>1, <1>8 DEF SpuriousWakeup, Sleepers, Accounting
    <2> QED BY <1>3, <2>1
  <1>9. ASSUME NEW t \in Thread, Take(t) PROVE ElementsAnnounced'
    <2>1. m_size # 0 /\ PopEnd(t) /\ pc[t] = "take" /\ pc' = [pc EXCEPT ![t] = "idle"]
      BY <1>9 DEF Take, PopEnd, SafeInv, TakeInv
    <2>2. m_size' = m_size - 1
      BY <2>1, PopRun DEF SafeInv
    <2>3. Accounting' = Accounting /\ Sleepers' = Sleepers
      BY <1>1, <2>1 DEF Sleepers, Accounting
    <2>4. Cardinality(Accounting) \in Nat
      BY <1>1, <1>9, AccountingStep
    <2>5. Sleepers' # {} => m_size' <= Cardinality(Accounting')
      BY <1>1, <1>2, <2>2, <2>3, <2>4
    <2> QED BY <2>5 DEF ElementsAnnounced, Accounting
  <1>10. ASSUME NEW t \in Thread, Empty(t) \/ Bound(t) \/ Index(t) \/ Read(t)
         PROVE  ElementsAnnounced'
    <2>1. Sleepers' \subseteq Sleepers /\ Accounting' = Accounting /\ m_size' = m_size
      BY <1>1, <1>10 DEF Empty, Bound, Index, Read, Sleepers, Accounting
    <2> QED BY <1>3, <1>10, <2>1
  <1>11. CASE UNCHANGED ringVars
    BY <1>11 DEF ringVars, ElementsAnnounced, Sleepers
  <1> QED BY <1>4, <1>5, <1>6, <1>7, <1>8, <1>9, <1>10, <1>11 DEF Next, RingStep

\* In a safe program no wakeup of a popper is lost: while one sleeps, each
\* element of the ring has a put that will notify or a popper about to test.
THEOREM RingWakeupCorrect == SafeProgram /\ Spec => []ElementsAnnounced
  <1>1. SafeProgram /\ Init => IInv /\ SafeInv /\ ElementsAnnounced
    <2>1. Init => ElementsAnnounced
      BY DEF Init, ElementsAnnounced, Sleepers
    <2> QED BY <2>1, InitTypes, InitSafe
  <1>2. IInv /\ SafeInv /\ ElementsAnnounced /\ [Next]_ringVars
          => IInv' /\ SafeInv' /\ ElementsAnnounced'
    BY StepTypes, StepSafe, StepAccounted
  <1> QED BY <1>1, <1>2, PTL DEF Spec

-------------------------------------------------------------------------------
(* The ring implements OverwritingDeque, for safe programs. *)

\* The elements of the ring, oldest first, and the slot of the i-th of them.
Items == [i \in 1 .. m_size |-> m_buffer[(m_front_idx + i - 1) % Capacity]]
Wrapped(x) == IF x < Capacity THEN x ELSE x - Capacity
ItemsInv ==
  /\ Items \in Seq(Value)
  /\ Len(Items) = m_size
  /\ \A i \in 1 .. m_size : Items[i] = m_buffer[Wrapped(m_front_idx + i - 1)]

LEMMA ItemsOf == IInv /\ RunInv => ItemsInv
  <1> SUFFICES ASSUME IInv, RunInv PROVE ItemsInv
    OBVIOUS
  <1>1. /\ Capacity \in Nat \ {0} /\ m_front_idx \in Slots /\ m_size \in 0 .. Capacity
        /\ m_buffer \in [Slots -> Value \cup {Blank}]
    BY RingAssumption DEF IInv, TypeOK, RunInv
  <1>2. ASSUME NEW i \in 1 .. m_size
        PROVE  /\ Items[i] = m_buffer[Wrapped(m_front_idx + i - 1)]
               /\ Items[i] \in Value
    <2>1. m_front_idx + i - 1 \in 0 .. 2 * Capacity - 1
      BY <1>1 DEF Slots
    <2>2. (m_front_idx + i - 1) % Capacity = Wrapped(m_front_idx + i - 1)
      BY <2>1, WrapSlots DEF Wrapped
    <2>3. Items[i] = m_buffer[Wrapped(m_front_idx + i - 1)]
      BY <2>2 DEF Items
    <2>4. Wrapped(m_front_idx + i - 1) \in Slots
      BY <1>1, <2>1 DEF Wrapped, Slots
    <2>5. InRun(Wrapped(m_front_idx + i - 1), m_front_idx, m_size)
      BY <1>1 DEF Wrapped, InRun, Slots
    <2>6. m_buffer[Wrapped(m_front_idx + i - 1)] # Blank
      BY <2>4, <2>5 DEF RunInv
    <2> QED BY <1>1, <2>3, <2>4, <2>6
  <1>3. Items \in [1 .. m_size -> Value] /\ m_size \in Nat
    BY <1>1, <1>2 DEF Items
  <1>4. Items \in Seq(Value) /\ Len(Items) = m_size
    BY <1>3
  <1> QED BY <1>2, <1>4 DEF ItemsInv

\* A sequence of values of a given length and elements is the items of the next state.
LEMMA ItemsAfter ==
  ASSUME ItemsInv', NEW s \in Seq(Value), m_size' = Len(s),
         \A i \in 1 .. Len(s) : m_buffer'[Wrapped(m_front_idx' + i - 1)] = s[i]
  PROVE  Items' = s
  <1>1. /\ Items' \in Seq(Value) /\ Len(Items') = Len(s)
        /\ \A i \in 1 .. Len(s) : Items'[i] = s[i]
    BY DEF ItemsInv
  <1> QED BY <1>1, SeqEqual

LEMMA PutItems ==
  ASSUME IInv, RunInv, ItemsInv, ItemsInv', NEW t \in Thread, Put(t), NEW v \in Value, v = arg[t]
  PROVE  Deque!Put(t, v)
  <1>1. /\ Capacity \in Nat \ {0} /\ m_front_idx \in Slots /\ m_back_idx \in Slots
        /\ m_size \in 0 .. Capacity
    BY RingAssumption DEF IInv, TypeOK, RunInv
  <1>2. /\ Items \in Seq(Value) /\ Len(Items) = m_size
        /\ \A i \in 1 .. m_size : Items[i] = m_buffer[Wrapped(m_front_idx + i - 1)]
    BY DEF ItemsInv
  <1>3. \A i \in Slots : m_buffer'[i] = IF i = m_back_idx THEN v ELSE m_buffer[i]
    BY DEF Put, IInv, TypeOK
  <1>4. CASE m_size = Capacity
    <2>1. /\ m_size' = m_size /\ m_back_idx = m_front_idx
          /\ m_front_idx' = IF m_front_idx = Capacity - 1 THEN 0 ELSE m_front_idx + 1
      BY <1>1, <1>4, Neighbours DEF Put, RunInv, Slots
    <2>2. Items # <<>>
      BY <1>1, <1>2, <1>4
    <2>3. /\ Tail(Items) \in Seq(Value) /\ Len(Tail(Items)) = m_size - 1
          /\ \A i \in 1 .. m_size - 1 : Tail(Items)[i] = Items[i + 1]
      BY <1>2, <2>2, HeadTailProperties
    <2> DEFINE s == Append(Tail(Items), v)
    <2>4. /\ s \in Seq(Value) /\ Len(s) = m_size
          /\ \A i \in 1 .. m_size - 1 : s[i] = Items[i + 1]
          /\ s[m_size] = v
      BY <1>1, <2>3, AppendProperties
    <2> HIDE DEF s
    <2>5. ASSUME NEW i \in 1 .. m_size PROVE m_buffer'[Wrapped(m_front_idx' + i - 1)] = s[i]
      <3>1. CASE i = m_size
        <4>1. Wrapped(m_front_idx' + i - 1) = m_back_idx
          BY <1>1, <1>4, <2>1, <3>1 DEF Wrapped, Slots
        <4> QED BY <1>1, <1>3, <2>4, <3>1, <4>1
      <3>2. CASE i # m_size
        <4>1. /\ Wrapped(m_front_idx' + i - 1) = Wrapped(m_front_idx + (i + 1) - 1)
              /\ Wrapped(m_front_idx' + i - 1) \in Slots
              /\ Wrapped(m_front_idx' + i - 1) # m_back_idx
          BY <1>1, <1>4, <2>1, <3>2 DEF Wrapped, Slots
        <4>2. m_buffer'[Wrapped(m_front_idx' + i - 1)] = m_buffer[Wrapped(m_front_idx + (i + 1) - 1)]
          BY <1>3, <4>1
        <4>3. i + 1 \in 1 .. m_size /\ i \in 1 .. m_size - 1
          BY <1>1, <3>2
        <4> QED BY <1>2, <2>4, <4>2, <4>3
      <3> QED BY <3>1, <3>2
    <2>6. Items' = s
      BY <2>1, <2>4, <2>5, ItemsAfter
    <2> QED BY <1>1, <1>2, <1>4, <2>6 DEF s, Put, Deque!Put, Items
  <1>5. CASE m_size # Capacity
    <2>1. m_size' = m_size + 1 /\ m_front_idx' = m_front_idx
      BY <1>1, <1>5 DEF Put
    <2> DEFINE s == Append(Items, v)
    <2>2. /\ s \in Seq(Value) /\ Len(s) = m_size + 1
          /\ \A i \in 1 .. m_size : s[i] = Items[i]
          /\ s[m_size + 1] = v
      BY <1>1, <1>2, AppendProperties
    <2> HIDE DEF s
    <2>3. ASSUME NEW i \in 1 .. m_size + 1
          PROVE  m_buffer'[Wrapped(m_front_idx' + i - 1)] = s[i]
      <3>1. CASE i = m_size + 1
        <4>1. Wrapped(m_front_idx' + i - 1) = m_back_idx
          BY <1>1, <1>5, <2>1, <3>1 DEF Wrapped, Slots, RunInv
        <4> QED BY <1>1, <1>3, <2>2, <3>1, <4>1
      <3>2. CASE i # m_size + 1
        <4>1. /\ Wrapped(m_front_idx + i - 1) \in Slots
              /\ Wrapped(m_front_idx + i - 1) # m_back_idx
          BY <1>1, <1>5, <2>1, <3>2 DEF Wrapped, Slots, RunInv
        <4>2. m_buffer'[Wrapped(m_front_idx' + i - 1)] = m_buffer[Wrapped(m_front_idx + i - 1)]
          BY <1>3, <2>1, <4>1
        <4>3. i \in 1 .. m_size
          BY <1>1, <3>2
        <4> QED BY <1>2, <2>2, <4>2, <4>3
      <3> QED BY <3>1, <3>2
    <2>4. Items' = s
      BY <1>1, <2>1, <2>2, <2>3, ItemsAfter
    <2> QED BY <1>1, <1>2, <1>5, <2>4 DEF s, Put, Deque!Put, Items
  <1> QED BY <1>4, <1>5

LEMMA PopItems ==
  ASSUME IInv, RunInv, ItemsInv, ItemsInv', m_size # 0, NEW t \in Thread, PopEnd(t)
  PROVE  IF op[t] \in {"popFront", "tryPopFront"} THEN Deque!PopFront(t) ELSE Deque!PopBack(t)
  <1>1. /\ Capacity \in Nat \ {0} /\ m_front_idx \in Slots /\ m_back_idx \in Slots
        /\ m_size \in 1 .. Capacity
    BY RingAssumption DEF IInv, TypeOK, RunInv
  <1>2. /\ Items \in Seq(Value) /\ Len(Items) = m_size
        /\ \A i \in 1 .. m_size : Items[i] = m_buffer[Wrapped(m_front_idx + i - 1)]
    BY DEF ItemsInv
  <1>3. m_size' = m_size - 1 /\ Items # <<>> /\ ok' = [ok EXCEPT ![t] = TRUE]
    <2>1. m_size' = m_size - 1
      BY PopRun
    <2>2. Items # <<>>
      BY <1>1, <1>2, EmptySeq
    <2> QED BY <2>1, <2>2 DEF PopEnd
  <1>4. CASE op[t] \in {"popFront", "tryPopFront"}
    <2>1. /\ m_buffer' = [m_buffer EXCEPT ![m_front_idx] = Blank]
          /\ m_front_idx' = IF m_front_idx = Capacity - 1 THEN 0 ELSE m_front_idx + 1
          /\ got' = [got EXCEPT ![t] = m_buffer[m_front_idx]]
      BY <1>1, <1>4, Neighbours DEF PopEnd
    <2>2. Head(Items) = m_buffer[m_front_idx]
      <3>1. Wrapped(m_front_idx + 1 - 1) = m_front_idx /\ 1 \in 1 .. m_size
        BY <1>1 DEF Wrapped, Slots
      <3>2. Items[1] = m_buffer[m_front_idx]
        BY <1>2, <3>1
      <3> QED BY <1>2, <1>3, <3>2
    <2>3. /\ Tail(Items) \in Seq(Value) /\ Len(Tail(Items)) = m_size - 1
          /\ \A i \in 1 .. m_size - 1 : Tail(Items)[i] = Items[i + 1]
      BY <1>2, <1>3, HeadTailProperties
    <2>4. ASSUME NEW i \in 1 .. m_size - 1
          PROVE  m_buffer'[Wrapped(m_front_idx' + i - 1)] = Tail(Items)[i]
      <3>1. /\ Wrapped(m_front_idx' + i - 1) = Wrapped(m_front_idx + (i + 1) - 1)
            /\ Wrapped(m_front_idx' + i - 1) \in Slots
            /\ Wrapped(m_front_idx' + i - 1) # m_front_idx
            /\ i + 1 \in 1 .. m_size
        BY <1>1, <2>1 DEF Wrapped, Slots
      <3>2. m_buffer'[Wrapped(m_front_idx' + i - 1)] = m_buffer[Wrapped(m_front_idx + (i + 1) - 1)]
        BY <2>1, <3>1 DEF IInv, TypeOK
      <3> QED BY <1>2, <2>3, <3>1, <3>2
    <2>5. Items' = Tail(Items)
      BY <1>3, <2>3, <2>4, ItemsAfter
    <2>6. Deque!PopFront(t)
      BY <1>3, <2>1, <2>2, <2>5 DEF Deque!PopFront, Items
    <2> QED BY <1>4, <2>6
  <1>5. CASE op[t] \notin {"popFront", "tryPopFront"}
    <2> DEFINE slot == IF m_back_idx = 0 THEN Capacity - 1 ELSE m_back_idx - 1
               s == SubSeq(Items, 1, m_size - 1)
    <2>1. /\ m_buffer' = [m_buffer EXCEPT ![slot] = Blank] /\ slot \in Slots
          /\ m_front_idx' = m_front_idx
          /\ got' = [got EXCEPT ![t] = m_buffer[slot]]
      BY <1>1, <1>5, Neighbours DEF PopEnd, Slots
    <2>2. Items[m_size] = m_buffer[slot]
      <3>1. Wrapped(m_front_idx + m_size - 1) = slot /\ m_size \in 1 .. m_size
        BY <1>1 DEF Wrapped, Slots, RunInv
      <3> QED BY <1>2, <3>1
    <2>3. /\ s \in Seq(Value) /\ Len(s) = m_size - 1
          /\ \A i \in 1 .. m_size - 1 : s[i] = Items[i]
      BY <1>1, <1>2
    <2> HIDE DEF s
    <2>4. ASSUME NEW i \in 1 .. m_size - 1
          PROVE  m_buffer'[Wrapped(m_front_idx' + i - 1)] = s[i]
      <3>1. /\ Wrapped(m_front_idx + i - 1) \in Slots
            /\ Wrapped(m_front_idx + i - 1) # slot
            /\ i \in 1 .. m_size
        BY <1>1 DEF Wrapped, Slots, RunInv
      <3>2. m_buffer'[Wrapped(m_front_idx' + i - 1)] = m_buffer[Wrapped(m_front_idx + i - 1)]
        BY <2>1, <3>1 DEF IInv, TypeOK
      <3> QED BY <1>2, <2>3, <3>1, <3>2
    <2>5. Items' = s
      BY <1>3, <2>3, <2>4, ItemsAfter
    <2>6. Deque!PopBack(t)
      BY <1>2, <1>3, <2>1, <2>2, <2>5 DEF s, Deque!PopBack, Items
    <2> QED BY <1>5, <2>6
  <1> QED BY <1>4, <1>5

LEMMA InitDeque == IInv /\ RunInv /\ Init => Deque!Init
  <1> SUFFICES ASSUME IInv, RunInv, Init PROVE Deque!Init
    OBVIOUS
  <1>1. Items \in Seq(Value) /\ Len(Items) <= Capacity
    BY ItemsOf DEF ItemsInv, RunInv
  <1> QED BY <1>1 DEF Init, Deque!Init, Items

LEMMA StepDeque == IInv /\ SafeInv /\ [Next]_ringVars => [Deque!Next]_(Deque!dequeVars)
  <1> SUFFICES ASSUME IInv, SafeInv, [Next]_ringVars PROVE [Deque!Next]_(Deque!dequeVars)
    OBVIOUS
  <1>1. IInv' /\ RunInv /\ RunInv' /\ TakeInv
    BY StepTypes, StepSafe DEF SafeInv
  <1>2. ItemsInv /\ ItemsInv'
    BY <1>1, ItemsOf, PTL
  <1>3. ASSUME UNCHANGED <<ring, got, ok>> PROVE [Deque!Next]_(Deque!dequeVars)
    BY <1>3 DEF ring, Deque!dequeVars
  <1>4. ASSUME NEW t \in Thread, RingCall(t) \/ SpuriousWakeup(t) \/ Notify(t)
                                   \/ Bound(t) \/ Index(t) \/ Read(t)
        PROVE  [Deque!Next]_(Deque!dequeVars)
    BY <1>3, <1>4 DEF RingCall, Enter, SpuriousWakeup, Notify, Bound, Index, Read
  <1>5. ASSUME NEW t \in Thread, Put(t) PROVE [Deque!Next]_(Deque!dequeVars)
    <2>1. PICK v \in Value : v = arg[t]
      BY <1>1, <1>5 DEF Put, IInv, CallInv
    <2>2. Deque!Put(t, v)
      BY <1>1, <1>2, <1>5, <2>1, PutItems
    <2> QED BY <2>2 DEF Deque!Next
  <1>6. ASSUME NEW t \in Thread, Test(t) \/ Take(t) PROVE [Deque!Next]_(Deque!dequeVars)
    <2>1. CASE m_size # 0 /\ PopEnd(t)
      <3>1. Deque!PopFront(t) \/ Deque!PopBack(t)
        BY <1>1, <1>2, <2>1, PopItems
      <3> QED BY <3>1 DEF Deque!Next
    <2>2. CASE UNCHANGED <<ring, op, got, ok>>
      BY <1>3, <2>2
    <2> QED BY <1>1, <1>6, <2>1, <2>2 DEF Test, Take, TakeInv
  <1>7. ASSUME NEW t \in Thread, Empty(t) PROVE [Deque!Next]_(Deque!dequeVars)
    <2>1. CASE UNCHANGED ok
      BY <1>3, <1>7, <2>1 DEF Empty
    <2>2. CASE m_size = 0 /\ ok' = [ok EXCEPT ![t] = FALSE]
      <3>1. Items = <<>> /\ Items' = Items /\ got' = got
        BY <1>2, <1>7, <2>2 DEF Empty, ring, ItemsInv, Items
      <3>2. Deque!Refuse(t)
        BY <2>2, <3>1 DEF Deque!Refuse, Items
      <3> QED BY <3>2 DEF Deque!Next
    <2> QED BY <1>7, <2>1, <2>2 DEF Empty
  <1>8. CASE UNCHANGED ringVars
    BY <1>3, <1>8 DEF ringVars, ring
  <1> QED BY <1>4, <1>5, <1>6, <1>7, <1>8 DEF Next, RingStep

\* In a safe program the ring is linearizable to a deque that drops its oldest
\* element when it is full, for any threads, elements and capacity.
THEOREM DequeImplemented == SafeProgram /\ Spec => ImplementsDeque
  <1>1. SafeProgram /\ Init => IInv /\ SafeInv /\ Deque!Init
    BY InitTypes, InitSafe, InitDeque DEF SafeInv
  <1>2. IInv /\ SafeInv /\ [Next]_ringVars
          => IInv' /\ SafeInv' /\ [Deque!Next]_(Deque!dequeVars)
    BY StepTypes, StepSafe, StepDeque
  <1> QED BY <1>1, <1>2, PTL DEF Spec, ImplementsDeque, Deque!Spec

-------------------------------------------------------------------------------
(* Reads in place, where the reader is the only popper. *)

SafeReads(u) ==
  \A t, r \in Thread : t # r /\ u[t] \cap Reads # {} => u[r] \cap (Pops \cup TryPops) = {}

\* Between its bound check and its read a thread's position is that of an element.
ReadInv ==
  /\ SafeReads(usage)
  /\ \A t \in Thread :
       /\ pc[t] \in {"bound", "index", "read"} => op[t] \in usage[t] \cap Reads
       /\ pc[t] = "index" => pos[t] < m_size
       /\ pc[t] = "read" => m_buffer[pos[t]] # Blank

\* A pop happens while no thread is between its bound check and its read.
LEMMA PopBetweenReads ==
  ASSUME IInv, ReadInv, NEW t \in Thread, op[t] \in usage[t] \cap (Pops \cup TryPops),
         PopEnd(t), UNCHANGED pos
  PROVE  ReadInv'
  <1>1. /\ pc' = [pc EXCEPT ![t] = "idle"] /\ op' = [op EXCEPT ![t] = "none"]
        /\ UNCHANGED usage
    BY DEF PopEnd, Return, Goto
  <1>2. ASSUME NEW r \in Thread, pc'[r] \in {"bound", "index", "read"} PROVE FALSE
    <2>1. r # t /\ pc[r] \in {"bound", "index", "read"}
      BY <1>1, <1>2 DEF IInv, TypeOK
    <2>2. op[r] \in usage[r] \cap Reads
      BY <2>1 DEF ReadInv
    <2> QED BY <2>1, <2>2 DEF ReadInv, SafeReads
  <1> QED BY <1>1, <1>2 DEF ReadInv, SafeReads

LEMMA StepReads == IInv /\ SafeInv /\ ReadInv /\ [Next]_ringVars => ReadInv'
  <1> SUFFICES ASSUME IInv, SafeInv, ReadInv, [Next]_ringVars PROVE ReadInv'
    OBVIOUS
  <1> USE DEF Goto, Return
  <1>1. /\ pc \in [Thread -> RingLabels] /\ op \in [Thread -> RingOps \cup {"none"}]
        /\ pos \in [Thread -> 0 .. Word - 1] /\ m_size \in Nat /\ Capacity \in Nat \ {0}
        /\ m_buffer \in [Slots -> Value \cup {Blank}] /\ m_front_idx \in Slots
    BY RingAssumption DEF IInv, TypeOK
  <1>2. ASSUME UNCHANGED <<ring, pos>>,
               \A r \in Thread : pc'[r] \in {"bound", "index", "read"} => pc'[r] = pc[r] /\ op'[r] = op[r]
        PROVE  ReadInv'
    BY <1>2 DEF ReadInv, SafeReads, ring
  <1>3. ASSUME NEW t \in Thread, RingCall(t) PROVE ReadInv'
    <2>1. PICK o \in usage[t], v \in Value : Enter(t, o, v)
      BY <1>3 DEF RingCall
    <2>2. o \in RingOps
      BY RingAssumption DEF IInv, TypeOK
    <2>3. FirstLabel(o) \notin {"index", "read"} /\ (FirstLabel(o) = "bound" => o \in Reads)
      BY <2>2 DEF FirstLabel, RingOps, Pops, TryPops, Reads
    <2>4. /\ pc' = [pc EXCEPT ![t] = FirstLabel(o)] /\ op' = [op EXCEPT ![t] = o]
          /\ UNCHANGED ring
          /\ \A r \in Thread \ {t} : pos'[r] = pos[r]
      BY <1>1, <2>1 DEF Enter
    <2> QED BY <1>1, <2>3, <2>4 DEF ReadInv, SafeReads, ring
  <1>4. ASSUME NEW t \in Thread, Put(t) PROVE ReadInv'
    <2>1. /\ pc' = [pc EXCEPT ![t] = "notify"] /\ m_size' \in {m_size, m_size + 1}
          /\ m_buffer' = [m_buffer EXCEPT ![m_back_idx] = arg[t]]
          /\ UNCHANGED <<usage, op, pos>> /\ arg[t] # Blank
      BY <1>4, RingAssumption DEF Put, IInv, CallInv
    <2>2. ASSUME NEW r \in Thread, pc'[r] = "read" PROVE m_buffer'[pos'[r]] # Blank
      <3>1. pc[r] = "read" /\ pos'[r] = pos[r]
        BY <1>1, <2>1, <2>2
      <3>2. pos[r] \in Slots /\ m_buffer[pos[r]] # Blank
        BY <3>1 DEF IInv, CallInv, ReadInv
      <3> QED BY <1>1, <2>1, <3>1, <3>2
    <2>3. ASSUME NEW r \in Thread, pc'[r] = "index" PROVE pos'[r] < m_size'
      <3>1. pc[r] = "index" /\ pos'[r] = pos[r] /\ pos[r] \in Int
        BY <1>1, <2>1, <2>3
      <3> QED BY <1>1, <2>1, <3>1 DEF ReadInv
    <2> QED BY <1>1, <2>1, <2>2, <2>3 DEF ReadInv, SafeReads
  <1>5. ASSUME NEW t \in Thread, Notify(t) PROVE ReadInv'
    BY <1>1, <1>2, <1>5 DEF Notify, Sleepers
  <1>6. ASSUME NEW t \in Thread, Test(t) PROVE ReadInv'
    <2>1. CASE PopEnd(t)
      <3>1. op[t] \in usage[t] \cap (Pops \cup TryPops) /\ UNCHANGED pos
        BY <1>6 DEF Test, IInv, CallInv
      <3> QED BY <2>1, <3>1, PopBetweenReads
    <2>2. CASE Goto(t, "asleep") /\ UNCHANGED <<ring, op, got, ok>>
      BY <1>1, <1>2, <1>6, <2>2 DEF Test
    <2> QED BY <1>6, <2>1, <2>2 DEF Test
  <1>7. ASSUME NEW t \in Thread, SpuriousWakeup(t) \/ Empty(t) PROVE ReadInv'
    BY <1>1, <1>2, <1>7 DEF SpuriousWakeup, Empty
  <1>8. ASSUME NEW t \in Thread, Take(t) PROVE ReadInv'
    <2>1. PopEnd(t) /\ op[t] \in usage[t] \cap (Pops \cup TryPops) /\ UNCHANGED pos
      BY <1>8 DEF Take, IInv, CallInv
    <2> QED BY <2>1, PopBetweenReads
  <1>9. ASSUME NEW t \in Thread, Bound(t) PROVE ReadInv'
    <2>1. pc[t] = "bound" /\ UNCHANGED <<usage, m_buffer, m_size, pos>>
      BY <1>9 DEF Bound, ring
    <2>2. CASE pos[t] < m_size /\ pc' = [pc EXCEPT ![t] = "index"] /\ op' = op
      BY <1>1, <2>1, <2>2 DEF ReadInv, SafeReads
    <2>3. CASE pc' = [pc EXCEPT ![t] = "idle"] /\ op' = [op EXCEPT ![t] = "none"]
      BY <1>1, <2>1, <2>3 DEF ReadInv, SafeReads
    <2> QED BY <1>9, <2>2, <2>3 DEF Bound
  <1>10. ASSUME NEW t \in Thread, Index(t) PROVE ReadInv'
    <2> DEFINE slot == (m_front_idx + pos[t]) % Capacity
    <2>1. /\ pc[t] = "index" /\ pc' = [pc EXCEPT ![t] = "read"]
          /\ pos' = [pos EXCEPT ![t] = slot] /\ UNCHANGED <<usage, m_buffer, m_size, op>>
      BY <1>10 DEF Index, ring
    <2>2. pos[t] \in 0 .. m_size - 1 /\ slot \in Slots
      BY <1>1, <2>1, SlotOf DEF ReadInv
    <2>3. slot \in Occupied
      BY <2>2 DEF Occupied
    <2>4. m_buffer[slot] # Blank
      BY <2>2, <2>3, RunIsConsistent DEF SafeInv, RingConsistent
    <2> HIDE DEF slot
    <2> QED BY <1>1, <2>1, <2>4 DEF ReadInv, SafeReads
  <1>11. ASSUME NEW t \in Thread, Read(t) PROVE ReadInv'
    <2>1. /\ pc' = [pc EXCEPT ![t] = "idle"] /\ op' = [op EXCEPT ![t] = "none"]
          /\ \A r \in Thread \ {t} : pos'[r] = pos[r]
          /\ UNCHANGED <<usage, m_buffer, m_size>>
      BY <1>1, <1>11 DEF Read, ring
    <2> QED BY <1>1, <2>1 DEF ReadInv, SafeReads
  <1>12. CASE UNCHANGED ringVars
    BY <1>2, <1>12 DEF ringVars, ring
  <1> QED BY <1>3, <1>4, <1>5, <1>6, <1>7, <1>8, <1>9, <1>10, <1>11, <1>12 DEF Next, RingStep

\* Where the thread that reads in place is the only one that pops, a read never
\* returns a slot emptied since its bound check, whatever the others put.
THEOREM ReadsCorrect ==
  SafeProgram /\ (\A u \in Usages : SafeReads(u)) /\ Spec => ReadsAnElement
  <1>1. SafeProgram /\ (\A u \in Usages : SafeReads(u)) /\ Init => IInv /\ SafeInv /\ ReadInv
    <2>1. (\A u \in Usages : SafeReads(u)) /\ Init => ReadInv
      BY DEF Init, ReadInv
    <2> QED BY <2>1, InitTypes, InitSafe
  <1>2. IInv /\ SafeInv /\ ReadInv /\ [Next]_ringVars => IInv' /\ SafeInv' /\ ReadInv'
    BY StepTypes, StepSafe, StepReads
  <1>3. IInv /\ ReadInv /\ [Next]_ringVars
          => [\A t \in Thread : pc[t] = "read" /\ pc'[t] = "idle" => seen'[t] # Blank]_ringVars
    <2> SUFFICES ASSUME IInv, ReadInv, Next, NEW t \in Thread, pc[t] = "read", pc'[t] = "idle"
                 PROVE  seen'[t] # Blank
      OBVIOUS
    <2>1. pc \in [Thread -> RingLabels] /\ seen \in [Thread -> Value \cup {Blank}]
      BY DEF IInv, TypeOK
    <2>2. PICK r \in Thread : RingCall(r) \/ RingStep(r) \/ SpuriousWakeup(r)
      BY DEF Next
    <2>3. r = t
      BY <2>1, <2>2 DEF RingCall, Enter, RingStep, Put, Notify, Sleepers, Test, PopEnd, Empty,
                        Take, Bound, Index, Read, SpuriousWakeup, Goto, Return
    <2>4. Read(t)
      BY <2>1, <2>2, <2>3 DEF RingCall, Enter, RingStep, Put, Notify, Test, Empty,
                        Take, Bound, Index, SpuriousWakeup
    <2> QED BY <2>1, <2>4 DEF Read, ReadInv
  <1> QED BY <1>1, <1>2, <1>3, PTL DEF Spec, ReadsAnElement

-------------------------------------------------------------------------------
(* The circular queue over the ring.                                          *)

PushOps == {"push", "tryPush"}
PopOps == {"pop", "tryPop"}
PushLabels == {"tryFull", "error", "block", "lock", "fullTest", "fullWait", "fullAsleep", "put", "putting"}
PopLabels == {"tryEmpty", "pop", "popping", "fullNotify"}

\* Where a thread is in its queue operation and where in the ring's.
LinkInv ==
  \A t \in Thread :
    /\ qpc[t] \in PushLabels => qop[t] \in QueueCalls[t] \cap PushOps /\ qarg[t] \in Value
    /\ qpc[t] \in PopLabels => qop[t] \in QueueCalls[t] \cap PopOps
    /\ pc[t] \in {"put", "notify"} => qpc[t] = "putting"
    /\ pc[t] \in {"test", "asleep"} => qpc[t] = "popping" /\ op[t] = "popFront"
    /\ pc[t] \in {"bound", "index", "read"} => qpc[t] = "peeking"
    /\ pc[t] \notin {"empty", "take"}

QueueTypes ==
  /\ m_policy \in Policies
  /\ m_mutex \in Thread \cup {NoThread}
  /\ qpc \in [Thread -> QueueLabels]
  /\ qop \in [Thread -> QueueOps \cup {"none"}]
  /\ qarg \in [Thread -> Value \cup {Blank}]

RingIInv == IInv /\ SafeInv
CircIInv == RingIInv /\ usage = RingCalls /\ QueueTypes /\ LinkInv

\* A queue's ring calls are those of a safe program.
LEMMA QueueIsSafe == SafeProgram
  BY CircAssumption DEF SafeProgram, SafeUsage, RingCalls, TryPops

-------------------------------------------------------------------------------
(* The ring under the queue. *)

LEMMA RingStepInv == RingIInv /\ [Next]_ringVars => RingIInv'
  BY StepTypes, StepSafe DEF RingIInv

\* A queue operation that leaves the ring alone, and one that only gives up.
LEMMA RingIdle == RingIInv /\ UNCHANGED ringVars => RingIInv'
  BY RingStepInv

LEMMA RingGivesUp ==
  ASSUME RingIInv, NEW t \in Thread, GiveUp(t)
  PROVE  RingIInv'
  <1>1. ok' \in [Thread -> BOOLEAN] /\ UNCHANGED <<ring, pc, op, arg, pos, got, seen>>
    BY DEF GiveUp, RingIInv, IInv, TypeOK
  <1>2. TypeOK'
    BY <1>1 DEF RingIInv, IInv, TypeOK, ring
  <1>3. CallInv'
    BY <1>1 DEF RingIInv, IInv, CallInv, ring
  <1>4. SafeInv'
    BY <1>1 DEF RingIInv, SafeInv, RunInv, InRun, TakeInv, ring
  <1> QED BY <1>2, <1>3, <1>4 DEF RingIInv, IInv

\* A queue operation that enters one of its ring calls.
LEMMA RingEnters ==
  ASSUME RingIInv, usage = RingCalls, NEW t \in Thread, NEW o \in {"put", "popFront", "tryFront"},
         NEW v, o = "put" => v \in Value, Enter(t, o, v)
  PROVE  RingIInv'
  <1>1. o \in usage[t]
    BY DEF RingCalls
  <1> QED BY <1>1, EnterTypes, EnterSafe DEF RingIInv

-------------------------------------------------------------------------------
(* The types of the queue and how its operations stand to the ring's. *)

LEMMA CircInitInv == CircInit => CircIInv
  <1> SUFFICES ASSUME CircInit PROVE CircIInv
    OBVIOUS
  <1>1. RingIInv
    BY InitTypes, InitSafe, QueueIsSafe DEF CircInit, RingIInv
  <1>2. usage = RingCalls
    BY CircAssumption DEF CircInit, Init
  <1>3. QueueTypes
    BY DEF CircInit, QueueTypes, QueueLabels
  <1>4. LinkInv
    BY DEF CircInit, Init, LinkInv, PushLabels, PopLabels
  <1> QED BY <1>1, <1>2, <1>3, <1>4 DEF CircIInv

\* A step inside a ring call moves the thread along that call's labels.
LEMMA InnerLink ==
  ASSUME CircIInv, NEW t \in Thread, RingStep(t) \/ SpuriousWakeup(t), UNCHANGED queueVars
  PROVE  LinkInv' /\ usage' = usage
  <1> USE DEF Goto, Return
  <1>1. pc \in [Thread -> RingLabels] /\ op \in [Thread -> RingOps \cup {"none"}]
    BY DEF CircIInv, RingIInv, IInv, TypeOK
  <1>2. UNCHANGED <<qpc, qop, qarg>>
    BY DEF queueVars
  <1>3. CASE Notify(t)
    <2>1. pc[t] = "notify" /\ op' = [op EXCEPT ![t] = "none"] /\ usage' = usage
      BY <1>3 DEF Notify, ring
    <2>2. CASE pc' = [pc EXCEPT ![t] = "idle"]
      BY <1>1, <1>2, <2>1, <2>2 DEF CircIInv, LinkInv
    <2>3. ASSUME NEW s \in Sleepers, pc' = [pc EXCEPT ![t] = "idle", ![s] = "test"]
          PROVE  LinkInv'
      <3>1. s \in Thread /\ s # t /\ pc[s] = "asleep"
        BY <2>1 DEF Sleepers
      <3> QED BY <1>1, <1>2, <2>1, <2>3, <3>1 DEF CircIInv, LinkInv
    <2> QED BY <1>3, <2>1, <2>2, <2>3 DEF Notify
  <1>4. CASE ~Notify(t)
    <2>1. /\ pc[t] \notin {"empty", "take"} /\ usage' = usage
          /\ \/ pc[t] = "put" /\ pc' = [pc EXCEPT ![t] = "notify"] /\ op' = op
             \/ pc[t] = "test" /\ pc' = [pc EXCEPT ![t] = "asleep"] /\ op' = op
             \/ pc[t] = "asleep" /\ pc' = [pc EXCEPT ![t] = "test"] /\ op' = op
             \/ pc[t] \in {"bound", "index"} /\ op' = op
                  /\ \E l \in {"index", "read"} : pc' = [pc EXCEPT ![t] = l]
             \/ pc' = [pc EXCEPT ![t] = "idle"] /\ op' = [op EXCEPT ![t] = "none"]
      BY <1>4 DEF RingStep, Put, Test, PopEnd, Empty, Take, Bound, Index, Read, SpuriousWakeup,
                  ring, CircIInv, LinkInv
    <2> QED BY <1>1, <1>2, <2>1 DEF CircIInv, LinkInv
  <1> QED BY <1>3, <1>4

LEMMA CircStepInv == CircIInv /\ [CircNext]_circVars => CircIInv'
  <1> SUFFICES ASSUME CircIInv, [CircNext]_circVars PROVE CircIInv'
    OBVIOUS
  <1> USE DEF QueueGoto
  <1>1. /\ qpc \in [Thread -> QueueLabels] /\ qop \in [Thread -> QueueOps \cup {"none"}]
        /\ qarg \in [Thread -> Value \cup {Blank}]
        /\ pc \in [Thread -> RingLabels] /\ op \in [Thread -> RingOps \cup {"none"}]
        /\ QueueCalls \in [Thread -> SUBSET QueueOps]
    BY CircAssumption DEF CircIInv, QueueTypes, RingIInv, IInv, TypeOK
  \* An operation moves on without the ring.
  <1>2. ASSUME NEW t \in Thread, NEW l \in QueueLabels, QueueGoto(t, l),
               UNCHANGED <<ringVars, m_policy, qop, qarg>>, m_mutex' \in {m_mutex, t, NoThread},
               l \in PushLabels => qpc[t] \in PushLabels,
               l \in PopLabels => qpc[t] \in PopLabels,
               qpc[t] \in {"putting", "popping", "peeking"} => pc[t] = "idle"
        PROVE  CircIInv'
    <2>1. RingIInv' /\ usage' = usage
      BY <1>2, RingIdle DEF CircIInv, ringVars
    <2>2. QueueTypes'
      BY <1>1, <1>2 DEF CircIInv, QueueTypes
    <2>3. LinkInv'
      BY <1>1, <1>2 DEF CircIInv, LinkInv, ringVars
    <2> QED BY <2>1, <2>2, <2>3 DEF CircIInv
  \* An operation ends; the ring is as it was but for its ok.
  <1>3. ASSUME NEW t \in Thread, QueueReturn(t), RingIInv',
               UNCHANGED <<usage, pc, op>>, pc[t] = "idle" \/ qpc[t] \notin {"putting", "popping", "peeking"}
        PROVE  CircIInv'
    <2>1. QueueTypes'
      BY <1>1, <1>3 DEF CircIInv, QueueTypes, QueueReturn, QueueLabels
    <2>2. LinkInv'
      BY <1>1, <1>3 DEF CircIInv, LinkInv, QueueReturn, PushLabels, PopLabels
    <2> QED BY <1>3, <2>1, <2>2 DEF CircIInv
  \* An operation enters its ring call.
  <1>4. ASSUME NEW t \in Thread, NEW o \in {"put", "popFront", "tryFront"}, NEW v, o = "put" => v \in Value,
               Enter(t, o, v), UNCHANGED <<m_policy, m_mutex, qop, qarg>>,
               \/ o = "put" /\ qpc[t] = "put" /\ QueueGoto(t, "putting")
               \/ o = "popFront" /\ qpc[t] = "pop" /\ QueueGoto(t, "popping")
               \/ o = "tryFront" /\ qpc[t] = "peek" /\ QueueGoto(t, "peeking")
        PROVE  CircIInv'
    <2>1. RingIInv' /\ usage' = usage
      BY <1>4, RingEnters DEF CircIInv, Enter, ring
    <2>2. QueueTypes'
      BY <1>1, <1>4 DEF CircIInv, QueueTypes, QueueLabels
    <2>3. /\ pc' = [pc EXCEPT ![t] = FirstLabel(o)] /\ op' = [op EXCEPT ![t] = o]
          /\ FirstLabel(o) = CASE o = "put" -> "put" [] o = "popFront" -> "test" [] o = "tryFront" -> "bound"
      BY <1>4 DEF Enter, Goto, FirstLabel, Pops, TryPops, Reads
    <2>4. LinkInv'
      BY <1>1, <1>4, <2>3 DEF CircIInv, LinkInv, PushLabels, PopLabels
    <2> QED BY <2>1, <2>2, <2>4 DEF CircIInv
  <1> USE DEF QueueMove
  <1>5. ASSUME NEW t \in Thread, QueueCall(t) PROVE CircIInv'
    <2>1. PICK o \in QueueCalls[t], v \in Value :
            /\ qpc' = [qpc EXCEPT ![t] = FirstQueueLabel(o)]
            /\ qop' = [qop EXCEPT ![t] = o]
            /\ qarg' = [qarg EXCEPT ![t] = IF o \in {"push", "tryPush"} THEN v ELSE Blank]
      BY <1>5 DEF QueueCall
    <2>2. o \in QueueOps
      BY <1>1
    <2>3. /\ FirstQueueLabel(o) \in QueueLabels
          /\ FirstQueueLabel(o) \in PushLabels => o \in PushOps
          /\ FirstQueueLabel(o) \in PopLabels => o \in PopOps
          /\ FirstQueueLabel(o) \notin {"putting", "popping", "peeking"}
      BY <2>2 DEF FirstQueueLabel, QueueOps, QueueLabels, PushLabels, PopLabels, PushOps, PopOps
    <2>4. qpc[t] = "idle" /\ UNCHANGED <<ringVars, m_policy, m_mutex>>
      BY <1>5 DEF QueueCall
    <2>5. RingIInv' /\ usage' = usage
      BY <2>4, RingIdle DEF CircIInv, ringVars
    <2>6. QueueTypes'
      BY <1>1, <2>1, <2>2, <2>3, <2>4 DEF CircIInv, QueueTypes
    <2>7. LinkInv'
      BY <1>1, <2>1, <2>3, <2>4 DEF CircIInv, LinkInv, ringVars, PushOps, PopOps
    <2> QED BY <2>5, <2>6, <2>7 DEF CircIInv
  <1>6. ASSUME NEW t \in Thread, GiveUp(t), qpc[t] \in {"tryFull", "error", "tryEmpty"} PROVE CircIInv'
    <2>1. RingIInv'
      BY <1>6, RingGivesUp DEF CircIInv
    <2> QED BY <1>3, <1>6, <2>1 DEF GiveUp, ring
  <1>7. ASSUME NEW t \in Thread, TryFull(t) \/ ErrorTest(t) \/ TryEmpty(t) PROVE CircIInv'
    <2>1. CASE GiveUp(t)
      BY <1>6, <1>7, <2>1 DEF TryFull, ErrorTest, TryEmpty
    <2>2. CASE ~GiveUp(t)
      BY <1>2, <1>7, <2>2 DEF TryFull, ErrorTest, TryEmpty, PushLabels, PopLabels, QueueLabels
    <2> QED BY <2>1, <2>2
  <1>8. ASSUME NEW t \in Thread, BlockTest(t) PROVE CircIInv'
    BY <1>2, <1>8 DEF BlockTest, PushLabels, PopLabels, QueueLabels
  <1>9. ASSUME NEW t \in Thread, FullLock(t) \/ FullTest(t) \/ FullWait(t) \/ FullWakeup(t) PROVE CircIInv'
    BY <1>2, <1>9 DEF FullLock, FullTest, FullWait, FullWakeup, PushLabels, PopLabels, QueueLabels
  <1>10. ASSUME NEW t \in Thread, StartPut(t) PROVE CircIInv'
    <2>1. qarg[t] \in Value
      BY <1>10 DEF StartPut, CircIInv, LinkInv, PushLabels
    <2> QED BY <1>4, <1>10, <2>1 DEF StartPut
  <1>11. ASSUME NEW t \in Thread, StartPop(t) \/ StartPeek(t) PROVE CircIInv'
    BY <1>4, <1>11 DEF StartPop, StartPeek
  <1>12. ASSUME NEW t \in Thread, EndPut(t) \/ EndPeek(t) PROVE CircIInv'
    <2>1. RingIInv'
      BY <1>12, RingIdle DEF EndPut, EndPeek, CircIInv
    <2> QED BY <1>3, <1>12, <2>1 DEF EndPut, EndPeek, ringVars
  <1>13. ASSUME NEW t \in Thread, EndPop(t) PROVE CircIInv'
    BY <1>2, <1>13 DEF EndPop, PushLabels, PopLabels, QueueLabels
  <1>14. ASSUME NEW t \in Thread, FullNotify(t) PROVE CircIInv'
    <2>1. qpc[t] = "fullNotify" /\ qop' = [qop EXCEPT ![t] = "none"]
          /\ UNCHANGED <<ringVars, m_policy, m_mutex, qarg>>
      BY <1>14 DEF FullNotify
    <2>2. RingIInv' /\ usage' = usage
      BY <2>1, RingIdle DEF CircIInv, ringVars
    <2>3. CASE qpc' = [qpc EXCEPT ![t] = "idle"]
      <3>1. QueueTypes'
        BY <1>1, <2>1, <2>3 DEF CircIInv, QueueTypes, QueueLabels
      <3>2. LinkInv'
        BY <1>1, <2>1, <2>3 DEF CircIInv, LinkInv, ringVars, PushLabels, PopLabels
      <3> QED BY <2>2, <3>1, <3>2 DEF CircIInv
    <2>4. ASSUME NEW s \in FullSleepers, qpc' = [qpc EXCEPT ![t] = "idle", ![s] = "lock"] PROVE CircIInv'
      <3>1. s \in Thread /\ s # t /\ qpc[s] = "fullAsleep"
        BY <2>1 DEF FullSleepers
      <3>2. QueueTypes'
        BY <1>1, <2>1, <2>4, <3>1 DEF CircIInv, QueueTypes, QueueLabels
      <3>3. LinkInv'
        BY <1>1, <2>1, <2>4, <3>1 DEF CircIInv, LinkInv, ringVars, PushLabels, PopLabels
      <3> QED BY <2>2, <3>2, <3>3 DEF CircIInv
    <2> QED BY <1>14, <2>3, <2>4 DEF FullNotify
  <1>15. ASSUME NEW t \in Thread, InnerStep(t) \/ InnerWakeup(t) PROVE CircIInv'
    <2>1. (RingStep(t) \/ SpuriousWakeup(t)) /\ UNCHANGED queueVars
      BY <1>15 DEF InnerStep, InnerWakeup
    <2>2. RingIInv'
      BY <2>1, RingStepInv DEF Next, CircIInv
    <2>3. LinkInv' /\ usage' = usage
      BY <2>1, InnerLink
    <2> QED BY <2>1, <2>2, <2>3 DEF CircIInv, QueueTypes, queueVars
  <1>16. CASE UNCHANGED circVars
    <2>1. RingIInv'
      BY <1>16, RingIdle DEF circVars, CircIInv
    <2> QED BY <1>16, <2>1 DEF circVars, ringVars, queueVars, CircIInv, QueueTypes, LinkInv
  <1> QED BY <1>5, <1>7, <1>8, <1>9, <1>10, <1>11, <1>12, <1>13, <1>14, <1>15, <1>16
          DEF CircNext, QueueStep

\* Every variable of the queue and of its ring keeps its type, whatever the
\* threads call.
THEOREM CircTypeCorrect == CircSpec => []CircTypeOK
  <1>1. CircIInv => CircTypeOK
    BY DEF CircIInv, RingIInv, IInv, QueueTypes, CircTypeOK
  <1> QED BY <1>1, CircInitInv, CircStepInv, PTL DEF CircSpec

\* However many threads push and pop, the ring under the queue stays
\* consistent: the queue pops it only by the call that tests under the mutex.
THEOREM CircRingCorrect == CircSpec => []RingConsistent
  <1>1. CircIInv => RingConsistent
    BY RunIsConsistent DEF CircIInv, RingIInv, SafeInv
  <1> QED BY <1>1, CircInitInv, CircStepInv, PTL DEF CircSpec

-------------------------------------------------------------------------------
(* Where one thread pushes, or the policy overwrites, an element is put only  *)
(* when there is room or the oldest may go.                                   *)

Loses == m_policy = "OVERWRITE_OLDEST"
PushesFromOne ==
  \A t, r \in Thread : t # r /\ QueueCalls[t] \cap PushOps # {} => QueueCalls[r] \cap PushOps = {}
PopsFromOne ==
  \A t, r \in Thread : t # r /\ QueueCalls[t] \cap PopOps # {} => QueueCalls[r] \cap PopOps = {}
KeepsRoom == PushesFromOne \/ Policies \subseteq {"OVERWRITE_OLDEST"}

\* What the pusher saw of full() still holds when it acts on it, and only a
\* blocking push waits on the queue's own condition variable.
Waiting == {"lock", "fullTest", "fullWait", "fullAsleep"}
NeedsRoom(t) ==
  \/ qpc[t] = "put"
  \/ qpc[t] = "putting" /\ pc[t] = "put"
  \/ qpc[t] = "block" /\ m_policy = "ERROR"
  \/ qpc[t] \in {"error", "block"} /\ qop[t] = "tryPush"
RoomInv ==
  \A t \in Thread :
    /\ qpc[t] \in Waiting => m_policy = "BLOCK" /\ qop[t] # "tryPush"
    /\ ~Loses /\ NeedsRoom(t) => m_size # Capacity

\* The steps a thread takes inside its ring call: it puts, pops, or leaves
\* the ring and the results alone.
LEMMA InnerKinds ==
  ASSUME CircIInv, NEW t \in Thread, InnerStep(t) \/ InnerWakeup(t)
  PROVE  /\ UNCHANGED queueVars
         /\ \/ Put(t)
            \/ m_size # 0 /\ PopEnd(t) /\ pc[t] = "test" /\ op[t] = "popFront"
            \/ /\ UNCHANGED <<ring, got, ok>>
               /\ \A r \in Thread : /\ pc'[r] = "put" => pc[r] = "put"
                                    /\ pc'[r] = "test" => pc[r] \in {"test", "asleep"}
                                    /\ pc'[r] = "asleep" => pc[r] = "asleep" \/ (pc[r] = "test" /\ m_size = 0)
  <1> USE DEF Goto, Return
  <1>1. pc \in [Thread -> RingLabels] /\ pc[t] \notin {"empty", "take"}
        /\ (pc[t] = "test" => op[t] = "popFront")
    BY DEF CircIInv, RingIInv, IInv, TypeOK, LinkInv
  <1>2. UNCHANGED queueVars /\ (RingStep(t) \/ SpuriousWakeup(t))
    BY DEF InnerStep, InnerWakeup
  <1>3. CASE Notify(t)
    <2>1. UNCHANGED <<ring, got, ok>> /\ pc[t] = "notify"
      BY <1>3 DEF Notify
    <2>2. CASE pc' = [pc EXCEPT ![t] = "idle"]
      BY <1>1, <1>2, <2>1, <2>2
    <2>3. ASSUME NEW s \in Sleepers, pc' = [pc EXCEPT ![t] = "idle", ![s] = "test"]
          PROVE  \A r \in Thread : pc'[r] = pc[r] \/ pc'[r] = "idle" \/ (pc[r] = "asleep" /\ pc'[r] = "test")
      BY <1>1, <2>1, <2>3 DEF Sleepers
    <2>4. \A r \in Thread : pc'[r] = pc[r] \/ pc'[r] = "idle" \/ (pc[r] = "asleep" /\ pc'[r] = "test")
      BY <1>1, <1>3, <2>2, <2>3 DEF Notify
    <2> QED BY <1>2, <2>1, <2>4
  <1>4. CASE Test(t)
    <2>1. CASE m_size # 0 /\ PopEnd(t)
      BY <1>1, <1>2, <1>4, <2>1 DEF Test
    <2>2. CASE m_size = 0 /\ pc' = [pc EXCEPT ![t] = "asleep"] /\ UNCHANGED <<ring, op, got, ok>>
      BY <1>1, <1>2, <1>4, <2>2 DEF Test
    <2> QED BY <1>4, <2>1, <2>2 DEF Test
  <1>5. CASE Bound(t) \/ Index(t) \/ Read(t) \/ SpuriousWakeup(t)
    BY <1>1, <1>2, <1>5 DEF Bound, Index, Read, SpuriousWakeup
  <1> QED BY <1>1, <1>2, <1>3, <1>4, <1>5 DEF RingStep, Empty, Take

\* An element popped leaves room.
LEMMA PopLeavesRoom ==
  ASSUME CircIInv, NEW t \in Thread, m_size # 0, PopEnd(t)
  PROVE  m_size' = m_size - 1 /\ m_size' # Capacity
  <1>1. m_size \in Nat /\ m_size <= Capacity /\ Capacity \in Nat
    BY RingAssumption DEF CircIInv, RingIInv, IInv, TypeOK, SafeInv, RunInv
  <1>2. m_size' = m_size - 1
    BY PopRun DEF CircIInv, RingIInv, SafeInv
  <1> QED BY <1>1, <1>2

LEMMA StepRoom == KeepsRoom /\ CircIInv /\ RoomInv /\ [CircNext]_circVars => RoomInv'
  <1> SUFFICES ASSUME KeepsRoom, CircIInv, RoomInv, [CircNext]_circVars PROVE RoomInv'
    OBVIOUS
  <1> USE DEF QueueGoto, QueueMove, QueueReturn
  <1>1. /\ qpc \in [Thread -> QueueLabels] /\ qop \in [Thread -> QueueOps \cup {"none"}]
        /\ QueueCalls \in [Thread -> SUBSET QueueOps] /\ pc \in [Thread -> RingLabels]
        /\ m_policy \in {"BLOCK", "ERROR", "OVERWRITE_OLDEST"}
    BY CircAssumption DEF CircIInv, QueueTypes, RingIInv, IInv, TypeOK
  \* One thread moves on, with what its new label needs.
  <1>2. ASSUME NEW t \in Thread, NEW l, qpc' = [qpc EXCEPT ![t] = l], UNCHANGED <<m_policy, m_size>>,
               \A r \in Thread \ {t} : qop'[r] = qop[r] /\ pc'[r] = pc[r],
               l \in Waiting => m_policy = "BLOCK" /\ qop'[t] # "tryPush",
               ~Loses /\ NeedsRoom(t)' => m_size # Capacity
        PROVE  RoomInv'
    <2>1. ASSUME NEW r \in Thread, r # t PROVE qpc'[r] = qpc[r] /\ qop'[r] = qop[r] /\ pc'[r] = pc[r]
      BY <1>1, <1>2, <2>1
    <2>2. qpc'[t] = l
      BY <1>1, <1>2
    <2>3. ASSUME NEW r \in Thread, qpc'[r] \in Waiting PROVE m_policy' = "BLOCK" /\ qop'[r] # "tryPush"
      BY <1>2, <2>1, <2>2, <2>3 DEF RoomInv
    <2>4. ASSUME NEW r \in Thread, ~Loses, NeedsRoom(r)' PROVE m_size' # Capacity
      BY <1>2, <2>1, <2>4 DEF RoomInv, NeedsRoom
    <2> QED BY <1>2, <2>3, <2>4 DEF RoomInv, Loses
  <1>3. ASSUME NEW t \in Thread, QueueCall(t) PROVE RoomInv'
    <2>1. PICK o \in QueueOps : qpc' = [qpc EXCEPT ![t] = FirstQueueLabel(o)] /\ qop' = [qop EXCEPT ![t] = o]
      BY <1>1, <1>3 DEF QueueCall
    <2>2. FirstQueueLabel(o) \in {"error", "tryFull", "pop", "tryEmpty", "peek"}
          /\ (FirstQueueLabel(o) = "error" => o = "push")
      BY DEF QueueOps, FirstQueueLabel
    <2> QED BY <1>1, <1>2, <1>3, <2>1, <2>2 DEF QueueCall, ringVars, Waiting, NeedsRoom
  <1>4. ASSUME NEW t \in Thread, GiveUp(t) PROVE RoomInv'
    BY <1>1, <1>2, <1>4 DEF GiveUp, ring, Waiting, NeedsRoom
  <1>5. ASSUME NEW t \in Thread, TryFull(t) \/ ErrorTest(t) \/ TryEmpty(t), ~GiveUp(t) PROVE RoomInv'
    <2>1. qpc[t] \in {"tryFull", "error", "tryEmpty"} /\ UNCHANGED <<m_policy, m_size, qop, pc>>
      BY <1>5 DEF TryFull, ErrorTest, TryEmpty, ringVars
    <2>2. CASE qpc' = [qpc EXCEPT ![t] = "error"] /\ m_size # Capacity
      BY <1>2, <2>1, <2>2 DEF Waiting
    <2>3. CASE qpc' = [qpc EXCEPT ![t] = "block"] /\ qpc[t] = "error" /\ ~(m_size = Capacity /\ m_policy = "ERROR")
      BY <1>1, <1>2, <2>1, <2>3 DEF Waiting, NeedsRoom, RoomInv
    <2>4. CASE qpc' = [qpc EXCEPT ![t] = "pop"]
      BY <1>1, <1>2, <2>1, <2>4 DEF Waiting, NeedsRoom
    <2> QED BY <1>5, <2>2, <2>3, <2>4 DEF TryFull, ErrorTest, TryEmpty, Full
  <1>6. ASSUME NEW t \in Thread, BlockTest(t) PROVE RoomInv'
    <2>1. qpc[t] = "block" /\ UNCHANGED <<m_policy, m_size, qop, pc>>
      BY <1>6 DEF BlockTest, ringVars
    <2>2. CASE m_size = Capacity /\ m_policy = "BLOCK" /\ qpc' = [qpc EXCEPT ![t] = "lock"]
      <3>1. qop[t] # "tryPush"
        BY <2>1, <2>2 DEF RoomInv, NeedsRoom, Loses
      <3> QED BY <1>1, <1>2, <2>1, <2>2, <3>1 DEF Waiting, NeedsRoom
    <2>3. CASE ~(m_size = Capacity /\ m_policy = "BLOCK") /\ qpc' = [qpc EXCEPT ![t] = "put"]
      <3>1. ~Loses => m_size # Capacity
        BY <1>1, <2>1, <2>3 DEF RoomInv, NeedsRoom, Loses
      <3> QED BY <1>2, <2>1, <2>3, <3>1 DEF Waiting
    <2> QED BY <1>6, <2>2, <2>3 DEF BlockTest, Full
  <1>7. ASSUME NEW t \in Thread, FullLock(t) \/ FullTest(t) \/ FullWait(t) \/ FullWakeup(t) PROVE RoomInv'
    <2>1. qpc[t] \in Waiting /\ UNCHANGED <<m_policy, m_size, qop, pc>>
      BY <1>7 DEF FullLock, FullTest, FullWait, FullWakeup, ringVars, Waiting
    <2>2. ASSUME NEW l \in Waiting, qpc' = [qpc EXCEPT ![t] = l] PROVE RoomInv'
      BY <1>1, <1>2, <2>1, <2>2 DEF Waiting, NeedsRoom, RoomInv
    <2>3. CASE qpc' = [qpc EXCEPT ![t] = "put"] /\ m_size # Capacity
      BY <1>2, <2>1, <2>3 DEF Waiting
    <2> QED BY <1>7, <2>2, <2>3 DEF FullLock, FullTest, FullWait, FullWakeup, Waiting, Full
  <1>8. ASSUME NEW t \in Thread, StartPut(t) PROVE RoomInv'
    <2>1. /\ qpc[t] = "put" /\ qpc' = [qpc EXCEPT ![t] = "putting"] /\ UNCHANGED <<m_policy, m_size, qop>>
          /\ \A r \in Thread \ {t} : pc'[r] = pc[r]
      BY <1>1, <1>8 DEF StartPut, Enter, Goto, ring
    <2>2. ~Loses => m_size # Capacity
      BY <2>1 DEF RoomInv, NeedsRoom
    <2> QED BY <1>2, <2>1, <2>2 DEF Waiting
  <1>9. ASSUME NEW t \in Thread, StartPop(t) \/ StartPeek(t) PROVE RoomInv'
    <2>1. /\ UNCHANGED <<m_policy, m_size, qop>> /\ \A r \in Thread \ {t} : pc'[r] = pc[r]
      BY <1>1, <1>9 DEF StartPop, StartPeek, Enter, Goto, ring
    <2>2. ASSUME NEW l \in {"popping", "peeking"}, qpc' = [qpc EXCEPT ![t] = l] PROVE RoomInv'
      BY <1>1, <1>2, <2>1, <2>2 DEF Waiting, NeedsRoom
    <2> QED BY <1>9, <2>2 DEF StartPop, StartPeek
  <1>10. ASSUME NEW t \in Thread, EndPut(t) \/ EndPop(t) \/ EndPeek(t) PROVE RoomInv'
    <2>1. /\ UNCHANGED <<m_policy, m_size, pc>> /\ \A r \in Thread \ {t} : qop'[r] = qop[r]
      BY <1>1, <1>10 DEF EndPut, EndPop, EndPeek, ringVars
    <2>2. ASSUME NEW l \in {"idle", "fullNotify"}, qpc' = [qpc EXCEPT ![t] = l] PROVE RoomInv'
      BY <1>1, <1>2, <2>1, <2>2 DEF Waiting, NeedsRoom
    <2> QED BY <1>10, <2>2 DEF EndPut, EndPop, EndPeek
  <1>11. ASSUME NEW t \in Thread, FullNotify(t) PROVE RoomInv'
    <2>1. qpc[t] = "fullNotify" /\ qop' = [qop EXCEPT ![t] = "none"] /\ UNCHANGED <<m_policy, m_size, pc>>
      BY <1>11 DEF FullNotify, ringVars
    <2>2. CASE qpc' = [qpc EXCEPT ![t] = "idle"]
      BY <1>1, <1>2, <2>1, <2>2 DEF Waiting, NeedsRoom
    <2>3. ASSUME NEW s \in FullSleepers, qpc' = [qpc EXCEPT ![t] = "idle", ![s] = "lock"] PROVE RoomInv'
      <3>1. s \in Thread /\ s # t /\ qpc[s] = "fullAsleep"
        BY <2>1 DEF FullSleepers
      <3> QED BY <1>1, <2>1, <2>3, <3>1 DEF RoomInv, NeedsRoom, Loses, Waiting
    <2> QED BY <1>11, <2>2, <2>3 DEF FullNotify
  <1>12. ASSUME NEW t \in Thread, InnerStep(t) \/ InnerWakeup(t) PROVE RoomInv'
    <2>1. UNCHANGED <<m_policy, qpc, qop>>
      BY <1>12, InnerKinds DEF queueVars
    <2>2. CASE Put(t)
      <3>1. pc[t] = "put" /\ pc' = [pc EXCEPT ![t] = "notify"]
        BY <2>2 DEF Put, Goto
      <3>2. ASSUME NEW r \in Thread, ~Loses, NeedsRoom(r)' PROVE FALSE
        <4>1. PushesFromOne
          BY <3>2 DEF KeepsRoom, CircIInv, QueueTypes, Loses
        <4>2. qop[t] \in QueueCalls[t] \cap PushOps
          BY <3>1 DEF CircIInv, LinkInv, PushLabels
        <4>3. qpc[r] \in PushLabels
          BY <2>1, <3>2 DEF NeedsRoom, PushLabels
        <4>4. qop[r] \in QueueCalls[r] \cap PushOps
          BY <4>3 DEF CircIInv, LinkInv
        <4>5. r = t
          BY <4>1, <4>2, <4>4 DEF PushesFromOne
        <4>6. qpc[t] = "putting"
          BY <3>1 DEF CircIInv, LinkInv
        <4> QED BY <1>1, <2>1, <3>1, <3>2, <4>5, <4>6 DEF NeedsRoom
      <3> QED BY <2>1, <3>2 DEF RoomInv, Loses
    <2>3. CASE m_size # 0 /\ PopEnd(t)
      BY <2>1, <2>3, PopLeavesRoom DEF RoomInv
    <2>4. CASE m_size' = m_size /\ \A r \in Thread : pc'[r] = "put" => pc[r] = "put"
      BY <2>1, <2>4 DEF RoomInv, NeedsRoom, Loses
    <2> QED BY <1>12, <2>2, <2>3, <2>4, InnerKinds DEF ring
  <1>13. CASE UNCHANGED circVars
    BY <1>13 DEF circVars, ringVars, queueVars, RoomInv, NeedsRoom, Loses
  <1> QED BY <1>3, <1>4, <1>5, <1>6, <1>7, <1>8, <1>9, <1>10, <1>11, <1>12, <1>13 DEF CircNext, QueueStep

LEMMA InitRoom == CircInit => RoomInv
  BY DEF CircInit, RoomInv, NeedsRoom, Waiting

LEMMA InitFifo == CircInit => Fifo!Init
  <1> SUFFICES ASSUME CircInit PROVE Fifo!Init
    OBVIOUS
  <1>1. ItemsInv
    BY CircInitInv, ItemsOf DEF CircIInv, RingIInv, SafeInv
  <1>2. Capacity \in Nat
    BY RingAssumption
  <1> QED BY <1>1, <1>2 DEF CircInit, Init, Fifo!Init, ItemsInv, Items

LEMMA StepFifo ==
  KeepsRoom /\ CircIInv /\ RoomInv /\ [CircNext]_circVars => [Fifo!Next]_(Fifo!fifoVars)
  <1> SUFFICES ASSUME KeepsRoom, CircIInv, RoomInv, [CircNext]_circVars PROVE [Fifo!Next]_(Fifo!fifoVars)
    OBVIOUS
  <1>1. IInv /\ RunInv /\ RunInv' /\ IInv' /\ ItemsInv /\ ItemsInv'
    BY CircStepInv, ItemsOf, PTL DEF CircIInv, RingIInv, SafeInv
  <1>2. Capacity \in Nat \ {0} /\ m_size \in 0 .. Capacity /\ Len(Items) = m_size /\ Items \in Seq(Value)
    BY <1>1, RingAssumption DEF IInv, TypeOK, RunInv, ItemsInv
  <1>3. ASSUME UNCHANGED <<ring, got, ok, m_policy>> PROVE [Fifo!Next]_(Fifo!fifoVars)
    BY <1>3 DEF ring, Fifo!fifoVars
  <1>4. ASSUME NEW t \in Thread, GiveUp(t), m_size = 0 \/ m_size = Capacity PROVE [Fifo!Next]_(Fifo!fifoVars)
    <2>1. Items = <<>> \/ ~(Len(Items) < Capacity)
      BY <1>2, <1>4, EmptySeq
    <2>2. UNCHANGED <<m_buffer, m_size, m_front_idx, m_policy, got>> /\ ok' = [ok EXCEPT ![t] = FALSE]
      BY <1>4 DEF GiveUp, QueueReturn, ring
    <2>3. Capacity # -1
      BY <1>2
    <2>4. Fifo!Refuse(t)
      BY <2>1, <2>2, <2>3 DEF Fifo!Refuse, Fifo!HasRoom, Fifo!NoLimit, Items
    <2> QED BY <2>4 DEF Fifo!Next
  <1>5. ASSUME NEW t \in Thread, TryFull(t) \/ ErrorTest(t) \/ TryEmpty(t) PROVE [Fifo!Next]_(Fifo!fifoVars)
    <2>1. CASE GiveUp(t)
      <3>1. m_size = 0 \/ m_size = Capacity
        <4>1. (m_size = 0 \/ m_size = Capacity) \/ \E l \in QueueLabels \ {"idle"} : QueueMove(t, l)
          BY <1>5 DEF TryFull, ErrorTest, TryEmpty, Full, QueueLabels
        <4>2. ASSUME NEW l \in QueueLabels \ {"idle"}, QueueMove(t, l) PROVE FALSE
          BY <2>1, <4>2 DEF GiveUp, QueueReturn, QueueMove, QueueGoto, CircIInv, QueueTypes
        <4> QED BY <4>1, <4>2
      <3> QED BY <1>4, <2>1, <3>1
    <2>2. CASE ~GiveUp(t)
      BY <1>3, <1>5, <2>2 DEF TryFull, ErrorTest, TryEmpty, QueueMove, ringVars, ring
    <2> QED BY <2>1, <2>2
  <1>6. ASSUME NEW t \in Thread, QueueCall(t) \/ BlockTest(t) \/ FullLock(t) \/ FullTest(t) \/ FullWait(t)
                                   \/ FullWakeup(t) \/ EndPut(t) \/ EndPop(t) \/ FullNotify(t) \/ EndPeek(t)
        PROVE  [Fifo!Next]_(Fifo!fifoVars)
    <2>1. UNCHANGED <<ringVars, m_policy>>
      BY <1>6 DEF QueueCall, BlockTest, FullLock, FullTest, FullWait, FullWakeup, EndPut, EndPop,
                  FullNotify, EndPeek, QueueMove, QueueReturn
    <2> QED BY <1>3, <2>1 DEF ringVars, ring
  <1>7. ASSUME NEW t \in Thread, StartPut(t) \/ StartPop(t) \/ StartPeek(t) PROVE [Fifo!Next]_(Fifo!fifoVars)
    BY <1>3, <1>7 DEF StartPut, StartPop, StartPeek, Enter
  <1>8. ASSUME NEW t \in Thread, InnerStep(t) \/ InnerWakeup(t) PROVE [Fifo!Next]_(Fifo!fifoVars)
    <2>1. m_policy' = m_policy
      BY <1>8, InnerKinds DEF queueVars
    <2>2. CASE Put(t)
      <3>1. PICK v \in Value : v = arg[t]
        BY <1>1, <2>2 DEF Put, IInv, CallInv
      <3>2. Deque!Put(t, v) /\ got' = got
        BY <1>1, <2>2, <3>1, PutItems DEF Put
      <3>3. Loses \/ m_size # Capacity
        <4>1. pc[t] = "put" /\ qpc[t] = "putting"
          BY <2>2 DEF Put, CircIInv, LinkInv
        <4> QED BY <4>1 DEF RoomInv, NeedsRoom
      <3>4. CASE m_size # Capacity
        <4>1. Len(Items) # Capacity /\ Len(Items) < Capacity
          BY <1>2, <3>4
        <4>2. Fifo!Enqueue(t, v)
          BY <2>1, <3>2, <4>1 DEF Deque!Put, Fifo!Enqueue, Fifo!HasRoom, Items
        <4> QED BY <4>2 DEF Fifo!Next
      <3>5. CASE m_size = Capacity
        <4>1. Len(Items) = Capacity /\ ~(Len(Items) < Capacity) /\ Items # <<>> /\ Capacity # -1
          BY <1>2, <3>5, EmptySeq
        <4>2. Fifo!Replace(t, v)
          BY <2>1, <3>2, <3>3, <3>5, <4>1 DEF Loses, Deque!Put, Fifo!Replace, Fifo!HasRoom, Fifo!NoLimit, Items
        <4> QED BY <4>2 DEF Fifo!Next
      <3> QED BY <3>4, <3>5
    <2>3. CASE m_size # 0 /\ PopEnd(t) /\ op[t] = "popFront"
      <3>1. Deque!PopFront(t)
        BY <1>1, <2>3, PopItems
      <3>2. Fifo!Dequeue(t)
        BY <2>1, <3>1 DEF Deque!PopFront, Fifo!Dequeue
      <3> QED BY <3>2 DEF Fifo!Next
    <2>4. CASE UNCHANGED <<ring, got, ok>>
      BY <1>3, <2>1, <2>4
    <2> QED BY <1>8, <2>2, <2>3, <2>4, InnerKinds
  <1>9. CASE UNCHANGED circVars
    BY <1>3, <1>9 DEF circVars, ringVars, ring, queueVars
  <1> QED BY <1>5, <1>6, <1>7, <1>8, <1>9 DEF CircNext, QueueStep

\* With one pushing thread the queue is linearizable to a FIFO of Capacity
\* elements that drops its oldest under OVERWRITE_OLDEST; under that policy
\* alone it is whoever pushes.  Two pushers of a BLOCK or ERROR queue both see
\* room for the last element.
THEOREM CircFifoImplemented ==
  ASSUME KeepsRoom
  PROVE  CircSpec => ImplementsFifo
  <1>1. CircInit => CircIInv /\ RoomInv /\ Fifo!Init
    BY CircInitInv, InitRoom, InitFifo
  <1>2. CircIInv /\ RoomInv /\ [CircNext]_circVars
          => CircIInv' /\ RoomInv' /\ [Fifo!Next]_(Fifo!fifoVars)
    BY CircStepInv, StepRoom, StepFifo
  <1> QED BY <1>1, <1>2, PTL DEF CircSpec, ImplementsFifo, Fifo!Spec

-------------------------------------------------------------------------------
(* Where moreover one thread pops, what tryPop saw of empty() still holds in  *)
(* the pop it goes on to.                                                     *)

NeedsElement(t) == qpc[t] = "pop" \/ (qpc[t] = "popping" /\ pc[t] \in {"test", "asleep"})
TryPopInv ==
  \A t \in Thread : qop[t] = "tryPop" => (NeedsElement(t) => m_size # 0) /\ pc[t] # "asleep"

LEMMA StepTryPop == PopsFromOne /\ CircIInv /\ TryPopInv /\ [CircNext]_circVars => TryPopInv'
  <1> SUFFICES ASSUME PopsFromOne, CircIInv, TryPopInv, [CircNext]_circVars PROVE TryPopInv'
    OBVIOUS
  <1> USE DEF QueueGoto, QueueMove, QueueReturn
  <1>1. /\ qpc \in [Thread -> QueueLabels] /\ qop \in [Thread -> QueueOps \cup {"none"}]
        /\ QueueCalls \in [Thread -> SUBSET QueueOps] /\ pc \in [Thread -> RingLabels]
        /\ m_size \in Nat
    BY CircAssumption DEF CircIInv, QueueTypes, RingIInv, IInv, TypeOK
  <1>2. ASSUME NEW t \in Thread, NEW l, qpc' = [qpc EXCEPT ![t] = l], UNCHANGED m_size,
               \A r \in Thread \ {t} : qop'[r] = qop[r] /\ pc'[r] = pc[r],
               qop'[t] = "tryPop" => (NeedsElement(t)' => m_size # 0) /\ pc'[t] # "asleep"
        PROVE  TryPopInv'
    <2>1. ASSUME NEW r \in Thread, r # t PROVE qpc'[r] = qpc[r] /\ qop'[r] = qop[r] /\ pc'[r] = pc[r]
      BY <1>1, <1>2, <2>1
    <2> QED BY <1>2, <2>1 DEF TryPopInv, NeedsElement
  <1>3. ASSUME NEW t \in Thread, QueueCall(t) PROVE TryPopInv'
    <2>1. PICK o \in QueueOps : qpc' = [qpc EXCEPT ![t] = FirstQueueLabel(o)] /\ qop' = [qop EXCEPT ![t] = o]
      BY <1>1, <1>3 DEF QueueCall
    <2>2. qpc[t] = "idle" /\ UNCHANGED <<m_size, pc>>
      BY <1>3 DEF QueueCall, ringVars
    <2>3. pc[t] # "asleep" /\ (o = "tryPop" => FirstQueueLabel(o) = "tryEmpty")
      BY <2>2 DEF CircIInv, LinkInv, FirstQueueLabel
    <2> QED BY <1>1, <1>2, <2>1, <2>2, <2>3 DEF NeedsElement
  <1>4. ASSUME NEW t \in Thread, QueueReturn(t), UNCHANGED <<m_size, pc>> PROVE TryPopInv'
    BY <1>1, <1>2, <1>4
  <1>5. ASSUME NEW t \in Thread, TryFull(t) \/ ErrorTest(t) \/ TryEmpty(t) PROVE TryPopInv'
    <2>1. CASE GiveUp(t)
      BY <1>4, <2>1 DEF GiveUp, ring
    <2>2. CASE ~GiveUp(t)
      BY <1>1, <1>2, <1>5, <2>2 DEF TryFull, ErrorTest, TryEmpty, ringVars, TryPopInv, NeedsElement
    <2> QED BY <2>1, <2>2
  <1>6. ASSUME NEW t \in Thread, NEW l \in {"lock", "put", "fullTest", "fullWait", "fullAsleep", "fullNotify"},
               qpc' = [qpc EXCEPT ![t] = l], UNCHANGED <<m_size, pc, qop>>
        PROVE  TryPopInv'
    BY <1>1, <1>2, <1>6 DEF TryPopInv, NeedsElement
  <1>7. ASSUME NEW t \in Thread, BlockTest(t) \/ FullLock(t) \/ FullTest(t) \/ FullWait(t) \/ FullWakeup(t)
                                   \/ EndPop(t)
        PROVE  TryPopInv'
    BY <1>6, <1>7 DEF BlockTest, FullLock, FullTest, FullWait, FullWakeup, EndPop, ringVars
  <1>8. ASSUME NEW t \in Thread, StartPut(t) \/ StartPeek(t) PROVE TryPopInv'
    <2>1. PICK l \in {"putting", "peeking"}, m \in {"put", "bound"} :
            qpc' = [qpc EXCEPT ![t] = l] /\ pc' = [pc EXCEPT ![t] = m] /\ UNCHANGED <<m_size, qop>>
      BY <1>8 DEF StartPut, StartPeek, Enter, Goto, FirstLabel, Pops, TryPops, Reads, ring
    <2> QED BY <1>1, <1>2, <2>1 DEF NeedsElement
  <1>9. ASSUME NEW t \in Thread, StartPop(t) PROVE TryPopInv'
    <2>1. /\ qpc[t] = "pop" /\ qpc' = [qpc EXCEPT ![t] = "popping"]
          /\ pc' = [pc EXCEPT ![t] = FirstLabel("popFront")] /\ UNCHANGED <<m_size, qop>>
      BY <1>9 DEF StartPop, Enter, Goto, ring
    <2>2. FirstLabel("popFront") = "test"
      BY DEF FirstLabel, Pops, TryPops, Reads
    <2> QED BY <1>1, <1>2, <2>1, <2>2 DEF TryPopInv, NeedsElement
  <1>10. ASSUME NEW t \in Thread, EndPut(t) \/ EndPeek(t) PROVE TryPopInv'
    BY <1>4, <1>10 DEF EndPut, EndPeek, ringVars
  <1>11. ASSUME NEW t \in Thread, FullNotify(t) PROVE TryPopInv'
    <2>1. qpc[t] = "fullNotify" /\ qop' = [qop EXCEPT ![t] = "none"] /\ UNCHANGED <<m_size, pc>>
      BY <1>11 DEF FullNotify, ringVars
    <2>2. CASE qpc' = [qpc EXCEPT ![t] = "idle"]
      BY <1>1, <1>2, <2>1, <2>2
    <2>3. ASSUME NEW s \in FullSleepers, qpc' = [qpc EXCEPT ![t] = "idle", ![s] = "lock"] PROVE TryPopInv'
      <3>1. s \in Thread /\ s # t /\ qpc[s] = "fullAsleep"
        BY <2>1 DEF FullSleepers
      <3> QED BY <1>1, <2>1, <2>3, <3>1 DEF TryPopInv, NeedsElement
    <2> QED BY <1>11, <2>2, <2>3 DEF FullNotify
  <1>12. ASSUME NEW t \in Thread, InnerStep(t) \/ InnerWakeup(t) PROVE TryPopInv'
    <2>1. UNCHANGED <<qpc, qop>>
      BY <1>12, InnerKinds DEF queueVars
    <2>2. CASE Put(t)
      <3>1. pc' = [pc EXCEPT ![t] = "notify"] /\ m_size' # 0
        BY <1>1, <2>2, RingAssumption DEF Put, Goto
      <3> QED BY <1>1, <2>1, <3>1 DEF TryPopInv, NeedsElement
    <2>3. CASE m_size # 0 /\ PopEnd(t) /\ pc[t] = "test"
      <3>1. pc' = [pc EXCEPT ![t] = "idle"]
        BY <2>3 DEF PopEnd, Return, Goto
      <3>2. qpc[t] = "popping" /\ qop[t] \in QueueCalls[t] \cap PopOps
        BY <2>3 DEF CircIInv, LinkInv, PopLabels
      <3>3. ASSUME NEW r \in Thread, NeedsElement(r)' PROVE FALSE
        <4>1. qpc[r] \in PopLabels
          BY <2>1, <3>3 DEF NeedsElement, PopLabels
        <4>2. qop[r] \in QueueCalls[r] \cap PopOps
          BY <4>1 DEF CircIInv, LinkInv
        <4>3. r = t
          BY <3>2, <4>2 DEF PopsFromOne
        <4> QED BY <1>1, <2>1, <3>1, <3>2, <3>3, <4>3 DEF NeedsElement
      <3> QED BY <1>1, <2>1, <3>1, <3>3 DEF TryPopInv
    <2>4. CASE /\ UNCHANGED m_size
               /\ \A r \in Thread : pc'[r] = "asleep" => pc[r] = "asleep" \/ (pc[r] = "test" /\ m_size = 0)
               /\ \A r \in Thread : pc'[r] = "test" => pc[r] \in {"test", "asleep"}
      <3>1. \A r \in Thread : pc[r] \in {"test", "asleep"} => qpc[r] = "popping"
        BY DEF CircIInv, LinkInv
      <3> QED BY <2>1, <2>4, <3>1 DEF TryPopInv, NeedsElement
    <2> QED BY <1>12, <2>2, <2>3, <2>4, InnerKinds DEF ring
  <1>13. CASE UNCHANGED circVars
    BY <1>13 DEF circVars, ringVars, queueVars, TryPopInv, NeedsElement
  <1> QED BY <1>3, <1>5, <1>7, <1>8, <1>9, <1>10, <1>11, <1>12, <1>13 DEF CircNext, QueueStep

\* With one pushing and one popping thread a tryPush or a tryPop never sleeps:
\* what it saw of the ring still holds when it goes on to push or pop.
THEOREM TriesCorrect ==
  ASSUME PushesFromOne, PopsFromOne
  PROVE  CircSpec => []TriesNeverSleep
  <1>1. CircInit => CircIInv /\ RoomInv /\ TryPopInv
    <2>1. CircInit => TryPopInv
      BY DEF CircInit, TryPopInv
    <2> QED BY <2>1, CircInitInv, InitRoom
  <1>2. CircIInv /\ RoomInv /\ TryPopInv /\ [CircNext]_circVars => CircIInv' /\ RoomInv' /\ TryPopInv'
    BY CircStepInv, StepRoom, StepTryPop DEF KeepsRoom
  <1>3. CircIInv /\ RoomInv /\ TryPopInv => TriesNeverSleep
    <2> SUFFICES ASSUME CircIInv, RoomInv, TryPopInv, NEW t \in Thread, qop[t] \in {"tryPush", "tryPop"}
                 PROVE  qpc[t] # "fullAsleep" /\ pc[t] # "asleep"
      BY DEF TriesNeverSleep
    <2>1. qpc[t] = "fullAsleep" => qop[t] = "push"
      BY DEF CircIInv, LinkInv, PushLabels, PushOps, RoomInv, Waiting
    <2>2. pc[t] = "asleep" => qop[t] = "pop"
      BY DEF CircIInv, LinkInv, PopLabels, PopOps, TryPopInv
    <2> QED BY <2>1, <2>2
  <1> QED BY <1>1, <1>2, <1>3, PTL DEF CircSpec
================================================================================
