------------------------------ MODULE PubSubProofs ------------------------------
(****************************************************************************)
(* PubSub, for any clients, subscribers, event types and bounds: its types, *)
(* the order in which subscribers receive, what a subscriber that stops has *)
(* consumed and, for clients that subscribe, unsubscribe and release in     *)
(* turn, what the broker's lists hold.                                      *)
(****************************************************************************)
EXTENDS PubSub, SequenceTheorems, FiniteSetTheorems, TLAPS

Weak == Subscriber \cup {Nobody}

\* The thread that notifies, from the lock of the broker's mutex to its unlock.
Inside(t) == pc[t] \in {"cycle", "lock", "release"} \/ (pc[t] = "destroy" /\ event[t] # Null)

\* What a client's variables hold where it is.
CallInv ==
  \A t \in Thread :
    /\ pc[t] \in {"expired", "lockBroker", "enter", "cycle", "lock", "release"} => event[t] \in Event
    /\ pc[t] \in {"idle", "join"} => event[t] = Null
    /\ pc[t] \in {"release", "join", "destroy"} => sub_ptr[t] \in Subscriber
    /\ pc[t] = "lock" => vec_it[t] <= Len(m_subscribers[event[t].type])
    /\ Inside(t) => m_mutex = t

\* A subscriber's thread handles an event exactly while it consumes.
ThreadInv == \A s \in Subscriber : m_thread[s] = "consume" <=> handling[s] # Null

TypeInv == TypeOK /\ CallInv /\ ThreadInv

\* What the broker's mutex is for.
MutualExclusion == \A t, u \in Thread : Inside(t) /\ Inside(u) => t = u

-------------------------------------------------------------------------------
(* The sequences the broker edits. *)

\* The ranks of a finite set of naturals are 1 to its cardinality.
LEMMA RankIsBijection ==
  ASSUME NEW I \in SUBSET Nat, IsFiniteSet(I)
  PROVE  /\ Cardinality(I) \in Nat
         /\ \A i \in I : Rank(I, i) \in 1 .. Cardinality(I)
         /\ \A i, j \in I : i < j => Rank(I, i) < Rank(I, j)
         /\ \A k \in 1 .. Cardinality(I) : \E i \in I : Rank(I, i) = k
  <1> DEFINE n == Cardinality(I)
             Upto(i) == {j \in I : j <= i}
             f == [i \in I |-> Rank(I, i)]
  <1>1. n \in Nat
    BY FS_CardinalityType
  <1>2. ASSUME NEW i \in I
        PROVE  /\ IsFiniteSet(Upto(i)) /\ Rank(I, i) = Cardinality(Upto(i))
               /\ Rank(I, i) \in 1 .. n
    <2>1. IsFiniteSet(Upto(i)) /\ Cardinality(Upto(i)) <= n /\ i \in Upto(i)
      BY FS_Subset
    <2>2. Cardinality(Upto(i)) \in Nat /\ Cardinality(Upto(i)) # 0
      BY <2>1, FS_CardinalityType, FS_EmptySet
    <2> QED BY <1>1, <2>1, <2>2 DEF Rank
  <1>3. ASSUME NEW i \in I, NEW j \in I, i < j PROVE Rank(I, i) < Rank(I, j)
    <2>1. Upto(i) \in SUBSET Upto(j) /\ j \in Upto(j) /\ j \notin Upto(i)
      <3>1. i \in Nat /\ j \in Nat /\ \A x \in I : x \in Nat
        OBVIOUS
      <3>2. \A x \in I : x <= i => x <= j
        BY <1>3, <3>1
      <3>3. Upto(i) \subseteq Upto(j)
        BY <3>2
      <3>4. j <= j /\ ~(j <= i)
        BY <1>3, <3>1
      <3> QED BY <3>3, <3>4
    <2>2. Cardinality(Upto(i)) <= Cardinality(Upto(j)) /\ Cardinality(Upto(i)) # Cardinality(Upto(j))
      BY <1>2, <2>1, FS_Subset
    <2> QED BY <1>1, <1>2, <2>2
  <1>4. f \in Injection(I, 1 .. n)
    <2>1. f \in [I -> 1 .. n]
      BY <1>2
    <2>2. ASSUME NEW i \in I, NEW j \in I, f[i] = f[j] PROVE i = j
      <3>1. Rank(I, i) = Rank(I, j)
        BY <2>2
      <3>2. Rank(I, i) \in 1 .. n /\ Rank(I, j) \in 1 .. n
        BY <1>2
      <3>3. i \in Nat /\ j \in Nat
        OBVIOUS
      <3> HIDE DEF n, f, Upto
      <3>4. ~(i < j) /\ ~(j < i)
        BY <1>1, <1>3, <3>1, <3>2
      <3> QED BY <3>3, <3>4
    <2> QED BY <2>1, <2>2 DEF Injection, IsInjective
  <1>5. IsFiniteSet(1 .. n) /\ Cardinality(1 .. n) = n
    BY <1>1, FS_Interval
  <1>6. f \in Surjection(I, 1 .. n)
    BY <1>4, <1>5, FS_Injection
  <1>7. \A k \in 1 .. n : \E i \in I : Rank(I, i) = k
    BY <1>6 DEF Surjection
  <1> QED BY <1>1, <1>2, <1>3, <1>7

\* Picking the elements at some positions keeps each once and in order.
LEMMA PickedElements ==
  ASSUME NEW S, NEW vec \in Seq(S), NEW I \in SUBSET (1 .. Len(vec))
  PROVE  /\ Cardinality(I) \in 0 .. Len(vec)
         /\ Cardinality(I) = Len(vec) => I = 1 .. Len(vec)
         /\ Picked(vec, I) \in Seq(S) /\ Len(Picked(vec, I)) = Cardinality(I)
         /\ \A i \in I : \E k \in 1 .. Cardinality(I) : Picked(vec, I)[k] = vec[i]
         /\ \E g \in [1 .. Cardinality(I) -> I] :
              /\ \A k \in 1 .. Cardinality(I) : Picked(vec, I)[k] = vec[g[k]]
              /\ \A k, l \in 1 .. Cardinality(I) : k < l => g[k] < g[l]
              /\ \A i \in I : \E k \in 1 .. Cardinality(I) : g[k] = i
  <1> DEFINE n == Cardinality(I)
             At(k) == CHOOSE i \in I : Rank(I, i) = k
             g == [k \in 1 .. n |-> At(k)]
  <1>1. Len(vec) \in Nat /\ IsFiniteSet(1 .. Len(vec)) /\ Cardinality(1 .. Len(vec)) = Len(vec)
    BY FS_Interval
  <1>2. IsFiniteSet(I) /\ n \in Nat /\ n <= Len(vec) /\ (n = Len(vec) => I = 1 .. Len(vec)) /\ I \in SUBSET Nat
    <2>1. IsFiniteSet(I) /\ n <= Len(vec) /\ (n = Len(vec) => I = 1 .. Len(vec))
      BY <1>1, FS_Subset
    <2>2. n \in Nat
      BY <2>1, FS_CardinalityType
    <2>3. I \in SUBSET Nat
      BY <1>1
    <2> QED BY <2>1, <2>2, <2>3
  <1>3. /\ \A i \in I : Rank(I, i) \in 1 .. n
        /\ \A i, j \in I : i < j => Rank(I, i) < Rank(I, j)
        /\ \A k \in 1 .. n : \E i \in I : Rank(I, i) = k
    BY <1>2, RankIsBijection
  <1>4. ASSUME NEW k \in 1 .. n PROVE At(k) \in I /\ Rank(I, At(k)) = k
    BY <1>3
  <1>5. ASSUME NEW i \in I PROVE At(Rank(I, i)) = i
    <2> HIDE DEF At, g
    <2>1. Rank(I, i) \in 1 .. n
      BY <1>3
    <2>2. At(Rank(I, i)) \in I /\ Rank(I, At(Rank(I, i))) = Rank(I, i)
      BY <1>4, <2>1
    <2> DEFINE j == At(Rank(I, i))
    <2>3. j \in I /\ Rank(I, j) = Rank(I, i)
      BY <2>2
    <2> HIDE DEF j, n
    <2>6. Rank(I, i) \in Int /\ i \in Nat /\ j \in Nat
      BY <1>2, <2>1, <2>3
    <2>4. ~(i < j) /\ ~(j < i)
      BY <1>3, <2>3, <2>6
    <2>5. i = j
      BY <2>4, <2>6
    <2> QED BY <2>5 DEF j
  <1>6. Picked(vec, I) = [k \in 1 .. n |-> vec[At(k)]]
    BY DEF Picked
  <1> HIDE DEF At
  <1>7. ASSUME NEW k \in 1 .. n PROVE vec[At(k)] \in S
    <2>1. At(k) \in 1 .. Len(vec)
      BY <1>4
    <2> QED BY <2>1, ElementOfSeq
  <1>8. Picked(vec, I) \in Seq(S) /\ Len(Picked(vec, I)) = n
    BY <1>2, <1>6, <1>7
  <1>9. \A i \in I : \E k \in 1 .. n : Picked(vec, I)[k] = vec[i]
    BY <1>3, <1>5, <1>6
  <1>10. g \in [1 .. n -> I] /\ \A k \in 1 .. n : Picked(vec, I)[k] = vec[g[k]]
    BY <1>4, <1>6
  <1>11. /\ \A k, l \in 1 .. n : k < l => g[k] < g[l]
         /\ \A i \in I : \E k \in 1 .. n : g[k] = i
    <2>1. \A k \in 1 .. n : g[k] = At(k)
      OBVIOUS
    <2> HIDE DEF g
    <2>2. ASSUME NEW k \in 1 .. n, NEW l \in 1 .. n, k < l PROVE At(k) < At(l)
      <3>1. At(k) \in I /\ At(l) \in I /\ Rank(I, At(k)) = k /\ Rank(I, At(l)) = l
        BY <1>4
      <3>2. At(k) \in Nat /\ At(l) \in Nat
        BY <1>2, <3>1
      <3> HIDE DEF n
      <3>3. k \in Int /\ l \in Int
        BY <1>2
      <3>4. At(l) < At(k) => l < k
        BY <1>3, <3>1
      <3>5. At(l) # At(k)
        BY <2>2, <3>1, <3>3
      <3> QED BY <2>2, <3>2, <3>3, <3>4, <3>5
    <2> QED BY <1>3, <1>5, <2>1, <2>2
  <1> HIDE DEF n, g
  <1>12. n \in 0 .. Len(vec)
    BY <1>1, <1>2
  <1> QED BY <1>2, <1>8, <1>9, <1>10, <1>11, <1>12 DEF n

\* new has the elements of vec in their order, but for the one at position o.
Without(new, vec, o) ==
  \E g \in [1 .. Len(new) -> (1 .. Len(vec)) \ {o}] :
    /\ \A k \in 1 .. Len(new) : new[k] = vec[g[k]]
    /\ \A k, l \in 1 .. Len(new) : k < l => g[k] < g[l]
    /\ \A i \in (1 .. Len(vec)) \ {o} : \E k \in 1 .. Len(new) : g[k] = i

\* What unsubscribe's erase keeps: every element that is not gone and, when one
\* alone is, the others in their order.
LEMMA ErasedElements ==
  ASSUME NEW s, NEW vec \in Seq(Weak), NEW o \in 1 .. Len(vec), Gone(s, vec[o])
  PROVE  /\ Erased(s, vec) \in Seq(Weak)
         /\ \A i \in 1 .. Len(vec) : ~Gone(s, vec[i])
              => \E k \in 1 .. Len(Erased(s, vec)) : Erased(s, vec)[k] = vec[i]
         /\ (\A i \in 1 .. Len(vec) : i # o => ~Gone(s, vec[i]))
              => Without(Erased(s, vec), vec, o)
  <1> DEFINE I == {i \in DOMAIN vec : ~Gone(s, vec[i])}
             n == Cardinality(I)
             kept == Picked(vec, I)
             rest == [i \in 1 .. Len(vec) - Len(kept) |->
                        LET tkn == vec[Len(kept) + i] IN IF Gone(s, tkn) THEN tkn ELSE Nobody]
  <1>1. I \in SUBSET (1 .. Len(vec)) /\ o \notin I /\ I # 1 .. Len(vec) /\ DOMAIN vec = 1 .. Len(vec)
    OBVIOUS
  <1>2. /\ n \in 0 .. Len(vec) /\ n # Len(vec)
        /\ kept \in Seq(Weak) /\ Len(kept) = n
        /\ \A i \in I : \E k \in 1 .. n : kept[k] = vec[i]
        /\ \E g \in [1 .. n -> I] : /\ \A k \in 1 .. n : kept[k] = vec[g[k]]
                                    /\ \A k, l \in 1 .. n : k < l => g[k] < g[l]
                                    /\ \A i \in I : \E k \in 1 .. n : g[k] = i
    <2> HIDE DEF I
    <2> QED BY <1>1, PickedElements
  <1>3. Erased(s, vec) = kept \o Tail(rest)
    BY DEF Erased
  <1>4. Len(vec) \in Nat
    OBVIOUS
  <1>5. rest \in Seq(Weak) /\ Len(rest) = Len(vec) - n /\ rest # <<>>
    <2>1. ASSUME NEW i \in 1 .. Len(vec) - Len(kept) PROVE vec[Len(kept) + i] \in Weak
      <3>1. Len(kept) + i \in 1 .. Len(vec)
        BY <1>2, <1>4
      <3> QED BY <3>1, ElementOfSeq
    <2>2. Nobody \in Weak /\ Len(vec) - Len(kept) \in Nat
      BY <1>2, <1>4 DEF Weak
    <2> HIDE DEF kept
    <2>3. rest \in [1 .. Len(vec) - Len(kept) -> Weak]
      BY <2>1, <2>2
    <2>4. rest \in Seq(Weak) /\ Len(rest) = Len(vec) - Len(kept)
      BY <2>2, <2>3
    <2> HIDE DEF rest
    <2>5. rest # <<>>
      BY <1>2, <1>4, <2>4
    <2> QED BY <1>2, <2>4, <2>5
  <1> HIDE DEF kept, rest
  <1>6. Tail(rest) \in Seq(Weak) /\ Len(Tail(rest)) = Len(vec) - n - 1
    BY <1>2, <1>4, <1>5, HeadTailProperties
  <1>7. /\ Erased(s, vec) \in Seq(Weak) /\ Len(Erased(s, vec)) = Len(vec) - 1
        /\ \A k \in 1 .. n : Erased(s, vec)[k] = kept[k]
    <2> DEFINE tail == Tail(rest)
    <2>1. tail \in Seq(Weak) /\ Len(tail) = Len(vec) - n - 1
      BY <1>6
    <2> HIDE DEF tail, n
    <2>3. kept \in Seq(Weak) /\ Len(kept) = n
      BY <1>2
    <2>2. /\ kept \o tail \in Seq(Weak) /\ Len(kept \o tail) = Len(kept) + Len(tail)
          /\ \A k \in 1 .. Len(kept) + Len(tail) : (kept \o tail)[k] = IF k <= Len(kept) THEN kept[k] ELSE tail[k - Len(kept)]
      BY <2>1, <2>3, ConcatProperties
    <2> QED BY <1>2, <1>3, <1>4, <2>1, <2>2 DEF tail
  <1>8. ASSUME NEW i \in 1 .. Len(vec), ~Gone(s, vec[i])
        PROVE  \E k \in 1 .. Len(Erased(s, vec)) : Erased(s, vec)[k] = vec[i]
    <2>1. i \in I
      BY <1>1, <1>8
    <2> HIDE DEF n, I
    <2>2. PICK k \in 1 .. n : kept[k] = vec[i]
      BY <1>2, <2>1
    <2>3. n \in 0 .. Len(vec) /\ n # Len(vec)
      BY <1>2
    <2>4. k \in 1 .. Len(Erased(s, vec))
      BY <1>4, <1>7, <2>3
    <2>5. Erased(s, vec)[k] = vec[i]
      BY <1>7, <2>2
    <2> QED BY <2>4, <2>5
  <1>9. ASSUME \A i \in 1 .. Len(vec) : i # o => ~Gone(s, vec[i])
        PROVE  Without(Erased(s, vec), vec, o)
    <2>1. I = (1 .. Len(vec)) \ {o}
      BY <1>1, <1>9
    <2>2. n = Len(vec) - 1
      <3>1. IsFiniteSet(1 .. Len(vec)) /\ Cardinality(1 .. Len(vec)) = Len(vec)
        BY <1>4, FS_Interval
      <3> QED BY <2>1, <3>1, FS_RemoveElement
    <2> HIDE DEF n, I
    <2>3. Len(Erased(s, vec)) = n
      BY <1>7, <2>2
    <2>4. PICK g \in [1 .. n -> I] :
            /\ \A k \in 1 .. n : kept[k] = vec[g[k]]
            /\ \A k, l \in 1 .. n : k < l => g[k] < g[l]
            /\ \A i \in I : \E k \in 1 .. n : g[k] = i
      BY <1>2
    <2>5. \A k \in 1 .. n : Erased(s, vec)[k] = vec[g[k]]
      <3>1. \A k \in 1 .. n : Erased(s, vec)[k] = kept[k]
        BY <1>7
      <3> QED BY <2>4, <3>1
    <2>6. g \in [1 .. n -> (1 .. Len(vec)) \ {o}]
      BY <2>1
    <2>7. \A k, l \in 1 .. n : k < l => g[k] < g[l]
      BY <2>4
    <2>8. ASSUME NEW i \in (1 .. Len(vec)) \ {o} PROVE \E k \in 1 .. n : g[k] = i
      <3>1. i \in I
        BY <2>1
      <3> QED BY <2>4, <3>1
    <2> QED BY <2>3, <2>5, <2>6, <2>7, <2>8 DEF Without
  <1> QED BY <1>7, <1>8, <1>9

\* What erasing an expired pointer from the list does to it.
LEMMA RemovedElements ==
  ASSUME NEW S, NEW vec \in Seq(S), NEW n \in 1 .. Len(vec)
  PROVE  /\ RemoveAt(vec, n) \in Seq(S) /\ Len(RemoveAt(vec, n)) = Len(vec) - 1
         /\ \A i \in 1 .. Len(vec) - 1 : RemoveAt(vec, n)[i] = IF i < n THEN vec[i] ELSE vec[i + 1]
  <1> DEFINE a == SubSeq(vec, 1, n - 1)
             b == SubSeq(vec, n + 1, Len(vec))
  <1>1. Len(vec) \in Nat /\ n \in Nat /\ \A i \in 1 .. Len(vec) : vec[i] \in S
    OBVIOUS
  <1>2. /\ a \in Seq(S) /\ Len(a) = n - 1 /\ \A i \in 1 .. n - 1 : a[i] = vec[i]
    BY <1>1, SubSeqProperties
  <1>3. /\ b \in Seq(S) /\ Len(b) = Len(vec) - n /\ \A i \in 1 .. Len(vec) - n : b[i] = vec[n + i]
    <2>1. \A i \in n + 1 .. Len(vec) : vec[i] \in S
      BY <1>1
    <2> QED BY <1>1, <2>1, SubSeqProperties
  <1> HIDE DEF a, b
  <1>4. /\ a \o b \in Seq(S) /\ Len(a \o b) = Len(vec) - 1
        /\ \A i \in 1 .. Len(vec) - 1 : (a \o b)[i] = IF i <= n - 1 THEN a[i] ELSE b[i - (n - 1)]
    BY <1>1, <1>2, <1>3, ConcatProperties
  <1>5. RemoveAt(vec, n) = a \o b
    BY DEF RemoveAt, a, b
  <1>6. ASSUME NEW i \in 1 .. Len(vec) - 1 PROVE (a \o b)[i] = IF i < n THEN vec[i] ELSE vec[i + 1]
    <2>1. CASE i < n
      BY <1>1, <1>2, <1>4, <2>1
    <2>2. CASE ~(i < n)
      <3>1. i - (n - 1) \in 1 .. Len(vec) - n /\ n + (i - (n - 1)) = i + 1 /\ ~(i <= n - 1)
        BY <1>1, <2>2
      <3>2. b[i - (n - 1)] = vec[n + (i - (n - 1))]
        BY <1>3, <3>1
      <3> QED BY <1>4, <2>2, <3>1, <3>2
    <2> QED BY <2>1, <2>2
  <1> QED BY <1>4, <1>5, <1>6

-------------------------------------------------------------------------------
(* Types. *)

LEMMA InitTypes == Init => TypeInv
  <1> SUFFICES ASSUME Init PROVE TypeInv
    OBVIOUS
  <1>1. TypeOK
    BY PubSubAssumption DEF Init, TypeOK, ThreadLabels, ClientLabels
  <1>2. CallInv
    BY DEF Init, CallInv, Inside
  <1>3. ThreadInv
    BY DEF Init, ThreadInv
  <1> QED BY <1>1, <1>2, <1>3 DEF TypeInv

\* While the mutex is free nobody is inside, and otherwise only its owner.
LEMMA OneInside ==
  ASSUME TypeInv
  PROVE  /\ m_mutex = Nobody => \A t \in Thread : ~Inside(t)
         /\ \A t, u \in Thread : Inside(t) /\ Inside(u) => t = u
  BY PubSubAssumption DEF TypeInv, CallInv

LEMMA StepTypes == TypeInv /\ [Next]_vars => TypeInv'
  <1> SUFFICES ASSUME TypeInv, [Next]_vars PROVE TypeInv'
    OBVIOUS
  <1> USE DEF Goto, broker, threads, calls, account
  <1>1. /\ m_subscribers \in [Type -> Seq(Weak)] /\ m_mutex \in Thread \cup {Nobody}
        /\ m_events \in [Subscriber -> Seq(Event \cup {Null})] /\ m_thread \in [Subscriber -> ThreadLabels]
        /\ handling \in [Subscriber -> Event \cup {Null}] /\ consumed \in [Subscriber -> Seq(Event)]
        /\ pc \in [Thread -> ClientLabels] /\ event \in [Thread -> Event \cup {Null}]
        /\ vec_it \in [Thread -> Nat \ {0}] /\ sub_ptr \in [Thread -> Subscriber \cup {Nobody}]
        /\ published \in 0 .. MaxEvents /\ subscribed \in [Subscriber -> SUBSET Type]
        /\ promised \in [Thread -> SUBSET Subscriber] /\ due \in [Subscriber -> SUBSET Event]
        /\ held \in [Subscriber -> BOOLEAN] /\ brokerHeld \in BOOLEAN
    BY DEF TypeInv, TypeOK, Weak
  <1>2. \A t \in Thread : (m_mutex = Nobody => ~Inside(t)) /\ \A u \in Thread : Inside(t) /\ Inside(u) => t = u
    BY OneInside
  <1>3. \A e \in Event : e.type \in Type
    BY DEF Event
  <1>4. ASSUME NEW t \in Thread, NEW s \in Subscriber, NEW types \in SUBSET Type, Subscribe(t, s, types)
        PROVE  TypeInv'
    <2>1. /\ m_mutex = Nobody
          /\ m_subscribers' = [y \in Type |-> IF y \in types THEN Append(m_subscribers[y], s) ELSE m_subscribers[y]]
          /\ subscribed' = [subscribed EXCEPT ![s] = @ \cup types]
          /\ UNCHANGED <<m_mutex, brokerHeld, held, threads, calls, promised, due>>
      BY <1>4 DEF Subscribe
    <2>2. m_subscribers' \in [Type -> Seq(Weak)]
      <3>1. \A y \in Type : Append(m_subscribers[y], s) \in Seq(Weak)
        BY <1>1 DEF Weak
      <3> QED BY <1>1, <2>1, <3>1
    <2>3. TypeOK'
      BY <1>1, <2>1, <2>2 DEF TypeOK, Weak
    <2>4. CallInv' /\ ThreadInv'
      BY <1>2, <2>1 DEF TypeInv, CallInv, ThreadInv, Inside
    <2> QED BY <2>3, <2>4 DEF TypeInv
  <1>5. ASSUME NEW t \in Thread, NEW s \in Subscriber, NEW types \in SUBSET Type, Unsubscribe(t, s, types)
        PROVE  TypeInv'
    <2>1. /\ pc[t] = "idle" /\ m_mutex = Nobody
          /\ UNCHANGED <<m_mutex, brokerHeld, held, threads, event, vec_it, sub_ptr, published, promised, due>>
      BY <1>5 DEF Unsubscribe
    <2>2. ThreadInv' /\ event[t] = Null
      BY <2>1 DEF TypeInv, ThreadInv, CallInv
    <2>3. CASE pc' = [pc EXCEPT ![t] = "crashed"] /\ UNCHANGED <<m_subscribers, subscribed>>
      <3>1. TypeOK'
        BY <1>1, <2>1, <2>3 DEF TypeOK, Weak, ClientLabels
      <3>2. CallInv'
        BY <1>1, <1>2, <2>1, <2>3 DEF TypeInv, CallInv, Inside
      <3> QED BY <2>2, <3>1, <3>2 DEF TypeInv
    <2>4. CASE /\ \A y \in types : m_subscribers[y] = <<>> \/ \E i \in DOMAIN m_subscribers[y] : Gone(s, m_subscribers[y][i])
               /\ m_subscribers' = [y \in Type |->
                    IF y \in types /\ m_subscribers[y] # <<>> THEN Erased(s, m_subscribers[y]) ELSE m_subscribers[y]]
               /\ subscribed' = [subscribed EXCEPT ![s] = @ \ types]
               /\ UNCHANGED pc
      <3>1. ASSUME NEW y \in types, m_subscribers[y] # <<>> PROVE Erased(s, m_subscribers[y]) \in Seq(Weak)
        <4>1. m_subscribers[y] \in Seq(Weak)
          BY <1>1
        <4>2. PICK i \in 1 .. Len(m_subscribers[y]) : Gone(s, m_subscribers[y][i])
          BY <2>4, <3>1, <4>1
        <4> QED BY <4>1, <4>2, ErasedElements
      <3>2. m_subscribers' \in [Type -> Seq(Weak)]
        BY <1>1, <2>4, <3>1
      <3>3. TypeOK'
        BY <1>1, <2>1, <2>4, <3>2 DEF TypeOK, Weak
      <3>4. CallInv'
        BY <1>2, <2>1, <2>4 DEF TypeInv, CallInv, Inside
      <3> QED BY <2>2, <3>3, <3>4 DEF TypeInv
    <2> QED BY <1>5, <2>3, <2>4 DEF Unsubscribe
  <1>6. ASSUME NEW t \in Thread, NEW y \in Type, Publish(t, y) PROVE TypeInv'
    <2> DEFINE e == [id |-> published + 1, type |-> y]
    <2>1. /\ pc[t] = "idle" /\ published' \in 0 .. MaxEvents /\ e \in Event
          /\ event' = [event EXCEPT ![t] = e] /\ pc' = [pc EXCEPT ![t] = "expired"]
          /\ UNCHANGED <<broker, brokerHeld, held, threads, vec_it, sub_ptr, account>>
      BY <1>1, <1>6, PubSubAssumption DEF Publish, Event
    <2> HIDE DEF e
    <2>2. TypeOK'
      BY <1>1, <2>1 DEF TypeOK, Weak, ClientLabels
    <2>3. CallInv' /\ ThreadInv'
      BY <1>1, <2>1 DEF TypeInv, CallInv, ThreadInv, Inside
    <2> QED BY <2>2, <2>3 DEF TypeInv
  <1>7. ASSUME NEW t \in Thread, BrokerExpired(t) \/ LockBroker(t) PROVE TypeInv'
    <2>1. /\ pc[t] \in {"expired", "lockBroker"}
          /\ UNCHANGED <<broker, brokerHeld, held, threads, vec_it, sub_ptr, published, account>>
      BY <1>7 DEF BrokerExpired, LockBroker
    <2>2. \/ event' = event /\ \E l \in {"lockBroker", "enter", "crashed"} : pc' = [pc EXCEPT ![t] = l]
          \/ event' = [event EXCEPT ![t] = Null] /\ pc' = [pc EXCEPT ![t] = "idle"]
      BY <1>7 DEF BrokerExpired, LockBroker
    <2>3. TypeOK'
      BY <1>1, <2>1, <2>2 DEF TypeOK, Weak, ClientLabels
    <2>4. CallInv' /\ ThreadInv'
      BY <1>1, <2>1, <2>2 DEF TypeInv, CallInv, ThreadInv, Inside
    <2> QED BY <2>3, <2>4 DEF TypeInv
  <1>8. ASSUME NEW t \in Thread, Enter(t) PROVE TypeInv'
    <2>1. /\ pc[t] = "enter" /\ m_mutex = Nobody /\ m_mutex' = t
          /\ vec_it' = [vec_it EXCEPT ![t] = 1] /\ pc' = [pc EXCEPT ![t] = "cycle"]
          /\ promised' = [promised EXCEPT ![t] = {s \in Subscriber : event[t].type \in subscribed[s]}]
          /\ UNCHANGED <<m_subscribers, brokerHeld, held, threads, event, sub_ptr, published, subscribed, due>>
      BY <1>8 DEF Enter
    <2>2. TypeOK'
      BY <1>1, <2>1 DEF TypeOK, Weak, ClientLabels
    <2>3. CallInv' /\ ThreadInv'
      BY <1>1, <1>2, <2>1 DEF TypeInv, CallInv, ThreadInv, Inside
    <2> QED BY <2>2, <2>3 DEF TypeInv
  <1>9. ASSUME NEW t \in Thread, Cycle(t) PROVE TypeInv'
    <2> DEFINE vec == m_subscribers[event[t].type]
    <2>1. /\ pc[t] = "cycle" /\ UNCHANGED <<brokerHeld, held, threads, sub_ptr, published, subscribed>>
          /\ event[t] \in Event /\ Inside(t) /\ m_mutex = t /\ vec_it[t] \in Nat \ {0}
      BY <1>1, <1>9 DEF Cycle, TypeInv, CallInv, Inside
    <2>2. vec \in Seq(Weak) /\ ThreadInv' /\ \A u \in Thread \ {t} : ~Inside(u)
      BY <1>1, <1>2, <1>3, <2>1 DEF TypeInv, ThreadInv
    <2>3. CASE Leave(t)
      <3>1. /\ m_mutex' = Nobody /\ UNCHANGED <<m_subscribers, vec_it>>
            /\ pc' = [pc EXCEPT ![t] = "idle"] /\ event' = [event EXCEPT ![t] = Null]
            /\ promised' = [promised EXCEPT ![t] = {}]
            /\ due' = [s \in Subscriber |-> IF s \in promised[t] /\ ~Cancelled(s) THEN due[s] \cup {event[t]} ELSE due[s]]
        BY <2>3 DEF Leave
      <3>2. due' \in [Subscriber -> SUBSET Event]
        BY <1>1, <2>1, <3>1
      <3>3. TypeOK'
        BY <1>1, <2>1, <3>1, <3>2 DEF TypeOK, Weak, ClientLabels
      <3>4. CallInv'
        BY <1>1, <2>1, <2>2, <3>1 DEF TypeInv, CallInv, Inside
      <3> QED BY <2>2, <3>3, <3>4 DEF TypeInv
    <2>4. CASE /\ vec_it[t] <= Len(vec) /\ pc' = [pc EXCEPT ![t] = "lock"]
               /\ UNCHANGED <<broker, event, vec_it, promised, due>>
      <3>1. TypeOK'
        BY <1>1, <2>1, <2>4 DEF TypeOK, Weak, ClientLabels
      <3>2. CallInv'
        BY <1>1, <2>1, <2>2, <2>4 DEF TypeInv, CallInv, Inside
      <3> QED BY <2>2, <3>1, <3>2 DEF TypeInv
    <2>5. CASE /\ vec_it[t] <= Len(vec)
               /\ m_subscribers' = [m_subscribers EXCEPT ![event[t].type] = RemoveAt(vec, vec_it[t])]
               /\ UNCHANGED <<m_mutex, pc, event, vec_it, promised, due>>
      <3>1. vec_it[t] \in 1 .. Len(vec)
        BY <2>1, <2>2, <2>5
      <3>2. RemoveAt(vec, vec_it[t]) \in Seq(Weak)
        BY <2>2, <3>1, RemovedElements
      <3>3. TypeOK'
        BY <1>1, <2>1, <2>5, <3>2 DEF TypeOK, Weak
      <3>4. CallInv'
        BY <1>1, <2>1, <2>2, <2>5 DEF TypeInv, CallInv, Inside
      <3> QED BY <2>2, <3>3, <3>4 DEF TypeInv
    <2> QED BY <1>9, <2>3, <2>4, <2>5 DEF Cycle
  <1>10. ASSUME NEW t \in Thread, Lock(t) PROVE TypeInv'
    <2> DEFINE s == m_subscribers[event[t].type][vec_it[t]]
    <2>1. /\ pc[t] = "lock" /\ UNCHANGED <<broker, brokerHeld, held, m_thread, handling, consumed, event, vec_it, published, account>>
          /\ event[t] \in Event /\ Inside(t) /\ m_mutex = t
      BY <1>10 DEF Lock, TypeInv, CallInv, Inside
    <2>2. ThreadInv' /\ \A u \in Thread \ {t} : ~Inside(u)
      BY <1>2, <2>1 DEF TypeInv, ThreadInv
    <2>3. CASE /\ Alive(s) /\ sub_ptr' = [sub_ptr EXCEPT ![t] = s]
               /\ m_events' = [m_events EXCEPT ![s] = Append(@, event[t])]
               /\ pc' = [pc EXCEPT ![t] = "release"]
      <3>1. s \in Subscriber
        <4>1. vec_it[t] \in 1 .. Len(m_subscribers[event[t].type]) /\ m_subscribers[event[t].type] \in Seq(Weak)
          BY <1>1, <1>3, <2>1 DEF TypeInv, CallInv
        <4>2. s \in Weak
          BY <4>1, ElementOfSeq
        <4> QED BY <2>3, <4>2 DEF Alive, Weak
      <3> HIDE DEF s
      <3>2. Append(m_events[s], event[t]) \in Seq(Event \cup {Null})
        BY <1>1, <2>1, <3>1
      <3>3. TypeOK'
        BY <1>1, <2>1, <2>3, <3>1, <3>2 DEF TypeOK, Weak, ClientLabels
      <3>4. CallInv'
        BY <1>1, <2>1, <2>2, <2>3, <3>1 DEF TypeInv, CallInv, Inside
      <3> QED BY <2>2, <3>3, <3>4 DEF TypeInv
    <2>4. CASE pc' = [pc EXCEPT ![t] = "crashed"] /\ UNCHANGED <<sub_ptr, m_events>>
      <3>1. TypeOK'
        BY <1>1, <2>1, <2>4 DEF TypeOK, Weak, ClientLabels
      <3>2. CallInv'
        BY <1>1, <2>1, <2>2, <2>4 DEF TypeInv, CallInv, Inside
      <3> QED BY <2>2, <3>1, <3>2 DEF TypeInv
    <2> QED BY <1>10, <2>3, <2>4 DEF Lock
  <1>11. ASSUME NEW t \in Thread, Release(t) PROVE TypeInv'
    <2>1. /\ pc[t] = "release" /\ vec_it' = [vec_it EXCEPT ![t] = @ + 1]
          /\ UNCHANGED <<broker, brokerHeld, held, threads, event, published, account>>
          /\ event[t] \in Event /\ m_mutex = t /\ sub_ptr[t] \in Subscriber /\ Inside(t)
      BY <1>11 DEF Release, TypeInv, CallInv, Inside
    <2>2. ThreadInv' /\ (\A u \in Thread \ {t} : ~Inside(u)) /\ vec_it' \in [Thread -> Nat \ {0}]
      BY <1>1, <1>2, <2>1 DEF TypeInv, ThreadInv
    <2>3. \/ pc' = [pc EXCEPT ![t] = "cycle"] /\ sub_ptr' = [sub_ptr EXCEPT ![t] = Nobody]
          \/ pc' = [pc EXCEPT ![t] = "destroy"] /\ UNCHANGED sub_ptr
      BY <1>11 DEF Release
    <2>4. TypeOK'
      BY <1>1, <2>1, <2>2, <2>3 DEF TypeOK, Weak, ClientLabels
    <2>5. CallInv'
      BY <1>1, <2>1, <2>2, <2>3 DEF TypeInv, CallInv, Inside
    <2> QED BY <2>2, <2>4, <2>5 DEF TypeInv
  <1>12. ASSUME NEW t \in Thread, NEW s \in Subscriber, Start(t, s) \/ Cancel(t, s) PROVE TypeInv'
    <2>1. UNCHANGED <<broker, brokerHeld, held, handling, consumed, calls, account>>
      BY <1>12 DEF Start, Cancel
    <2>2. CASE Start(t, s)
      <3>1. m_thread[s] = "unstarted" /\ m_thread' = [m_thread EXCEPT ![s] = "pop"] /\ m_events' = m_events
        BY <2>2 DEF Start
      <3>2. TypeOK'
        BY <1>1, <2>1, <3>1 DEF TypeOK, Weak, ThreadLabels
      <3>3. CallInv' /\ ThreadInv'
        BY <1>1, <2>1, <3>1 DEF TypeInv, CallInv, ThreadInv, Inside
      <3> QED BY <3>2, <3>3 DEF TypeInv
    <2>3. CASE Cancel(t, s)
      <3>1. m_events' = [m_events EXCEPT ![s] = Append(@, Null)] /\ m_thread' = m_thread
        BY <2>3 DEF Cancel
      <3>2. Append(m_events[s], Null) \in Seq(Event \cup {Null})
        BY <1>1
      <3>3. TypeOK'
        BY <1>1, <2>1, <3>1, <3>2 DEF TypeOK, Weak
      <3>4. CallInv' /\ ThreadInv'
        BY <1>1, <2>1, <3>1 DEF TypeInv, CallInv, ThreadInv, Inside
      <3> QED BY <3>3, <3>4 DEF TypeInv
    <2> QED BY <1>12, <2>2, <2>3
  <1>13. ASSUME NEW t \in Thread, NEW s \in Subscriber, Join(t, s) PROVE TypeInv'
    <2>1. /\ pc[t] = "idle" /\ sub_ptr' = [sub_ptr EXCEPT ![t] = s] /\ pc' = [pc EXCEPT ![t] = "join"]
          /\ UNCHANGED <<broker, brokerHeld, held, threads, event, vec_it, published, account>>
      BY <1>13 DEF Join
    <2>2. TypeOK'
      BY <1>1, <2>1 DEF TypeOK, Weak, ClientLabels
    <2>3. CallInv' /\ ThreadInv'
      BY <1>1, <2>1 DEF TypeInv, CallInv, ThreadInv, Inside
    <2> QED BY <2>2, <2>3 DEF TypeInv
  <1>14. ASSUME NEW t \in Thread, Joined(t) PROVE TypeInv'
    <2>1. /\ pc[t] = "join" /\ m_thread[sub_ptr[t]] = "done"
          /\ m_thread' = [m_thread EXCEPT ![sub_ptr[t]] = "joined"]
          /\ sub_ptr' = [sub_ptr EXCEPT ![t] = Nobody] /\ pc' = [pc EXCEPT ![t] = "idle"]
          /\ UNCHANGED <<broker, brokerHeld, held, m_events, handling, consumed, event, vec_it, published, account>>
      BY <1>14 DEF Joined
    <2>2. TypeOK'
      BY <1>1, <2>1 DEF TypeOK, Weak, ClientLabels, ThreadLabels
    <2>3. CallInv' /\ ThreadInv'
      BY <1>1, <2>1 DEF TypeInv, CallInv, ThreadInv, Inside
    <2> QED BY <2>2, <2>3 DEF TypeInv
  <1>15. ASSUME NEW t \in Thread, NEW s \in Subscriber, Drop(t, s) PROVE TypeInv'
    <2>1. /\ pc[t] = "idle" /\ held' = [held EXCEPT ![s] = FALSE]
          /\ UNCHANGED <<broker, brokerHeld, threads, event, vec_it, published, account>>
          /\ \/ UNCHANGED <<pc, sub_ptr>>
             \/ pc' = [pc EXCEPT ![t] = "destroy"] /\ sub_ptr' = [sub_ptr EXCEPT ![t] = s]
          /\ event[t] = Null
      BY <1>15 DEF Drop, TypeInv, CallInv
    <2>2. TypeOK'
      BY <1>1, <2>1 DEF TypeOK, Weak, ClientLabels
    <2>3. CallInv' /\ ThreadInv'
      BY <1>1, <2>1 DEF TypeInv, CallInv, ThreadInv, Inside
    <2> QED BY <2>2, <2>3 DEF TypeInv
  <1>16. ASSUME NEW t \in Thread, Destroyed(t) PROVE TypeInv'
    <2>1. /\ pc[t] = "destroy"
          /\ \/ /\ sub_ptr' = [sub_ptr EXCEPT ![t] = Nobody]
                /\ pc' = [pc EXCEPT ![t] = IF event[t] = Null THEN "idle" ELSE "cycle"]
             \/ sub_ptr' = sub_ptr /\ pc' = [pc EXCEPT ![t] = "crashed"]
          /\ UNCHANGED <<broker, brokerHeld, held, threads, event, vec_it, published, account>>
      BY <1>16 DEF Destroyed
    <2>2. TypeOK'
      BY <1>1, <2>1 DEF TypeOK, Weak, ClientLabels
    <2>3. CallInv' /\ ThreadInv'
      BY <1>1, <2>1 DEF TypeInv, CallInv, ThreadInv, Inside
    <2> QED BY <2>2, <2>3 DEF TypeInv
  <1>17. CASE DropBroker
    <2>1. brokerHeld' = FALSE /\ UNCHANGED <<broker, held, threads, calls, account>>
      BY <1>17 DEF DropBroker
    <2>2. TypeOK'
      BY <1>1, <2>1 DEF TypeOK, Weak
    <2>3. CallInv' /\ ThreadInv'
      BY <2>1 DEF TypeInv, CallInv, ThreadInv, Inside
    <2> QED BY <2>2, <2>3 DEF TypeInv
  <1>18. ASSUME NEW s \in Subscriber, Pop(s) PROVE TypeInv'
    <2>1. /\ m_thread[s] = "pop" /\ m_events[s] # <<>>
          /\ m_events' = [m_events EXCEPT ![s] = Tail(@)]
          /\ handling' = [handling EXCEPT ![s] = Head(m_events[s])]
          /\ m_thread' = [m_thread EXCEPT ![s] = IF Head(m_events[s]) = Null THEN "done" ELSE "consume"]
          /\ UNCHANGED <<broker, brokerHeld, held, consumed, calls, account>>
      BY <1>18 DEF Pop
    <2>2. Tail(m_events[s]) \in Seq(Event \cup {Null}) /\ Head(m_events[s]) \in Event \cup {Null}
      BY <1>1, <2>1, HeadTailProperties
    <2>3. TypeOK'
      BY <1>1, <2>1, <2>2 DEF TypeOK, Weak, ThreadLabels
    <2>4. CallInv'
      BY <2>1 DEF TypeInv, CallInv, Inside
    <2>5. ThreadInv'
      BY <1>1, <2>1, <2>2 DEF TypeInv, ThreadInv
    <2> QED BY <2>3, <2>4, <2>5 DEF TypeInv
  <1>19. ASSUME NEW s \in Subscriber, Consume(s) PROVE TypeInv'
    <2>1. /\ m_thread[s] = "consume" /\ consumed' = [consumed EXCEPT ![s] = Append(@, handling[s])]
          /\ handling' = [handling EXCEPT ![s] = Null] /\ m_thread' = [m_thread EXCEPT ![s] = "pop"]
          /\ UNCHANGED <<broker, brokerHeld, held, m_events, calls, account>>
      BY <1>19 DEF Consume
    <2>2. Append(consumed[s], handling[s]) \in Seq(Event)
      <3>1. handling[s] \in Event /\ consumed[s] \in Seq(Event)
        BY <1>1, <2>1 DEF TypeInv, ThreadInv
      <3> QED BY <3>1, AppendProperties
    <2>3. TypeOK'
      BY <1>1, <2>1, <2>2 DEF TypeOK, Weak, ThreadLabels
    <2>4. CallInv'
      BY <2>1 DEF TypeInv, CallInv, Inside
    <2>5. ThreadInv'
      BY <1>1, <2>1 DEF TypeInv, ThreadInv
    <2> QED BY <2>3, <2>4, <2>5 DEF TypeInv
  <1>20. CASE UNCHANGED vars
    BY <1>20 DEF vars, TypeInv, TypeOK, CallInv, ThreadInv, Inside
  <1> QED BY <1>4, <1>5, <1>6, <1>7, <1>8, <1>9, <1>10, <1>11, <1>12, <1>13, <1>14, <1>15, <1>16,
             <1>17, <1>18, <1>19, <1>20 DEF Next, ClientCall, ClientStep, SubscriberStep

\* Whatever the clients subscribe, cancel, stop and release: every variable keeps
\* its type, also after unsubscribe's erase; a call in progress holds the event, the
\* subscriber and a position inside the list that it goes on to use; a subscriber's
\* thread handles an event exactly while it consumes; and one thread at most is
\* between the lock and the unlock of the broker's mutex, which it owns.
THEOREM TypeCorrect == Spec => [](TypeInv /\ MutualExclusion)
  <1>1. TypeInv => MutualExclusion
    BY OneInside DEF MutualExclusion
  <1> QED BY <1>1, InitTypes, StepTypes, PTL DEF Spec

-------------------------------------------------------------------------------
(* What a subscriber has received and the order of it. *)

Occurs(s, e) == e \in ToSet(Received(s))
Ordered(P, e, f) == \E i, j \in DOMAIN P : i < j /\ P[i] = e /\ P[j] = f

\* An element appended comes after every other.
LEMMA AppendedOrder ==
  ASSUME NEW S, NEW P \in Seq(S), NEW x \in S
  PROVE  /\ \A e : e \in ToSet(Append(P, x)) <=> e \in ToSet(P) \/ e = x
         /\ \A e, f : Ordered(Append(P, x), e, f) => Ordered(P, e, f) \/ (f = x /\ e \in ToSet(P))
  <1> DEFINE Q == Append(P, x)
             n == Len(P)
  <1>1. /\ n \in Nat /\ DOMAIN P = 1 .. n /\ DOMAIN Q = 1 .. n + 1
        /\ Q[n + 1] = x /\ \A i \in 1 .. n : Q[i] = P[i]
    BY AppendProperties
  <1> HIDE DEF Q, n
  <1>2. \A i \in 1 .. n + 1 : i = n + 1 \/ i \in 1 .. n
    BY <1>1
  <1>3. \A e : e \in ToSet(Q) => e \in ToSet(P) \/ e = x
    BY <1>1, <1>2 DEF ToSet
  <1>4. \A e : e \in ToSet(P) \/ e = x => e \in ToSet(Q)
    <2>1. n + 1 \in 1 .. n + 1 /\ \A i \in 1 .. n : i \in 1 .. n + 1
      BY <1>1
    <2> QED BY <1>1, <2>1 DEF ToSet
  <1>5. ASSUME NEW e, NEW f, Ordered(Q, e, f) PROVE Ordered(P, e, f) \/ (f = x /\ e \in ToSet(P))
    <2>1. PICK i, j \in 1 .. n + 1 : i < j /\ Q[i] = e /\ Q[j] = f
      BY <1>1, <1>5 DEF Ordered
    <2>2. i \in 1 .. n
      BY <1>1, <2>1
    <2>3. P[i] = e /\ e \in ToSet(P)
      BY <1>1, <2>1, <2>2 DEF ToSet
    <2>4. CASE j = n + 1
      BY <1>1, <2>1, <2>3, <2>4
    <2>5. CASE j \in 1 .. n
      BY <1>1, <2>1, <2>2, <2>3, <2>5 DEF Ordered
    <2> QED BY <1>2, <2>4, <2>5
  <1> QED BY <1>3, <1>4, <1>5 DEF Q

\* Taking one element out leaves the others in their order.
LEMMA DroppedOrder ==
  ASSUME NEW S, NEW A \in Seq(S), NEW B \in Seq(S), NEW x \in S
  PROVE  /\ \A e : e \in ToSet(A \o B) => e \in ToSet(A \o (<<x>> \o B))
         /\ \A e, f : Ordered(A \o B, e, f) => Ordered(A \o (<<x>> \o B), e, f)
  <1> DEFINE B1 == <<x>> \o B
             P == A \o B1
             Q == A \o B
             a == Len(A)
             b == Len(B)
             At(i) == IF i <= a THEN i ELSE i + 1
  <1>1. <<x>> \in Seq(S) /\ Len(<<x>>) = 1
    OBVIOUS
  <1>2. /\ a \in Nat /\ b \in Nat /\ B1 \in Seq(S) /\ Len(B1) = b + 1
        /\ \A i \in 1 .. b : B1[i + 1] = B[i]
    <2>1. /\ B1 \in Seq(S) /\ Len(B1) = 1 + b
          /\ \A i \in 1 .. 1 + b : B1[i] = IF i <= 1 THEN <<x>>[i] ELSE B[i - 1]
      BY <1>1, ConcatProperties
    <2>2. a \in Nat /\ b \in Nat
      OBVIOUS
    <2> HIDE DEF B1, a, b
    <2>3. ASSUME NEW i \in 1 .. b PROVE B1[i + 1] = B[i]
      <3>1. i + 1 \in 1 .. 1 + b /\ ~(i + 1 <= 1) /\ (i + 1) - 1 = i
        BY <2>2
      <3> QED BY <2>1, <3>1
    <2> QED BY <2>1, <2>2, <2>3
  <1> HIDE DEF B1
  <1>3. /\ DOMAIN P = 1 .. a + b + 1
        /\ \A i \in 1 .. a + b + 1 : P[i] = IF i <= a THEN A[i] ELSE B1[i - a]
    <2>1. /\ P \in Seq(S) /\ Len(P) = a + Len(B1)
          /\ \A i \in 1 .. a + Len(B1) : P[i] = IF i <= a THEN A[i] ELSE B1[i - a]
      BY <1>2, ConcatProperties
    <2> HIDE DEF P, a, b
    <2>2. a + Len(B1) = a + b + 1
      BY <1>2
    <2> QED BY <2>1, <2>2
  <1>4. /\ DOMAIN Q = 1 .. a + b
        /\ \A i \in 1 .. a + b : Q[i] = IF i <= a THEN A[i] ELSE B[i - a]
    <2>1. /\ Q \in Seq(S) /\ Len(Q) = a + b
          /\ \A i \in 1 .. a + b : Q[i] = IF i <= a THEN A[i] ELSE B[i - a]
      BY ConcatProperties
    <2> HIDE DEF Q, a, b
    <2> QED BY <2>1
  <1> HIDE DEF P, Q, a, b
  <1>5. ASSUME NEW i \in 1 .. a + b PROVE At(i) \in 1 .. a + b + 1 /\ P[At(i)] = Q[i]
    <2>1. CASE i <= a
      <3>1. i \in 1 .. a + b + 1 /\ At(i) = i
        BY <1>2, <2>1
      <3> QED BY <1>3, <1>4, <2>1, <3>1
    <2>2. CASE ~(i <= a)
      <3>1. i + 1 \in 1 .. a + b + 1 /\ ~(i + 1 <= a) /\ i - a \in 1 .. b /\ (i + 1) - a = (i - a) + 1 /\ At(i) = i + 1
        BY <1>2, <2>2
      <3> QED BY <1>2, <1>3, <1>4, <2>2, <3>1
    <2> QED BY <2>1, <2>2
  <1>6. \A i, j \in 1 .. a + b : i < j => At(i) < At(j)
    BY <1>2
  <1> HIDE DEF At
  <1>7. \A e : e \in ToSet(Q) => e \in ToSet(P)
    BY <1>3, <1>4, <1>5 DEF ToSet
  <1>8. \A e, f : Ordered(Q, e, f) => Ordered(P, e, f)
    <2> SUFFICES ASSUME NEW e, NEW f, Ordered(Q, e, f) PROVE Ordered(P, e, f)
      OBVIOUS
    <2>1. PICK i, j \in 1 .. a + b : i < j /\ Q[i] = e /\ Q[j] = f
      BY <1>4 DEF Ordered
    <2>2. At(i) \in DOMAIN P /\ At(j) \in DOMAIN P /\ At(i) < At(j) /\ P[At(i)] = e /\ P[At(j)] = f
      BY <1>3, <1>5, <1>6, <2>1
    <2> QED BY <2>2 DEF Ordered
  <1> QED BY <1>7, <1>8 DEF P, Q, B1

ReceivedOK == \A s \in Subscriber : Received(s) \in Seq(Event \cup {Null})

LEMMA ReceivedType == TypeInv => ReceivedOK
  <1> SUFFICES ASSUME TypeInv, NEW s \in Subscriber PROVE Received(s) \in Seq(Event \cup {Null})
    BY DEF ReceivedOK
  <1> DEFINE S == Event \cup {Null}
             H == IF handling[s] = Null THEN <<>> ELSE <<handling[s]>>
  <1>1. consumed[s] \in Seq(S)
    <2>1. consumed[s] \in Seq(Event) /\ Event \subseteq S
      BY DEF TypeInv, TypeOK
    <2> QED BY <2>1, SeqMonotonic
  <1>2. handling[s] \in S /\ m_events[s] \in Seq(S)
    BY DEF TypeInv, TypeOK
  <1> HIDE DEF S
  <1>3. H \in Seq(S)
    BY <1>2
  <1>4. Received(s) = (consumed[s] \o H) \o m_events[s]
    BY DEF Received
  <1> HIDE DEF H
  <1> QED BY <1>1, <1>2, <1>3, <1>4, ConcatProperties DEF S

\* What a step does to the sequence of a subscriber: nothing, or it grows by the
\* null event or by the event of the thread that notifies, or loses a null event.
LEMMA ReceivedChanges ==
  ASSUME TypeInv, [Next]_vars, NEW s \in Subscriber
  PROVE  /\ Received(s) \in Seq(Event \cup {Null})
         /\ \/ Received(s)' = Received(s)
            \/ Received(s)' = Append(Received(s), Null)
            \/ \E t \in Thread : pc[t] = "lock" /\ event[t] \in Event /\ Received(s)' = Append(Received(s), event[t])
            \/ \E A, B \in Seq(Event \cup {Null}) : Received(s) = A \o (<<Null>> \o B) /\ Received(s)' = A \o B
  <1> DEFINE S == Event \cup {Null}
             C == consumed[s]
             M == m_events[s]
             H == IF handling[s] = Null THEN <<>> ELSE <<handling[s]>>
             P == Received(s)
  <1> USE DEF threads
  <1>1. /\ m_events \in [Subscriber -> Seq(Event \cup {Null})] /\ handling \in [Subscriber -> Event \cup {Null}]
        /\ consumed \in [Subscriber -> Seq(Event)]
    BY DEF TypeInv, TypeOK
  <1>2. C \in Seq(S) /\ M \in Seq(S) /\ H \in Seq(S) /\ Null \in S /\ handling[s] \in S
    <2>1. C \in Seq(S)
      <3>1. C \in Seq(Event) /\ Event \subseteq S
        BY <1>1
      <3> QED BY <3>1, SeqMonotonic
    <2>2. handling[s] \in S /\ M \in Seq(S)
      BY <1>1
    <2> HIDE DEF S
    <2>3. H \in Seq(S)
      BY <2>2
    <2> QED BY <2>1, <2>2, <2>3 DEF S
  <1>3. P = (C \o H) \o M
    BY DEF Received
  <1> DEFINE CH == C \o H
  <1>4. CH \in Seq(S) /\ P \in Seq(S) /\ P = CH \o M
    BY <1>2, <1>3, ConcatProperties
  <1>5. Received(s)' = (consumed'[s] \o (IF handling'[s] = Null THEN <<>> ELSE <<handling'[s]>>)) \o m_events'[s]
    BY DEF Received
  <1> HIDE DEF S, P, C, H, M, CH
  <1>6. ASSUME consumed'[s] = consumed[s], handling'[s] = handling[s], m_events'[s] = m_events[s]
        PROVE  Received(s)' = P
    BY <1>3, <1>5, <1>6 DEF C, H, M
  <1>7. ASSUME NEW e \in S, consumed'[s] = consumed[s], handling'[s] = handling[s], m_events'[s] = Append(m_events[s], e)
        PROVE  Received(s)' = Append(P, e)
    <2>1. Received(s)' = CH \o Append(M, e)
      BY <1>5, <1>7 DEF C, H, M, CH
    <2>2. <<e>> \in Seq(S)
      OBVIOUS
    <2>3. Append(M, e) = M \o <<e>> /\ Append(P, e) = P \o <<e>>
      BY <1>2, <1>4, AppendIsConcat
    <2>4. (CH \o M) \o <<e>> = CH \o (M \o <<e>>)
      BY <1>2, <1>4, <2>2, ConcatAssociative
    <2> QED BY <1>4, <2>1, <2>3, <2>4
  <1> DEFINE Grown == \E t \in Thread : pc[t] = "lock" /\ event[t] \in Event /\ Received(s)' = Append(P, event[t])
             Shrunk == \E A, B \in Seq(S) : P = A \o (<<Null>> \o B) /\ Received(s)' = A \o B
             Goal == Received(s)' = P \/ Received(s)' = Append(P, Null) \/ Grown \/ Shrunk
  <1>8. ASSUME NEW t \in Thread, Lock(t) PROVE Goal
    <2>1. /\ pc[t] = "lock" /\ UNCHANGED <<consumed, handling>> /\ event[t] \in Event
          /\ \/ m_events' = m_events
             \/ \E r : m_events' = [m_events EXCEPT ![r] = Append(@, event[t])]
      BY <1>8 DEF Lock, TypeInv, CallInv
    <2>2. m_events'[s] = m_events[s] \/ m_events'[s] = Append(m_events[s], event[t])
      BY <1>1, <2>1
    <2>3. CASE m_events'[s] = m_events[s]
      BY <1>6, <2>1, <2>3
    <2>4. CASE m_events'[s] = Append(m_events[s], event[t])
      <3>1. event[t] \in S
        BY <2>1 DEF S
      <3>2. PICK e \in S : e = event[t]
        BY <3>1
      <3>3. Received(s)' = Append(P, e)
        BY <1>7, <2>1, <2>4, <3>2
      <3>4. Grown
        BY <2>1, <3>2, <3>3
      <3> QED BY <3>4
    <2> QED BY <2>2, <2>3, <2>4
  <1>9. ASSUME NEW t \in Thread, NEW r \in Subscriber, Cancel(t, r) PROVE Goal
    <2>1. UNCHANGED <<consumed, handling>> /\ m_events' = [m_events EXCEPT ![r] = Append(@, Null)]
      BY <1>9 DEF Cancel
    <2>2. CASE s # r
      BY <1>1, <1>6, <2>1, <2>2
    <2>3. CASE s = r
      <3>1. Received(s)' = Append(P, Null)
        BY <1>1, <1>2, <1>7, <2>1, <2>3
      <3> QED BY <3>1
    <2> QED BY <2>2, <2>3
  <1>10. ASSUME NEW r \in Subscriber, Pop(r) PROVE Goal
    <2>1. /\ m_thread[r] = "pop" /\ m_events[r] # <<>> /\ consumed' = consumed
          /\ m_events' = [m_events EXCEPT ![r] = Tail(@)]
          /\ handling' = [handling EXCEPT ![r] = Head(m_events[r])]
          /\ handling[r] = Null
      BY <1>10 DEF Pop, TypeInv, ThreadInv
    <2>2. CASE s # r
      BY <1>1, <1>6, <2>1, <2>2
    <2>3. CASE s = r
      <3> DEFINE T == Tail(M)
                 x == Head(M)
      <3>1. M # <<>> /\ m_events'[s] = T /\ handling'[s] = x /\ H = <<>> /\ consumed'[s] = C
        BY <1>1, <2>1, <2>3 DEF M, H, C
      <3>2. T \in Seq(S) /\ x \in S /\ <<x>> \in Seq(S)
        BY <1>2, <3>1, HeadTailProperties
      <3>3. M = <<x>> \o T
        <4>1. Len(M) \in Nat \ {0}
          BY <1>2, <3>1, EmptySeq
        <4>2. /\ Len(T) = Len(M) - 1 /\ \A i \in 1 .. Len(M) - 1 : T[i] = M[i + 1]
          BY <1>2, <3>1, HeadTailProperties
        <4>3. /\ <<x>> \o T \in Seq(S) /\ Len(<<x>> \o T) = 1 + Len(T)
              /\ \A i \in 1 .. 1 + Len(T) : (<<x>> \o T)[i] = IF i <= 1 THEN <<x>>[i] ELSE T[i - 1]
          BY <3>2, ConcatProperties
        <4>4. <<x>>[1] = M[1]
          OBVIOUS
        <4> HIDE DEF T, x
        <4>5. Len(M) = Len(<<x>> \o T)
          BY <4>1, <4>2, <4>3
        <4>6. ASSUME NEW i \in 1 .. Len(M) PROVE M[i] = (<<x>> \o T)[i]
          <5>1. CASE i = 1
            BY <4>1, <4>2, <4>3, <4>4, <5>1
          <5>2. CASE i # 1
            <6>1. i - 1 \in 1 .. Len(M) - 1 /\ (i - 1) + 1 = i /\ ~(i <= 1) /\ i \in 1 .. 1 + Len(T)
              BY <4>1, <4>2, <5>2
            <6> QED BY <4>2, <4>3, <6>1
          <5> QED BY <5>1, <5>2
        <4> QED BY <1>2, <4>3, <4>5, <4>6, SeqEqual
      <3> HIDE DEF T, x
      <3>4. C \o H = C
        BY <1>2, <3>1, ConcatEmptySeq
      <3>5. P = C \o (<<x>> \o T)
        BY <1>4, <3>3, <3>4 DEF CH
      <3>6. CASE x = Null
        <4>1. Received(s)' = (C \o <<>>) \o T
          BY <1>5, <3>1, <3>6
        <4>2. Received(s)' = C \o T
          BY <1>2, <4>1, ConcatEmptySeq
        <4>3. Shrunk
          BY <1>2, <3>2, <3>5, <3>6, <4>2
        <4> QED BY <4>3
      <3>7. CASE x # Null
        <4>1. Received(s)' = (C \o <<x>>) \o T
          BY <1>5, <3>1, <3>7
        <4>2. (C \o <<x>>) \o T = C \o (<<x>> \o T)
          BY <1>2, <3>2, ConcatAssociative
        <4> QED BY <3>5, <4>1, <4>2
      <3> QED BY <3>6, <3>7
    <2> QED BY <2>2, <2>3
  <1>11. ASSUME NEW r \in Subscriber, Consume(r) PROVE Goal
    <2>1. /\ m_thread[r] = "consume" /\ consumed' = [consumed EXCEPT ![r] = Append(@, handling[r])]
          /\ handling' = [handling EXCEPT ![r] = Null] /\ m_events' = m_events
          /\ handling[r] # Null
      BY <1>11 DEF Consume, TypeInv, ThreadInv
    <2>2. CASE s # r
      BY <1>1, <1>6, <2>1, <2>2
    <2>3. CASE s = r
      <3>1. consumed'[s] = Append(C, handling[s]) /\ handling'[s] = Null /\ m_events'[s] = M /\ H = <<handling[s]>>
        BY <1>1, <2>1, <2>3 DEF C, M, H
      <3>2. consumed'[s] = CH
        BY <1>2, <3>1, AppendIsConcat DEF CH
      <3>3. Received(s)' = (CH \o <<>>) \o M
        BY <1>5, <3>1, <3>2
      <3>4. Received(s)' = P
        BY <1>4, <3>3, ConcatEmptySeq
      <3> QED BY <3>4
    <2> QED BY <2>2, <2>3
  <1>12. ASSUME UNCHANGED <<consumed, handling, m_events>> PROVE Goal
    BY <1>6, <1>12
  <1> HIDE DEF Goal
  <1>13. Goal
    <2>1. UNCHANGED <<consumed, handling, m_events>> \/ (\E t \in Thread : Lock(t))
          \/ (\E t \in Thread, r \in Subscriber : Cancel(t, r)) \/ (\E r \in Subscriber : Pop(r) \/ Consume(r))
      BY DEF Next, ClientCall, ClientStep, SubscriberStep, vars, Subscribe, Unsubscribe, Publish, BrokerExpired,
             LockBroker, Enter, Cycle, Release, Start, Join, Joined, Drop, Destroyed, DropBroker
    <2> QED BY <1>8, <1>9, <1>10, <1>11, <1>12, <2>1
  <1> QED BY <1>4, <1>13 DEF Goal, P, S

\* A step adds at most one element behind what a subscriber received: a null
\* event, or the event of the thread that notifies.  What is there keeps its order.
LEMMA ReceivedStep ==
  ASSUME TypeInv, [Next]_vars, NEW s \in Subscriber
  PROVE  /\ \A e : Occurs(s, e)' => \/ Occurs(s, e) \/ e = Null
                                    \/ \E t \in Thread : pc[t] = "lock" /\ e = event[t]
         /\ \A e, f : Before(s, e, f)' => \/ Before(s, e, f) \/ f = Null
                                          \/ \E t \in Thread : pc[t] = "lock" /\ f = event[t] /\ Occurs(s, e)
  <1> DEFINE S == Event \cup {Null}
  <1>1. PICK P \in Seq(S) : P = Received(s)
    BY ReceivedChanges
  <1>2. PICK Q : Q = Received(s)'
    OBVIOUS
  <1>3. \/ Q = P
        \/ Q = Append(P, Null)
        \/ \E t \in Thread : pc[t] = "lock" /\ event[t] \in Event /\ Q = Append(P, event[t])
        \/ \E A, B \in Seq(S) : P = A \o (<<Null>> \o B) /\ Q = A \o B
    BY <1>1, <1>2, ReceivedChanges
  <1>4. /\ \A e : (Occurs(s, e) <=> e \in ToSet(P)) /\ (Occurs(s, e)' <=> e \in ToSet(Q))
        /\ \A e, f : (Before(s, e, f) <=> Ordered(P, e, f)) /\ (Before(s, e, f)' <=> Ordered(Q, e, f))
    BY <1>1, <1>2 DEF Occurs, Before, Ordered
  <1>5. Null \in S /\ Event \subseteq S
    OBVIOUS
  <1> HIDE DEF S
  <1>6. CASE Q = P
    BY <1>4, <1>6
  <1>7. CASE Q = Append(P, Null)
    <2>1. /\ \A e : e \in ToSet(Q) => e \in ToSet(P) \/ e = Null
          /\ \A e, f : Ordered(Q, e, f) => Ordered(P, e, f) \/ (f = Null /\ e \in ToSet(P))
      BY <1>5, <1>7, AppendedOrder
    <2> QED BY <1>4, <2>1
  <1>8. CASE \E t \in Thread : pc[t] = "lock" /\ event[t] \in Event /\ Q = Append(P, event[t])
    <2>1. PICK t \in Thread : pc[t] = "lock" /\ event[t] \in S /\ Q = Append(P, event[t])
      BY <1>5, <1>8
    <2>2. /\ \A e : e \in ToSet(Q) => e \in ToSet(P) \/ e = event[t]
          /\ \A e, f : Ordered(Q, e, f) => Ordered(P, e, f) \/ (f = event[t] /\ e \in ToSet(P))
      BY <2>1, AppendedOrder
    <2> QED BY <1>4, <2>1, <2>2
  <1>9. CASE \E A, B \in Seq(S) : P = A \o (<<Null>> \o B) /\ Q = A \o B
    <2>1. /\ \A e : e \in ToSet(Q) => e \in ToSet(P)
          /\ \A e, f : Ordered(Q, e, f) => Ordered(P, e, f)
      BY <1>5, <1>9, DroppedOrder
    <2> QED BY <1>4, <2>1
  <1> QED BY <1>3, <1>6, <1>7, <1>8, <1>9

-------------------------------------------------------------------------------
(* The order in which subscribers receive. *)

Fresh(t) == pc[t] \in {"expired", "lockBroker", "enter"}

\* Published events have their own numbers, nobody has received one that is not
\* yet being notified, and behind the one being notified comes no other.
NumberInv ==
  /\ \A t \in Thread : event[t] # Null => event[t].id <= published
  /\ \A s \in Subscriber : \A e : Occurs(s, e) /\ e # Null => e.id <= published
  /\ \A t, u \in Thread : t # u /\ event[t] # Null => event[t] # event[u]
FreshInv == \A s \in Subscriber, t \in Thread : Fresh(t) => ~Occurs(s, event[t])
SuffixInv == \A s \in Subscriber, t \in Thread : \A f :
               Inside(t) /\ Before(s, event[t], f) => f \in {event[t], Null}

OrderInv == TypeInv /\ NumberInv /\ FreshInv /\ SuffixInv /\ SameOrder

\* Which steps give a thread an event, and when it goes inside.
LEMMA EventSteps ==
  ASSUME TypeInv, [Next]_vars
  PROVE  /\ \/ \E t \in Thread, y \in Type : Publish(t, y)
            \/ /\ published' = published
               /\ \A t \in Thread : /\ event'[t] \in {event[t], Null}
                                    /\ Fresh(t)' => Fresh(t) /\ event'[t] = event[t]
         /\ \A t \in Thread : Inside(t)' => event'[t] = event[t] /\ (Inside(t) \/ pc[t] = "enter")
  <1> USE DEF Goto, broker, threads, calls, account
  <1>1. /\ pc \in [Thread -> ClientLabels] /\ event \in [Thread -> Event \cup {Null}]
        /\ \A t \in Thread : pc[t] = "idle" => event[t] = Null
    BY DEF TypeInv, TypeOK, CallInv
  <1> DEFINE Keeps == /\ published' = published
                      /\ \A t \in Thread : /\ event'[t] \in {event[t], Null}
                                           /\ Fresh(t)' => Fresh(t) /\ event'[t] = event[t]
             Enters == \A t \in Thread : Inside(t)' => event'[t] = event[t] /\ (Inside(t) \/ pc[t] = "enter")
  <1>2. ASSUME NEW t \in Thread, NEW y \in Type, Publish(t, y) PROVE Enters
    BY <1>1, <1>2 DEF Publish, Inside
  <1>3. ASSUME NEW t \in Thread, NEW s \in Subscriber, NEW types \in SUBSET Type,
               Subscribe(t, s, types) \/ Unsubscribe(t, s, types)
        PROVE Keeps /\ Enters
    <2>1. CASE Subscribe(t, s, types)
      BY <1>1, <2>1 DEF Subscribe, Inside, Fresh
    <2>2. CASE Unsubscribe(t, s, types)
      <3>1. event' = event /\ published' = published /\ (pc' = pc \/ pc' = [pc EXCEPT ![t] = "crashed"])
        BY <2>2 DEF Unsubscribe
      <3> QED BY <1>1, <3>1 DEF Inside, Fresh
    <2> QED BY <1>3, <2>1, <2>2
  <1>4. ASSUME NEW t \in Thread, NEW s \in Subscriber, Start(t, s) \/ Cancel(t, s) \/ Join(t, s) \/ Drop(t, s)
        PROVE Keeps /\ Enters
    <2>1. CASE Start(t, s) \/ Cancel(t, s)
      BY <1>1, <2>1 DEF Start, Cancel, Inside, Fresh
    <2>2. CASE Join(t, s)
      BY <1>1, <2>2 DEF Join, Inside, Fresh
    <2>3. CASE Drop(t, s)
      <3>1. /\ event' = event /\ published' = published /\ pc[t] = "idle"
            /\ pc' = pc \/ pc' = [pc EXCEPT ![t] = "destroy"]
        BY <2>3 DEF Drop
      <3> QED BY <1>1, <3>1 DEF Inside, Fresh
    <2> QED BY <1>4, <2>1, <2>2, <2>3
  <1>5. ASSUME NEW t \in Thread, BrokerExpired(t) \/ LockBroker(t) \/ Enter(t) PROVE Keeps /\ Enters
    <2>1. CASE BrokerExpired(t)
      BY <1>1, <2>1 DEF BrokerExpired, Inside, Fresh
    <2>2. CASE LockBroker(t)
      BY <1>1, <2>2 DEF LockBroker, Inside, Fresh
    <2>3. CASE Enter(t)
      BY <1>1, <2>3 DEF Enter, Inside, Fresh
    <2> QED BY <1>5, <2>1, <2>2, <2>3
  <1>6. ASSUME NEW t \in Thread, Cycle(t) PROVE Keeps /\ Enters
    <2>1. /\ published' = published /\ pc[t] = "cycle"
          /\ \/ pc' = [pc EXCEPT ![t] = "idle"] /\ event' = [event EXCEPT ![t] = Null]
             \/ pc' = [pc EXCEPT ![t] = "lock"] /\ event' = event
             \/ pc' = pc /\ event' = event
      BY <1>6 DEF Cycle, Leave
    <2> QED BY <1>1, <2>1 DEF Inside, Fresh
  <1>7. ASSUME NEW t \in Thread, Lock(t) PROVE Keeps /\ Enters
    <2>1. /\ published' = published /\ event' = event /\ pc[t] = "lock"
          /\ pc' = [pc EXCEPT ![t] = "release"] \/ pc' = [pc EXCEPT ![t] = "crashed"]
      BY <1>7 DEF Lock
    <2> QED BY <1>1, <2>1 DEF Inside, Fresh
  <1>8. ASSUME NEW t \in Thread, Release(t) \/ Joined(t) \/ Destroyed(t) PROVE Keeps /\ Enters
    <2>1. CASE Release(t)
      <3>1. /\ published' = published /\ event' = event /\ pc[t] = "release"
            /\ pc' = [pc EXCEPT ![t] = "cycle"] \/ pc' = [pc EXCEPT ![t] = "destroy"]
        BY <2>1 DEF Release
      <3> QED BY <1>1, <3>1 DEF Inside, Fresh
    <2>2. CASE Joined(t)
      BY <1>1, <2>2 DEF Joined, Inside, Fresh
    <2>3. CASE Destroyed(t)
      BY <1>1, <2>3 DEF Destroyed, Inside, Fresh
    <2> QED BY <1>8, <2>1, <2>2, <2>3
  <1>9. ASSUME (\E s \in Subscriber : SubscriberStep(s)) \/ DropBroker \/ UNCHANGED vars PROVE Keeps /\ Enters
    BY <1>1, <1>9 DEF SubscriberStep, Pop, Consume, DropBroker, vars, Inside, Fresh
  <1>10. \/ \E t \in Thread, y \in Type : Publish(t, y)
         \/ \E t \in Thread, s \in Subscriber, types \in SUBSET Type : Subscribe(t, s, types) \/ Unsubscribe(t, s, types)
         \/ \E t \in Thread, s \in Subscriber : Start(t, s) \/ Cancel(t, s) \/ Join(t, s) \/ Drop(t, s)
         \/ \E t \in Thread : BrokerExpired(t) \/ LockBroker(t) \/ Enter(t)
         \/ \E t \in Thread : Cycle(t)
         \/ \E t \in Thread : Lock(t)
         \/ \E t \in Thread : Release(t) \/ Joined(t) \/ Destroyed(t)
         \/ (\E s \in Subscriber : SubscriberStep(s)) \/ DropBroker \/ UNCHANGED vars
    BY DEF Next, ClientCall, ClientStep
  <1> HIDE DEF Keeps, Enters
  <1>11. (\E t \in Thread, y \in Type : Publish(t, y)) \/ Keeps
    BY <1>3, <1>4, <1>5, <1>6, <1>7, <1>8, <1>9, <1>10
  <1>12. Enters
    BY <1>2, <1>3, <1>4, <1>5, <1>6, <1>7, <1>8, <1>9, <1>10
  <1> QED BY <1>11, <1>12 DEF Keeps, Enters

LEMMA InitOrder == Init => OrderInv
  <1> SUFFICES ASSUME Init PROVE OrderInv
    OBVIOUS
  <1>1. TypeInv
    BY InitTypes
  <1>2. \A s \in Subscriber : Received(s) = <<>>
    <2>1. \A s \in Subscriber : Received(s) = (<<>> \o <<>>) \o <<>>
      BY DEF Init, Received
    <2>2. <<>> \o <<>> = <<>>
      BY ConcatEmptySeq, EmptySeq
    <2> QED BY <2>1, <2>2
  <1>3. \A s \in Subscriber : (\A e : ~Occurs(s, e)) /\ \A e, f : ~Before(s, e, f)
    BY <1>2 DEF Occurs, Before, ToSet
  <1>4. \A t \in Thread : event[t] = Null /\ pc[t] = "idle"
    BY DEF Init
  <1> QED BY <1>1, <1>3, <1>4 DEF OrderInv, NumberInv, FreshInv, SuffixInv, SameOrder, Inside, Fresh

LEMMA BeforeOccurs == \A s, e, f : Before(s, e, f) => Occurs(s, e) /\ Occurs(s, f)
  BY DEF Before, Occurs, ToSet

LEMMA StepOrder == OrderInv /\ [Next]_vars => OrderInv'
  <1> SUFFICES ASSUME OrderInv, [Next]_vars PROVE OrderInv'
    OBVIOUS
  <1>1. TypeInv /\ NumberInv /\ FreshInv /\ SuffixInv /\ SameOrder /\ TypeInv'
    BY StepTypes DEF OrderInv
  <1>2. \A t \in Thread : /\ pc[t] = "lock" => Inside(t) /\ event[t] \in Event
                          /\ Fresh(t) \/ Inside(t) => event[t] \in Event \cup {Null}
                          /\ Fresh(t) => event[t] \in Event
    BY <1>1 DEF TypeInv, TypeOK, CallInv, Fresh, Inside
  <1>3. \A t, u \in Thread : Inside(t) /\ Inside(u) => t = u
    BY <1>1, OneInside
  <1>4. ASSUME NEW s \in Subscriber
        PROVE  /\ \A e : Occurs(s, e)' => \/ Occurs(s, e) \/ e = Null
                                          \/ \E t \in Thread : pc[t] = "lock" /\ e = event[t]
               /\ \A e, f : Before(s, e, f)' => \/ Before(s, e, f) \/ f = Null
                                                \/ \E t \in Thread : pc[t] = "lock" /\ f = event[t] /\ Occurs(s, e)
    BY <1>1, ReceivedStep
  <1>5. /\ \/ \E t \in Thread, y \in Type : Publish(t, y)
           \/ /\ published' = published
              /\ \A t \in Thread : /\ event'[t] \in {event[t], Null}
                                   /\ Fresh(t)' => Fresh(t) /\ event'[t] = event[t]
        /\ \A t \in Thread : Inside(t)' => event'[t] = event[t] /\ (Inside(t) \/ pc[t] = "enter")
    BY <1>1, EventSteps
  <1>6. Null \notin Event /\ published \in Nat
    BY <1>1, NullAssumption, PubSubAssumption DEF TypeInv, TypeOK
  <1>7. \A s \in Subscriber : \A e : Occurs(s, e)' /\ e # Null => e.id <= published
    BY <1>1, <1>2, <1>4, <1>6 DEF NumberInv
  <1>8. ASSUME \E t \in Thread, y \in Type : Publish(t, y) PROVE NumberInv' /\ FreshInv'
    <2>1. PICK t \in Thread, y \in Type : Publish(t, y)
      BY <1>8
    <2> DEFINE x == [id |-> published + 1, type |-> y]
    <2>2. /\ published' = published + 1 /\ event'[t] = x /\ x.id = published + 1
          /\ \A u \in Thread : u # t => event'[u] = event[u] /\ pc'[u] = pc[u]
      BY <1>1, <2>1 DEF Publish, Goto, TypeInv, TypeOK
    <2>3. \A u \in Thread : event[u] # Null => event[u].id \in Nat /\ event[u].id <= published /\ event[u].id # x.id
      <3>1. \A u \in Thread : event[u] # Null => event[u] \in Event
        BY <1>1 DEF TypeInv, TypeOK
      <3>2. \A e \in Event : e.id \in Nat
        BY PubSubAssumption DEF Event
      <3> QED BY <1>1, <1>6, <2>2, <3>1, <3>2 DEF NumberInv
    <2>4. x # Null
      BY <1>1, <2>2, <2>1, <1>6 DEF TypeInv, TypeOK, Publish, Event
    <2> HIDE DEF x
    <2>5. NumberInv'
      <3>1. \A u \in Thread : event'[u] # Null => event'[u].id <= published + 1
        <4> SUFFICES ASSUME NEW u \in Thread, event'[u] # Null PROVE event'[u].id <= published + 1
          OBVIOUS
        <4>1. CASE u = t
          BY <1>6, <2>2, <4>1
        <4>2. CASE u # t
          BY <1>6, <2>2, <2>3, <4>2
        <4> QED BY <4>1, <4>2
      <3>2. \A s \in Subscriber : \A e : Occurs(s, e)' /\ e # Null => e.id <= published'
        <4> SUFFICES ASSUME NEW s \in Subscriber, NEW e, Occurs(s, e)', e # Null PROVE e.id <= published + 1
          BY <2>2
        <4>1. e \in Event \cup {Null}
          <5>1. ReceivedOK'
            BY <1>1, ReceivedType, PTL
          <5>2. PICK Q \in Seq(Event \cup {Null}) : Q = Received(s)'
            BY <5>1 DEF ReceivedOK
          <5>3. \A i \in DOMAIN Q : Q[i] \in Event \cup {Null}
            OBVIOUS
          <5> QED BY <5>2, <5>3 DEF Occurs, ToSet
        <4>2. e.id \in Nat /\ e.id <= published
          BY <1>7, <4>1, PubSubAssumption DEF Event
        <4> QED BY <1>6, <4>2
      <3>3. \A u, v \in Thread : u # v /\ event'[u] # Null => event'[u] # event'[v]
        BY <1>1, <2>2, <2>3, <2>4 DEF NumberInv
      <3> QED BY <2>2, <3>1, <3>2, <3>3 DEF NumberInv
    <2>6. FreshInv'
      <3> SUFFICES ASSUME NEW s \in Subscriber, NEW u \in Thread, Fresh(u)', Occurs(s, event[u])' PROVE FALSE
        BY DEF FreshInv
      <3>1. CASE u = t
        <4>1. x.id <= published
          BY <1>7, <2>2, <2>4, <3>1
        <4> QED BY <1>6, <2>2, <4>1
      <3>2. CASE u # t
        <4>1. Fresh(u) /\ event'[u] = event[u]
          BY <2>2, <3>2 DEF Fresh
        <4>2. PICK e : e = event[u]
          OBVIOUS
        <4>3. Occurs(s, e)' /\ ~Occurs(s, e) /\ e # Null /\ \A v \in Thread : pc[v] = "lock" => e # event[v]
          BY <1>1, <1>2, <1>6, <4>1, <4>2 DEF FreshInv, NumberInv, Fresh
        <4> QED BY <1>4, <4>3
      <3> QED BY <3>1, <3>2
    <2> QED BY <2>5, <2>6
  <1>9. ASSUME /\ published' = published
               /\ \A t \in Thread : /\ event'[t] \in {event[t], Null}
                                    /\ Fresh(t)' => Fresh(t) /\ event'[t] = event[t]
        PROVE  NumberInv' /\ FreshInv'
    <2>1. NumberInv'
      <3>1. \A s \in Subscriber : \A e : Occurs(s, e)' /\ e # Null => e.id <= published'
        BY <1>7, <1>9
      <3>2. \A t, u \in Thread : t # u /\ event'[t] # Null => event'[t] # event'[u]
        BY <1>1, <1>9 DEF NumberInv
      <3>3. \A t \in Thread : event'[t] # Null => event'[t].id <= published'
        BY <1>1, <1>9 DEF NumberInv
      <3> QED BY <3>1, <3>2, <3>3 DEF NumberInv
    <2>2. FreshInv'
      <3> SUFFICES ASSUME NEW s \in Subscriber, NEW u \in Thread, Fresh(u)', Occurs(s, event[u])' PROVE FALSE
        BY DEF FreshInv
      <3>1. Fresh(u) /\ event'[u] = event[u]
        BY <1>9
      <3>2. PICK e : e = event[u]
        OBVIOUS
      <3>3. Occurs(s, e)' /\ ~Occurs(s, e) /\ e # Null /\ \A v \in Thread : pc[v] = "lock" => e # event[v]
        BY <1>1, <1>2, <1>6, <3>1, <3>2 DEF FreshInv, NumberInv, Fresh
      <3> QED BY <1>4, <3>3
    <2> QED BY <2>1, <2>2
  <1>10. SuffixInv'
    <2> SUFFICES ASSUME NEW s \in Subscriber, NEW t \in Thread, NEW f, Inside(t)', Before(s, event[t], f)'
                 PROVE  f \in {event[t], Null}'
      BY DEF SuffixInv
    <2>1. PICK e : e = event[t]
      OBVIOUS
    <2>2. event'[t] = e /\ (Inside(t) \/ pc[t] = "enter") /\ Before(s, e, f)'
      BY <1>5, <2>1
    <2>3. \/ Before(s, e, f) \/ f = Null
          \/ \E u \in Thread : pc[u] = "lock" /\ f = event[u] /\ Occurs(s, e)
      BY <1>4, <2>2
    <2>4. CASE Inside(t)
      <3>1. \A u \in Thread : pc[u] = "lock" => event[u] = e
        BY <1>2, <1>3, <2>1, <2>4
      <3> QED BY <1>1, <2>1, <2>2, <2>3, <2>4, <3>1 DEF SuffixInv
    <2>5. CASE pc[t] = "enter"
      <3>1. ~Occurs(s, e)
        BY <1>1, <2>1, <2>5 DEF FreshInv, Fresh
      <3> QED BY <2>2, <2>3, <3>1, BeforeOccurs
    <2> QED BY <2>2, <2>4, <2>5
  <1>11. SameOrder'
    <2> SUFFICES ASSUME NEW s \in Subscriber, NEW r \in Subscriber, NEW e, NEW f, e # Null, f # Null, e # f,
                        Before(s, e, f)', Before(r, f, e)'
                 PROVE  FALSE
      BY DEF SameOrder
    <2>1. Before(s, e, f) \/ \E t \in Thread : pc[t] = "lock" /\ f = event[t]
      BY <1>4
    <2>2. Before(r, f, e) \/ \E t \in Thread : pc[t] = "lock" /\ e = event[t]
      BY <1>4
    <2>3. CASE Before(s, e, f) /\ Before(r, f, e)
      <3>1. e \in ToSet(Received(s)) \ {Null} /\ f \in ToSet(Received(s)) \ {Null}
        BY <2>3, BeforeOccurs DEF Occurs
      <3> QED BY <1>1, <2>3, <3>1 DEF SameOrder
    <2>4. ASSUME NEW t \in Thread, pc[t] = "lock", f = event[t] PROVE FALSE
      <3>1. Inside(t)
        BY <1>2, <2>4
      <3>2. ~Before(r, f, e)
        BY <1>1, <2>4, <3>1 DEF SuffixInv
      <3> QED BY <1>2, <1>3, <2>2, <2>4, <3>1, <3>2
    <2>5. ASSUME NEW t \in Thread, pc[t] = "lock", e = event[t] PROVE FALSE
      <3>1. Inside(t)
        BY <1>2, <2>5
      <3>2. ~Before(s, e, f)
        BY <1>1, <2>5, <3>1 DEF SuffixInv
      <3> QED BY <2>1, <2>4, <3>2
    <2> QED BY <2>1, <2>2, <2>3, <2>4, <2>5
  <1> QED BY <1>1, <1>5, <1>8, <1>9, <1>10, <1>11 DEF OrderInv

\* SameOrder: any two subscribers receive the events they both receive in one
\* order, whatever threads publish, because PubSubBroker::notifySubscribers holds
\* the broker's mutex until it has appended the event to every queue.
THEOREM OrderCorrect == Spec => []SameOrder
  <1>1. OrderInv => SameOrder
    BY DEF OrderInv
  <1> QED BY <1>1, InitOrder, StepOrder, PTL DEF Spec

-------------------------------------------------------------------------------
(* What reaches a subscriber's queue before it is cancelled is consumed. *)

\* e stands in a queue with no null event before it.
Reaches(M, e) == \E i \in DOMAIN M : M[i] = e /\ \A j \in 1 .. i : M[j] # Null

\* The subscriber has consumed e or will before its thread ends.
Delivered(s, e) ==
  \/ e \in ToSet(consumed[s])
  \/ m_thread[s] \notin {"done", "joined"} /\ (e = handling[s] \/ Reaches(m_events[s], e))

\* The position the thread inside looks at next, and whether s is there or behind.
Pos(t) == IF pc[t] = "release" THEN vec_it[t] + 1 ELSE vec_it[t]
At(t, i) == m_subscribers[event[t].type][i]
Ahead(t, s) == \E i \in 1 .. Len(m_subscribers[event[t].type]) : i >= Pos(t) /\ At(t, i) = s

\* A subscriber its client still holds is in the lists of its types.
SubInv ==
  \A s \in Subscriber, y \in Type :
    y \in subscribed[s] /\ held[s] => \E i \in 1 .. Len(m_subscribers[y]) : m_subscribers[y][i] = s
\* A subscriber promised the event has it or is still to come, unless it is
\* cancelled or released meanwhile.
PromiseInv ==
  \A t \in Thread, s \in Subscriber :
    Inside(t) /\ s \in promised[t] => Cancelled(s) \/ ~held[s] \/ Delivered(s, event[t]) \/ Ahead(t, s)
\* A subscriber that is released before it is cancelled never ends.
DueInv ==
  \A s \in Subscriber : \A e \in due[s] : Delivered(s, e) \/ (~held[s] /\ ~Cancelled(s))

DrainInv == TypeInv /\ SubInv /\ PromiseInv /\ DueInv

LEMMA AppendReaches ==
  ASSUME NEW S, NEW M \in Seq(S), NEW x \in S
  PROVE  /\ \A e : Reaches(M, e) => Reaches(Append(M, x), e)
         /\ ~Contains(M, Null) /\ x # Null => Reaches(Append(M, x), x) /\ ~Contains(Append(M, x), Null)
         /\ Contains(M, Null) => Contains(Append(M, x), Null)
  <1> DEFINE Q == Append(M, x)
             n == Len(M)
  <1>1. /\ n \in Nat /\ DOMAIN M = 1 .. n /\ DOMAIN Q = 1 .. n + 1 /\ Len(Q) = n + 1
        /\ Q[n + 1] = x /\ \A i \in 1 .. n : Q[i] = M[i]
    BY AppendProperties
  <1>2. Contains(M, Null) <=> \E i \in 1 .. n : M[i] = Null
    BY DEF Contains
  <1> HIDE DEF n, Q
  <1>3. /\ Contains(Q, Null) <=> \E i \in 1 .. n + 1 : Q[i] = Null
        /\ \A i \in 1 .. n + 1 : i = n + 1 \/ i \in 1 .. n
        /\ \A i \in 1 .. n : i \in 1 .. n + 1 /\ \A j \in 1 .. i : j \in 1 .. n
        /\ n + 1 \in 1 .. n + 1
    BY <1>1 DEF Contains
  <1>4. \A e : Reaches(M, e) => Reaches(Q, e)
    BY <1>1, <1>3 DEF Reaches
  <1>5. ASSUME ~Contains(M, Null), x # Null PROVE Reaches(Q, x) /\ ~Contains(Q, Null)
    <2>1. \A i \in 1 .. n + 1 : Q[i] # Null
      BY <1>1, <1>2, <1>3, <1>5
    <2> QED BY <1>1, <1>3, <2>1 DEF Reaches
  <1>6. Contains(M, Null) => Contains(Q, Null)
    BY <1>1, <1>2, <1>3
  <1> QED BY <1>4, <1>5, <1>6 DEF Q

LEMMA TailReaches ==
  ASSUME NEW S, NEW M \in Seq(S), M # <<>>
  PROVE  /\ \A e : Reaches(M, e) => Head(M) # Null /\ (e = Head(M) \/ Reaches(Tail(M), e))
         /\ Contains(M, Null) => Head(M) = Null \/ Contains(Tail(M), Null)
         /\ Contains(Tail(M), Null) => Contains(M, Null)
  <1> DEFINE T == Tail(M)
             n == Len(M)
  <1>1. n \in Nat \ {0} /\ DOMAIN M = 1 .. n
    BY EmptySeq
  <1>2. T \in Seq(S) /\ Len(T) = n - 1 /\ (\A i \in 1 .. n - 1 : T[i] = M[i + 1]) /\ Head(M) = M[1]
    BY HeadTailProperties
  <1>3. DOMAIN T = 1 .. n - 1
    BY <1>2
  <1>4. /\ Contains(M, Null) <=> \E i \in 1 .. n : M[i] = Null
        /\ Contains(T, Null) <=> \E i \in 1 .. Len(T) : T[i] = Null
    BY DEF Contains
  <1> HIDE DEF T, n
  <1>5. ASSUME NEW e, Reaches(M, e) PROVE Head(M) # Null /\ (e = Head(M) \/ Reaches(T, e))
    <2>1. PICK i \in 1 .. n : M[i] = e /\ \A j \in 1 .. i : M[j] # Null
      BY <1>1, <1>5 DEF Reaches
    <2>2. 1 \in 1 .. i
      BY <2>1
    <2>3. CASE i = 1
      BY <1>2, <2>1, <2>2, <2>3
    <2>4. CASE i # 1
      <3>1. i - 1 \in 1 .. n - 1 /\ (i - 1) + 1 = i /\ \A j \in 1 .. i - 1 : j + 1 \in 1 .. i /\ j \in 1 .. n - 1
        BY <1>1, <2>4
      <3>2. T[i - 1] = e /\ \A j \in 1 .. i - 1 : T[j] # Null
        BY <1>2, <2>1, <3>1
      <3> QED BY <1>2, <1>3, <2>1, <2>2, <3>1, <3>2 DEF Reaches
    <2> QED BY <2>3, <2>4
  <1>6. ASSUME Contains(M, Null) PROVE Head(M) = Null \/ Contains(T, Null)
    <2>1. PICK i \in 1 .. n : M[i] = Null
      BY <1>4, <1>6
    <2>2. CASE i = 1
      BY <1>2, <2>1, <2>2
    <2>3. CASE i # 1
      <3>1. i - 1 \in 1 .. n - 1 /\ (i - 1) + 1 = i
        BY <1>1, <2>3
      <3> QED BY <1>2, <1>4, <2>1, <3>1
    <2> QED BY <2>2, <2>3
  <1>7. ASSUME Contains(T, Null) PROVE Contains(M, Null)
    <2>1. PICK i \in 1 .. n - 1 : T[i] = Null
      BY <1>2, <1>4, <1>7
    <2>2. i + 1 \in 1 .. n
      BY <1>1
    <2> QED BY <1>2, <1>4, <2>1, <2>2
  <1> QED BY <1>5, <1>6, <1>7 DEF T

\* What a step does to a subscriber's queue, thread and client's pointer.
LEMMA ThreadChanges ==
  ASSUME TypeInv, [Next]_vars, NEW s \in Subscriber
  PROVE  /\ held'[s] => held[s]
         /\ \/ /\ consumed'[s] = consumed[s] /\ handling'[s] = handling[s]
               /\ \/ m_events'[s] = m_events[s]
                  \/ \E x \in Event : m_events'[s] = Append(m_events[s], x)
                  \/ held[s] /\ m_events'[s] = Append(m_events[s], Null)
               /\ m_thread'[s] \in {"done", "joined"} <=> m_thread[s] \in {"done", "joined"}
            \/ /\ m_thread[s] = "pop" /\ m_events[s] # <<>> /\ handling[s] = Null
               /\ consumed'[s] = consumed[s] /\ handling'[s] = Head(m_events[s]) /\ m_events'[s] = Tail(m_events[s])
               /\ m_thread'[s] = IF Head(m_events[s]) = Null THEN "done" ELSE "consume"
            \/ /\ m_thread[s] = "consume" /\ m_thread'[s] = "pop" /\ m_events'[s] = m_events[s]
               /\ handling[s] # Null /\ consumed'[s] = Append(consumed[s], handling[s])
  <1> USE DEF threads
  <1>1. /\ m_events \in [Subscriber -> Seq(Event \cup {Null})] /\ handling \in [Subscriber -> Event \cup {Null}]
        /\ consumed \in [Subscriber -> Seq(Event)] /\ held \in [Subscriber -> BOOLEAN]
        /\ m_thread \in [Subscriber -> ThreadLabels]
    BY DEF TypeInv, TypeOK
  <1> DEFINE Kept == /\ consumed'[s] = consumed[s] /\ handling'[s] = handling[s]
                     /\ \/ m_events'[s] = m_events[s]
                        \/ \E x \in Event : m_events'[s] = Append(m_events[s], x)
                        \/ held[s] /\ m_events'[s] = Append(m_events[s], Null)
                     /\ m_thread'[s] \in {"done", "joined"} <=> m_thread[s] \in {"done", "joined"}
             Popped == /\ m_thread[s] = "pop" /\ m_events[s] # <<>> /\ handling[s] = Null
                       /\ consumed'[s] = consumed[s] /\ handling'[s] = Head(m_events[s]) /\ m_events'[s] = Tail(m_events[s])
                       /\ m_thread'[s] = IF Head(m_events[s]) = Null THEN "done" ELSE "consume"
             Finished == /\ m_thread[s] = "consume" /\ m_thread'[s] = "pop" /\ m_events'[s] = m_events[s]
                         /\ handling[s] # Null /\ consumed'[s] = Append(consumed[s], handling[s])
  <1>2. held'[s] => held[s]
    <2>1. held' = held \/ \E t \in Thread, r \in Subscriber : Drop(t, r)
      <3>1. CASE \E t \in Thread : ClientCall(t)
        BY <3>1 DEF ClientCall, Subscribe, Unsubscribe, Publish, Start, Cancel, Join
      <3>2. CASE \E t \in Thread : ClientStep(t)
        BY <3>2 DEF ClientStep, BrokerExpired, LockBroker, Enter, Cycle, Lock, Release, Joined, Destroyed
      <3>3. CASE (\E r \in Subscriber : SubscriberStep(r)) \/ DropBroker \/ UNCHANGED vars
        BY <3>3 DEF SubscriberStep, Pop, Consume, DropBroker, vars
      <3> QED BY <3>1, <3>2, <3>3 DEF Next
    <2>2. ASSUME NEW t \in Thread, NEW r \in Subscriber, Drop(t, r) PROVE held' = [held EXCEPT ![r] = FALSE]
      BY <2>2 DEF Drop
    <2> QED BY <1>1, <2>1, <2>2
  <1>3. ASSUME UNCHANGED <<consumed, handling, m_events, m_thread>> PROVE Kept
    BY <1>3
  <1>4. ASSUME NEW t \in Thread, Lock(t) PROVE Kept
    <2>1. /\ UNCHANGED <<consumed, handling, m_thread>> /\ event[t] \in Event
          /\ m_events' = m_events \/ \E r : m_events' = [m_events EXCEPT ![r] = Append(@, event[t])]
      BY <1>4 DEF Lock, TypeInv, CallInv
    <2> QED BY <1>1, <2>1
  <1>5. ASSUME NEW t \in Thread, NEW r \in Subscriber, Cancel(t, r) PROVE Kept
    BY <1>1, <1>5 DEF Cancel
  <1>6. ASSUME NEW t \in Thread, NEW r \in Subscriber, Start(t, r) PROVE Kept
    <2>1. /\ m_thread[r] = "unstarted" /\ m_thread' = [m_thread EXCEPT ![r] = "pop"]
          /\ UNCHANGED <<consumed, handling, m_events>>
      BY <1>6 DEF Start
    <2> QED BY <1>1, <2>1
  <1>7. ASSUME NEW t \in Thread, Joined(t) PROVE Kept
    <2>1. /\ m_thread[sub_ptr[t]] = "done" /\ m_thread' = [m_thread EXCEPT ![sub_ptr[t]] = "joined"]
          /\ UNCHANGED <<consumed, handling, m_events>>
      BY <1>7 DEF Joined
    <2> QED BY <1>1, <2>1
  <1>8. ASSUME NEW r \in Subscriber, Pop(r) PROVE Kept \/ Popped
    <2>1. /\ m_thread[r] = "pop" /\ m_events[r] # <<>> /\ consumed' = consumed
          /\ m_events' = [m_events EXCEPT ![r] = Tail(@)]
          /\ handling' = [handling EXCEPT ![r] = Head(m_events[r])]
          /\ m_thread' = [m_thread EXCEPT ![r] = IF Head(m_events[r]) = Null THEN "done" ELSE "consume"]
          /\ handling[r] = Null
      BY <1>8 DEF Pop, TypeInv, ThreadInv
    <2>2. CASE s = r
      <3>1. Popped
        BY <1>1, <2>1, <2>2
      <3> QED BY <3>1
    <2>3. CASE s # r
      BY <1>1, <2>1, <2>3
    <2> QED BY <2>2, <2>3
  <1>9. ASSUME NEW r \in Subscriber, Consume(r) PROVE Kept \/ Finished
    <2>1. /\ m_thread[r] = "consume" /\ consumed' = [consumed EXCEPT ![r] = Append(@, handling[r])]
          /\ handling' = [handling EXCEPT ![r] = Null] /\ m_events' = m_events
          /\ m_thread' = [m_thread EXCEPT ![r] = "pop"]
          /\ handling[r] # Null
      BY <1>9 DEF Consume, TypeInv, ThreadInv
    <2>2. CASE s = r
      <3>1. Finished
        BY <1>1, <2>1, <2>2
      <3> QED BY <3>1
    <2>3. CASE s # r
      BY <1>1, <2>1, <2>3
    <2> QED BY <2>2, <2>3
  <1>10. \/ UNCHANGED <<consumed, handling, m_events, m_thread>>
         \/ \E t \in Thread : Lock(t) \/ Joined(t)
         \/ \E t \in Thread, r \in Subscriber : Cancel(t, r) \/ Start(t, r)
         \/ \E r \in Subscriber : Pop(r) \/ Consume(r)
    BY DEF Next, ClientCall, ClientStep, SubscriberStep, vars, Subscribe, Unsubscribe, Publish, BrokerExpired,
           LockBroker, Enter, Cycle, Release, Join, Drop, Destroyed, DropBroker
  <1> HIDE DEF Kept, Popped, Finished
  <1>11. Kept \/ Popped \/ Finished
    BY <1>3, <1>4, <1>5, <1>6, <1>7, <1>8, <1>9, <1>10
  <1> QED BY <1>2, <1>11 DEF Kept, Popped, Finished

\* None of them loses what was delivered, takes a cancellation back, or cancels
\* what no client holds.
LEMMA StaysDelivered ==
  ASSUME TypeInv, [Next]_vars, NEW s \in Subscriber
  PROVE  /\ Cancelled(s) => Cancelled(s)'
         /\ ~held[s] => ~held'[s]
         /\ ~held[s] /\ ~Cancelled(s) => ~Cancelled(s)'
         /\ \A e \in Event : Delivered(s, e) => Delivered(s, e)'
  <1> DEFINE S == Event \cup {Null}
  <1>1. m_events[s] \in Seq(S) /\ consumed[s] \in Seq(Event) /\ handling[s] \in S /\ Null \in S /\ Event \subseteq S
    BY DEF TypeInv, TypeOK
  <1>2. Null \notin Event
    BY NullAssumption
  <1>3. /\ Cancelled(s) <=> Contains(m_events[s], Null) \/ m_thread[s] \in {"done", "joined"}
        /\ Cancelled(s)' <=> Contains(m_events'[s], Null) \/ m_thread'[s] \in {"done", "joined"}
    BY DEF Cancelled
  <1>4. \A e : /\ Delivered(s, e) <=> \/ e \in ToSet(consumed[s])
                                      \/ m_thread[s] \notin {"done", "joined"} /\ (e = handling[s] \/ Reaches(m_events[s], e))
               /\ Delivered(s, e)' <=> \/ e \in ToSet(consumed'[s])
                                       \/ m_thread'[s] \notin {"done", "joined"} /\ (e = handling'[s] \/ Reaches(m_events'[s], e))
    BY DEF Delivered, Reaches
  <1> HIDE DEF S
  <1>5. ASSUME consumed'[s] = consumed[s], handling'[s] = handling[s],
               \/ m_events'[s] = m_events[s]
               \/ \E x \in Event : m_events'[s] = Append(m_events[s], x)
               \/ held[s] /\ m_events'[s] = Append(m_events[s], Null),
               m_thread'[s] \in {"done", "joined"} <=> m_thread[s] \in {"done", "joined"}
        PROVE  /\ Cancelled(s) => Cancelled(s)'
               /\ ~held[s] /\ ~Cancelled(s) => ~Cancelled(s)'
               /\ \A e \in Event : Delivered(s, e) => Delivered(s, e)'
    <2>1. CASE m_events'[s] = m_events[s]
      BY <1>3, <1>4, <1>5, <2>1
    <2>2. ASSUME NEW x \in Event, m_events'[s] = Append(m_events[s], x)
          PROVE  /\ Contains(m_events[s], Null) <=> Contains(m_events'[s], Null)
                 /\ \A e : Reaches(m_events[s], e) => Reaches(m_events'[s], e)
      <3>1. x \in S /\ x # Null
        BY <1>1, <1>2
      <3> QED BY <1>1, <2>2, <3>1, AppendReaches
    <2>3. CASE \E x \in Event : m_events'[s] = Append(m_events[s], x)
      <3>1. /\ Contains(m_events[s], Null) <=> Contains(m_events'[s], Null)
            /\ \A e : Reaches(m_events[s], e) => Reaches(m_events'[s], e)
        BY <2>2, <2>3
      <3> QED BY <1>3, <1>4, <1>5, <3>1
    <2>4. CASE held[s] /\ m_events'[s] = Append(m_events[s], Null)
      <3>1. /\ Contains(m_events[s], Null) => Contains(m_events'[s], Null)
            /\ \A e : Reaches(m_events[s], e) => Reaches(m_events'[s], e)
        BY <1>1, <2>4, AppendReaches
      <3> QED BY <1>3, <1>4, <1>5, <2>4, <3>1
    <2> QED BY <1>5, <2>1, <2>3, <2>4
  <1>6. ASSUME m_thread[s] = "pop", m_events[s] # <<>>, handling[s] = Null, consumed'[s] = consumed[s],
               handling'[s] = Head(m_events[s]), m_events'[s] = Tail(m_events[s]),
               m_thread'[s] = IF Head(m_events[s]) = Null THEN "done" ELSE "consume"
        PROVE  /\ Cancelled(s) => Cancelled(s)'
               /\ ~held[s] /\ ~Cancelled(s) => ~Cancelled(s)'
               /\ \A e \in Event : Delivered(s, e) => Delivered(s, e)'
    <2>1. /\ \A e : Reaches(m_events[s], e) => Head(m_events[s]) # Null /\ (e = Head(m_events[s]) \/ Reaches(m_events'[s], e))
          /\ Contains(m_events[s], Null) => Head(m_events[s]) = Null \/ Contains(m_events'[s], Null)
          /\ Contains(m_events'[s], Null) => Contains(m_events[s], Null)
      BY <1>1, <1>6, TailReaches
    <2>2. Head(m_events[s]) = Null => Contains(m_events[s], Null)
      <3>1. Len(m_events[s]) \in Nat \ {0}
        BY <1>1, <1>6, EmptySeq
      <3>2. 1 \in 1 .. Len(m_events[s]) /\ Head(m_events[s]) = m_events[s][1]
        BY <3>1
      <3> QED BY <3>2 DEF Contains
    <2>3. Cancelled(s) <=> Cancelled(s)'
      BY <1>3, <1>6, <2>1, <2>2
    <2>4. \A e \in Event : Delivered(s, e) => Delivered(s, e)'
      BY <1>2, <1>4, <1>6, <2>1
    <2> QED BY <2>3, <2>4
  <1>7. ASSUME m_thread[s] = "consume", m_thread'[s] = "pop", m_events'[s] = m_events[s],
               handling[s] # Null, consumed'[s] = Append(consumed[s], handling[s])
        PROVE  /\ Cancelled(s) => Cancelled(s)'
               /\ ~held[s] /\ ~Cancelled(s) => ~Cancelled(s)'
               /\ \A e \in Event : Delivered(s, e) => Delivered(s, e)'
    <2>1. handling[s] \in Event
      BY <1>1, <1>7 DEF S
    <2>2. \A e : e \in ToSet(consumed'[s]) <=> e \in ToSet(consumed[s]) \/ e = handling[s]
      BY <1>1, <1>7, <2>1, AppendedOrder
    <2> QED BY <1>3, <1>4, <1>7, <2>2
  <1>8. held'[s] => held[s]
    BY ThreadChanges
  <1>9. \/ /\ consumed'[s] = consumed[s] /\ handling'[s] = handling[s]
           /\ \/ m_events'[s] = m_events[s]
              \/ \E x \in Event : m_events'[s] = Append(m_events[s], x)
              \/ held[s] /\ m_events'[s] = Append(m_events[s], Null)
           /\ m_thread'[s] \in {"done", "joined"} <=> m_thread[s] \in {"done", "joined"}
        \/ /\ m_thread[s] = "pop" /\ m_events[s] # <<>> /\ handling[s] = Null
           /\ consumed'[s] = consumed[s] /\ handling'[s] = Head(m_events[s]) /\ m_events'[s] = Tail(m_events[s])
           /\ m_thread'[s] = IF Head(m_events[s]) = Null THEN "done" ELSE "consume"
        \/ /\ m_thread[s] = "consume" /\ m_thread'[s] = "pop" /\ m_events'[s] = m_events[s]
           /\ handling[s] # Null /\ consumed'[s] = Append(consumed[s], handling[s])
    BY ThreadChanges
  <1> QED BY <1>5, <1>6, <1>7, <1>8, <1>9

LEMMA InitDrain == Init => DrainInv
  <1> SUFFICES ASSUME Init PROVE DrainInv
    OBVIOUS
  <1>1. TypeInv
    BY InitTypes
  <1>2. SubInv /\ DueInv
    BY DEF Init, SubInv, DueInv
  <1>3. PromiseInv
    BY DEF Init, PromiseInv, Inside
  <1> QED BY <1>1, <1>2, <1>3 DEF DrainInv

\* No step takes a subscriber that is held out of the list of a type it keeps.
LEMMA StepSubscribed == TypeInv /\ SubInv /\ [Next]_vars => SubInv'
  <1> SUFFICES ASSUME TypeInv, SubInv, [Next]_vars PROVE SubInv'
    OBVIOUS
  <1> DEFINE In(s, vec) == \E i \in 1 .. Len(vec) : vec[i] = s
  <1>1. /\ m_subscribers \in [Type -> Seq(Weak)] /\ subscribed \in [Subscriber -> SUBSET Type]
        /\ held \in [Subscriber -> BOOLEAN] /\ event \in [Thread -> Event \cup {Null}]
    BY DEF TypeInv, TypeOK, Weak
  <1>2. \A s \in Subscriber : held'[s] => held[s]
    BY ThreadChanges
  <1>3. \A s \in Subscriber, y \in Type : y \in subscribed[s] /\ held[s] => In(s, m_subscribers[y])
    BY DEF SubInv
  <1>4. SUFFICES ASSUME NEW s \in Subscriber, NEW y \in Type, y \in subscribed'[s], held'[s]
                 PROVE  In(s, m_subscribers'[y])
    BY DEF SubInv
  <1>5. held[s]
    BY <1>2, <1>4
  <1>6. Alive(s)
    BY <1>5, PubSubAssumption DEF Alive
  <1>7. PICK vec \in Seq(Weak) : vec = m_subscribers[y]
    BY <1>1
  <1>8. Len(vec) \in Nat
    BY <1>7
  <1> HIDE DEF In
  <1>9. CASE m_subscribers' = m_subscribers /\ subscribed' = subscribed
    BY <1>3, <1>4, <1>5, <1>9
  <1>10. ASSUME NEW t \in Thread, NEW r \in Subscriber, NEW types \in SUBSET Type, Subscribe(t, r, types)
         PROVE  In(s, m_subscribers'[y])
    <2>1. /\ m_subscribers' = [z \in Type |-> IF z \in types THEN Append(m_subscribers[z], r) ELSE m_subscribers[z]]
          /\ subscribed' = [subscribed EXCEPT ![r] = @ \cup types]
      BY <1>10 DEF Subscribe
    <2>2. r \in Weak
      BY DEF Weak
    <2> DEFINE new == Append(vec, r)
    <2>3. Len(new) = Len(vec) + 1 /\ new[Len(vec) + 1] = r /\ \A i \in 1 .. Len(vec) : new[i] = vec[i]
      BY <1>7, <2>2, AppendProperties
    <2> HIDE DEF new
    <2>4. Len(vec) + 1 \in 1 .. Len(vec) + 1 /\ \A i \in 1 .. Len(vec) : i \in 1 .. Len(vec) + 1
      BY <1>8
    <2>5. CASE y \in types
      <3>1. m_subscribers'[y] = new
        BY <1>7, <2>1, <2>5 DEF new
      <3>2. CASE s = r
        BY <2>3, <2>4, <3>1, <3>2 DEF In
      <3>3. CASE s # r
        <4>1. y \in subscribed[s]
          BY <1>1, <1>4, <2>1, <3>3
        <4>2. In(s, vec)
          BY <1>3, <1>5, <1>7, <4>1
        <4> QED BY <2>3, <2>4, <3>1, <4>2 DEF In
      <3> QED BY <3>2, <3>3
    <2>6. CASE y \notin types
      <3>1. m_subscribers'[y] = vec /\ y \in subscribed[s]
        BY <1>1, <1>4, <1>7, <2>1, <2>6
      <3> QED BY <1>3, <1>5, <1>7, <3>1
    <2> QED BY <2>5, <2>6
  <1>11. ASSUME NEW t \in Thread, NEW r \in Subscriber, NEW types \in SUBSET Type, Unsubscribe(t, r, types)
         PROVE  In(s, m_subscribers'[y])
    <2>1. CASE m_subscribers' = m_subscribers /\ subscribed' = subscribed
      BY <1>9, <2>1
    <2>2. CASE /\ \A z \in types : m_subscribers[z] = <<>> \/ \E i \in DOMAIN m_subscribers[z] : Gone(r, m_subscribers[z][i])
               /\ m_subscribers' = [z \in Type |->
                    IF z \in types /\ m_subscribers[z] # <<>> THEN Erased(r, m_subscribers[z]) ELSE m_subscribers[z]]
               /\ subscribed' = [subscribed EXCEPT ![r] = @ \ types]
      <3>1. y \in subscribed[s] /\ (y \in types => s # r)
        BY <1>1, <1>4, <2>2
      <3>2. In(s, vec)
        BY <1>3, <1>5, <1>7, <3>1
      <3>3. CASE y \in types /\ vec # <<>>
        <4>1. m_subscribers'[y] = Erased(r, vec)
          BY <1>7, <2>2, <3>3
        <4>2. PICK o \in 1 .. Len(vec) : Gone(r, vec[o])
          BY <1>7, <2>2, <3>3
        <4>3. PICK i \in 1 .. Len(vec) : vec[i] = s
          BY <3>2 DEF In
        <4>4. ~Gone(r, vec[i])
          BY <1>6, <3>1, <3>3, <4>3 DEF Gone
        <4>5. \E k \in 1 .. Len(Erased(r, vec)) : Erased(r, vec)[k] = vec[i]
          BY <1>7, <4>2, <4>4, ErasedElements
        <4> QED BY <4>1, <4>3, <4>5 DEF In
      <3>4. CASE ~(y \in types /\ vec # <<>>)
        BY <1>7, <2>2, <3>2, <3>4
      <3> QED BY <3>3, <3>4
    <2> QED BY <1>11, <2>1, <2>2 DEF Unsubscribe
  <1>12. ASSUME NEW t \in Thread, Cycle(t) PROVE In(s, m_subscribers'[y])
    <2>1. CASE m_subscribers' = m_subscribers /\ subscribed' = subscribed
      BY <1>9, <2>1
    <2> DEFINE z == event[t].type
               list == m_subscribers[z]
    <2>2. CASE /\ vec_it[t] <= Len(list) /\ ~Alive(list[vec_it[t]]) /\ subscribed' = subscribed
               /\ m_subscribers' = [m_subscribers EXCEPT ![z] = RemoveAt(list, vec_it[t])]
      <3>1. In(s, vec)
        BY <1>3, <1>4, <1>5, <1>7, <2>2
      <3>2. CASE y # z
        <4>1. m_subscribers'[y] = vec
          BY <1>1, <1>7, <2>2, <3>2
        <4> QED BY <3>1, <4>1
      <3>3. CASE y = z
        <4>1. m_subscribers'[y] = RemoveAt(vec, vec_it[t])
          BY <1>1, <1>7, <2>2, <3>3
        <4>2. vec_it[t] \in 1 .. Len(vec) /\ ~Alive(vec[vec_it[t]])
          BY <1>7, <1>8, <2>2, <3>3 DEF TypeInv, TypeOK
        <4>3. PICK n \in 1 .. Len(vec) : n = vec_it[t]
          BY <4>2
        <4>4. PICK i \in 1 .. Len(vec) : vec[i] = s
          BY <3>1 DEF In
        <4>5. i # n
          BY <1>6, <4>2, <4>3, <4>4
        <4>6. /\ Len(RemoveAt(vec, n)) = Len(vec) - 1
              /\ \A k \in 1 .. Len(vec) - 1 : RemoveAt(vec, n)[k] = IF k < n THEN vec[k] ELSE vec[k + 1]
          BY <1>7, RemovedElements
        <4> DEFINE k == IF i < n THEN i ELSE i - 1
        <4>7. k \in 1 .. Len(vec) - 1 /\ (IF k < n THEN vec[k] ELSE vec[k + 1]) = vec[i]
          BY <1>8, <4>5
        <4> HIDE DEF k
        <4>8. k \in 1 .. Len(RemoveAt(vec, n)) /\ RemoveAt(vec, n)[k] = s
          BY <4>4, <4>6, <4>7
        <4> QED BY <4>1, <4>3, <4>8 DEF In
      <3> QED BY <3>2, <3>3
    <2> QED BY <1>12, <2>1, <2>2 DEF Cycle, Leave, broker
  <1>13. \/ m_subscribers' = m_subscribers /\ subscribed' = subscribed
         \/ \E t \in Thread, r \in Subscriber, types \in SUBSET Type : Subscribe(t, r, types) \/ Unsubscribe(t, r, types)
         \/ \E t \in Thread : Cycle(t)
    <2> USE DEF broker, account
    <2>1. CASE \E t \in Thread : ClientCall(t)
      BY <2>1 DEF ClientCall, Publish, Start, Cancel, Join, Drop
    <2>2. CASE \E t \in Thread : ClientStep(t)
      BY <2>2 DEF ClientStep, BrokerExpired, LockBroker, Enter, Lock, Release, Joined, Destroyed
    <2>3. CASE (\E r \in Subscriber : SubscriberStep(r)) \/ DropBroker \/ UNCHANGED vars
      BY <2>3 DEF SubscriberStep, Pop, Consume, DropBroker, vars
    <2> QED BY <2>1, <2>2, <2>3 DEF Next
  <1> QED BY <1>9, <1>10, <1>11, <1>12, <1>13

\* A thread gets inside by entering.  What it looks through then changes only by
\* its own steps.
LEMMA InsideSteps ==
  ASSUME TypeInv, [Next]_vars, NEW t \in Thread, Inside(t)'
  PROVE  \/ Enter(t)
         \/ /\ Inside(t) /\ event[t] \in Event
            /\ event'[t] = event[t] /\ promised'[t] = promised[t]
            /\ Cycle(t) \/ Lock(t) \/ (m_subscribers' = m_subscribers /\ Pos(t)' = Pos(t))
  <1> USE DEF Goto, broker, threads, calls, account
  <1>1. /\ pc \in [Thread -> ClientLabels] /\ event \in [Thread -> Event \cup {Null}]
        /\ vec_it \in [Thread -> Nat \ {0}] /\ promised \in [Thread -> SUBSET Subscriber]
        /\ \A u \in Thread : pc[u] = "idle" => event[u] = Null
    BY DEF TypeInv, TypeOK, CallInv
  <1>2. event'[t] = event[t] /\ (Inside(t) \/ pc[t] = "enter")
    BY EventSteps
  <1>3. Inside(t) => /\ event[t] \in Event /\ m_mutex = t /\ m_mutex # Nobody
                     /\ \A u \in Thread : pc[u] \in {"cycle", "lock", "release"} => u = t
    <2>1. Inside(t) => m_mutex = t /\ event[t] \in Event
      BY <1>1 DEF TypeInv, CallInv, Inside
    <2>2. \A u \in Thread : pc[u] \in {"cycle", "lock", "release"} => Inside(u)
      BY DEF Inside
    <2> QED BY <2>1, <2>2, OneInside, PubSubAssumption
  <1> DEFINE Same == /\ promised'[t] = promised[t] /\ m_subscribers' = m_subscribers /\ pc'[t] = pc[t]
                     /\ vec_it'[t] = vec_it[t]
             Goal == \/ Enter(t)
                     \/ /\ Inside(t) /\ promised'[t] = promised[t]
                        /\ Cycle(t) \/ Lock(t) \/ (m_subscribers' = m_subscribers /\ Pos(t)' = Pos(t))
  <1>4. ASSUME Same PROVE Goal
    <2>1. Inside(t)
      BY <1>2, <1>4 DEF Inside
    <2>2. Pos(t)' = Pos(t)
      BY <1>4 DEF Pos
    <2> QED BY <1>4, <2>1, <2>2
  <1> HIDE DEF Goal
  <1>5. ASSUME NEW u \in Thread, ClientCall(u) PROVE Goal
    <2>1. pc[u] = "idle"
      BY <1>5 DEF ClientCall, Publish, Subscribe, Unsubscribe, Start, Cancel, Join, Drop
    <2>2. u # t
      BY <1>1, <1>2, <2>1 DEF Inside
    <2>3. CASE \E y \in Type : Publish(u, y)
      BY <1>1, <1>4, <2>2, <2>3 DEF Publish
    <2>4. ASSUME NEW s \in Subscriber, Start(u, s) \/ Cancel(u, s) \/ Join(u, s) \/ Drop(u, s) PROVE Goal
      <3>1. CASE Start(u, s) \/ Cancel(u, s)
        BY <1>4, <3>1 DEF Start, Cancel
      <3>2. CASE Join(u, s)
        BY <1>1, <1>4, <2>2, <3>2 DEF Join
      <3>3. CASE Drop(u, s)
        BY <1>1, <1>4, <2>2, <3>3 DEF Drop
      <3> QED BY <2>4, <3>1, <3>2, <3>3
    <2>5. ASSUME NEW s \in Subscriber, NEW types \in SUBSET Type, Subscribe(u, s, types) \/ Unsubscribe(u, s, types)
          PROVE Goal
      <3>1. m_mutex = Nobody
        BY <2>5 DEF Subscribe, Unsubscribe
      <3>2. pc[t] = "enter"
        BY <1>2, <1>3, <3>1
      <3>3. pc'[t] = pc[t]
        <4>1. pc' = pc \/ pc' = [pc EXCEPT ![u] = "crashed"]
          BY <2>5 DEF Subscribe, Unsubscribe
        <4> QED BY <1>1, <2>2, <4>1
      <3> QED BY <3>2, <3>3 DEF Inside
    <2> QED BY <1>5, <2>3, <2>4, <2>5 DEF ClientCall
  <1>6. ASSUME NEW u \in Thread, u # t, ClientStep(u) PROVE Goal
    <2>1. pc'[t] = pc[t] /\ vec_it'[t] = vec_it[t]
      <3>1. CASE BrokerExpired(u) \/ LockBroker(u) \/ Enter(u)
        BY <1>1, <1>6, <3>1 DEF BrokerExpired, LockBroker, Enter
      <3>2. CASE Cycle(u)
        BY <1>1, <1>6, <3>2 DEF Cycle, Leave
      <3>3. CASE Lock(u) \/ Release(u)
        BY <1>1, <1>6, <3>3 DEF Lock, Release
      <3>4. CASE Joined(u) \/ Destroyed(u)
        BY <1>1, <1>6, <3>4 DEF Joined, Destroyed
      <3> QED BY <1>6, <3>1, <3>2, <3>3, <3>4 DEF ClientStep
    <2>2. Inside(t)
      BY <1>2, <2>1 DEF Inside
    <2>3. pc[u] \notin {"cycle", "lock", "release"} /\ m_mutex # Nobody
      BY <1>3, <1>6, <2>2
    <2>4. m_subscribers' = m_subscribers /\ promised' = promised
      BY <1>6, <2>3 DEF ClientStep, BrokerExpired, LockBroker, Enter, Cycle, Lock, Release, Joined, Destroyed
    <2> QED BY <1>4, <2>1, <2>4
  <1>7. ASSUME ClientStep(t) PROVE Goal
    <2>1. CASE Enter(t)
      BY <2>1 DEF Goal
    <2>2. CASE BrokerExpired(t) \/ LockBroker(t) \/ Joined(t)
      <3>1. pc[t] \in {"expired", "lockBroker", "join"}
        BY <2>2 DEF BrokerExpired, LockBroker, Joined
      <3> QED BY <1>2, <3>1 DEF Inside
    <2>3. CASE Cycle(t)
      <3>1. ~Leave(t)
        <4> SUFFICES ASSUME Leave(t) PROVE FALSE
          OBVIOUS
        <4>1. pc'[t] = "idle"
          BY <1>1 DEF Leave
        <4> QED BY <4>1 DEF Inside
      <3>2. promised' = promised /\ pc[t] = "cycle"
        BY <2>3, <3>1 DEF Cycle
      <3> QED BY <2>3, <3>2 DEF Goal, Inside
    <2>4. CASE Lock(t)
      BY <2>4 DEF Lock, Goal, Inside
    <2>5. CASE Release(t)
      <3>1. /\ pc[t] = "release" /\ vec_it'[t] = vec_it[t] + 1 /\ pc'[t] \in {"cycle", "destroy"}
            /\ m_subscribers' = m_subscribers /\ promised' = promised
        <4>1. pc[t] = "release" /\ vec_it'[t] = vec_it[t] + 1 /\ m_subscribers' = m_subscribers /\ promised' = promised
          BY <1>1, <2>5 DEF Release
        <4>2. pc' = [pc EXCEPT ![t] = "cycle"] \/ pc' = [pc EXCEPT ![t] = "destroy"]
          BY <2>5 DEF Release
        <4> QED BY <1>1, <4>1, <4>2
      <3>2. Pos(t)' = Pos(t) /\ Inside(t)
        BY <3>1 DEF Pos, Inside
      <3> QED BY <3>1, <3>2 DEF Goal
    <2>6. CASE Destroyed(t)
      <3>1. /\ pc[t] = "destroy" /\ pc'[t] # "release" /\ vec_it' = vec_it
            /\ m_subscribers' = m_subscribers /\ promised' = promised
        BY <1>1, <2>6 DEF Destroyed
      <3>2. Pos(t)' = Pos(t) /\ Inside(t)
        BY <1>2, <3>1 DEF Pos
      <3> QED BY <3>1, <3>2 DEF Goal
    <2> QED BY <1>7, <2>1, <2>2, <2>3, <2>4, <2>5, <2>6 DEF ClientStep
  <1>8. ASSUME (\E s \in Subscriber : SubscriberStep(s)) \/ DropBroker \/ UNCHANGED vars PROVE Goal
    BY <1>4, <1>8 DEF SubscriberStep, Pop, Consume, DropBroker, vars
  <1>9. Goal
    BY <1>5, <1>6, <1>7, <1>8 DEF Next
  <1> QED BY <1>2, <1>3, <1>9 DEF Goal

LEMMA StepPromised == DrainInv /\ [Next]_vars => PromiseInv'
  <1> SUFFICES ASSUME DrainInv, [Next]_vars, NEW t \in Thread, NEW s \in Subscriber, Inside(t)', s \in promised'[t]
               PROVE  Cancelled(s)' \/ ~held'[s] \/ Delivered(s, event[t])' \/ Ahead(t, s)'
    BY DEF PromiseInv
  <1>1. TypeInv /\ SubInv /\ PromiseInv
    BY DEF DrainInv
  <1>2. /\ m_subscribers \in [Type -> Seq(Weak)] /\ event \in [Thread -> Event \cup {Null}]
        /\ vec_it \in [Thread -> Nat \ {0}] /\ m_events \in [Subscriber -> Seq(Event \cup {Null})]
        /\ promised \in [Thread -> SUBSET Subscriber] /\ pc \in [Thread -> ClientLabels]
        /\ \A e \in Event : e.type \in Type
    BY <1>1 DEF TypeInv, TypeOK, Weak, Event
  <1>3. /\ Cancelled(s) => Cancelled(s)'
        /\ ~held[s] => ~held'[s]
        /\ \A e \in Event : Delivered(s, e) => Delivered(s, e)'
    BY <1>1, StaysDelivered
  <1>4. /\ Ahead(t, s) <=> \E i \in 1 .. Len(m_subscribers[event[t].type]) :
                             i >= Pos(t) /\ m_subscribers[event[t].type][i] = s
        /\ Ahead(t, s)' <=> \E i \in 1 .. Len(m_subscribers'[event'[t].type]) :
                             i >= Pos(t)' /\ m_subscribers'[event'[t].type][i] = s
    BY DEF Ahead, At
  <1>5. CASE Enter(t)
    <2>1. /\ event[t] \in Event /\ event' = event /\ m_subscribers' = m_subscribers /\ held' = held
          /\ vec_it'[t] = 1 /\ pc'[t] = "cycle" /\ event[t].type \in subscribed[s]
      BY <1>1, <1>2, <1>5 DEF Enter, Goto, TypeInv, CallInv
    <2>2. Pos(t)' = 1
      BY <2>1 DEF Pos
    <2>3. held[s] => \E i \in 1 .. Len(m_subscribers[event[t].type]) : m_subscribers[event[t].type][i] = s
      BY <1>1, <1>2, <2>1 DEF SubInv
    <2>4. CASE held[s]
      <3>1. PICK i \in 1 .. Len(m_subscribers[event[t].type]) : m_subscribers[event[t].type][i] = s
        BY <2>3, <2>4
      <3>2. i >= 1
        OBVIOUS
      <3> QED BY <1>4, <2>1, <2>2, <3>1, <3>2
    <2>5. CASE ~held[s]
      BY <1>3, <2>5
    <2> QED BY <2>4, <2>5
  <1>6. CASE /\ Inside(t) /\ event[t] \in Event
             /\ event'[t] = event[t] /\ promised'[t] = promised[t]
             /\ Cycle(t) \/ Lock(t) \/ (m_subscribers' = m_subscribers /\ Pos(t)' = Pos(t))
    <2> DEFINE y == event[t].type
               p == vec_it[t]
    <2>1. PICK e \in Event : e = event[t]
      BY <1>6
    <2>2. Delivered(s, event[t])' <=> Delivered(s, e)'
      BY <1>6, <2>1 DEF Delivered, Reaches
    <2>3. CASE Cancelled(s) \/ ~held[s] \/ Delivered(s, e)
      BY <1>3, <2>2, <2>3
    <2>4. CASE ~Cancelled(s) /\ held[s] /\ ~Delivered(s, e)
      <3>1. Ahead(t, s)
        BY <1>1, <1>6, <2>1, <2>4 DEF PromiseInv
      <3>2. PICK vec \in Seq(Weak) : vec = m_subscribers[y]
        BY <1>2, <1>6
      <3>3. PICK i \in 1 .. Len(vec) : i >= Pos(t) /\ vec[i] = s
        BY <1>4, <3>1, <3>2
      <3>4. Len(vec) \in Nat /\ p \in Nat \ {0} /\ Alive(s)
        BY <1>2, <2>4, <3>2, PubSubAssumption DEF Alive
      <3>5. CASE m_subscribers' = m_subscribers /\ Pos(t)' = Pos(t)
        BY <1>4, <1>6, <3>2, <3>3, <3>5
      <3>6. CASE Cycle(t)
        <4>1. pc[t] = "cycle" /\ Pos(t) = p
          BY <3>6 DEF Cycle, Pos
        <4>2. ~Leave(t)
          <5> SUFFICES ASSUME Leave(t) PROVE FALSE
            OBVIOUS
          <5>1. pc'[t] = "idle"
            BY <1>2 DEF Leave, Goto
          <5> QED BY <5>1 DEF Inside
        <4>3. CASE m_subscribers' = m_subscribers /\ Goto(t, "lock") /\ vec_it' = vec_it
          <5>1. Pos(t)' = p
            BY <1>2, <4>3 DEF Goto, Pos
          <5> QED BY <1>4, <1>6, <3>2, <3>3, <4>1, <4>3, <5>1
        <4>4. CASE /\ p <= Len(vec) /\ ~Alive(vec[p]) /\ pc' = pc /\ vec_it' = vec_it
                   /\ m_subscribers' = [m_subscribers EXCEPT ![y] = RemoveAt(vec, p)]
          <5>1. PICK n \in 1 .. Len(vec) : n = p
            BY <3>4, <4>4
          <5>2. i >= n /\ i # n
            BY <3>3, <3>4, <4>1, <4>4, <5>1
          <5>3. /\ Len(RemoveAt(vec, n)) = Len(vec) - 1
                /\ \A k \in 1 .. Len(vec) - 1 : RemoveAt(vec, n)[k] = IF k < n THEN vec[k] ELSE vec[k + 1]
            BY RemovedElements
          <5>4. i - 1 \in 1 .. Len(vec) - 1 /\ i - 1 >= n /\ ~(i - 1 < n) /\ (i - 1) + 1 = i
            BY <3>4, <5>2
          <5>5. i - 1 \in 1 .. Len(RemoveAt(vec, n)) /\ RemoveAt(vec, n)[i - 1] = s
            BY <3>3, <5>3, <5>4
          <5>6. m_subscribers'[event'[t].type] = RemoveAt(vec, n)
            BY <1>2, <1>6, <4>4, <5>1
          <5>7. Pos(t)' = n
            BY <4>1, <4>4, <5>1 DEF Pos
          <5>8. \E k \in 1 .. Len(RemoveAt(vec, n)) : k >= n /\ RemoveAt(vec, n)[k] = s
            BY <5>4, <5>5
          <5> QED BY <1>4, <5>6, <5>7, <5>8
        <4> QED BY <3>2, <3>6, <4>2, <4>3, <4>4 DEF Cycle, broker
      <3>7. CASE Lock(t)
        <4>1. pc[t] = "lock" /\ Pos(t) = p
          BY <3>7 DEF Lock, Pos
        <4>2. p \in 1 .. Len(vec)
          BY <1>1, <3>2, <3>4, <4>1 DEF TypeInv, CallInv
        <4>3. Alive(vec[p])
          <5> SUFFICES ASSUME ~Alive(vec[p]) PROVE FALSE
            OBVIOUS
          <5>1. pc'[t] = "crashed"
            BY <1>2, <3>2, <3>7 DEF Lock, Goto
          <5> QED BY <5>1 DEF Inside
        <4>4. /\ m_events' = [m_events EXCEPT ![vec[p]] = Append(@, e)] /\ Goto(t, "release")
              /\ m_subscribers' = m_subscribers /\ vec_it' = vec_it /\ m_thread' = m_thread
          BY <2>1, <3>2, <3>7, <4>3 DEF Lock, broker
        <4>5. CASE i = p
          <5>1. m_events'[s] = Append(m_events[s], e)
            BY <1>2, <3>3, <4>4, <4>5
          <5>2. e \in Event \cup {Null} /\ e # Null /\ m_events[s] \in Seq(Event \cup {Null})
            BY <1>2, NullAssumption
          <5>3. ~Contains(m_events[s], Null) /\ m_thread[s] \notin {"done", "joined"}
            BY <2>4 DEF Cancelled
          <5>4. Reaches(Append(m_events[s], e), e)
            BY <5>2, <5>3, AppendReaches
          <5>5. Delivered(s, e)'
            BY <4>4, <5>1, <5>3, <5>4 DEF Delivered, Reaches
          <5> QED BY <2>2, <5>5
        <4>6. CASE i # p
          <5>1. Pos(t)' = p + 1
            BY <1>2, <4>4 DEF Goto, Pos
          <5>2. i >= p + 1
            BY <3>3, <3>4, <4>1, <4>6
          <5> QED BY <1>4, <1>6, <3>2, <3>3, <4>4, <5>1, <5>2
        <4> QED BY <4>5, <4>6
      <3> QED BY <1>6, <3>5, <3>6, <3>7
    <2> QED BY <2>3, <2>4
  <1> QED BY <1>1, <1>5, <1>6, InsideSteps

LEMMA StepDue == DrainInv /\ [Next]_vars => DueInv'
  <1> SUFFICES ASSUME DrainInv, [Next]_vars, NEW s \in Subscriber, NEW e \in due'[s]
               PROVE  Delivered(s, e)' \/ (~held'[s] /\ ~Cancelled(s)')
    BY DEF DueInv, Delivered, Reaches
  <1>1. TypeInv /\ PromiseInv /\ DueInv
    BY DEF DrainInv
  <1>2. due[s] \subseteq Event /\ due \in [Subscriber -> SUBSET Event] /\ vec_it \in [Thread -> Nat \ {0}]
        /\ m_subscribers \in [Type -> Seq(Weak)]
    BY <1>1 DEF TypeInv, TypeOK, Weak
  <1>3. /\ ~held[s] => ~held'[s]
        /\ ~held[s] /\ ~Cancelled(s) => ~Cancelled(s)'
        /\ \A x \in Event : Delivered(s, x) => Delivered(s, x)'
    BY <1>1, StaysDelivered
  <1>4. CASE e \in due[s]
    BY <1>1, <1>2, <1>3, <1>4 DEF DueInv
  <1>5. ASSUME NEW t \in Thread, Cycle(t), Leave(t), e \notin due[s]
        PROVE  Delivered(s, e) \/ (~held[s] /\ ~Cancelled(s))
    <2>1. pc[t] = "cycle" /\ s \in promised[t] /\ ~Cancelled(s) /\ e = event[t]
      BY <1>2, <1>5 DEF Cycle, Leave
    <2>2. ~held[s] \/ Delivered(s, e) \/ Ahead(t, s)
      BY <1>1, <2>1 DEF PromiseInv, Inside
    <2>3. event[t] \in Event /\ event[t].type \in Type
      BY <1>1, <2>1 DEF TypeInv, CallInv, Event
    <2>4. vec_it[t] > Len(m_subscribers[event[t].type])
      <3>1. event'[t] = Null /\ event[t] # Null
        BY <1>1, <1>5, <2>3, NullAssumption DEF TypeInv, TypeOK, Leave
      <3>2. m_mutex' = Nobody /\ m_mutex = t
        BY <1>1, <1>5, <2>1 DEF TypeInv, CallInv, Inside, Leave
      <3>3. m_mutex' # m_mutex
        BY <3>2, PubSubAssumption
      <3> QED BY <1>5, <3>3 DEF Cycle, broker
    <2>5. ~Ahead(t, s)
      <3>1. Pos(t) = vec_it[t] /\ Len(m_subscribers[event[t].type]) \in Nat /\ vec_it[t] \in Nat
        BY <1>2, <2>1, <2>3 DEF Pos
      <3> QED BY <2>4, <3>1 DEF Ahead
    <2> QED BY <2>1, <2>2, <2>5
  <1>6. due' = due \/ \E t \in Thread : Cycle(t) /\ Leave(t)
    <2> USE DEF account
    <2>1. CASE \E t \in Thread : ClientCall(t)
      BY <2>1 DEF ClientCall, Subscribe, Unsubscribe, Publish, Start, Cancel, Join, Drop
    <2>2. CASE \E t \in Thread : ClientStep(t)
      BY <2>2 DEF ClientStep, BrokerExpired, LockBroker, Enter, Cycle, Lock, Release, Joined, Destroyed
    <2>3. CASE (\E r \in Subscriber : SubscriberStep(r)) \/ DropBroker \/ UNCHANGED vars
      BY <2>3 DEF SubscriberStep, Pop, Consume, DropBroker, vars
    <2> QED BY <2>1, <2>2, <2>3 DEF Next
  <1>7. CASE e \notin due[s]
    <2>1. PICK t \in Thread : Cycle(t) /\ Leave(t)
      BY <1>6, <1>7
    <2>2. Delivered(s, e) \/ (~held[s] /\ ~Cancelled(s))
      BY <1>5, <1>7, <2>1
    <2>3. e \in Event
      <3>1. TypeInv'
        BY <1>1, StepTypes
      <3> QED BY <3>1 DEF TypeInv, TypeOK
    <2> QED BY <1>3, <2>2, <2>3
  <1> QED BY <1>4, <1>7

\* DrainedOnStop: a subscriber whose thread has ended has consumed every event
\* whose publish returned, while it was subscribed, before it was cancelled.
\* notifySubscribers skips no subscriber that lives when it comes by, whatever it
\* erases on its way, and run consumes all that stands before the null event.
THEOREM DrainCorrect == Spec => []DrainedOnStop
  <1>1. DrainInv /\ [Next]_vars => DrainInv'
    <2> SUFFICES ASSUME DrainInv, [Next]_vars PROVE DrainInv'
      OBVIOUS
    <2>1. TypeInv' /\ SubInv'
      BY StepTypes, StepSubscribed DEF DrainInv
    <2>2. PromiseInv' /\ DueInv'
      BY StepPromised, StepDue
    <2> QED BY <2>1, <2>2 DEF DrainInv
  <1>2. DrainInv => DrainedOnStop
    <2> SUFFICES ASSUME DrainInv, NEW s \in Subscriber, m_thread[s] \in {"done", "joined"}, NEW e \in due[s]
                 PROVE  e \in ToSet(consumed[s])
      BY DEF DrainedOnStop
    <2>1. Cancelled(s)
      BY DEF Cancelled
    <2>2. Delivered(s, e)
      BY <2>1 DEF DrainInv, DueInv
    <2> QED BY <2>2 DEF Delivered
  <1> QED BY <1>1, <1>2, InitDrain, PTL DEF Spec

-------------------------------------------------------------------------------
(* The broker's lists when clients subscribe what is not subscribed,         *)
(* unsubscribe what is, and release a subscriber only once it is not listed. *)

\* Every list holds the subscribers of its type, still held, each once.
ListInv ==
  \A y \in Type :
    /\ \A i \in 1 .. Len(m_subscribers[y]) :
         LET s == m_subscribers[y][i] IN s \in Subscriber /\ held[s] /\ y \in subscribed[s]
    /\ \A i, j \in 1 .. Len(m_subscribers[y]) : i # j => m_subscribers[y][i] # m_subscribers[y][j]

QuietInv == TypeInv /\ SubInv /\ ListInv

\* Where unsubscribe finds exactly one pointer to erase it erases that one alone.
LEMMA QuietErased ==
  ASSUME QuietInv, NEW s \in Subscriber, NEW y \in subscribed[s], held[s],
         NEW new, new = Erased(s, m_subscribers[y])
  PROVE  /\ \A k \in 1 .. Len(new) : new[k] # s /\ \E i \in 1 .. Len(m_subscribers[y]) : new[k] = m_subscribers[y][i]
         /\ \A k, l \in 1 .. Len(new) : k # l => new[k] # new[l]
         /\ Cleaned(new, m_subscribers[y], s)
  <1>1. y \in Type /\ m_subscribers[y] \in Seq(Weak)
    BY DEF QuietInv, TypeInv, TypeOK, Weak
  <1>2. PICK vec \in Seq(Weak) : vec = m_subscribers[y]
    BY <1>1
  <1>3. PICK o \in 1 .. Len(vec) : vec[o] = s
    BY <1>1, <1>2 DEF QuietInv, SubInv
  <1>4. \A i \in 1 .. Len(vec) : vec[i] \in Subscriber /\ held[vec[i]] /\ \A j \in 1 .. Len(vec) : i # j => vec[i] # vec[j]
    BY <1>1, <1>2 DEF QuietInv, ListInv
  <1>5. \A i \in 1 .. Len(vec) : i # o => ~Gone(s, vec[i])
    BY <1>3, <1>4, PubSubAssumption DEF Gone, Alive
  <1>6. Gone(s, vec[o])
    BY <1>3 DEF Gone
  <1>7. new \in Seq(Weak) /\ Without(new, vec, o)
    BY <1>2, <1>5, <1>6, ErasedElements
  <1>8. PICK g \in [1 .. Len(new) -> (1 .. Len(vec)) \ {o}] :
          /\ \A k \in 1 .. Len(new) : new[k] = vec[g[k]]
          /\ \A k, l \in 1 .. Len(new) : k < l => g[k] < g[l]
          /\ \A i \in (1 .. Len(vec)) \ {o} : \E k \in 1 .. Len(new) : g[k] = i
    BY <1>7 DEF Without
  <1>9. \A k \in 1 .. Len(new) : g[k] \in 1 .. Len(vec) /\ g[k] # o
    BY <1>8
  <1>10. ASSUME NEW k \in 1 .. Len(new) PROVE new[k] # s /\ \E i \in 1 .. Len(vec) : new[k] = vec[i]
    <2>1. new[k] = vec[g[k]] /\ g[k] \in 1 .. Len(vec) /\ g[k] # o
      BY <1>8, <1>9
    <2>2. vec[g[k]] # vec[o]
      BY <1>4, <2>1
    <2> QED BY <1>3, <2>1, <2>2
  <1>11. ASSUME NEW k \in 1 .. Len(new), NEW l \in 1 .. Len(new), k # l PROVE new[k] # new[l]
    <2>1. g[k] \in 1 .. Len(vec) /\ g[l] \in 1 .. Len(vec) /\ g[k] # g[l]
      <3>1. k < l \/ l < k
        BY <1>7, <1>11
      <3>2. \A a, b \in 1 .. Len(new) : a < b => g[a] < g[b]
        BY <1>8
      <3>3. g[k] < g[l] \/ g[l] < g[k]
        BY <3>1, <3>2
      <3>4. g[k] \in Int /\ g[l] \in Int
        BY <1>2, <1>9
      <3> QED BY <1>9, <3>3, <3>4
    <2>2. new[k] = vec[g[k]] /\ new[l] = vec[g[l]]
      BY <1>8
    <2> QED BY <1>4, <2>1, <2>2
  <1>12. Cleaned(new, vec, s)
    <2>1. DOMAIN new = 1 .. Len(new) /\ DOMAIN vec = 1 .. Len(vec)
      BY <1>7
    <2>2. \A i \in 1 .. Len(vec) : vec[i] # s /\ Alive(vec[i]) <=> i # o
      <3>1. ASSUME NEW i \in 1 .. Len(vec), i # o PROVE vec[i] # s /\ Alive(vec[i])
        <4>1. ~Gone(s, vec[i])
          BY <1>5, <3>1
        <4> QED BY <4>1 DEF Gone
      <3> QED BY <1>3, <3>1
    <2>3. g \in [DOMAIN new -> DOMAIN vec]
      BY <2>1
    <2>4. \A i \in DOMAIN vec : (\E k \in DOMAIN new : g[k] = i) <=> vec[i] # s /\ Alive(vec[i])
      BY <1>8, <1>9, <2>1, <2>2
    <2>5. \A k, l \in DOMAIN new : k < l => g[k] < g[l]
      BY <1>8, <2>1
    <2>6. \A k \in DOMAIN new : new[k] = vec[g[k]]
      BY <1>8, <2>1
    <2> SUFFICES \E at \in [DOMAIN new -> DOMAIN vec] :
                   /\ \A k, l \in DOMAIN new : k < l => at[k] < at[l]
                   /\ \A k \in DOMAIN new : new[k] = vec[at[k]]
                   /\ \A i \in DOMAIN vec : (\E k \in DOMAIN new : at[k] = i) <=> vec[i] # s /\ Alive(vec[i])
      BY DEF Cleaned
    <2> WITNESS g \in [DOMAIN new -> DOMAIN vec]
    <2> QED BY <2>4, <2>5, <2>6
  <1> QED BY <1>2, <1>10, <1>11, <1>12

LEMMA StepQuiet ==
  ASSUME OnceEach, QuietRelease, QuietInv, [Next]_vars
  PROVE  ListInv'
  <1> DEFINE Good(vec, y, h, sub) ==
               /\ \A i \in 1 .. Len(vec) : vec[i] \in Subscriber /\ h[vec[i]] /\ y \in sub[vec[i]]
               /\ \A i, j \in 1 .. Len(vec) : i # j => vec[i] # vec[j]
  <1>1. /\ m_subscribers \in [Type -> Seq(Weak)] /\ subscribed \in [Subscriber -> SUBSET Type]
        /\ held \in [Subscriber -> BOOLEAN] /\ vec_it \in [Thread -> Nat \ {0}] /\ TypeInv
    BY DEF QuietInv, TypeInv, TypeOK, Weak
  <1>2. \A y \in Type : Good(m_subscribers[y], y, held, subscribed)
    BY DEF QuietInv, ListInv
  <1>3. SUFFICES ASSUME NEW y \in Type PROVE Good(m_subscribers'[y], y, held', subscribed')
    BY DEF ListInv
  <1>4. PICK vec \in Seq(Weak) : vec = m_subscribers[y]
    BY <1>1
  <1>5. Len(vec) \in Nat /\ Good(vec, y, held, subscribed)
    BY <1>2, <1>4
  <1>6. CASE m_subscribers' = m_subscribers /\ subscribed' = subscribed /\ held' = held
    BY <1>2, <1>6
  <1>7. ASSUME NEW t \in Thread, NEW r \in Subscriber, NEW types \in SUBSET Type, Subscribe(t, r, types)
        PROVE  Good(m_subscribers'[y], y, held', subscribed')
    <2>1. /\ held[r] /\ types \cap subscribed[r] = {} /\ held' = held
          /\ m_subscribers' = [z \in Type |-> IF z \in types THEN Append(m_subscribers[z], r) ELSE m_subscribers[z]]
          /\ subscribed' = [subscribed EXCEPT ![r] = @ \cup types]
      BY <1>7 DEF Subscribe
    <2>2. \A s \in Subscriber : subscribed[s] \subseteq subscribed'[s]
      BY <1>1, <2>1
    <2>3. CASE y \notin types
      <3>1. m_subscribers'[y] = vec
        BY <1>4, <2>1, <2>3
      <3> QED BY <1>5, <2>1, <2>2, <3>1
    <2>4. CASE y \in types
      <3> DEFINE new == Append(vec, r)
      <3>1. m_subscribers'[y] = new
        BY <1>4, <2>1, <2>4
      <3>2. r \in Weak
        BY DEF Weak
      <3>3. Len(new) = Len(vec) + 1 /\ new[Len(vec) + 1] = r /\ \A i \in 1 .. Len(vec) : new[i] = vec[i]
        BY <1>4, <3>2, AppendProperties
      <3> HIDE DEF new
      <3>4. \A i \in 1 .. Len(vec) + 1 : i = Len(vec) + 1 \/ i \in 1 .. Len(vec)
        BY <1>5
      <3>5. \A i \in 1 .. Len(vec) : vec[i] # r
        BY <1>5, <2>1, <2>4
      <3>6. y \in subscribed'[r]
        BY <1>1, <2>1, <2>4
      <3>7. \A i \in 1 .. Len(new) : new[i] \in Subscriber /\ held'[new[i]] /\ y \in subscribed'[new[i]]
        BY <1>5, <2>1, <2>2, <3>3, <3>4, <3>6
      <3>8. \A i, j \in 1 .. Len(new) : i # j => new[i] # new[j]
        BY <1>5, <3>3, <3>4, <3>5
      <3> QED BY <3>1, <3>7, <3>8
    <2> QED BY <2>3, <2>4
  <1>8. ASSUME NEW t \in Thread, NEW r \in Subscriber, NEW types \in SUBSET Type, Unsubscribe(t, r, types)
        PROVE  Good(m_subscribers'[y], y, held', subscribed')
    <2>1. held[r] /\ types \subseteq subscribed[r] /\ held' = held
      BY <1>8 DEF Unsubscribe
    <2>2. CASE m_subscribers' = m_subscribers /\ subscribed' = subscribed
      BY <1>6, <2>1, <2>2
    <2>3. CASE /\ m_subscribers' = [z \in Type |->
                    IF z \in types /\ m_subscribers[z] # <<>> THEN Erased(r, m_subscribers[z]) ELSE m_subscribers[z]]
               /\ subscribed' = [subscribed EXCEPT ![r] = @ \ types]
      <3>1. \A s \in Subscriber : s # r => subscribed'[s] = subscribed[s]
        BY <1>1, <2>3
      <3>2. y \notin types /\ y \in subscribed[r] => y \in subscribed'[r]
        BY <1>1, <2>3
      <3>3. CASE y \notin types
        <4>1. m_subscribers'[y] = vec
          BY <1>4, <2>3, <3>3
        <4>2. \A i \in 1 .. Len(vec) : y \in subscribed'[vec[i]]
          BY <1>5, <3>1, <3>2, <3>3
        <4> QED BY <1>5, <2>1, <4>1, <4>2
      <3>4. CASE y \in types
        <4>1. y \in subscribed[r]
          BY <2>1, <3>4
        <4>2. vec # <<>>
          <5>1. \E i \in 1 .. Len(vec) : vec[i] = r
            BY <1>4, <2>1, <4>1 DEF QuietInv, SubInv
          <5>2. 1 .. 0 = {} /\ Len(<<>>) = 0
            OBVIOUS
          <5> QED BY <5>1, <5>2
        <4>3. m_subscribers'[y] = Erased(r, vec)
          BY <1>4, <2>3, <3>4, <4>2
        <4>4. PICK new : new = Erased(r, vec)
          OBVIOUS
        <4>5. /\ \A k \in 1 .. Len(new) : new[k] # r /\ \E i \in 1 .. Len(vec) : new[k] = vec[i]
              /\ \A k, l \in 1 .. Len(new) : k # l => new[k] # new[l]
          BY <1>4, <2>1, <4>1, <4>4, QuietErased
        <4>6. \A k \in 1 .. Len(new) : new[k] \in Subscriber /\ held'[new[k]] /\ y \in subscribed'[new[k]]
          BY <1>5, <2>1, <3>1, <4>5
        <4> QED BY <4>3, <4>4, <4>5, <4>6
      <3> QED BY <3>3, <3>4
    <2> QED BY <1>8, <2>2, <2>3 DEF Unsubscribe
  <1>9. ASSUME NEW t \in Thread, Cycle(t) PROVE m_subscribers' = m_subscribers /\ subscribed' = subscribed /\ held' = held
    <2> DEFINE z == event[t].type
               p == vec_it[t]
    <2>1. pc[t] = "cycle" /\ z \in Type
      BY <1>1, <1>9 DEF Cycle, TypeInv, CallInv, Event
    <2>2. PICK list \in Seq(Weak) : list = m_subscribers[z]
      BY <1>1, <2>1
    <2>3. p <= Len(list) => Alive(list[p])
      <3>1. Len(list) \in Nat /\ p \in Nat \ {0}
        BY <1>1, <2>2
      <3>2. p <= Len(list) => list[p] \in Subscriber /\ held[list[p]]
        BY <1>2, <2>1, <2>2, <3>1
      <3> QED BY <3>2, PubSubAssumption DEF Alive
    <2> QED BY <1>9, <2>2, <2>3 DEF Cycle, Leave, broker
  <1>10. ASSUME NEW t \in Thread, NEW r \in Subscriber, Drop(t, r)
         PROVE  Good(m_subscribers'[y], y, held', subscribed')
    <2>1. ~InBroker(r) /\ m_subscribers' = m_subscribers /\ subscribed' = subscribed /\ held' = [held EXCEPT ![r] = FALSE]
      BY <1>10 DEF Drop, broker, account
    <2>2. \A i \in 1 .. Len(vec) : vec[i] # r
      BY <1>4, <2>1 DEF InBroker, Contains
    <2>3. \A i \in 1 .. Len(vec) : held'[vec[i]]
      BY <1>1, <1>5, <2>1, <2>2
    <2> QED BY <1>4, <1>5, <2>1, <2>3
  <1>11. \/ m_subscribers' = m_subscribers /\ subscribed' = subscribed /\ held' = held
         \/ \E t \in Thread, r \in Subscriber, types \in SUBSET Type : Subscribe(t, r, types) \/ Unsubscribe(t, r, types)
         \/ \E t \in Thread : Cycle(t)
         \/ \E t \in Thread, r \in Subscriber : Drop(t, r)
    <2> USE DEF broker, account
    <2>1. CASE \E t \in Thread : ClientCall(t)
      BY <2>1 DEF ClientCall, Publish, Start, Cancel, Join
    <2>2. CASE \E t \in Thread : ClientStep(t)
      BY <2>2 DEF ClientStep, BrokerExpired, LockBroker, Enter, Lock, Release, Joined, Destroyed
    <2>3. CASE (\E r \in Subscriber : SubscriberStep(r)) \/ DropBroker \/ UNCHANGED vars
      BY <2>3 DEF SubscriberStep, Pop, Consume, DropBroker, vars
    <2> QED BY <2>1, <2>2, <2>3 DEF Next
  <1> QED BY <1>6, <1>7, <1>8, <1>9, <1>10, <1>11

LEMMA QuietCorrect ==
  ASSUME OnceEach, QuietRelease
  PROVE  Spec => []QuietInv
  <1>1. Init => QuietInv
    <2> SUFFICES ASSUME Init PROVE QuietInv
      OBVIOUS
    <2>1. TypeInv
      BY InitTypes
    <2>2. SubInv
      BY DEF Init, SubInv
    <2>3. ListInv
      <3>1. \A y \in Type : Len(m_subscribers[y]) = 0
        BY DEF Init
      <3> QED BY <3>1 DEF ListInv
    <2> QED BY <2>1, <2>2, <2>3 DEF QuietInv
  <1>2. QuietInv /\ [Next]_vars => QuietInv'
    BY StepTypes, StepSubscribed, StepQuiet DEF QuietInv
  <1> QED BY <1>1, <1>2, PTL DEF Spec

\* UnsubscribeCleans: when clients subscribe and unsubscribe in turn and release a
\* subscriber only once it is in no list, unsubscribe's erase(iterator) finds one
\* pointer to erase, the caller's, and leaves everybody else's in their order.  (No
\* pointer in a list is expired then: what is to be removed is the caller alone.)
THEOREM UnsubscribeCorrect ==
  ASSUME OnceEach, QuietRelease
  PROVE  Spec => UnsubscribeCleans
  <1>1. ASSUME QuietInv, [Next]_vars, NEW s \in Subscriber, NEW y \in Type, y \in subscribed[s], y \notin subscribed'[s]
        PROVE  Cleaned(m_subscribers'[y], m_subscribers[y], s)
    <2>1. ASSUME NEW t \in Thread, NEW r \in Subscriber, NEW types \in SUBSET Type, Subscribe(t, r, types) PROVE FALSE
      <3>1. subscribed' = [subscribed EXCEPT ![r] = @ \cup types] /\ subscribed \in [Subscriber -> SUBSET Type]
        BY <1>1, <2>1 DEF Subscribe, QuietInv, TypeInv, TypeOK
      <3>2. subscribed[s] \subseteq subscribed'[s]
        BY <3>1
      <3> QED BY <1>1, <3>2
    <2>2. subscribed' # subscribed
      BY <1>1
    <2>3. PICK t \in Thread, r \in Subscriber, types \in SUBSET Type : Unsubscribe(t, r, types)
      <3> USE DEF account
      <3>1. CASE \E t \in Thread : ClientCall(t)
        BY <1>1, <2>1, <2>2, <3>1 DEF ClientCall, Publish, Start, Cancel, Join, Drop
      <3>2. ~\E t \in Thread : ClientStep(t)
        BY <2>2 DEF ClientStep, BrokerExpired, LockBroker, Enter, Cycle, Leave, Lock, Release, Joined, Destroyed
      <3>3. ~((\E r \in Subscriber : SubscriberStep(r)) \/ DropBroker \/ UNCHANGED vars)
        BY <2>2 DEF SubscriberStep, Pop, Consume, DropBroker, vars
      <3> QED BY <1>1, <3>1, <3>2, <3>3 DEF Next
    <2>4. /\ held[r] /\ subscribed' = [subscribed EXCEPT ![r] = @ \ types]
          /\ m_subscribers' = [z \in Type |->
               IF z \in types /\ m_subscribers[z] # <<>> THEN Erased(r, m_subscribers[z]) ELSE m_subscribers[z]]
      BY <2>2, <2>3 DEF Unsubscribe
    <2>5. s = r /\ y \in types
      BY <1>1, <2>4 DEF QuietInv, TypeInv, TypeOK
    <2>6. m_subscribers[y] # <<>>
      <3>1. \E i \in 1 .. Len(m_subscribers[y]) : m_subscribers[y][i] = s
        BY <1>1, <2>4, <2>5 DEF QuietInv, SubInv
      <3>2. 1 .. 0 = {} /\ Len(<<>>) = 0
        OBVIOUS
      <3> QED BY <3>1, <3>2
    <2>7. m_subscribers'[y] = Erased(s, m_subscribers[y])
      BY <2>4, <2>5, <2>6
    <2>8. Cleaned(Erased(s, m_subscribers[y]), m_subscribers[y], s)
      BY <1>1, <2>4, <2>5, QuietErased
    <2> QED BY <2>7, <2>8
  <1>2. QuietInv /\ [Next]_vars =>
          [\A s \in Subscriber, y \in Type :
             y \in subscribed[s] /\ y \notin subscribed'[s] => Cleaned(m_subscribers'[y], m_subscribers[y], s)]_vars
    BY <1>1
  <1> QED BY <1>2, QuietCorrect, PTL DEF Spec, UnsubscribeCleans

\* OnlySubscribed: under the same use the broker notifies a subscriber only of
\* types it is subscribed to at that moment.
THEOREM OnlySubscribedCorrect ==
  ASSUME OnceEach, QuietRelease
  PROVE  Spec => OnlySubscribed
  <1>1. ASSUME QuietInv, [Next]_vars, NEW s \in Subscriber, NEW t \in Thread,
               pc[t] = "lock", m_events'[s] # m_events[s], pc'[t] = "release"
        PROVE  event[t].type \in subscribed[s]
    <2>1. pc \in [Thread -> ClientLabels] /\ m_events \in [Subscriber -> Seq(Event \cup {Null})] /\ vec_it[t] \in Nat \ {0}
      BY <1>1 DEF QuietInv, TypeInv, TypeOK
    <2>2. Lock(t)
      <3>1. Cycle(t) \/ Lock(t) \/ pc'[t] = pc[t] \/ pc'[t] # "release"
        <4> USE DEF Goto, calls
        <4>1. ASSUME NEW u \in Thread, ClientCall(u) PROVE pc'[t] = pc[t] \/ pc'[t] # "release"
          <5>1. /\ pc[u] = "idle"
                /\ pc' = pc \/ \E l \in {"expired", "crashed", "join", "destroy"} : pc' = [pc EXCEPT ![u] = l]
            BY <4>1 DEF ClientCall, Publish, Subscribe, Unsubscribe, Start, Cancel, Join, Drop
          <5> QED BY <1>1, <2>1, <5>1
        <4>2. ASSUME NEW u \in Thread, ClientStep(u), ~Lock(u) PROVE pc'[t] = pc[t] \/ pc'[t] # "release"
          <5>1. pc' = pc \/ \E l \in {"lockBroker", "idle", "enter", "crashed", "cycle", "lock", "destroy"} : pc' = [pc EXCEPT ![u] = l]
            <6>1. CASE BrokerExpired(u) \/ LockBroker(u) \/ Enter(u)
              BY <6>1 DEF BrokerExpired, LockBroker, Enter
            <6>2. CASE Cycle(u)
              BY <6>2 DEF Cycle, Leave
            <6>3. CASE Release(u)
              BY <6>3 DEF Release
            <6>4. CASE Joined(u) \/ Destroyed(u)
              BY <6>4 DEF Joined, Destroyed
            <6> QED BY <4>2, <6>1, <6>2, <6>3, <6>4 DEF ClientStep
          <5> QED BY <2>1, <5>1
        <4>3. ASSUME NEW u \in Thread, Lock(u), u # t PROVE pc'[t] = pc[t]
          <5>1. pc' = [pc EXCEPT ![u] = "release"] \/ pc' = [pc EXCEPT ![u] = "crashed"]
            BY <4>3 DEF Lock
          <5> QED BY <2>1, <4>3, <5>1
        <4>4. CASE (\E r \in Subscriber : SubscriberStep(r)) \/ DropBroker \/ UNCHANGED vars
          BY <4>4 DEF SubscriberStep, Pop, Consume, DropBroker, vars
        <4> QED BY <1>1, <4>1, <4>2, <4>3, <4>4 DEF Next
      <3> QED BY <1>1, <3>1 DEF Cycle
    <2> DEFINE y == event[t].type
    <2>3. y \in Type /\ vec_it[t] <= Len(m_subscribers[y])
      BY <1>1 DEF QuietInv, TypeInv, CallInv, Event
    <2>4. m_subscribers[y] \in Seq(Weak)
      BY <1>1, <2>3 DEF QuietInv, TypeInv, TypeOK, Weak
    <2>5. vec_it[t] \in 1 .. Len(m_subscribers[y])
      BY <2>1, <2>3, <2>4
    <2>6. m_subscribers[y][vec_it[t]] = s
      BY <1>1, <2>1, <2>2 DEF Lock, Goto
    <2> QED BY <1>1, <2>3, <2>5, <2>6 DEF QuietInv, ListInv
  <1>2. QuietInv /\ [Next]_vars =>
          [\A s \in Subscriber, t \in Thread :
             pc[t] = "lock" /\ m_events'[s] # m_events[s] /\ pc'[t] = "release" => event[t].type \in subscribed[s]]_vars
    BY <1>1
  <1> QED BY <1>2, QuietCorrect, PTL DEF Spec, OnlySubscribed
==============================================================================
