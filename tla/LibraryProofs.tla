----------------------------- MODULE LibraryProofs -----------------------------
(****************************************************************************)
(* Theorems about the parts of the library that LibraryParts puts side by   *)
(* side: a Thread object, a Signal with its Connections, the CircularQueue  *)
(* over its RingBuffer, an InputBox, the collectors of metrics, and the     *)
(* ByteBuffers of a program, each under its own specification.              *)
(****************************************************************************)
EXTENDS LibraryParts, Integers, Sequences, SequencesExt, FiniteSets, FiniteSetTheorems, SequenceTheorems, TLAPS

-------------------------------------------------------------------------------
(* One Thread object.                                                         *)

ThreadTypes ==
  /\ m_thread \in {"null", "joinable", "joined", "detached"}
  /\ m_policy_ \in Threads!Policies
  /\ wanted \in [policy : Threads!Policies, daemon : BOOLEAN]
  /\ body \in {"none", "created", "running", "ended"}
  /\ object \in {"alive", "base", "gone"}
  /\ at \in {"idle", "start", "store", "policy", "detach", "cancel", "effect", "join", "last", "gone"}
  /\ after \in {"idle", "join", "destroy"}
  /\ tornDown \in 0..1

\* Where the owner is tells what has become of the thread, of the daemon flag
\* and of the object.
OwnerInv ==
  /\ m_thread = "null" => body = "none" /\ tornDown = 0 /\ ~joined
  /\ m_started => m_thread # "null"
  /\ m_thread # "null" => m_started \/ at = "store"
  /\ at = "start" => m_thread = "null"
  /\ at \in {"store", "policy", "detach"} => m_thread = "joinable"
  /\ at = "policy" => ~m_daemon
  /\ at = "effect" \/ aiming => m_started
  /\ at \in {"last", "gone"} /\ m_thread = "joinable" => m_daemon
  /\ after = "destroy" <=> object # "alive"
  /\ after = "destroy" => at \in {"cancel", "effect", "join", "last", "gone"}
  /\ at \in {"last", "gone"} => after = "destroy"

\* What joins and detaches did, and a daemon that a cancel came before.
OutcomeInv ==
  /\ m_thread = "joined" => body = "ended"
  /\ m_thread = "joined" /\ object = "alive" => tornDown = 1
  /\ tornDown = 1 => m_thread = "joined"
  /\ m_thread = "detached" => m_daemon
  /\ m_daemon /\ wanted # Threads!NotWanted => m_thread = "detached"
  /\ joined /\ ~m_daemon => m_thread = "joined" /\ tornDown = 1
  /\ m_daemon /\ m_thread = "joinable" /\ at \notin {"store", "policy", "detach"} => m_cancelled

ThreadIInv == ThreadTypes /\ OwnerInv /\ OutcomeInv /\ Threads!EndsWell

LEMMA ThreadInit == Threads!Init => ThreadIInv
  <1> SUFFICES ASSUME Threads!Init PROVE ThreadIInv
    OBVIOUS
  <1>1. ThreadTypes
    <2>1. Threads!NotWanted \in [policy : Threads!Policies, daemon : BOOLEAN] /\ "DEFERRED" \in Threads!Policies
      BY DEF Threads!Policies, Threads!NotWanted
    <2> QED BY <2>1 DEF Threads!Init, ThreadTypes
  <1>2. OwnerInv /\ OutcomeInv /\ Threads!EndsWell
    BY DEF Threads!Init, OwnerInv, OutcomeInv, Threads!EndsWell
  <1> QED BY <1>1, <1>2 DEF ThreadIInv

LEMMA ThreadStep == ThreadIInv /\ [Threads!Next]_(Threads!threadVars) => ThreadIInv'
  <1> SUFFICES ASSUME ThreadIInv, [Threads!Next]_(Threads!threadVars) PROVE ThreadIInv'
    OBVIOUS
  <1> USE DEF ThreadIInv, Threads!Goes, Threads!Fields, Threads!Others
  <1>1. CASE Threads!CallStart /\ crashed = "no"
    <2>1. ThreadTypes'
      BY <1>1 DEF Threads!CallStart, ThreadTypes
    <2>2. OwnerInv'
      BY <1>1 DEF Threads!CallStart, ThreadTypes, OwnerInv, OutcomeInv
    <2>3. OutcomeInv'
      BY <1>1 DEF Threads!CallStart, ThreadTypes, OwnerInv, OutcomeInv
    <2>4. Threads!EndsWell'
      BY <1>1, <2>1, <2>2, <2>3 DEF Threads!CallStart, ThreadTypes, OwnerInv, OutcomeInv, Threads!EndsWell
    <2> QED BY <2>1, <2>2, <2>3, <2>4
  <1>2. CASE Threads!MakeThread /\ crashed = "no"
    <2>1. ThreadTypes'
      BY <1>2 DEF Threads!MakeThread, ThreadTypes
    <2>2. OwnerInv'
      BY <1>2 DEF Threads!MakeThread, ThreadTypes, OwnerInv, OutcomeInv
    <2>3. OutcomeInv'
      BY <1>2 DEF Threads!MakeThread, ThreadTypes, OwnerInv, OutcomeInv
    <2>4. Threads!EndsWell'
      BY <1>2, <2>1, <2>2, <2>3 DEF Threads!MakeThread, ThreadTypes, OwnerInv, OutcomeInv, Threads!EndsWell
    <2> QED BY <2>1, <2>2, <2>3, <2>4
  <1>3. CASE Threads!StoreStarted /\ crashed = "no"
    <2>1. ThreadTypes'
      <3>1. at' \in {"policy", "detach", "idle"}
        BY <1>3 DEF Threads!StoreStarted
      <3>2. UNCHANGED <<m_thread, m_policy_, wanted, body, object, after, tornDown>>
        BY <1>3 DEF Threads!StoreStarted
      <3> QED BY <3>1, <3>2 DEF ThreadTypes
    <2>2. OwnerInv'
      BY <1>3 DEF Threads!StoreStarted, ThreadTypes, OwnerInv, OutcomeInv
    <2>3. OutcomeInv'
      BY <1>3 DEF Threads!StoreStarted, ThreadTypes, OwnerInv, OutcomeInv
    <2>4. Threads!EndsWell'
      BY <1>3, <2>1, <2>2, <2>3 DEF Threads!StoreStarted, ThreadTypes, OwnerInv, OutcomeInv, Threads!EndsWell
    <2> QED BY <2>1, <2>2, <2>3, <2>4
  <1>4. CASE Threads!SetWantedPolicy /\ crashed = "no"
    <2>1. ThreadTypes'
      BY <1>4 DEF Threads!SetWantedPolicy, ThreadTypes, Threads!Policies
    <2>2. OwnerInv'
      BY <1>4 DEF Threads!SetWantedPolicy, ThreadTypes, OwnerInv, OutcomeInv
    <2>3. OutcomeInv'
      BY <1>4 DEF Threads!SetWantedPolicy, ThreadTypes, OwnerInv, OutcomeInv
    <2>4. Threads!EndsWell'
      BY <1>4, <2>1, <2>2, <2>3 DEF Threads!SetWantedPolicy, ThreadTypes, OwnerInv, OutcomeInv, Threads!EndsWell
    <2> QED BY <2>1, <2>2, <2>3, <2>4
  <1>5. CASE Threads!Detach /\ crashed = "no"
    <2>1. ThreadTypes'
      BY <1>5 DEF Threads!Detach, ThreadTypes
    <2>2. OwnerInv'
      BY <1>5 DEF Threads!Detach, ThreadTypes, OwnerInv, OutcomeInv
    <2>3. OutcomeInv'
      BY <1>5 DEF Threads!Detach, ThreadTypes, OwnerInv, OutcomeInv
    <2>4. Threads!EndsWell'
      BY <1>5, <2>1, <2>2, <2>3 DEF Threads!Detach, ThreadTypes, OwnerInv, OutcomeInv, Threads!EndsWell
    <2> QED BY <2>1, <2>2, <2>3, <2>4
  <1>6. CASE Threads!SetAffinity /\ crashed = "no"
    <2>1. ThreadTypes'
      BY <1>6 DEF Threads!SetAffinity, ThreadTypes
    <2>2. OwnerInv'
      BY <1>6 DEF Threads!SetAffinity, ThreadTypes, OwnerInv, OutcomeInv
    <2>3. OutcomeInv'
      BY <1>6 DEF Threads!SetAffinity, ThreadTypes, OwnerInv, OutcomeInv
    <2>4. Threads!EndsWell'
      BY <1>6, <2>1, <2>2, <2>3 DEF Threads!SetAffinity, ThreadTypes, OwnerInv, OutcomeInv, Threads!EndsWell
    <2> QED BY <2>1, <2>2, <2>3, <2>4
  <1>7. CASE \E then \in {"idle", "join", "destroy"} : Threads!CallCancel(then) /\ crashed = "no"
    <2>1. ThreadTypes'
      BY <1>7 DEF Threads!CallCancel, ThreadTypes
    <2>2. OwnerInv'
      BY <1>7 DEF Threads!CallCancel, ThreadTypes, OwnerInv, OutcomeInv
    <2>3. OutcomeInv'
      BY <1>7 DEF Threads!CallCancel, ThreadTypes, OwnerInv, OutcomeInv
    <2>4. Threads!EndsWell'
      BY <1>7, <2>1, <2>2, <2>3 DEF Threads!CallCancel, ThreadTypes, OwnerInv, OutcomeInv, Threads!EndsWell
    <2> QED BY <2>1, <2>2, <2>3, <2>4
  <1>8. CASE Threads!TestCancel /\ crashed = "no"
    <2>1. ThreadTypes'
      BY <1>8 DEF Threads!TestCancel, Threads!Cancels, ThreadTypes
    <2>2. OwnerInv'
      BY <1>8 DEF Threads!TestCancel, Threads!Cancels, ThreadTypes, OwnerInv, OutcomeInv
    <2>3. OutcomeInv'
      BY <1>8 DEF Threads!TestCancel, Threads!Cancels, ThreadTypes, OwnerInv, OutcomeInv
    <2>4. Threads!EndsWell'
      BY <1>8, <2>1, <2>2, <2>3 DEF Threads!TestCancel, Threads!Cancels, ThreadTypes, OwnerInv, OutcomeInv, Threads!EndsWell
    <2> QED BY <2>1, <2>2, <2>3, <2>4
  <1>9. CASE Threads!Effect /\ crashed = "no"
    <2>1. ThreadTypes'
      BY <1>9 DEF Threads!Effect, Threads!TakeEffect, ThreadTypes
    <2>2. OwnerInv'
      BY <1>9 DEF Threads!Effect, Threads!TakeEffect, ThreadTypes, OwnerInv, OutcomeInv
    <2>3. OutcomeInv'
      BY <1>9 DEF Threads!Effect, Threads!TakeEffect, ThreadTypes, OwnerInv, OutcomeInv
    <2>4. Threads!EndsWell'
      BY <1>9, <2>1, <2>2, <2>3 DEF Threads!Effect, Threads!TakeEffect, ThreadTypes, OwnerInv, OutcomeInv, Threads!EndsWell
    <2> QED BY <2>1, <2>2, <2>3, <2>4
  <1>10. CASE Threads!CallJoin /\ crashed = "no"
    <2>1. ThreadTypes'
      BY <1>10 DEF Threads!CallJoin, ThreadTypes
    <2>2. OwnerInv'
      BY <1>10 DEF Threads!CallJoin, ThreadTypes, OwnerInv, OutcomeInv
    <2>3. OutcomeInv'
      BY <1>10 DEF Threads!CallJoin, ThreadTypes, OwnerInv, OutcomeInv
    <2>4. Threads!EndsWell'
      BY <1>10, <2>1, <2>2, <2>3 DEF Threads!CallJoin, ThreadTypes, OwnerInv, OutcomeInv, Threads!EndsWell
    <2> QED BY <2>1, <2>2, <2>3, <2>4
  <1>11. CASE Threads!Join /\ crashed = "no"
    <2>1. ThreadTypes'
      <3>1. tornDown' \in 0..1
        <4>1. CASE Threads!isJoinable /\ object = "alive"
          BY <1>11, <4>1 DEF Threads!Join, Threads!isJoinable, ThreadTypes, OutcomeInv
        <4>2. CASE ~(Threads!isJoinable /\ object = "alive")
          BY <1>11, <4>2 DEF Threads!Join, ThreadTypes
        <4> QED BY <4>1, <4>2
      <3>2. at' \in {"last", "idle"} /\ m_thread' \in {m_thread, "joined"}
        BY <1>11 DEF Threads!Join
      <3>3. UNCHANGED <<m_policy_, wanted, body, object, after>>
        BY <1>11 DEF Threads!Join
      <3> QED BY <3>1, <3>2, <3>3 DEF ThreadTypes
    <2>2. OwnerInv'
      BY <1>11 DEF Threads!Join, Threads!isJoinable, ThreadTypes, OwnerInv, OutcomeInv
    <2>3. OutcomeInv'
      <3>1. CASE Threads!isJoinable
        <4>1. tornDown = 0 /\ body = "ended" /\ m_thread' = "joined"
          BY <1>11, <3>1 DEF Threads!Join, Threads!isJoinable, ThreadTypes, OutcomeInv
        <4>2. tornDown' = IF object = "alive" THEN 1 ELSE 0
          BY <1>11, <3>1, <4>1 DEF Threads!Join
        <4>3. joined' => joined \/ object = "alive"
          BY <1>11 DEF Threads!Join, OwnerInv
        <4>4. ~joined /\ ~m_daemon
          BY <3>1 DEF Threads!isJoinable, OutcomeInv
        <4>5. UNCHANGED <<m_daemon, m_cancelled, wanted, body, object>>
          BY <1>11 DEF Threads!Join
        <4> QED BY <4>1, <4>2, <4>3, <4>4, <4>5 DEF OutcomeInv
      <3>2. CASE ~Threads!isJoinable
        BY <1>11, <3>2 DEF Threads!Join, Threads!isJoinable, ThreadTypes, OwnerInv, OutcomeInv
      <3> QED BY <3>1, <3>2
    <2>4. Threads!EndsWell'
      BY <1>11, <2>1, <2>2, <2>3 DEF Threads!Join, Threads!isJoinable, ThreadTypes, OwnerInv, OutcomeInv, Threads!EndsWell
    <2> QED BY <2>1, <2>2, <2>3, <2>4
  <1>12. CASE Threads!DestroyMembers /\ crashed = "no"
    <2>1. ThreadTypes'
      BY <1>12 DEF Threads!DestroyMembers, ThreadTypes
    <2>2. OwnerInv'
      BY <1>12 DEF Threads!DestroyMembers, ThreadTypes, OwnerInv, OutcomeInv
    <2>3. OutcomeInv'
      BY <1>12 DEF Threads!DestroyMembers, ThreadTypes, OwnerInv, OutcomeInv
    <2>4. Threads!EndsWell'
      BY <1>12, <2>1, <2>2, <2>3 DEF Threads!DestroyMembers, ThreadTypes, OwnerInv, OutcomeInv, Threads!EndsWell
    <2> QED BY <2>1, <2>2, <2>3, <2>4
  <1>13. CASE Threads!OtherTest /\ crashed = "no"
    <2>1. ThreadTypes'
      BY <1>13 DEF Threads!OtherTest, Threads!Cancels, ThreadTypes
    <2>2. OwnerInv'
      BY <1>13 DEF Threads!OtherTest, Threads!Cancels, ThreadTypes, OwnerInv, OutcomeInv
    <2>3. OutcomeInv'
      BY <1>13 DEF Threads!OtherTest, Threads!Cancels, ThreadTypes, OwnerInv, OutcomeInv
    <2>4. Threads!EndsWell'
      BY <1>13, <2>1, <2>2, <2>3 DEF Threads!OtherTest, Threads!Cancels, ThreadTypes, OwnerInv, OutcomeInv, Threads!EndsWell
    <2> QED BY <2>1, <2>2, <2>3, <2>4
  <1>14. CASE Threads!OtherEffect /\ crashed = "no"
    <2>1. ThreadTypes'
      BY <1>14 DEF Threads!OtherEffect, Threads!TakeEffect, ThreadTypes
    <2>2. OwnerInv'
      BY <1>14 DEF Threads!OtherEffect, Threads!TakeEffect, ThreadTypes, OwnerInv, OutcomeInv
    <2>3. OutcomeInv'
      BY <1>14 DEF Threads!OtherEffect, Threads!TakeEffect, ThreadTypes, OwnerInv, OutcomeInv
    <2>4. Threads!EndsWell'
      BY <1>14, <2>1, <2>2, <2>3 DEF Threads!OtherEffect, Threads!TakeEffect, ThreadTypes, OwnerInv, OutcomeInv, Threads!EndsWell
    <2> QED BY <2>1, <2>2, <2>3, <2>4
  <1>15. CASE Threads!Begin /\ crashed = "no"
    <2>1. ThreadTypes'
      BY <1>15 DEF Threads!Begin, ThreadTypes
    <2>2. OwnerInv'
      BY <1>15 DEF Threads!Begin, ThreadTypes, OwnerInv, OutcomeInv
    <2>3. OutcomeInv'
      BY <1>15 DEF Threads!Begin, ThreadTypes, OwnerInv, OutcomeInv
    <2>4. Threads!EndsWell'
      BY <1>15, <2>1, <2>2, <2>3 DEF Threads!Begin, ThreadTypes, OwnerInv, OutcomeInv, Threads!EndsWell
    <2> QED BY <2>1, <2>2, <2>3, <2>4
  <1>16. CASE Threads!RunCancels /\ crashed = "no"
    <2>1. ThreadTypes'
      BY <1>16 DEF Threads!RunCancels, ThreadTypes
    <2>2. OwnerInv'
      BY <1>16 DEF Threads!RunCancels, ThreadTypes, OwnerInv, OutcomeInv
    <2>3. OutcomeInv'
      BY <1>16 DEF Threads!RunCancels, ThreadTypes, OwnerInv, OutcomeInv
    <2>4. Threads!EndsWell'
      BY <1>16, <2>1, <2>2, <2>3 DEF Threads!RunCancels, ThreadTypes, OwnerInv, OutcomeInv, Threads!EndsWell
    <2> QED BY <2>1, <2>2, <2>3, <2>4
  <1>17. CASE Threads!End /\ crashed = "no"
    <2>1. ThreadTypes'
      BY <1>17 DEF Threads!End, ThreadTypes
    <2>2. OwnerInv'
      BY <1>17 DEF Threads!End, ThreadTypes, OwnerInv, OutcomeInv
    <2>3. OutcomeInv'
      BY <1>17 DEF Threads!End, ThreadTypes, OwnerInv, OutcomeInv
    <2>4. Threads!EndsWell'
      BY <1>17, <2>1, <2>2, <2>3 DEF Threads!End, ThreadTypes, OwnerInv, OutcomeInv, Threads!EndsWell
    <2> QED BY <2>1, <2>2, <2>3, <2>4
  <1>18. CASE UNCHANGED Threads!threadVars
    <2>1. ThreadTypes'
      BY <1>18 DEF Threads!threadVars, ThreadTypes
    <2>2. OwnerInv'
      BY <1>18 DEF Threads!threadVars, OwnerInv
    <2>3. OutcomeInv' /\ Threads!EndsWell'
      BY <1>18 DEF Threads!threadVars, OutcomeInv, Threads!EndsWell
    <2> QED BY <2>1, <2>2, <2>3
  <1> QED BY <1>1, <1>2, <1>3, <1>4, <1>5, <1>6, <1>7, <1>8, <1>9, <1>10, <1>11, <1>12, <1>13, <1>14, <1>15, <1>16, <1>17, <1>18 DEF Threads!Next

\* EndsWell: whenever a join or a stop of a thread that is no daemon has returned,
\* run has ended and tearDown was called, once; and the program comes down only
\* in the ways EndsWell names.
THEOREM ThreadEndsWell == Threads!Spec => []EndsWell
  <1>1. ThreadIInv => EndsWell
    BY DEF ThreadIInv, EndsWell
  <1> QED BY <1>1, ThreadInit, ThreadStep, PTL DEF Threads!Spec

-------------------------------------------------------------------------------
(* A signal and its connections.                                              *)

SignalTypes ==
  /\ kind \in Seq(Kind) /\ calls \in Nat
  /\ m_connections \in SUBSET DOMAIN kind
  /\ expired \in SUBSET DOMAIN kind /\ cut \in SUBSET DOMAIN kind
  /\ calling \in [Thread -> {"nothing", "emit", "slots", "isConnected"}]
  /\ slots \in [Thread -> SUBSET DOMAIN kind]
  /\ called \in [Thread -> Seq(DOMAIN kind)]
  /\ before \in [Thread -> SUBSET cut] /\ due \in [Thread -> SUBSET DOMAIN kind]
  /\ asked \in [Thread -> [id : Nat, map : SUBSET DOMAIN kind, made : Nat]]

\* A connection is cut when it has left the map or its token has expired.
CutInv ==
  /\ \A id \in DOMAIN kind : id \in cut <=> id \notin m_connections \/ id \in expired
  /\ \A id \in expired : Slots!HasToken(id)

\* What emit has called comes before what it has still to call, and neither was
\* cut before.
EmitAt(t) ==
  /\ \A i, j \in 1 .. Len(called[t]) : i < j => called[t][i] < called[t][j]
  /\ \A i \in 1 .. Len(called[t]) : called[t][i] \notin before[t]
  /\ \A i \in 1 .. Len(called[t]), id \in slots[t] : called[t][i] < id
  /\ slots[t] \cap before[t] = {}
  /\ calling[t] = "slots" =>
       \A id \in due[t] : id \in cut \cup slots[t] \/ \E i \in 1 .. Len(called[t]) : called[t][i] = id
  /\ calling[t] # "slots" => slots[t] = {} /\ called[t] = <<>>
EmitInv == \A t \in Thread : EmitAt(t)

AskInv ==
  /\ ~wrong
  /\ \A t \in Thread : calling[t] = "isConnected" => asked[t].id \in DOMAIN kind

SignalIInv == SignalTypes /\ CutInv /\ EmitInv /\ AskInv

LEMMA SignalInit == Slots!Init => SignalIInv
  <1> SUFFICES ASSUME Slots!Init PROVE SignalIInv
    OBVIOUS
  <1>1. SignalTypes
    <2>1. Slots!NotAsked \in [id : Nat, map : SUBSET DOMAIN kind, made : Nat]
      BY DEF Slots!NotAsked
    <2>2. kind = <<>> /\ <<>> \in Seq(Kind) /\ <<>> \in Seq(DOMAIN kind)
      BY DEF Slots!Init
    <2> QED BY <2>1, <2>2 DEF Slots!Init, SignalTypes
  <1>2. CutInv
    BY DEF Slots!Init, CutInv
  <1>3. EmitInv
    BY DEF Slots!Init, EmitInv, EmitAt
  <1>4. AskInv
    BY DEF Slots!Init, AskInv
  <1> QED BY <1>1, <1>2, <1>3, <1>4 DEF SignalIInv

\* Begin: what is cut by now, and what is connected, is remembered.
LEMMA SignalBegin ==
  ASSUME SignalIInv, NEW t \in Thread, NEW where \in {"emit", "isConnected"}, Slots!Begin(t, where)
  PROVE  /\ calls' \in Nat
         /\ calling' \in [Thread -> {"nothing", "emit", "slots", "isConnected"}]
         /\ before' \in [Thread -> SUBSET cut'] /\ due' \in [Thread -> SUBSET DOMAIN kind']
         /\ CutInv'
         /\ UNCHANGED <<slots, called>> => EmitInv'
  <1> USE DEF SignalIInv, Slots!Begin, Slots!Goto, Slots!SameMap
  <1>1. /\ calls' \in Nat
        /\ calling' \in [Thread -> {"nothing", "emit", "slots", "isConnected"}]
        /\ before' \in [Thread -> SUBSET cut'] /\ due' \in [Thread -> SUBSET DOMAIN kind']
    BY DEF SignalTypes
  <1>2. CutInv'
    BY DEF CutInv, Slots!HasToken
  <1>3. ASSUME UNCHANGED <<slots, called>> PROVE EmitInv'
    <2>1. ASSUME NEW r \in Thread PROVE EmitAt(r)'
      <3>1. CASE r = t
        BY <1>3, <3>1 DEF EmitInv, EmitAt, SignalTypes
      <3>2. CASE r # t
        BY <1>3, <3>2 DEF EmitInv, EmitAt, SignalTypes
      <3> QED BY <3>1, <3>2
    <2> QED BY <2>1 DEF EmitInv
  <1> QED BY <1>1, <1>2, <1>3

LEMMA SignalStep == SignalIInv /\ [Slots!Next]_(Slots!signalVars) => SignalIInv'
  <1> SUFFICES ASSUME SignalIInv, [Slots!Next]_(Slots!signalVars) PROVE SignalIInv'
    OBVIOUS
  <1> USE DEF SignalIInv, Slots!Goto, Slots!SameMap
  <1>1. ASSUME NEW t \in Thread, NEW k \in Kind, Slots!Connect(t, k) PROVE SignalIInv'
    <2>1. /\ kind' \in Seq(Kind) /\ DOMAIN kind' = DOMAIN kind \cup {Len(kind) + 1}
          /\ \A id \in DOMAIN kind : kind'[id] = kind[id]
          /\ Len(kind) + 1 \notin DOMAIN kind
      BY <1>1 DEF Slots!Connect, SignalTypes
    <2>2. SignalTypes'
      <3>1. called \in [Thread -> Seq(DOMAIN kind')]
        <4>1. \A q \in Seq(DOMAIN kind) : q \in Seq(DOMAIN kind')
          BY <2>1
        <4> QED BY <4>1 DEF SignalTypes
      <3> QED BY <1>1, <2>1, <3>1 DEF Slots!Connect, SignalTypes
    <2>3. CutInv'
      BY <1>1, <2>1 DEF Slots!Connect, CutInv, SignalTypes, Slots!HasToken
    <2>4. EmitInv'
      BY <1>1 DEF Slots!Connect, EmitInv, EmitAt
    <2>5. AskInv'
      BY <1>1, <2>1 DEF Slots!Connect, AskInv
    <2> QED BY <2>2, <2>3, <2>4, <2>5
  <1>2. ASSUME NEW t \in Thread, NEW id \in DOMAIN kind, Slots!Disconnect(t, id) PROVE SignalIInv'
    <2>1. SignalTypes'
      BY <1>2 DEF Slots!Disconnect, SignalTypes
    <2>2. CutInv'
      BY <1>2 DEF Slots!Disconnect, CutInv, SignalTypes, Slots!HasToken
    <2>3. EmitInv'
      BY <1>2 DEF Slots!Disconnect, EmitInv, EmitAt
    <2>4. AskInv'
      BY <1>2 DEF Slots!Disconnect, AskInv
    <2> QED BY <2>1, <2>2, <2>3, <2>4
  <1>3. ASSUME NEW id \in DOMAIN kind, Slots!Expire(id) PROVE SignalIInv'
    <2>1. SignalTypes'
      BY <1>3 DEF Slots!Expire, SignalTypes
    <2>2. CutInv'
      BY <1>3 DEF Slots!Expire, CutInv, SignalTypes, Slots!HasToken
    <2>3. EmitInv'
      BY <1>3 DEF Slots!Expire, EmitInv, EmitAt
    <2>4. AskInv'
      BY <1>3 DEF Slots!Expire, AskInv
    <2> QED BY <2>1, <2>2, <2>3, <2>4
  <1>4. ASSUME NEW t \in Thread, Slots!Emit(t) PROVE SignalIInv'
    <2>1. SignalTypes' /\ CutInv' /\ EmitInv'
      BY <1>4, SignalBegin DEF Slots!Emit, Slots!Begin, SignalTypes
    <2>2. AskInv'
      BY <1>4 DEF Slots!Emit, Slots!Begin, AskInv, SignalTypes
    <2> QED BY <2>1, <2>2
  <1>5. ASSUME NEW t \in Thread, NEW id \in DOMAIN kind, Slots!Find(t, id) PROVE SignalIInv'
    <2>1. [id |-> id, map |-> m_connections, made |-> Len(kind)] \in [id : Nat, map : SUBSET DOMAIN kind, made : Nat]
      BY DEF SignalTypes
    <2>2. SignalTypes' /\ CutInv' /\ EmitInv'
      BY <1>5, <2>1, SignalBegin DEF Slots!Find, Slots!Begin, SignalTypes
    <2>3. AskInv'
      BY <1>5 DEF Slots!Find, Slots!Begin, AskInv, SignalTypes
    <2> QED BY <2>2, <2>3
  <1>6. ASSUME NEW t \in Thread, Slots!Snapshot(t) PROVE SignalIInv'
    <2>1. SignalTypes'
      BY <1>6 DEF Slots!Snapshot, Slots!Live, SignalTypes
    <2>2. CutInv'
      BY <1>6 DEF Slots!Snapshot, Slots!Live, CutInv, SignalTypes, Slots!HasToken
    <2>3. ASSUME NEW r \in Thread PROVE EmitAt(r)'
      <3>1. CASE r = t
        <4>1. called'[t] = <<>> /\ Len(called'[t]) = 0
          BY <1>6 DEF Slots!Snapshot, EmitInv, EmitAt
        <4>2. slots'[t] = Slots!Live(m_connections) /\ UNCHANGED <<before, due, cut>>
          BY <1>6 DEF Slots!Snapshot, SignalTypes
        <4>3. \A id \in Slots!Live(m_connections) : id \notin cut
          BY DEF Slots!Live, CutInv, SignalTypes
        <4>4. slots'[t] \cap before'[t] = {}
          BY <4>2, <4>3 DEF SignalTypes
        <4>5. \A id \in due[t] : id \in cut \cup Slots!Live(m_connections)
          BY DEF Slots!Live, CutInv, SignalTypes
        <4>6. calling'[t] = "slots"
          BY <1>6 DEF Slots!Snapshot, SignalTypes
        <4> QED BY <3>1, <4>1, <4>2, <4>4, <4>5, <4>6 DEF EmitAt
      <3>2. CASE r # t
        BY <1>6, <3>2 DEF Slots!Snapshot, EmitInv, EmitAt, SignalTypes
      <3> QED BY <3>1, <3>2
    <2>4. AskInv'
      BY <1>6 DEF Slots!Snapshot, AskInv, SignalTypes
    <2> QED BY <2>1, <2>2, <2>3, <2>4 DEF EmitInv
  <1>7. ASSUME NEW t \in Thread, Slots!CallSlot(t) PROVE SignalIInv'
    <2>1. PICK id \in slots[t] :
            /\ \A later \in slots[t] : id <= later
            /\ slots' = [slots EXCEPT ![t] = @ \ {id}]
            /\ called' = IF Slots!Runs(id) THEN [called EXCEPT ![t] = Append(@, id)] ELSE called
      BY <1>7 DEF Slots!CallSlot
    <2>2. UNCHANGED <<m_connections, kind, expired, cut, calling, asked, before, due, wrong, calls>>
      BY <1>7 DEF Slots!CallSlot
    <2>3. SignalTypes'
      <3>1. id \in DOMAIN kind /\ called[t] \in Seq(DOMAIN kind)
        BY DEF SignalTypes
      <3>2. called' \in [Thread -> Seq(DOMAIN kind)]
        BY <2>1, <3>1 DEF SignalTypes
      <3> QED BY <2>1, <2>2, <3>2 DEF SignalTypes
    <2>4. CutInv' /\ AskInv'
      BY <2>2 DEF CutInv, AskInv, Slots!HasToken
    <2>5. ASSUME NEW r \in Thread PROVE EmitAt(r)'
      <3>1. CASE r # t
        BY <2>1, <2>2, <3>1 DEF EmitInv, EmitAt, SignalTypes
      <3>2. CASE r = t
        <4>1. id \in Nat /\ \A x \in slots[t] : x \in Nat
          BY DEF SignalTypes
        <4>2. slots'[t] = slots[t] \ {id} /\ calling[t] = "slots"
          BY <1>7, <2>1 DEF SignalTypes, Slots!CallSlot
        <4>3. EmitAt(t)
          BY DEF EmitInv
        <4>4. \A x \in slots'[t] : id < x
          BY <2>1, <4>1, <4>2
        <4>5. CASE Slots!Runs(id)
          <5>1. called'[t] = Append(called[t], id) /\ called[t] \in Seq(DOMAIN kind)
            BY <2>1, <4>5 DEF SignalTypes
          <5>2. /\ Len(called'[t]) = Len(called[t]) + 1 /\ Len(called[t]) \in Nat
                /\ called'[t][Len(called[t]) + 1] = id
                /\ \A i \in 1 .. Len(called[t]) : called'[t][i] = called[t][i]
            BY <5>1
          <5>3. \A i \in 1 .. Len(called[t]) : called[t][i] < id
            BY <4>3 DEF EmitAt
          <5>4. \A i, j \in 1 .. Len(called'[t]) : i < j => called'[t][i] < called'[t][j]
            <6>1. ASSUME NEW i \in 1 .. Len(called'[t]), NEW j \in 1 .. Len(called'[t]), i < j
                  PROVE  called'[t][i] < called'[t][j]
              <7>1. i \in 1 .. Len(called[t])
                BY <5>2, <6>1
              <7>2. CASE j \in 1 .. Len(called[t])
                BY <4>3, <5>2, <6>1, <7>1, <7>2 DEF EmitAt
              <7>3. CASE j = Len(called[t]) + 1
                BY <5>2, <5>3, <7>1, <7>3
              <7> QED BY <5>2, <7>2, <7>3
            <6> QED BY <6>1
          <5>5. \A i \in 1 .. Len(called'[t]) : called'[t][i] \notin before[t]
            BY <4>3, <5>2 DEF EmitAt
          <5>6. \A i \in 1 .. Len(called'[t]), x \in slots'[t] : called'[t][i] < x
            BY <4>2, <4>3, <4>4, <5>2 DEF EmitAt
          <5>7. \A x \in due[t] : x \in cut \cup slots'[t] \/ \E i \in 1 .. Len(called'[t]) : called'[t][i] = x
            BY <4>2, <4>3, <5>2 DEF EmitAt
          <5>8. slots'[t] \cap before[t] = {}
            BY <4>2, <4>3 DEF EmitAt
          <5> QED BY <2>2, <3>2, <4>2, <5>4, <5>5, <5>6, <5>7, <5>8 DEF EmitAt
        <4>6. CASE ~Slots!Runs(id)
          <5>1. id \in cut /\ called' = called
            BY <2>1, <4>6 DEF Slots!Runs, CutInv, SignalTypes
          <5> QED BY <2>2, <3>2, <4>2, <4>3, <5>1 DEF EmitAt
        <4> QED BY <4>5, <4>6
      <3> QED BY <3>1, <3>2
    <2> QED BY <2>3, <2>4, <2>5 DEF EmitInv
  <1>8. ASSUME NEW t \in Thread, Slots!Return(t) PROVE SignalIInv'
    <2>1. SignalTypes'
      <3>1. <<>> \in Seq(DOMAIN kind)
        OBVIOUS
      <3> QED BY <1>8, <3>1 DEF Slots!Return, SignalTypes
    <2>2. CutInv' /\ AskInv'
      BY <1>8 DEF Slots!Return, CutInv, AskInv, Slots!HasToken, SignalTypes
    <2>3. ASSUME NEW r \in Thread PROVE EmitAt(r)'
      <3>1. CASE r = t
        BY <1>8, <3>1 DEF Slots!Return, EmitInv, EmitAt, SignalTypes
      <3>2. CASE r # t
        BY <1>8, <3>2 DEF Slots!Return, EmitInv, EmitAt, SignalTypes
      <3> QED BY <3>1, <3>2
    <2> QED BY <2>1, <2>2, <2>3 DEF EmitInv
  <1>9. ASSUME NEW t \in Thread, Slots!Answer(t) PROVE SignalIInv'
    <2>1. Slots!NotAsked \in [id : Nat, map : SUBSET DOMAIN kind, made : Nat]
      BY DEF Slots!NotAsked
    <2>2. SignalTypes'
      BY <1>9, <2>1 DEF Slots!Answer, SignalTypes
    <2>3. CutInv'
      BY <1>9 DEF Slots!Answer, CutInv, Slots!HasToken
    <2>4. ASSUME NEW r \in Thread PROVE EmitAt(r)'
      <3>1. CASE r = t
        BY <1>9, <3>1 DEF Slots!Answer, EmitInv, EmitAt, SignalTypes
      <3>2. CASE r # t
        BY <1>9, <3>2 DEF Slots!Answer, EmitInv, EmitAt, SignalTypes
      <3> QED BY <3>1, <3>2
    <2>5. ~wrong'
      <3> DEFINE id == asked[t].id
                 raced == m_connections # asked[t].map \/ Len(kind) # asked[t].made
                 connected == id \in m_connections /\ ~(Slots!HasToken(id) /\ id \in expired)
      <3>1. id \in DOMAIN kind /\ ~wrong
        BY <1>9 DEF Slots!Answer, AskInv
      <3>2. connected <=> id \notin cut
        BY <3>1 DEF CutInv, SignalTypes
      <3>3. id \in before[t] => id \in cut
        BY DEF SignalTypes
      <3>4. PICK said \in IF raced THEN BOOLEAN ELSE {connected} :
              wrong' = (wrong \/ ((IF said THEN id \in before[t] ELSE id \notin cut) /\ ~raced))
        BY <1>9 DEF Slots!Answer
      <3> QED BY <3>1, <3>2, <3>3, <3>4
    <2>6. AskInv'
      BY <1>9, <2>5 DEF Slots!Answer, AskInv, SignalTypes
    <2> QED BY <2>2, <2>3, <2>4, <2>6 DEF EmitInv
  <1>10. CASE UNCHANGED Slots!signalVars
    BY <1>10 DEF Slots!signalVars, SignalTypes, CutInv, EmitInv, EmitAt, AskInv, Slots!HasToken
  <1> QED BY <1>1, <1>2, <1>3, <1>4, <1>5, <1>6, <1>7, <1>8, <1>9, <1>10 DEF Slots!Next

\* SlotsFollowConnections: however many threads connect, disconnect, expire and
\* emit, an emission calls its slots in the order of connection, each at most
\* once, none cut off before it, and none is missed; isConnected is right
\* whenever the map stands still.
THEOREM SlotsCorrect == Slots!Spec => []SlotsFollowConnections
  <1>1. SignalIInv => SlotsFollowConnections
    <2> SUFFICES ASSUME SignalIInv, NEW t \in Thread
        PROVE  /\ \A i, j \in 1 .. Len(called[t]) : i < j => called[t][i] < called[t][j]
               /\ ToSet(called[t]) \cap before[t] = {}
               /\ calling[t] = "slots" /\ slots[t] = {} => due[t] \ cut \subseteq ToSet(called[t])
               /\ ~wrong
      BY DEF SlotsFollowConnections, Slots!SlotsFollowConnections, Slots!ToSet, ToSet
    <2>1. EmitAt(t) /\ ~wrong /\ DOMAIN called[t] = 1 .. Len(called[t])
      BY DEF SignalIInv, EmitInv, AskInv, SignalTypes
    <2>2. \A x : x \in ToSet(called[t]) <=> \E i \in 1 .. Len(called[t]) : called[t][i] = x
      BY <2>1 DEF ToSet
    <2> QED BY <2>1, <2>2 DEF EmitAt
  <1> QED BY <1>1, SignalInit, SignalStep, PTL DEF Slots!Spec

-------------------------------------------------------------------------------
(* The circular queue and its ring.                                           *)

Element == Value \cup {Moved}
Wrapped(x, n) == IF x < n THEN x ELSE x - n

\* The front f, the back k and the size z of a ring of n slots.
Indices(n, z, f, k) ==
  /\ n \in Nat \ {0} /\ z \in 0 .. n /\ f \in 0 .. n - 1 /\ k \in 0 .. n - 1
  /\ k = Wrapped(f + z, n)

\* The z elements of the buffer b from the slot f on, around its end, are d's.
Holds(b, n, z, f, d) ==
  /\ b \in Seq(Element) /\ Len(b) = n
  /\ d \in Seq(Element) /\ Len(d) = z
  /\ \A i \in 0 .. z - 1 : b[Wrapped(f + i, n) + 1] = d[i + 1]

\* The element v is at the slot j of the buffer b.
IsAt(b, j, v) == b[j + 1] = v

RingInv ==
  /\ ring = [buffer |-> ring.buffer, size |-> ring.size, front |-> ring.front, back |-> ring.back]
  /\ Indices(Len(ring.buffer), ring.size, ring.front, ring.back)
  /\ Holds(ring.buffer, Len(ring.buffer), ring.size, ring.front, deque)

QueueIInv == RingInv /\ answer = expected

LEMMA Remainder ==
  ASSUME NEW n \in Nat \ {0}, NEW x \in 0 .. 2 * n - 1
  PROVE  x % n = Wrapped(x, n)
  <1>1. CASE x < n
    BY <1>1, SMT DEF Wrapped
  <1>2. CASE x >= n
    BY <1>2, SMT DEF Wrapped
  <1> QED BY <1>1, <1>2

\* A sequence with the element at j replaced.
LEMMA Replaced ==
  ASSUME NEW S, NEW s \in Seq(S), NEW j \in 1 .. Len(s), NEW v \in S, NEW t, t = [s EXCEPT ![j] = v]
  PROVE  /\ t \in Seq(S) /\ Len(t) = Len(s) /\ t[j] = v
         /\ \A i \in 1 .. Len(s) : i # j => t[i] = s[i]
  OBVIOUS

\* A put behind the last element, where there is room.
LEMMA PutWithRoom ==
  ASSUME NEW n, NEW b, NEW z, NEW f, NEW k, NEW d, Indices(n, z, f, k), Holds(b, n, z, f, d), z < n, NEW v \in Element
  PROVE  /\ Indices(n, z + 1, f, Wrapped(k + 1, n))
         /\ Holds([b EXCEPT ![k + 1] = v], n, z + 1, f, Append(d, v))
  <1> DEFINE c == [b EXCEPT ![k + 1] = v]
             e == Append(d, v)
  <1>1. Indices(n, z + 1, f, Wrapped(k + 1, n))
    BY DEF Indices, Wrapped
  <1>2. n \in Nat \ {0} /\ z \in 0 .. n - 1 /\ f \in 0 .. n - 1 /\ k \in 0 .. n - 1 /\ k = Wrapped(f + z, n)
    BY DEF Indices
  <1>3. c \in Seq(Element) /\ Len(c) = n /\ c[k + 1] = v /\ \A j \in 1 .. n : j # k + 1 => c[j] = b[j]
    <2>1. b \in Seq(Element) /\ Len(b) = n /\ k + 1 \in 1 .. Len(b)
      BY <1>2 DEF Holds
    <2> QED BY <2>1, Replaced
  <1>4. e \in Seq(Element) /\ Len(e) = z + 1 /\ e[z + 1] = v /\ \A i \in 0 .. z - 1 : e[i + 1] = d[i + 1]
    BY DEF Holds
  <1> HIDE DEF c, e
  <1>5. ASSUME NEW i \in 0 .. z PROVE c[Wrapped(f + i, n) + 1] = e[i + 1]
    <2>1. CASE i = z
      BY <1>2, <1>3, <1>4, <2>1
    <2>2. CASE i # z
      <3>1. i \in 0 .. z - 1
        BY <1>2, <2>2
      <3>2. Wrapped(f + i, n) + 1 \in 1 .. n /\ Wrapped(f + i, n) + 1 # k + 1
        BY <1>2, <3>1 DEF Wrapped
      <3>3. b[Wrapped(f + i, n) + 1] = d[i + 1]
        BY <3>1 DEF Holds
      <3>4. c[Wrapped(f + i, n) + 1] = b[Wrapped(f + i, n) + 1]
        BY <1>3, <3>2
      <3>5. e[i + 1] = d[i + 1]
        BY <1>4, <3>1
      <3> QED BY <3>3, <3>4, <3>5
    <2> QED BY <2>1, <2>2
  <1>6. (z + 1) - 1 = z
    BY <1>2
  <1>7. Holds(c, n, z + 1, f, e)
    BY <1>3, <1>4, <1>5, <1>6 DEF Holds
  <1> QED BY <1>1, <1>7 DEF c, e

\* A put on a full ring: the oldest element makes room.
LEMMA PutOnFull ==
  ASSUME NEW n, NEW b, NEW f, NEW k, NEW d, Indices(n, n, f, k), Holds(b, n, n, f, d), NEW v \in Element
  PROVE  /\ Indices(n, n, Wrapped(f + 1, n), Wrapped(k + 1, n))
         /\ Holds([b EXCEPT ![k + 1] = v], n, n, Wrapped(f + 1, n), Append(Tail(d), v))
  <1> DEFINE c == [b EXCEPT ![k + 1] = v]
             e == Append(Tail(d), v)
             g == Wrapped(f + 1, n)
  <1>1. Indices(n, n, g, Wrapped(k + 1, n))
    BY DEF Indices, Wrapped
  <1>2. n \in Nat \ {0} /\ f \in 0 .. n - 1 /\ k = f
    BY DEF Indices, Wrapped
  <1>3. c \in Seq(Element) /\ Len(c) = n /\ c[k + 1] = v /\ \A j \in 1 .. n : j # k + 1 => c[j] = b[j]
    <2>1. b \in Seq(Element) /\ Len(b) = n /\ k + 1 \in 1 .. Len(b)
      BY <1>2 DEF Holds
    <2> QED BY <2>1, Replaced
  <1>4. e \in Seq(Element) /\ Len(e) = n /\ e[n] = v /\ \A i \in 0 .. n - 2 : e[i + 1] = d[(i + 1) + 1]
    <2>1. d \in Seq(Element) /\ Len(d) = n
      BY DEF Holds
    <2>2. Tail(d) \in Seq(Element) /\ Len(Tail(d)) = n - 1 /\ \A i \in 1 .. n - 1 : Tail(d)[i] = d[i + 1]
      BY <1>2, <2>1
    <2> HIDE DEF e
    <2> DEFINE t == Tail(d)
    <2>3. e = Append(t, v)
      BY DEF e
    <2> HIDE DEF t
    <2>4. e \in Seq(Element) /\ Len(e) = n /\ e[n] = v /\ \A i \in 1 .. n - 1 : e[i] = t[i]
      BY <1>2, <2>2, <2>3 DEF t
    <2>5. ASSUME NEW i \in 0 .. n - 2 PROVE e[i + 1] = d[(i + 1) + 1]
      <3>1. i + 1 \in 1 .. n - 1
        BY <1>2
      <3> QED BY <2>2, <2>4, <3>1 DEF t
    <2> QED BY <2>4, <2>5
  <1>5. ASSUME NEW i \in 0 .. n - 1 PROVE c[Wrapped(g + i, n) + 1] = e[i + 1]
    <2> HIDE DEF c, e
    <2>1. CASE i = n - 1
      <3>1. Wrapped(g + i, n) = k
        BY <1>2, <2>1 DEF Wrapped
      <3>2. i + 1 = n
        BY <1>2, <2>1
      <3> QED BY <1>3, <1>4, <3>1, <3>2
    <2>2. CASE i # n - 1
      <3>1. i \in 0 .. n - 2 /\ i + 1 \in 0 .. n - 1
        BY <1>2, <2>2
      <3>2. Wrapped(g + i, n) = Wrapped(f + (i + 1), n) /\ Wrapped(g + i, n) + 1 \in 1 .. n /\ Wrapped(g + i, n) + 1 # k + 1
        BY <1>2, <3>1 DEF Wrapped
      <3>3. b[Wrapped(f + (i + 1), n) + 1] = d[(i + 1) + 1]
        BY <3>1 DEF Holds
      <3>4. c[Wrapped(g + i, n) + 1] = b[Wrapped(g + i, n) + 1]
        BY <1>3, <3>2
      <3>5. e[i + 1] = d[(i + 1) + 1]
        BY <1>4, <3>1
      <3> QED BY <3>2, <3>3, <3>4, <3>5
    <2> QED BY <2>1, <2>2
  <1> HIDE DEF c, e, g
  <1>6. Holds(c, n, n, g, e)
    BY <1>3, <1>4, <1>5 DEF Holds
  <1> QED BY <1>1, <1>6 DEF c, e, g

\* The first element, and the ring without it.
LEMMA TakeFront ==
  ASSUME NEW n, NEW b, NEW z, NEW f, NEW k, NEW d, Indices(n, z, f, k), Holds(b, n, z, f, d), z # 0, NEW v \in Element
  PROVE  /\ IsAt(b, f, Head(d))
         /\ Indices(n, z - 1, Wrapped(f + 1, n), k)
         /\ Holds([b EXCEPT ![f + 1] = v], n, z - 1, Wrapped(f + 1, n), Tail(d))
  <1> DEFINE c == [b EXCEPT ![f + 1] = v]
             e == Tail(d)
             g == Wrapped(f + 1, n)
  <1>1. Indices(n, z - 1, g, k)
    BY DEF Indices, Wrapped
  <1>2. n \in Nat \ {0} /\ z \in 1 .. n /\ f \in 0 .. n - 1
    BY DEF Indices
  <1>3. c \in Seq(Element) /\ Len(c) = n /\ \A j \in 1 .. n : j # f + 1 => c[j] = b[j]
    <2>1. b \in Seq(Element) /\ Len(b) = n /\ f + 1 \in 1 .. Len(b)
      BY <1>2 DEF Holds
    <2> QED BY <2>1, Replaced
  <1>4. e \in Seq(Element) /\ Len(e) = z - 1 /\ Head(d) = d[1] /\ \A i \in 0 .. z - 2 : e[i + 1] = d[(i + 1) + 1]
    <2>1. d \in Seq(Element) /\ Len(d) = z
      BY DEF Holds
    <2>2. e \in Seq(Element) /\ Len(e) = z - 1 /\ Head(d) = d[1] /\ \A i \in 1 .. z - 1 : e[i] = d[i + 1]
      BY <1>2, <2>1
    <2> HIDE DEF e
    <2>3. ASSUME NEW i \in 0 .. z - 2 PROVE e[i + 1] = d[(i + 1) + 1]
      <3>1. i + 1 \in 1 .. z - 1
        BY <1>2
      <3> QED BY <2>2, <3>1
    <2> QED BY <2>2, <2>3
  <1>5. b[f + 1] = Head(d)
    <2>1. 0 \in 0 .. z - 1 /\ Wrapped(f + 0, n) = f /\ 0 + 1 = 1
      BY <1>2 DEF Wrapped
    <2>2. b[Wrapped(f + 0, n) + 1] = d[0 + 1]
      BY <2>1 DEF Holds
    <2> QED BY <1>4, <2>1, <2>2
  <1>6. ASSUME NEW i \in 0 .. z - 2 PROVE c[Wrapped(g + i, n) + 1] = e[i + 1]
    <2> HIDE DEF c, e
    <2>1. i + 1 \in 0 .. z - 1
      BY <1>2
    <2>2. Wrapped(g + i, n) = Wrapped(f + (i + 1), n) /\ Wrapped(g + i, n) + 1 \in 1 .. n /\ Wrapped(g + i, n) + 1 # f + 1
      BY <1>2, <2>1 DEF Wrapped
    <2>3. b[Wrapped(f + (i + 1), n) + 1] = d[(i + 1) + 1]
      BY <2>1 DEF Holds
    <2>4. c[Wrapped(g + i, n) + 1] = b[Wrapped(g + i, n) + 1]
      BY <1>3, <2>2
    <2>5. e[i + 1] = d[(i + 1) + 1]
      BY <1>4
    <2> QED BY <2>2, <2>3, <2>4, <2>5
  <1>7. (z - 1) - 1 = z - 2
    BY <1>2
  <1> HIDE DEF c, e, g
  <1>8. Holds(c, n, z - 1, g, e)
    BY <1>3, <1>4, <1>6, <1>7 DEF Holds
  <1> QED BY <1>1, <1>5, <1>8 DEF c, e, g, IsAt

\* The last element, and the ring without it.
LEMMA TakeBack ==
  ASSUME NEW n, NEW b, NEW z, NEW f, NEW k, NEW d, Indices(n, z, f, k), Holds(b, n, z, f, d), z # 0, NEW v \in Element,
         NEW last, last = Wrapped(k + (n - 1), n)
  PROVE  /\ IsAt(b, last, Last(d))
         /\ Indices(n, z - 1, f, last)
         /\ Holds([b EXCEPT ![last + 1] = v], n, z - 1, f, Front(d))
  <1> DEFINE c == [b EXCEPT ![last + 1] = v]
             e == Front(d)
  <1>1. Indices(n, z - 1, f, last)
    BY DEF Indices, Wrapped
  <1>2. n \in Nat \ {0} /\ z \in 1 .. n /\ f \in 0 .. n - 1 /\ last = Wrapped(f + (z - 1), n) /\ last \in 0 .. n - 1
    BY DEF Indices, Wrapped
  <1>3. c \in Seq(Element) /\ Len(c) = n /\ \A j \in 1 .. n : j # last + 1 => c[j] = b[j]
    <2>1. b \in Seq(Element) /\ Len(b) = n /\ last + 1 \in 1 .. Len(b)
      BY <1>2 DEF Holds
    <2> QED BY <2>1, Replaced
  <1>4. e \in Seq(Element) /\ Len(e) = z - 1 /\ Last(d) = d[z] /\ \A i \in 1 .. z - 1 : e[i] = d[i]
    <2>1. d \in Seq(Element) /\ Len(d) = z
      BY DEF Holds
    <2> QED BY <1>2, <2>1 DEF Front, Last
  <1>5. b[last + 1] = Last(d)
    <2>1. z - 1 \in 0 .. z - 1 /\ (z - 1) + 1 = z
      BY <1>2
    <2>2. b[Wrapped(f + (z - 1), n) + 1] = d[(z - 1) + 1]
      BY <2>1 DEF Holds
    <2> QED BY <1>2, <1>4, <2>1, <2>2
  <1>6. ASSUME NEW i \in 0 .. z - 2 PROVE c[Wrapped(f + i, n) + 1] = e[i + 1]
    <2> HIDE DEF c, e
    <2>1. i \in 0 .. z - 1 /\ i + 1 \in 1 .. z - 1
      BY <1>2
    <2>2. Wrapped(f + i, n) + 1 \in 1 .. n /\ Wrapped(f + i, n) + 1 # last + 1
      BY <1>2, <2>1 DEF Wrapped
    <2>3. b[Wrapped(f + i, n) + 1] = d[i + 1]
      BY <2>1 DEF Holds
    <2>4. c[Wrapped(f + i, n) + 1] = b[Wrapped(f + i, n) + 1]
      BY <1>3, <2>2
    <2>5. e[i + 1] = d[i + 1]
      BY <1>4, <2>1
    <2> QED BY <2>3, <2>4, <2>5
  <1>7. (z - 1) - 1 = z - 2
    BY <1>2
  <1> HIDE DEF c, e
  <1>8. Holds(c, n, z - 1, f, e)
    BY <1>3, <1>4, <1>6, <1>7 DEF Holds
  <1> QED BY <1>1, <1>5, <1>8 DEF c, e, IsAt

\* An assignment to the element at pos.
LEMMA WriteAt ==
  ASSUME NEW n, NEW b, NEW z, NEW f, NEW k, NEW d, Indices(n, z, f, k), Holds(b, n, z, f, d),
         NEW pos \in 0 .. z - 1, NEW v \in Element
  PROVE  Holds([b EXCEPT ![Wrapped(f + pos, n) + 1] = v], n, z, f, [d EXCEPT ![pos + 1] = v])
  <1> DEFINE slot == Wrapped(f + pos, n)
             c == [b EXCEPT ![slot + 1] = v]
             e == [d EXCEPT ![pos + 1] = v]
  <1>1. n \in Nat \ {0} /\ z \in 1 .. n /\ f \in 0 .. n - 1
    BY DEF Indices
  <1>2. slot \in 0 .. n - 1 /\ pos + 1 \in 1 .. z
    BY <1>1 DEF Wrapped
  <1> HIDE DEF slot
  <1>3. c \in Seq(Element) /\ Len(c) = n /\ c[slot + 1] = v /\ \A j \in 1 .. n : j # slot + 1 => c[j] = b[j]
    <2>1. b \in Seq(Element) /\ Len(b) = n /\ slot + 1 \in 1 .. Len(b)
      BY <1>1, <1>2 DEF Holds
    <2> QED BY <2>1, Replaced
  <1>4. e \in Seq(Element) /\ Len(e) = z /\ e[pos + 1] = v /\ \A j \in 1 .. z : j # pos + 1 => e[j] = d[j]
    <2>1. d \in Seq(Element) /\ Len(d) = z /\ pos + 1 \in 1 .. Len(d)
      BY <1>2 DEF Holds
    <2> QED BY <2>1, Replaced
  <1> HIDE DEF c, e
  <1>5. ASSUME NEW i \in 0 .. z - 1 PROVE c[Wrapped(f + i, n) + 1] = e[i + 1]
    <2>1. CASE i = pos
      BY <1>3, <1>4, <2>1 DEF slot
    <2>2. CASE i # pos
      <3>1. Wrapped(f + i, n) + 1 \in 1 .. n /\ Wrapped(f + i, n) + 1 # slot + 1
        BY <1>1, <2>2 DEF Wrapped, slot
      <3>2. i + 1 \in 1 .. z /\ i + 1 # pos + 1
        BY <1>1, <2>2
      <3>3. b[Wrapped(f + i, n) + 1] = d[i + 1]
        BY DEF Holds
      <3> QED BY <1>3, <1>4, <3>1, <3>2, <3>3
    <2> QED BY <2>1, <2>2
  <1>6. Holds(c, n, z, f, e)
    BY <1>3, <1>4, <1>5 DEF Holds
  <1> QED BY <1>6 DEF slot, c, e

LEMMA QueueInit == Capacities \subseteq Nat \ {0} /\ Queues!Init => QueueIInv
  <1> SUFFICES ASSUME Capacities \subseteq Nat \ {0}, Queues!Init PROVE QueueIInv
    OBVIOUS
  <1>1. PICK n \in Capacities :
          \/ ring = Queues!NewRing(<<>>, n)
          \/ \E v \in Value : ring = Queues!NewRing([i \in 1 .. n |-> v], 0)
    BY DEF Queues!Init
  <1>2. n \in Nat \ {0}
    OBVIOUS
  <1>3. deque = SubSeq(ring.buffer, 1, ring.size) /\ answer = expected
    BY DEF Queues!Init
  <1>4. CASE ring = Queues!NewRing(<<>>, n)
    <2> DEFINE b == <<>> \o [i \in 1 .. n |-> Moved]
    <2>1. [i \in 1 .. n |-> Moved] \in Seq(Element) /\ Len([i \in 1 .. n |-> Moved]) = n
      BY <1>2 DEF Element
    <2>2. b \in Seq(Element) /\ Len(b) = n
      BY <2>1, <1>2
    <2> HIDE DEF b
    <2>3. ring = [buffer |-> b, size |-> 0, front |-> 0, back |-> 0]
      BY <1>4 DEF Queues!NewRing, b
    <2>4. deque \in Seq(Element) /\ Len(deque) = 0
      BY <1>3, <2>2, <2>3
    <2>5. Indices(n, 0, 0, 0)
      BY <1>2 DEF Indices, Wrapped
    <2>6. Holds(b, n, 0, 0, deque)
      BY <2>2, <2>4 DEF Holds
    <2> QED BY <1>3, <2>2, <2>3, <2>5, <2>6 DEF QueueIInv, RingInv
  <1>5. ASSUME NEW v \in Value, ring = Queues!NewRing([i \in 1 .. n |-> v], 0) PROVE QueueIInv
    <2> DEFINE s == [i \in 1 .. n |-> v]
               b == s \o [i \in 1 .. 0 |-> Moved]
    <2>1. s \in Seq(Element) /\ Len(s) = n
      BY <1>2 DEF Element
    <2>2. [i \in 1 .. 0 |-> Moved] \in Seq(Element) /\ Len([i \in 1 .. 0 |-> Moved]) = 0
      BY DEF Element
    <2>3. b \in Seq(Element) /\ Len(b) = n
      BY <1>2, <2>1, <2>2
    <2> HIDE DEF b, s
    <2>4. ring = [buffer |-> b, size |-> n, front |-> 0, back |-> 0]
      BY <1>5, <2>1 DEF Queues!NewRing, b, s
    <2>5. deque \in Seq(Element) /\ Len(deque) = n /\ \A i \in 1 .. n : deque[i] = b[i]
      BY <1>2, <1>3, <2>3, <2>4
    <2>6. Indices(n, n, 0, 0)
      BY <1>2 DEF Indices, Wrapped
    <2>7. ASSUME NEW i \in 0 .. n - 1 PROVE b[Wrapped(0 + i, n) + 1] = deque[i + 1]
      <3>1. Wrapped(0 + i, n) = i /\ i + 1 \in 1 .. n
        BY <1>2 DEF Wrapped
      <3> QED BY <2>5, <3>1
    <2>8. Holds(b, n, n, 0, deque)
      BY <2>3, <2>5, <2>7 DEF Holds
    <2> QED BY <1>3, <2>3, <2>4, <2>6, <2>8 DEF QueueIInv, RingInv
  <1> QED BY <1>1, <1>4, <1>5

LEMMA QueueStep == QueueIInv /\ [Queues!Next]_(Queues!queueVars) => QueueIInv'
  <1> SUFFICES ASSUME QueueIInv, [Queues!Next]_(Queues!queueVars) PROVE QueueIInv'
    OBVIOUS
  <1>1. PICK n, b, z, f, k, d :
          /\ n = Len(b) /\ ring = [buffer |-> b, size |-> z, front |-> f, back |-> k] /\ d = deque
          /\ Indices(n, z, f, k) /\ Holds(b, n, z, f, d)
    BY DEF QueueIInv, RingInv
  <1>2. /\ n \in Nat \ {0} /\ z \in 0 .. n /\ f \in 0 .. n - 1 /\ k \in 0 .. n - 1
        /\ Queues!Capacity = n /\ ring.buffer = b /\ ring.size = z /\ ring.front = f /\ ring.back = k
        /\ b \in Seq(Element) /\ d \in Seq(Element) /\ Len(d) = z /\ answer = expected
    BY <1>1 DEF Indices, Holds, QueueIInv, Queues!Capacity
  <1>3. ASSUME NEW x \in 0 .. n - 1, NEW y \in 0 .. n PROVE Queues!Step(x, y) = Wrapped(x + y, n)
    <2>1. x + y \in 0 .. 2 * n - 1
      BY <1>2
    <2> QED BY <1>2, <2>1, Remainder DEF Queues!Step
  <1>4. ASSUME NEW c, NEW y, NEW g, NEW h, NEW e, Indices(n, y, g, h), Holds(c, n, y, g, e),
               ring' = [buffer |-> c, size |-> y, front |-> g, back |-> h], deque' = e, answer' = expected'
        PROVE  QueueIInv'
    BY <1>4 DEF QueueIInv, RingInv, Holds
  <1>5. ASSUME UNCHANGED <<ring, deque>>, answer' = expected' PROVE QueueIInv'
    BY <1>1, <1>4, <1>5
  <1>6. Moved \in Element /\ Value \subseteq Element /\ 1 \in 0 .. n /\ n - 1 \in 0 .. n
    BY <1>2 DEF Element
  <1>a. Queues!Last(d) = Last(d) /\ Queues!Front(d) = Front(d)
    BY DEF Queues!Last, Queues!Front, Last, Front
  <1>7. ASSUME NEW v \in Value, Queues!Push(v) PROVE QueueIInv'
    <2> v \in Element
      BY <1>6
    <2>1. answer' = expected'
      BY <1>1, <1>2, <1>7 DEF Queues!Push, Queues!full
    <2>2. CASE z = n /\ m_policy = "ERROR"
      <3>1. UNCHANGED <<ring, deque>>
        BY <1>1, <1>2, <1>7, <2>2 DEF Queues!Push, Queues!full
      <3> QED BY <1>5, <2>1, <3>1
    <2>3. CASE z < n
      <3>1. ring' = Queues!Put(ring, v) /\ deque' = Append(d, v)
        BY <1>1, <1>2, <1>7, <2>3 DEF Queues!Push, Queues!full
      <3>b. Queues!Step(k, 1) = Wrapped(k + 1, n)
        BY <1>2, <1>3, <1>6
      <3>2. ring' = [buffer |-> [b EXCEPT ![k + 1] = v], size |-> z + 1, front |-> f, back |-> Wrapped(k + 1, n)]
        BY <1>2, <2>3, <3>1, <3>b DEF Queues!Put
      <3>3. Indices(n, z + 1, f, Wrapped(k + 1, n)) /\ Holds([b EXCEPT ![k + 1] = v], n, z + 1, f, Append(d, v))
        BY <1>1, <2>3, PutWithRoom
      <3> QED BY <1>4, <2>1, <3>1, <3>2, <3>3
    <2>4. CASE z = n /\ m_policy # "ERROR"
      <3>1. ring' = Queues!Put(ring, v) /\ deque' = Append(Tail(d), v)
        BY <1>1, <1>2, <1>7, <2>4 DEF Queues!Push, Queues!full
      <3>2. ring' = [buffer |-> [b EXCEPT ![k + 1] = v], size |-> n, front |-> Wrapped(f + 1, n), back |-> Wrapped(k + 1, n)]
        BY <1>2, <1>3, <1>6, <2>4, <3>1 DEF Queues!Put
      <3>3. /\ Indices(n, n, Wrapped(f + 1, n), Wrapped(k + 1, n))
            /\ Holds([b EXCEPT ![k + 1] = v], n, n, Wrapped(f + 1, n), Append(Tail(d), v))
        BY <1>1, <2>4, PutOnFull
      <3> QED BY <1>4, <2>1, <3>1, <3>2, <3>3
    <2> QED BY <1>2, <2>2, <2>3, <2>4
  <1>8. ASSUME Queues!PopFront PROVE QueueIInv'
    <2>1. CASE z = 0
      <3>1. d = <<>>
        BY <1>2, <2>1
      <3>2. UNCHANGED <<ring, deque>> /\ answer' = expected'
        BY <1>1, <1>2, <1>8, <2>1, <3>1 DEF Queues!PopFront, Queues!WithoutFront
      <3> QED BY <1>5, <3>2
    <2>2. CASE z # 0
      <3>1. d # <<>>
        BY <1>2, <2>2
      <3>a. /\ IsAt(b, f, Head(d)) /\ Indices(n, z - 1, Wrapped(f + 1, n), k)
            /\ Holds([b EXCEPT ![f + 1] = Moved], n, z - 1, Wrapped(f + 1, n), Tail(d))
        BY <1>1, <1>6, <2>2, TakeFront
      <3>2. answer' = expected' /\ deque' = Tail(d)
        BY <1>1, <1>2, <1>8, <2>2, <3>1, <3>a DEF Queues!PopFront, IsAt
      <3>3. ring' = [buffer |-> [b EXCEPT ![f + 1] = Moved], size |-> z - 1, front |-> Wrapped(f + 1, n), back |-> k]
        BY <1>1, <1>2, <1>3, <1>6, <1>8, <2>2 DEF Queues!PopFront, Queues!WithoutFront
      <3> QED BY <1>4, <3>a, <3>2, <3>3
    <2> QED BY <2>1, <2>2
  <1>9. ASSUME Queues!PopBack PROVE QueueIInv'
    <2> DEFINE last == Queues!Step(ring.back, Queues!Capacity - 1)
    <2>1. last = Wrapped(k + (n - 1), n)
      BY <1>2, <1>3, <1>6
    <2>2. PICK l : l = Wrapped(k + (n - 1), n)
      OBVIOUS
    <2>3. CASE z = 0
      <3>1. d = <<>>
        BY <1>2, <2>3
      <3>2. UNCHANGED <<ring, deque>> /\ answer' = expected'
        BY <1>1, <1>2, <1>9, <2>3, <3>1 DEF Queues!PopBack
      <3> QED BY <1>5, <3>2
    <2>4. CASE z # 0
      <3>1. d # <<>>
        BY <1>2, <2>4
      <3>a. /\ IsAt(b, l, Last(d)) /\ Indices(n, z - 1, f, l)
            /\ Holds([b EXCEPT ![l + 1] = Moved], n, z - 1, f, Front(d))
        BY <1>1, <1>6, <2>2, <2>4, TakeBack
      <3>2. last = l
        BY <2>1, <2>2
      <3>3. /\ ring' = [ring EXCEPT !.buffer[last + 1] = Moved, !.back = last, !.size = @ - 1]
            /\ answer' = Queues!Got(ring.buffer[last + 1])
            /\ expected' = IF deque = <<>> THEN Queues!Refused ELSE Queues!Got(Queues!Last(deque))
            /\ deque' = IF deque = <<>> THEN deque ELSE Queues!Front(deque)
        BY <1>2, <1>9, <2>4 DEF Queues!PopBack
      <3> HIDE DEF last
      <3>4. answer' = expected' /\ deque' = Front(d)
        BY <1>1, <1>2, <1>a, <3>1, <3>a, <3>2, <3>3 DEF IsAt
      <3>5. ring' = [buffer |-> [b EXCEPT ![l + 1] = Moved], size |-> z - 1, front |-> f, back |-> l]
        BY <1>1, <3>2, <3>3
      <3> QED BY <1>4, <3>a, <3>4, <3>5
    <2> QED BY <2>3, <2>4
  <1>10. ASSUME NEW i \in 0 .. z - 1 PROVE Queues!At(i) = d[i + 1] /\ Queues!Place(i) = Wrapped(f + i, n) + 1
    <2>1. Queues!Place(i) = Wrapped(f + i, n) + 1
      BY <1>2, <1>3 DEF Queues!Place
    <2>2. b[Wrapped(f + i, n) + 1] = d[i + 1]
      BY <1>1 DEF Holds
    <2> QED BY <1>2, <2>1, <2>2 DEF Queues!At
  <1>11. ASSUME NEW pos \in -1 .. n, Queues!Read(pos) PROVE QueueIInv'
    <2>1. CASE pos = -1
      <3>1. CASE z = 0
        <4>1. d = <<>> /\ ~(z - 1 \in 0 .. z - 1)
          BY <1>2, <3>1
        <4> QED BY <1>1, <1>2, <1>5, <1>11, <2>1, <4>1 DEF Queues!Read
      <3>2. CASE z # 0
        <4>1. d # <<>> /\ z - 1 \in 0 .. z - 1 /\ (z - 1) + 1 = z /\ Last(d) = d[z]
          BY <1>2, <3>2 DEF Last
        <4>2. Queues!At(z - 1) = Last(d)
          BY <1>10, <4>1
        <4>3. answer' = Queues!Got(Queues!At(z - 1)) /\ expected' = Queues!Got(Last(d)) /\ UNCHANGED <<ring, deque>>
          BY <1>1, <1>2, <1>a, <1>11, <2>1, <4>1 DEF Queues!Read
        <4> QED BY <1>5, <4>2, <4>3
      <3> QED BY <3>1, <3>2
    <2>2. CASE pos # -1
      <3>1. pos \in Nat /\ (pos \in 0 .. z - 1 <=> pos < z)
        BY <1>2, <2>2
      <3>2. /\ answer' = IF pos \in 0 .. z - 1 THEN Queues!Got(Queues!At(pos)) ELSE Queues!Refused
            /\ expected' = IF pos < z THEN Queues!Got(d[pos + 1]) ELSE Queues!Refused
            /\ UNCHANGED <<ring, deque>>
        BY <1>1, <1>2, <1>11, <2>2 DEF Queues!Read
      <3>3. answer' = expected'
        BY <1>10, <3>1, <3>2
      <3> QED BY <1>5, <3>2, <3>3
    <2> QED BY <2>1, <2>2
  <1>12. ASSUME NEW v \in Value, NEW pos \in 0 .. n - 1, Queues!Write(pos, v) PROVE QueueIInv'
    <2>1. pos \in 0 .. z - 1
      BY <1>2, <1>12 DEF Queues!Write
    <2>2. ring' = [buffer |-> [b EXCEPT ![Wrapped(f + pos, n) + 1] = v], size |-> z, front |-> f, back |-> k]
      BY <1>1, <1>10, <1>12, <2>1 DEF Queues!Write
    <2>3. deque' = [d EXCEPT ![pos + 1] = v] /\ answer' = expected'
      BY <1>1, <1>2, <1>12 DEF Queues!Write
    <2>4. Holds([b EXCEPT ![Wrapped(f + pos, n) + 1] = v], n, z, f, [d EXCEPT ![pos + 1] = v])
      BY <1>1, <1>6, <2>1, WriteAt
    <2> QED BY <1>1, <1>4, <2>2, <2>3, <2>4
  <1>13. ASSUME Queues!Clear PROVE QueueIInv'
    <2> DEFINE blank == [i \in 1 .. n |-> Moved]
               c == <<>> \o blank
    <2>1. blank \in Seq(Element) /\ Len(blank) = n
      BY <1>2, <1>6
    <2>2. c \in Seq(Element) /\ Len(c) = n
      BY <1>2, <2>1
    <2> HIDE DEF blank, c
    <2>3. ring' = [buffer |-> c, size |-> 0, front |-> 0, back |-> 0] /\ deque' = <<>> /\ answer' = expected'
      BY <1>2, <1>13 DEF Queues!Clear, Queues!NewRing, c, blank
    <2>4. Indices(n, 0, 0, 0) /\ Holds(c, n, 0, 0, <<>>)
      BY <1>2, <2>2 DEF Indices, Holds, Wrapped
    <2> QED BY <1>4, <2>3, <2>4
  <1>14. ASSUME NEW p, Queues!SetLossPolicy(p) PROVE QueueIInv'
    BY <1>5, <1>14 DEF Queues!SetLossPolicy
  <1>15. ASSUME NEW v, Queues!QueuePush(v) PROVE QueueIInv'
    BY <1>5, <1>15 DEF Queues!QueuePush, Queues!QueueOnly
  <1>16. ASSUME NEW keeps, Queues!QueueTake(keeps) PROVE QueueIInv'
    BY <1>5, <1>16 DEF Queues!QueueTake, Queues!QueueOnly
  <1>17. ASSUME NEW limit, Queues!QueueCapacity(limit) PROVE QueueIInv'
    BY <1>2, <1>5, <1>17 DEF Queues!QueueCapacity, Queues!QueueOnly
  <1>18. CASE UNCHANGED Queues!queueVars
    BY <1>2, <1>5, <1>18 DEF Queues!queueVars
  <1> QED BY <1>2, <1>7, <1>8, <1>9, <1>11, <1>12, <1>13, <1>14, <1>15, <1>16, <1>17, <1>18 DEF Queues!Next

\* RingIsDeque: through any sequence of calls on a queue of any capacity, the
\* indices and the size of the RingBuffer denote the elements the deque would
\* hold, and every call returns what the deque returns.  A queue of capacity 0
\* is none: its first put divides by zero.
THEOREM RingCorrect ==
  ASSUME Capacities \subseteq Nat \ {0}
  PROVE  Queues!Spec => []RingIsDeque
  <1>1. QueueIInv => RingIsDeque
    <2> SUFFICES ASSUME QueueIInv PROVE RingIsDeque
      OBVIOUS
    <2>1. PICK n, b, z, f, k, d :
            /\ n = Len(b) /\ ring = [buffer |-> b, size |-> z, front |-> f, back |-> k] /\ d = deque
            /\ Indices(n, z, f, k) /\ Holds(b, n, z, f, d)
      BY DEF QueueIInv, RingInv
    <2>2. /\ n \in Nat \ {0} /\ z \in 0 .. n /\ f \in 0 .. n - 1 /\ k = Wrapped(f + z, n)
          /\ Queues!Capacity = n /\ ring.buffer = b /\ ring.size = z /\ ring.front = f /\ ring.back = k
          /\ Len(d) = z /\ answer = expected
      BY <2>1 DEF Indices, Holds, QueueIInv, Queues!Capacity
    <2>3. ASSUME NEW y \in 0 .. n PROVE Queues!Step(f, y) = Wrapped(f + y, n)
      <3>1. f + y \in 0 .. 2 * n - 1
        BY <2>2
      <3> QED BY <2>2, <3>1, Remainder DEF Queues!Step
    <2>4. ring.back = Queues!Step(ring.front, ring.size)
      BY <2>2, <2>3
    <2>5. ASSUME NEW i \in 0 .. z - 1 PROVE Queues!At(i) = deque[i + 1]
      <3>1. Queues!Place(i) = Wrapped(f + i, n) + 1
        BY <2>2, <2>3 DEF Queues!Place
      <3>2. b[Wrapped(f + i, n) + 1] = d[i + 1]
        BY <2>1 DEF Holds
      <3> QED BY <2>1, <2>2, <3>1, <3>2 DEF Queues!At
    <2> QED BY <2>1, <2>2, <2>4, <2>5 DEF RingIsDeque, Queues!RingIsDeque
  <1> QED BY <1>1, QueueInit, QueueStep, PTL DEF Queues!Spec

-------------------------------------------------------------------------------
(* The input box.                                                             *)

\* The box as its factories build it: setMaxLength was called with more than the
\* placeholder's length, and no key enters the character '\0'.
BoxAsBuilt ==
  /\ MaxLength \in Nat /\ Nul \notin Char
  /\ \E S : Hint \in Seq(S) /\ Len(Hint) < MaxLength

\* While the box shows its text it is the line editor's; before the first focus
\* the placeholder covers an empty text.
BoxIInv ==
  onText =>
    /\ text \in Seq(Char) /\ Len(text) <= MaxLength /\ caret \in 0 .. Len(text)
    /\ DOMAIN m_content = 1 .. MaxLength
    /\ m_is_placeholder => text = <<>> /\ m_curr_length = 0
    /\ ~m_is_placeholder \/ focused =>
         m_content = Box!Padded(text) /\ m_curr_length = Len(text) /\ cursor = caret

\* The characters t of a sequence s with e put in at i, and with those at i taken
\* out.
IsInserted(t, s, i, e, S) ==
  /\ t \in Seq(S) /\ Len(t) = Len(s) + 1
  /\ \A j \in 1 .. Len(s) + 1 : t[j] = IF j < i THEN s[j] ELSE IF j = i THEN e ELSE s[j - 1]

IsRemoved(t, s, i, S) ==
  /\ t \in Seq(S) /\ Len(t) = Len(s) - 1
  /\ \A j \in 1 .. Len(s) - 1 : t[j] = IF j < i THEN s[j] ELSE s[j + 1]

LEMMA Inserted ==
  ASSUME NEW S, NEW s \in Seq(S), NEW i \in 1 .. Len(s) + 1, NEW e \in S
  PROVE  IsInserted(Box!InsertAt(s, i, e), s, i, e, S)
  <1> DEFINE u == SubSeq(s, 1, i - 1)
             v == SubSeq(s, i, Len(s))
             w == <<e>>
  <1>1. u \in Seq(S) /\ Len(u) = i - 1 /\ \A j \in 1 .. i - 1 : u[j] = s[j]
    OBVIOUS
  <1>2. v \in Seq(S) /\ Len(v) = Len(s) - i + 1 /\ \A j \in 1 .. Len(s) - i + 1 : v[j] = s[i + j - 1]
    OBVIOUS
  <1>3. w \in Seq(S) /\ Len(w) = 1 /\ w[1] = e
    OBVIOUS
  <1>4. Box!InsertAt(s, i, e) = (u \o w) \o v
    BY DEF Box!InsertAt
  <1> HIDE DEF u, v, w
  <1> DEFINE x == u \o w
  <1>5. x \in Seq(S) /\ Len(x) = i /\ \A j \in 1 .. i : x[j] = IF j < i THEN u[j] ELSE e
    <2>1. x \in Seq(S) /\ Len(x) = Len(u) + Len(w)
          /\ \A j \in 1 .. Len(u) + Len(w) : x[j] = IF j <= Len(u) THEN u[j] ELSE w[j - Len(u)]
      BY <1>1, <1>3, ConcatProperties
    <2> HIDE DEF x
    <2>2. Len(x) = i
      BY <1>1, <1>3, <2>1
    <2>3. ASSUME NEW j \in 1 .. i PROVE x[j] = IF j < i THEN u[j] ELSE e
      <3>1. CASE j < i
        BY <1>1, <1>3, <2>1, <3>1
      <3>2. CASE j = i
        <4>1. j \in 1 .. Len(u) + Len(w) /\ ~(j <= Len(u)) /\ j - Len(u) = 1
          BY <1>1, <1>3, <3>2
        <4> QED BY <1>3, <2>1, <3>2, <4>1
      <3> QED BY <3>1, <3>2
    <2> QED BY <2>1, <2>2, <2>3
  <1> HIDE DEF x
  <1> DEFINE y == x \o v
  <1>6. y \in Seq(S) /\ Len(y) = Len(x) + Len(v)
        /\ \A j \in 1 .. Len(x) + Len(v) : y[j] = IF j <= Len(x) THEN x[j] ELSE v[j - Len(x)]
    BY <1>2, <1>5, ConcatProperties
  <1>7. Box!InsertAt(s, i, e) = y
    BY <1>4 DEF x
  <1> HIDE DEF y
  <1>8. Len(y) = Len(s) + 1
    BY <1>2, <1>5, <1>6
  <1>9. ASSUME NEW j \in 1 .. Len(s) + 1 PROVE y[j] = IF j < i THEN s[j] ELSE IF j = i THEN e ELSE s[j - 1]
    <2>1. CASE j <= i
      <3>1. j \in 1 .. Len(x) + Len(v) /\ j <= Len(x) /\ j \in 1 .. i
        BY <1>2, <1>5, <2>1
      <3>2. y[j] = IF j < i THEN u[j] ELSE e
        BY <1>5, <1>6, <3>1
      <3>3. j < i => u[j] = s[j]
        BY <1>1, <3>1
      <3> QED BY <2>1, <3>1, <3>2, <3>3
    <2>2. CASE j > i
      <3>1. j \in 1 .. Len(x) + Len(v) /\ ~(j <= Len(x)) /\ j - Len(x) = j - i /\ j - i \in 1 .. Len(s) - i + 1
        BY <1>2, <1>5, <2>2
      <3>2. y[j] = v[j - i] /\ v[j - i] = s[i + (j - i) - 1] /\ i + (j - i) - 1 = j - 1
        BY <1>2, <1>6, <3>1
      <3> QED BY <2>2, <3>2
    <2> QED BY <2>1, <2>2
  <1> QED BY <1>6, <1>7, <1>8, <1>9 DEF IsInserted

LEMMA Removed ==
  ASSUME NEW S, NEW s \in Seq(S), NEW i \in 1 .. Len(s)
  PROVE  IsRemoved(Box!RemoveAt(s, i), s, i, S)
  <1> DEFINE u == SubSeq(s, 1, i - 1)
             v == SubSeq(s, i + 1, Len(s))
             y == u \o v
  <1>1. u \in Seq(S) /\ Len(u) = i - 1 /\ \A j \in 1 .. i - 1 : u[j] = s[j]
    OBVIOUS
  <1>2. v \in Seq(S) /\ Len(v) = Len(s) - i /\ \A j \in 1 .. Len(s) - i : v[j] = s[i + j]
    OBVIOUS
  <1> HIDE DEF u, v
  <1>3. y \in Seq(S) /\ Len(y) = Len(u) + Len(v)
        /\ \A j \in 1 .. Len(u) + Len(v) : y[j] = IF j <= Len(u) THEN u[j] ELSE v[j - Len(u)]
    BY <1>1, <1>2, ConcatProperties
  <1>4. Box!RemoveAt(s, i) = y
    BY DEF Box!RemoveAt, u, v
  <1> HIDE DEF y
  <1>5. Len(y) = Len(s) - 1
    BY <1>1, <1>2, <1>3
  <1>6. ASSUME NEW j \in 1 .. Len(s) - 1 PROVE y[j] = IF j < i THEN s[j] ELSE s[j + 1]
    <2>1. CASE j < i
      <3>1. j \in 1 .. Len(u) + Len(v) /\ j <= Len(u) /\ j \in 1 .. i - 1
        BY <1>1, <1>2, <2>1
      <3> QED BY <1>1, <1>3, <2>1, <3>1
    <2>2. CASE j >= i
      <3>1. j \in 1 .. Len(u) + Len(v) /\ ~(j <= Len(u)) /\ j - Len(u) = j - (i - 1) /\ j - (i - 1) \in 1 .. Len(s) - i
        BY <1>1, <1>2, <2>2
      <3>2. y[j] = v[j - (i - 1)] /\ v[j - (i - 1)] = s[i + (j - (i - 1))] /\ i + (j - (i - 1)) = j + 1
        BY <1>2, <1>3, <3>1
      <3> QED BY <2>2, <3>2
    <2> QED BY <2>1, <2>2
  <1> QED BY <1>3, <1>4, <1>5, <1>6 DEF IsRemoved

\* A text in the string of the maximum length.
LEMMA PaddedText ==
  ASSUME MaxLength \in Nat, NEW s \in Seq(Char), Len(s) <= MaxLength
  PROVE  /\ Box!Padded(s) \in Seq(Char \cup {Nul}) /\ Len(Box!Padded(s)) = MaxLength
         /\ \A j \in 1 .. MaxLength : Box!Padded(s)[j] = IF j <= Len(s) THEN s[j] ELSE Nul
  <1> DEFINE S == Char \cup {Nul}
             v == [i \in 1 .. MaxLength - Len(s) |-> Nul]
             y == s \o v
  <1>1. s \in Seq(S)
    OBVIOUS
  <1>2. v \in Seq(S) /\ Len(v) = MaxLength - Len(s) /\ \A j \in 1 .. MaxLength - Len(s) : v[j] = Nul
    OBVIOUS
  <1>3. Box!Padded(s) = y
    BY DEF Box!Padded
  <1> HIDE DEF v, S
  <1>4. y \in Seq(S) /\ Len(y) = Len(s) + Len(v)
        /\ \A j \in 1 .. Len(s) + Len(v) : y[j] = IF j <= Len(s) THEN s[j] ELSE v[j - Len(s)]
    BY <1>1, <1>2, ConcatProperties
  <1> HIDE DEF y
  <1>5. Len(y) = MaxLength
    BY <1>2, <1>4
  <1>6. ASSUME NEW j \in 1 .. MaxLength PROVE y[j] = IF j <= Len(s) THEN s[j] ELSE Nul
    <2>1. CASE j <= Len(s)
      BY <1>2, <1>4, <2>1
    <2>2. CASE j > Len(s)
      <3>1. j \in 1 .. Len(s) + Len(v) /\ ~(j <= Len(s)) /\ j - Len(s) \in 1 .. MaxLength - Len(s)
        BY <1>2, <2>2
      <3> QED BY <1>2, <1>4, <3>1
    <2> QED BY <2>1, <2>2
  <1> QED BY <1>3, <1>4, <1>5, <1>6 DEF S

\* What is left to show that a content is a padded text.
LEMMA IsPadded ==
  ASSUME MaxLength \in Nat, NEW s \in Seq(Char), Len(s) <= MaxLength, NEW c \in Seq(Char \cup {Nul}),
         Len(c) = MaxLength, \A j \in 1 .. MaxLength : c[j] = IF j <= Len(s) THEN s[j] ELSE Nul
  PROVE  c = Box!Padded(s)
  <1> DEFINE p == Box!Padded(s)
  <1>1. p \in Seq(Char \cup {Nul}) /\ Len(p) = MaxLength
        /\ \A j \in 1 .. MaxLength : p[j] = IF j <= Len(s) THEN s[j] ELSE Nul
    BY PaddedText
  <1> HIDE DEF p
  <1>2. \A j \in 1 .. Len(c) : c[j] = p[j]
    BY <1>1
  <1>3. c = p
    BY <1>1, <1>2, SeqEqual
  <1> QED BY <1>3 DEF p

\* A character typed, in both modes, and a character removed: what the code does
\* to the string is what the editor does to the text.
LEMMA TypedIn ==
  ASSUME MaxLength \in Nat, NEW s \in Seq(Char), Len(s) < MaxLength, NEW k \in 0 .. Len(s), NEW e \in Char
  PROVE  Box!insert_shift(Box!Padded(s), k, e) = Box!Padded(Box!InsertAt(s, k + 1, e))
  <1> DEFINE S == Char \cup {Nul}
             p == Box!Padded(s)
             t == Box!InsertAt(s, k + 1, e)
             q == Box!InsertAt(p, k + 1, e)
             c == SubSeq(q, 1, MaxLength)
  <1>1. p \in Seq(S) /\ Len(p) = MaxLength /\ \A j \in 1 .. MaxLength : p[j] = IF j <= Len(s) THEN s[j] ELSE Nul
    BY PaddedText
  <1>2. /\ t \in Seq(Char) /\ Len(t) = Len(s) + 1
        /\ \A j \in 1 .. Len(s) + 1 : t[j] = IF j < k + 1 THEN s[j] ELSE IF j = k + 1 THEN e ELSE s[j - 1]
    <2>1. k + 1 \in 1 .. Len(s) + 1
      OBVIOUS
    <2>2. IsInserted(t, s, k + 1, e, Char)
      BY <2>1, Inserted
    <2> HIDE DEF t
    <2> QED BY <2>2 DEF IsInserted
  <1>3. c = Box!insert_shift(p, k, e)
    BY DEF Box!insert_shift, Box!Place
  <1> HIDE DEF p, t, S
  <1>4. /\ q \in Seq(S) /\ Len(q) = MaxLength + 1
        /\ \A j \in 1 .. MaxLength + 1 : q[j] = IF j < k + 1 THEN p[j] ELSE IF j = k + 1 THEN e ELSE p[j - 1]
    <2>1. k + 1 \in 1 .. Len(p) + 1 /\ e \in S
      BY <1>1 DEF S
    <2>2. IsInserted(q, p, k + 1, e, S)
      BY <1>1, <2>1, Inserted
    <2> HIDE DEF q
    <2> QED BY <1>1, <2>2 DEF IsInserted
  <1> HIDE DEF q
  <1>5. c \in Seq(S) /\ Len(c) = MaxLength /\ \A j \in 1 .. MaxLength : c[j] = q[j]
    BY <1>4
  <1> HIDE DEF c
  <1>6. ASSUME NEW j \in 1 .. MaxLength PROVE c[j] = IF j <= Len(t) THEN t[j] ELSE Nul
    <2>1. c[j] = IF j < k + 1 THEN p[j] ELSE IF j = k + 1 THEN e ELSE p[j - 1]
      BY <1>4, <1>5
    <2>2. CASE j < k + 1
      <3>1. j \in 1 .. Len(s) /\ j <= Len(t)
        BY <1>2, <2>2
      <3> QED BY <1>1, <1>2, <2>1, <2>2, <3>1
    <2>3. CASE j = k + 1
      BY <1>2, <2>1, <2>3
    <2>4. CASE j > k + 1
      <3>1. c[j] = p[j - 1] /\ j - 1 \in 1 .. MaxLength
        BY <2>1, <2>4
      <3>2. p[j - 1] = IF j - 1 <= Len(s) THEN s[j - 1] ELSE Nul
        BY <1>1, <3>1
      <3>3. CASE j <= Len(s) + 1
        BY <1>2, <2>4, <3>1, <3>2, <3>3
      <3>4. CASE j > Len(s) + 1
        BY <1>2, <3>1, <3>2, <3>4
      <3> QED BY <3>3, <3>4
    <2> QED BY <2>2, <2>3, <2>4
  <1>7. c = Box!Padded(t)
    BY <1>2, <1>5, <1>6, IsPadded DEF S
  <1> QED BY <1>3, <1>7 DEF p, t

LEMMA TypedOver ==
  ASSUME MaxLength \in Nat, NEW s \in Seq(Char), Len(s) < MaxLength, NEW k \in 0 .. Len(s), NEW e \in Char
  PROVE  [Box!Padded(s) EXCEPT ![k + 1] = e] =
           Box!Padded(IF k < Len(s) THEN Box!ReplaceAt(s, k + 1, e) ELSE Box!InsertAt(s, k + 1, e))
  <1> DEFINE S == Char \cup {Nul}
             p == Box!Padded(s)
             c == [p EXCEPT ![k + 1] = e]
             t == IF k < Len(s) THEN Box!ReplaceAt(s, k + 1, e) ELSE Box!InsertAt(s, k + 1, e)
  <1>1. p \in Seq(S) /\ Len(p) = MaxLength /\ \A j \in 1 .. MaxLength : p[j] = IF j <= Len(s) THEN s[j] ELSE Nul
    BY PaddedText
  <1>2. /\ t \in Seq(Char) /\ Len(t) = IF k < Len(s) THEN Len(s) ELSE Len(s) + 1
        /\ \A j \in 1 .. Len(t) : t[j] = IF j = k + 1 THEN e ELSE s[j]
    <2>1. CASE k < Len(s)
      BY <2>1 DEF Box!ReplaceAt
    <2>2. CASE k = Len(s)
      <3>1. k + 1 \in 1 .. Len(s) + 1
        BY <2>2
      <3>2. IsInserted(Box!InsertAt(s, k + 1, e), s, k + 1, e, Char)
        BY <3>1, Inserted
      <3>3. t = Box!InsertAt(s, k + 1, e)
        BY <2>2
      <3> HIDE DEF t
      <3>4. IsInserted(t, s, k + 1, e, Char)
        BY <3>2, <3>3
      <3> QED BY <2>2, <3>4 DEF IsInserted
    <2> QED BY <2>1, <2>2
  <1> HIDE DEF t
  <1> HIDE DEF p
  <1>3. c \in Seq(S) /\ Len(c) = MaxLength /\ \A j \in 1 .. MaxLength : c[j] = IF j = k + 1 THEN e ELSE p[j]
    BY <1>1
  <1> HIDE DEF c, S
  <1>4. ASSUME NEW j \in 1 .. MaxLength PROVE c[j] = IF j <= Len(t) THEN t[j] ELSE Nul
    <2>1. c[j] = IF j = k + 1 THEN e ELSE IF j <= Len(s) THEN s[j] ELSE Nul
      BY <1>1, <1>3
    <2>2. j <= Len(t) => t[j] = IF j = k + 1 THEN e ELSE s[j]
      BY <1>2
    <2>3. (j <= Len(t)) = (j <= Len(s) \/ j = k + 1)
      BY <1>2
    <2> QED BY <1>2, <2>1, <2>2, <2>3
  <1>5. c = Box!Padded(t)
    <2>1. Len(t) <= MaxLength
      BY <1>2
    <2> QED BY <1>2, <1>3, <1>4, <2>1, IsPadded DEF S
  <1> QED BY <1>5 DEF c, p, t

LEMMA TakenOut ==
  ASSUME MaxLength \in Nat, Nul \notin Char, NEW s \in Seq(Char), Len(s) <= MaxLength, NEW k \in 0 .. Len(s) - 1
  PROVE  Box!remove_shift(Box!Padded(s), k, Len(s)) = Box!Padded(Box!RemoveAt(s, k + 1))
  <1> DEFINE S == Char \cup {Nul}
             p == Box!Padded(s)
             t == Box!RemoveAt(s, k + 1)
             n == Len(s)
             c == [j \in DOMAIN p |-> IF j = n THEN Nul ELSE IF k < j /\ j < n THEN p[j + 1] ELSE p[j]]
  <1>1. p \in Seq(S) /\ Len(p) = MaxLength /\ \A j \in 1 .. MaxLength : p[j] = IF j <= n THEN s[j] ELSE Nul
    BY PaddedText
  <1>2. t \in Seq(Char) /\ Len(t) = n - 1 /\ \A j \in 1 .. n - 1 : t[j] = IF j < k + 1 THEN s[j] ELSE s[j + 1]
    <2>1. k + 1 \in 1 .. Len(s)
      OBVIOUS
    <2>2. IsRemoved(t, s, k + 1, Char)
      BY <2>1, Removed
    <2> HIDE DEF t
    <2> QED BY <2>2 DEF IsRemoved
  <1>3. n \in Nat /\ n <= MaxLength /\ k + 1 \in 1 .. n
    OBVIOUS
  <1>4. c = Box!remove_shift(p, k, n)
    <2>1. k \in Box!Place
      BY DEF Box!Place
    <2>2. p[k + 1] # Nul
      BY <1>1, <1>3
    <2> QED BY <2>1, <2>2 DEF Box!remove_shift
  <1> HIDE DEF p, t, n
  <1>5. DOMAIN p = 1 .. MaxLength
    BY <1>1
  <1>6. ASSUME NEW j \in 1 .. MaxLength PROVE c[j] = (IF j <= n - 1 THEN t[j] ELSE Nul) /\ c[j] \in S
    <2>1. c[j] = IF j = n THEN Nul ELSE IF k < j /\ j < n THEN p[j + 1] ELSE p[j]
      BY <1>5
    <2>2. CASE j = n
      BY <1>3, <2>1, <2>2
    <2>3. CASE j < n /\ k < j
      <3>1. c[j] = p[j + 1] /\ j + 1 \in 1 .. MaxLength /\ j + 1 <= n /\ j \in 1 .. n - 1
        BY <1>3, <2>1, <2>3
      <3>2. c[j] = s[j + 1] /\ c[j] \in S
        BY <1>1, <3>1
      <3> QED BY <1>2, <1>3, <2>3, <3>1, <3>2
    <2>4. CASE j < n /\ ~(k < j)
      <3>1. c[j] = p[j] /\ j <= n /\ j \in 1 .. n - 1
        BY <1>3, <2>1, <2>4
      <3> QED BY <1>1, <1>2, <1>3, <2>4, <3>1
    <2>5. CASE j > n
      BY <1>1, <1>3, <2>1, <2>5
    <2> QED BY <1>3, <2>2, <2>3, <2>4, <2>5
  <1>7. c \in Seq(S) /\ Len(c) = MaxLength
    BY <1>5, <1>6
  <1> HIDE DEF c
  <1>8. c = Box!Padded(t)
    <2>1. Len(t) <= MaxLength /\ c \in Seq(Char \cup {Nul})
      BY <1>2, <1>3, <1>7
    <2>2. \A j \in 1 .. MaxLength : c[j] = IF j <= Len(t) THEN t[j] ELSE Nul
      BY <1>2, <1>6
    <2> QED BY <1>2, <1>7, <2>1, <2>2, IsPadded
  <1> QED BY <1>4, <1>8 DEF p, t, n

LEMMA BoxInit == BoxAsBuilt /\ Box!Init => BoxIInv
  <1> SUFFICES ASSUME BoxAsBuilt, Box!Init PROVE BoxIInv
    OBVIOUS
  <1>1. PICK S : MaxLength \in Nat /\ Hint \in Seq(S) /\ Len(Hint) < MaxLength
    BY DEF BoxAsBuilt
  <1> DEFINE v == [i \in 1 .. MaxLength - Len(Hint) |-> Nul]
             T == S \cup {Nul}
  <1>2. Hint \in Seq(T) /\ v \in Seq(T) /\ Len(v) = MaxLength - Len(Hint)
    BY <1>1
  <1>3. m_content = Hint \o v
    BY DEF Box!Init, Box!Padded
  <1> HIDE DEF v, T
  <1>4. m_content \in Seq(T) /\ Len(m_content) = MaxLength
    BY <1>1, <1>2, <1>3
  <1>5. DOMAIN m_content = 1 .. MaxLength
    BY <1>4
  <1>6. text \in Seq(Char) /\ Len(text) = 0
    BY DEF Box!Init
  <1> QED BY <1>1, <1>5, <1>6 DEF Box!Init, BoxIInv

LEMMA BoxStep == BoxAsBuilt /\ BoxIInv /\ [Box!Next]_(Box!inputVars) => BoxIInv'
  <1> SUFFICES ASSUME BoxAsBuilt, BoxIInv, [Box!Next]_(Box!inputVars), onText' PROVE BoxIInv'
    BY DEF BoxIInv
  <1>1. MaxLength \in Nat /\ MaxLength # 0 /\ Nul \notin Char
    BY DEF BoxAsBuilt
  <1>2. ASSUME onText
        PROVE  /\ text \in Seq(Char) /\ Len(text) <= MaxLength /\ caret \in 0 .. Len(text) /\ Len(text) \in Nat
               /\ DOMAIN m_content = 1 .. MaxLength
               /\ m_is_placeholder => text = <<>> /\ m_curr_length = 0
               /\ ~m_is_placeholder \/ focused =>
                    m_content = Box!Padded(text) /\ m_curr_length = Len(text) /\ cursor = caret
    BY <1>2 DEF BoxIInv
  <1>3. ASSUME text' \in Seq(Char), Len(text') <= MaxLength, caret' \in 0 .. Len(text'),
               m_is_placeholder' => text' = <<>>,
               m_content' = Box!Padded(text'), m_curr_length' = Len(text'), cursor' = caret'
        PROVE  BoxIInv'
    <2>1. DOMAIN m_content' = 1 .. MaxLength
      <3>1. PICK s : s = text'
        OBVIOUS
      <3> DEFINE p == Box!Padded(s)
      <3>2. p \in Seq(Char \cup {Nul}) /\ Len(p) = MaxLength
        BY <1>1, <1>3, <3>1, PaddedText
      <3>3. m_content' = p
        BY <1>3, <3>1
      <3> HIDE DEF p
      <3> QED BY <3>2, <3>3
    <2>2. m_is_placeholder' => m_curr_length' = 0
      BY <1>3
    <2> QED BY <1>3, <2>1, <2>2 DEF BoxIInv
  <1>4. ASSUME Box!MouseEnter PROVE BoxIInv'
    <2>1. onText /\ focused = ~TRUE /\ UNCHANGED <<m_curr_length, m_is_placeholder, text, caret>>
      BY <1>4 DEF Box!MouseEnter, Box!Focus
    <2>2. CASE m_is_placeholder
      <3>1. /\ m_content' = [i \in DOMAIN m_content |-> Nul] /\ cursor' = 0 /\ DOMAIN m_content = 1 .. MaxLength
            /\ text = <<>> /\ caret = 0 /\ m_curr_length = 0
        BY <1>2, <1>4, <2>1, <2>2 DEF Box!MouseEnter
      <3>2. <<>> \in Seq(Char) /\ Len(<<>>) = 0
        OBVIOUS
      <3>3. m_content' = Box!Padded(text')
        <4> DEFINE c == [i \in 1 .. MaxLength |-> Nul]
        <4>1. PICK s : s = text'
          OBVIOUS
        <4>2. s \in Seq(Char) /\ Len(s) = 0
          BY <2>1, <3>1, <4>1
        <4>3. c \in Seq(Char \cup {Nul}) /\ Len(c) = MaxLength /\ \A j \in 1 .. MaxLength : c[j] = Nul
          BY <1>1
        <4>4. m_content' = c
          BY <3>1
        <4> HIDE DEF c
        <4>5. c = Box!Padded(s)
          <5>1. Len(s) <= MaxLength /\ \A j \in 1 .. MaxLength : c[j] = IF j <= Len(s) THEN s[j] ELSE Nul
            BY <1>1, <4>2, <4>3
          <5> QED BY <1>1, <4>2, <4>3, <5>1, IsPadded
        <4> QED BY <4>1, <4>4, <4>5
      <3> QED BY <1>1, <1>3, <2>1, <3>1, <3>2, <3>3
    <2>3. CASE ~m_is_placeholder
      <3>1. m_content' = m_content /\ cursor' = cursor
        BY <1>4, <2>3 DEF Box!MouseEnter
      <3> QED BY <1>2, <1>3, <2>1, <2>3, <3>1
    <2> QED BY <2>2, <2>3
  <1>5. ASSUME Box!MouseExit PROVE BoxIInv'
    <2>1. onText /\ focused' = FALSE /\ UNCHANGED <<m_curr_length, m_is_placeholder, text, caret, cursor>>
      BY <1>5 DEF Box!MouseExit, Box!Focus
    <2>2. CASE m_is_placeholder
      <3>1. DOMAIN m_content' = DOMAIN m_content
        BY <1>5, <2>2 DEF Box!MouseExit
      <3> QED BY <1>2, <2>1, <2>2, <3>1 DEF BoxIInv
    <2>3. CASE ~m_is_placeholder
      <3>1. m_content' = m_content
        BY <1>5, <2>3 DEF Box!MouseExit
      <3> QED BY <1>2, <1>3, <2>1, <2>3, <3>1
    <2> QED BY <2>2, <2>3
  <1>6. ASSUME NEW c \in Char, Box!AddChar(c) PROVE BoxIInv'
    <2>1. onText /\ focused /\ m_is_placeholder' = FALSE
      BY <1>6 DEF Box!AddChar, Box!Key
    <2>2. m_content = Box!Padded(text) /\ m_curr_length = Len(text) /\ cursor = caret
      BY <1>2, <2>1
    <2>3. CASE m_curr_length >= MaxLength \/ m_curr_length < 0
      BY <1>2, <1>3, <1>6, <2>1, <2>2, <2>3 DEF Box!AddChar
    <2>4. CASE ~(m_curr_length >= MaxLength \/ m_curr_length < 0)
      <3>1. Len(text) < MaxLength /\ caret \in 0 .. Len(text) /\ cursor \in Box!Place /\ text \in Seq(Char)
        BY <1>1, <1>2, <2>1, <2>2, <2>4 DEF Box!Place
      <3>2. /\ m_content' = IF ~m_insert_toggle THEN Box!insert_shift(m_content, cursor, c)
                            ELSE [m_content EXCEPT ![cursor + 1] = c]
            /\ m_curr_length' = IF m_insert_toggle /\ cursor # m_curr_length THEN m_curr_length ELSE m_curr_length + 1
            /\ cursor' = cursor + 1 /\ caret' = caret + 1
            /\ text' = IF m_insert_toggle /\ caret < Len(text) THEN Box!ReplaceAt(text, caret + 1, c)
                       ELSE Box!InsertAt(text, caret + 1, c)
        BY <1>6, <2>4, <3>1 DEF Box!AddChar, Box!Typed
      <3>3. PICK s, k : s = text /\ k = caret
        OBVIOUS
      <3>4. s \in Seq(Char) /\ Len(s) < MaxLength /\ k \in 0 .. Len(s) /\ k + 1 \in 1 .. Len(s) + 1
        BY <3>1, <3>3
      <3>5. IsInserted(Box!InsertAt(s, k + 1, c), s, k + 1, c, Char)
        BY <3>4, Inserted
      <3>6. CASE ~m_insert_toggle
        <4> DEFINE t == Box!InsertAt(s, k + 1, c)
        <4>1. Box!insert_shift(Box!Padded(s), k, c) = Box!Padded(t)
          BY <1>1, <3>4, TypedIn
        <4>2. text' = t /\ m_content' = Box!insert_shift(Box!Padded(s), k, c)
              /\ m_curr_length' = Len(s) + 1 /\ cursor' = k + 1 /\ caret' = k + 1
          BY <2>2, <3>2, <3>3, <3>6
        <4> HIDE DEF t
        <4>3. t \in Seq(Char) /\ Len(t) = Len(s) + 1
          BY <3>5 DEF IsInserted, t
        <4> QED BY <1>1, <1>3, <2>1, <3>4, <4>1, <4>2, <4>3
      <3>7. CASE m_insert_toggle
        <4> DEFINE t == IF k < Len(s) THEN Box!ReplaceAt(s, k + 1, c) ELSE Box!InsertAt(s, k + 1, c)
        <4>1. [Box!Padded(s) EXCEPT ![k + 1] = c] = Box!Padded(t)
          BY <1>1, <3>4, TypedOver
        <4>2. text' = t /\ m_content' = [Box!Padded(s) EXCEPT ![k + 1] = c] /\ cursor' = k + 1 /\ caret' = k + 1
              /\ m_curr_length' = IF k # Len(s) THEN Len(s) ELSE Len(s) + 1
          BY <2>2, <3>2, <3>3, <3>7
        <4>3. t \in Seq(Char) /\ Len(t) = IF k # Len(s) THEN Len(s) ELSE Len(s) + 1
          <5>1. CASE k < Len(s)
            BY <3>4, <5>1 DEF Box!ReplaceAt
          <5>2. CASE k = Len(s)
            BY <3>5, <5>2 DEF IsInserted
          <5> QED BY <3>4, <5>1, <5>2
        <4> HIDE DEF t
        <4> QED BY <1>1, <1>3, <2>1, <3>4, <4>1, <4>2, <4>3
      <3> QED BY <3>6, <3>7
    <2> QED BY <2>3, <2>4
  <1>7. ASSUME Box!ToggleInsert PROVE BoxIInv'
    BY <1>2, <1>7 DEF Box!ToggleInsert, BoxIInv
  <1>8. ASSUME Box!Backspace PROVE BoxIInv'
    <2>1. onText /\ focused /\ UNCHANGED m_is_placeholder
      BY <1>8 DEF Box!Backspace, Box!Key
    <2>2. m_content = Box!Padded(text) /\ m_curr_length = Len(text) /\ cursor = caret
      BY <1>2, <2>1
    <2>3. CASE caret = 0
      BY <1>2, <1>3, <1>8, <2>1, <2>2, <2>3 DEF Box!Backspace
    <2>4. CASE caret # 0
      <3>1. caret \in 1 .. Len(text) /\ caret - 1 \in 0 .. Len(text) - 1 /\ (caret - 1) + 1 = caret /\ text # <<>>
        BY <1>2, <2>1, <2>4
      <3>2. /\ m_content' = Box!remove_shift(m_content, cursor - 1, m_curr_length)
            /\ m_curr_length' = m_curr_length - 1 /\ cursor' = cursor - 1
            /\ text' = Box!RemoveAt(text, caret) /\ caret' = caret - 1
        BY <1>8, <2>2, <2>4, <3>1 DEF Box!Backspace
      <3>3. Box!RemoveAt(text, caret) \in Seq(Char) /\ Len(Box!RemoveAt(text, caret)) = Len(text) - 1
        BY <1>2, <2>1, <3>1, Removed DEF IsRemoved
      <3>4. Box!remove_shift(Box!Padded(text), caret - 1, Len(text)) = Box!Padded(Box!RemoveAt(text, (caret - 1) + 1))
        BY <1>1, <1>2, <2>1, <3>1, TakenOut
      <3>5. m_content' = Box!Padded(text')
        BY <2>2, <3>1, <3>2, <3>4
      <3>6. ~m_is_placeholder'
        BY <1>2, <2>1, <3>1
      <3>7. text' \in Seq(Char) /\ Len(text') <= MaxLength /\ caret' \in 0 .. Len(text')
            /\ m_curr_length' = Len(text') /\ cursor' = caret'
        <4> DEFINE t == Box!RemoveAt(text, caret)
        <4>1. text' = t /\ caret' = caret - 1 /\ m_curr_length' = Len(text) - 1 /\ cursor' = caret - 1
          BY <2>2, <3>2
        <4>2. t \in Seq(Char) /\ Len(t) = Len(text) - 1
          BY <3>3
        <4>3. Len(text) \in Nat /\ Len(text) <= MaxLength
          BY <1>2, <2>1
        <4> HIDE DEF t
        <4> QED BY <1>1, <3>1, <4>1, <4>2, <4>3
      <3> QED BY <1>3, <3>5, <3>6, <3>7
    <2> QED BY <2>3, <2>4
  <1>9. ASSUME Box!Delete PROVE BoxIInv'
    <2>1. onText /\ caret < Len(text) /\ focused /\ UNCHANGED <<m_is_placeholder, cursor, caret>>
      BY <1>9 DEF Box!Delete, Box!Key
    <2>2. m_content = Box!Padded(text) /\ m_curr_length = Len(text) /\ cursor = caret
      BY <1>2, <2>1
    <2>3. caret \in 0 .. Len(text) - 1 /\ caret + 1 \in 1 .. Len(text) /\ text # <<>> /\ caret # Len(text)
      BY <1>2, <2>1
    <2>4. /\ m_content' = Box!remove_shift(m_content, cursor, m_curr_length)
          /\ m_curr_length' = m_curr_length - 1
          /\ text' = Box!RemoveAt(text, caret + 1)
      BY <1>9, <2>3 DEF Box!Delete
    <2>5. Box!RemoveAt(text, caret + 1) \in Seq(Char) /\ Len(Box!RemoveAt(text, caret + 1)) = Len(text) - 1
      BY <1>2, <2>1, <2>3, Removed DEF IsRemoved
    <2>6. m_content' = Box!Padded(text')
      BY <1>1, <1>2, <2>1, <2>2, <2>3, <2>4, TakenOut
    <2>7. ~m_is_placeholder'
      BY <1>2, <2>1, <2>3
    <2>8. text' \in Seq(Char) /\ Len(text') <= MaxLength /\ caret' \in 0 .. Len(text')
          /\ m_curr_length' = Len(text') /\ cursor' = caret'
      <3> DEFINE t == Box!RemoveAt(text, caret + 1)
      <3>1. text' = t /\ caret' = caret /\ m_curr_length' = Len(text) - 1 /\ cursor' = caret
        BY <2>1, <2>2, <2>4
      <3>2. t \in Seq(Char) /\ Len(t) = Len(text) - 1
        BY <2>5
      <3>3. Len(text) \in Nat /\ Len(text) <= MaxLength
        BY <1>2, <2>1
      <3> HIDE DEF t
      <3> QED BY <1>1, <2>3, <3>1, <3>2, <3>3
    <2> QED BY <1>3, <2>6, <2>7, <2>8
  <1>10. ASSUME NEW h \in {-1, 1}, Box!Arrow(h) PROVE BoxIInv'
    <2>1. onText /\ focused /\ UNCHANGED <<m_content, m_curr_length, m_is_placeholder, text>>
      BY <1>10 DEF Box!Arrow, Box!Key
    <2>2. m_content = Box!Padded(text) /\ m_curr_length = Len(text) /\ cursor = caret
      BY <1>2, <2>1
    <2>3. Box!isCursorColliding(cursor + h) <=> caret + h \in 0 .. Len(text)
      BY <1>2, <2>1, <2>2 DEF Box!isCursorColliding
    <2>4. cursor' = caret' /\ caret' \in 0 .. Len(text)
      BY <1>2, <1>10, <2>1, <2>2, <2>3 DEF Box!Arrow
    <2> QED BY <1>2, <1>3, <2>1, <2>2, <2>4
  <1>11. ASSUME Box!Relayout PROVE BoxIInv'
    <2>1. onText /\ m_is_placeholder /\ ~focused
          /\ UNCHANGED <<m_content, m_curr_length, m_is_placeholder, focused, text, caret>>
      BY <1>11 DEF Box!Relayout
    <2> QED BY <1>2, <2>1 DEF BoxIInv
  <1>12. CASE UNCHANGED Box!inputVars
    BY <1>12 DEF Box!inputVars, BoxIInv
  <1> QED BY <1>4, <1>5, <1>6, <1>7, <1>8, <1>9, <1>10, <1>11, <1>12 DEF Box!Next

\* EditsTheText: for any maximum length, whatever is typed in both modes, deleted
\* under the caret, moved over or focused, the string of the box with its length
\* and its cursor is the text of a line editor with its caret.
THEOREM EditsCorrect ==
  ASSUME BoxAsBuilt
  PROVE  Box!Spec => []EditsTheText
  <1>1. BoxIInv => EditsTheText
    BY DEF BoxIInv, EditsTheText, Box!EditsTheText
  <1>2. BoxAsBuilt /\ BoxIInv /\ [Box!Next]_(Box!inputVars) => BoxIInv'
    BY BoxStep
  <1> QED BY <1>1, <1>2, BoxInit, PTL DEF Box!Spec

-------------------------------------------------------------------------------
(* The collectors of metrics.                                                 *)

Collector ==
  [tid : Tid, m_parent : Nat, alive : BOOLEAN, m_start_time : Int, m_duration : Int \cup {"unset"}, m_cpu_time : Int,
   m_heap_usage : Int, m_heap_res : Int, caller : Nat, began : Int, last : Int, collects : Nat]

MetricTypes ==
  /\ m_metrics_map \in [Tid -> Seq(Nat)]
  /\ collectors \in Seq(Collector)
  /\ reading \in Int

\* The figures of collector o are readings until it collects, and then differences.
Figures(o) ==
  /\ o.m_start_time = o.began
  /\ o.collects = 0 => o.m_cpu_time = o.began /\ o.m_heap_usage = o.began
  /\ o.collects > 0 => o.m_duration = o.last - o.began
  /\ o.collects = 1 => o.m_cpu_time = o.last - o.began /\ o.m_heap_usage = o.last - o.began

\* A caller comes before its callee in the same thread, and lives as long as it
\* does; what a thread creates while c is alive is called by c or below it.
CallerInv ==
  \A d \in DOMAIN collectors :
    /\ collectors[d].caller < d
    /\ collectors[d].caller # 0 =>
         /\ collectors[collectors[d].caller].tid = collectors[d].tid
         /\ collectors[d].alive => collectors[collectors[d].caller].alive
    /\ \A c \in 1 .. d - 1 : collectors[c].alive /\ collectors[c].tid = collectors[d].tid => c <= collectors[d].caller

\* Collector c called a function.
HasCalled(c) == \E d \in DOMAIN collectors : collectors[d].caller = c

\* Of a stack of n references the one at place p is to c, which is alive: it is
\* the top unless c called.
Above(n, p, c) == ~HasCalled(c) => n = p

StackOf(t, s) ==
  /\ \A p \in 1 .. Len(s) : s[p] \in DOMAIN collectors /\ collectors[s[p]].tid = t
  /\ \A p, q \in 1 .. Len(s) : p < q => s[p] < s[q]
  /\ \A c \in DOMAIN collectors : collectors[c].tid = t /\ collectors[c].alive => \E p \in 1 .. Len(s) : s[p] = c
  /\ \A p \in 1 .. Len(s) : collectors[s[p]].alive => Above(Len(s), p, s[p])

\* Collector c has the name of a function that it called, or called none.
Named(c, n) ==
  \/ n = 0 /\ ~HasCalled(c)
  \/ n \in DOMAIN collectors /\ collectors[n].caller = c

\* Collector i is the innermost of thread t, or t has none and i is 0.
Inner(t, i) ==
  /\ i = 0 \/ (i \in DOMAIN collectors /\ collectors[i].tid = t /\ collectors[i].alive)
  /\ \A c \in DOMAIN collectors : collectors[c].tid = t /\ collectors[c].alive => c <= i

InnerInv == \A t \in Tid : \E i \in Nat : Inner(t, i)
FiguresInv == \A c \in DOMAIN collectors : Figures(collectors[c])
StackInv == \A t \in Tid : StackOf(t, m_metrics_map[t])
ParentInv == \A c \in DOMAIN collectors : Named(c, collectors[c].m_parent)
MetricIInv == MetricTypes /\ FiguresInv /\ InnerInv /\ CallerInv /\ StackInv /\ ParentInv

LEMMA MetricInit == Calls!Init => MetricIInv
  <1> SUFFICES ASSUME Calls!Init PROVE MetricIInv
    OBVIOUS
  <1>1. collectors = <<>> /\ reading = 0 /\ m_metrics_map = [t \in Tid |-> <<>>] /\ DOMAIN collectors = {}
    BY DEF Calls!Init
  <1>2. MetricTypes
    BY <1>1 DEF MetricTypes
  <1>3. InnerInv
    BY <1>1 DEF InnerInv, Inner
  <1>4. StackInv
    BY <1>1 DEF StackInv, StackOf
  <1>5. FiguresInv /\ CallerInv /\ ParentInv
    BY <1>1 DEF FiguresInv, CallerInv, ParentInv
  <1> QED BY <1>2, <1>3, <1>4, <1>5 DEF MetricIInv

\* The innermost collector of a thread.
LEMMA InnermostIs ==
  ASSUME MetricTypes, NEW t \in Tid, NEW i \in Nat, Inner(t, i)
  PROVE  Calls!Innermost(t) = i
  <1> DEFINE mine == {c \in DOMAIN collectors : collectors[c].tid = t /\ collectors[c].alive}
  <1>1. Calls!Innermost(t) = IF mine = {} THEN 0 ELSE CHOOSE c \in mine : \A d \in mine : d <= c
    BY DEF Calls!Innermost, Calls!Alive, Calls!NoName
  <1>2. mine \subseteq 1 .. Len(collectors) /\ \A d \in mine : d \in Nat \ {0}
    BY DEF MetricTypes
  <1>3. CASE i = 0
    <2>1. mine = {}
      BY <1>2, <1>3 DEF Inner
    <2> QED BY <1>1, <1>3, <2>1
  <1>4. CASE i # 0
    <2>1. i \in mine /\ \A d \in mine : d <= i
      BY <1>4 DEF Inner
    <2> HIDE DEF mine
    <2>2. \A c \in mine : (\A d \in mine : d <= c) => c = i
      BY <1>2, <2>1
    <2> QED BY <1>1, <2>1, <2>2
  <1> QED BY <1>3, <1>4

-------------------------------------------------------------------------------
(* A new collector.                                                           *)

\* What create leaves of a collector that is there: all but the parent.
Same(o, p) ==
  /\ p.tid = o.tid /\ p.alive = o.alive /\ p.caller = o.caller /\ p.m_start_time = o.m_start_time /\ p.began = o.began
  /\ p.m_duration = o.m_duration /\ p.m_cpu_time = o.m_cpu_time /\ p.m_heap_usage = o.m_heap_usage
  /\ p.last = o.last /\ p.collects = o.collects

\* w is the stack s without the expired reference on its top.
Cleaned(s, w) ==
  \/ w = s /\ (Len(s) > 0 => collectors[s[Len(s)]].alive)
  \/ /\ Len(s) > 0 /\ ~collectors[s[Len(s)]].alive
     /\ Len(w) = Len(s) - 1 /\ \A p \in 1 .. Len(w) : w[p] = s[p]

\* Thread t, whose innermost collector is i, created another one.
Created(t, w, i, new) ==
  /\ w \in Seq(Nat) /\ Cleaned(m_metrics_map[t], w) /\ Inner(t, i) /\ new = Len(collectors) + 1
  /\ m_metrics_map' = [m_metrics_map EXCEPT ![t] = Append(w, new)]
  /\ DOMAIN collectors' = 1 .. new
  /\ \A c \in 1 .. new - 1 :
       /\ Same(collectors[c], collectors'[c])
       /\ collectors'[c].m_parent =
            IF Len(w) > 0 /\ c = w[Len(w)] /\ collectors[c].alive THEN new ELSE collectors[c].m_parent
  /\ collectors'[new].tid = t /\ collectors'[new].alive /\ collectors'[new].caller = i
  /\ collectors'[new].m_parent = 0 /\ Figures(collectors'[new])

LEMMA CleanedIs ==
  ASSUME MetricTypes, NEW s \in Seq(Nat)
  PROVE  Calls!WithoutExpired(s) \in Seq(Nat) /\ Cleaned(s, Calls!WithoutExpired(s))
  <1> DEFINE w == Calls!WithoutExpired(s)
  <1>1. CASE s # <<>> /\ ~collectors[s[Len(s)]].alive
    <2>1. w = SubSeq(s, 1, Len(s) - 1)
      BY <1>1 DEF Calls!WithoutExpired, Calls!Alive, Calls!Last, Calls!Front
    <2>2. w \in Seq(Nat) /\ Len(w) = Len(s) - 1 /\ (\A p \in 1 .. Len(w) : w[p] = s[p]) /\ Len(s) > 0
      <3>1. PICK n : n = Len(s) - 1
        OBVIOUS
      <3>2. n \in Nat /\ Len(s) = n + 1 /\ n <= Len(s)
        BY <1>1, <3>1
      <3>3. \A p \in 1 .. n : s[p] \in Nat
        BY <3>2
      <3>4. /\ SubSeq(s, 1, n) \in Seq(Nat) /\ Len(SubSeq(s, 1, n)) = n
            /\ \A p \in 1 .. n : SubSeq(s, 1, n)[p] = s[p]
        BY <3>2, <3>3
      <3>5. w = SubSeq(s, 1, n)
        BY <2>1, <3>1
      <3> HIDE DEF w
      <3>6. w \in Seq(Nat) /\ Len(w) = n
        BY <3>4, <3>5
      <3>7. \A p \in 1 .. Len(w) : w[p] = s[p]
        BY <3>4, <3>5, <3>6
      <3>8. Len(w) = Len(s) - 1
        BY <3>1, <3>6
      <3>9. Len(s) > 0
        BY <3>2
      <3> QED BY <3>6, <3>7, <3>8, <3>9
    <2> QED BY <1>1, <2>2 DEF Cleaned
  <1>2. CASE ~(s # <<>> /\ ~collectors[s[Len(s)]].alive)
    <2>1. w = s
      BY <1>2 DEF Calls!WithoutExpired, Calls!Alive, Calls!Last
    <2> QED BY <1>2, <2>1 DEF Cleaned
  <1> QED BY <1>1, <1>2

LEMMA CreatedIs ==
  ASSUME MetricIInv, NEW t \in Tid, Calls!Create(t)
  PROVE  MetricTypes' /\ \E w, i, new : i \in Nat /\ new \in Nat /\ Created(t, w, i, new)
  <1>1. MetricTypes
    BY DEF MetricIInv
  <1>2. PICK i \in Nat : Inner(t, i)
    BY DEF MetricIInv, InnerInv
  <1>3. Calls!Innermost(t) = i
    BY <1>1, <1>2, InnermostIs
  <1>4. PICK w : w = Calls!WithoutExpired(m_metrics_map[t])
    OBVIOUS
  <1>5. w \in Seq(Nat) /\ Cleaned(m_metrics_map[t], w)
    BY <1>1, <1>4, CleanedIs DEF MetricTypes
  <1>6. PICK new : new = Len(collectors) + 1
    OBVIOUS
  <1>7. new \in Nat \ {0} /\ new - 1 = Len(collectors) /\ DOMAIN collectors = 1 .. new - 1
    BY <1>1, <1>6 DEF MetricTypes
  <1> DEFINE olds == Calls!WithParent(w, new)
             one == Calls!NewCollector(t, i)
             old(c) == IF w # <<>> /\ c = w[Len(w)] /\ collectors[c].alive THEN [collectors[c] EXCEPT !.m_parent = new] ELSE collectors[c]
  <1>8. /\ m_metrics_map' = [m_metrics_map EXCEPT ![t] = Append(w, new)]
        /\ collectors' = Append(olds, one) /\ reading' = reading
    BY <1>3, <1>4, <1>6 DEF Calls!Create
  <1>9. olds = [c \in 1 .. new - 1 |-> old(c)]
    BY <1>7 DEF Calls!WithParent, Calls!Last, Calls!Alive
  <1>10. one \in Collector /\ one.tid = t /\ one.alive /\ one.caller = i /\ one.m_parent = 0 /\ Figures(one)
    <2>1. one = [tid |-> t, m_parent |-> 0, alive |-> TRUE, m_start_time |-> reading, m_duration |-> "unset",
                 m_cpu_time |-> reading, m_heap_usage |-> reading, m_heap_res |-> reading,
                 caller |-> i, began |-> reading, last |-> reading, collects |-> 0]
      BY DEF Calls!NewCollector, Calls!NoName, Calls!NotRead
    <2> HIDE DEF one
    <2> QED BY <1>1, <2>1 DEF Collector, Figures, MetricTypes
  <1>11. ASSUME NEW c \in 1 .. new - 1
         PROVE  /\ old(c) \in Collector /\ Same(collectors[c], old(c))
                /\ old(c).m_parent = IF Len(w) > 0 /\ c = w[Len(w)] /\ collectors[c].alive THEN new ELSE collectors[c].m_parent
    <2>1. collectors[c] \in Collector
      BY <1>1, <1>7 DEF MetricTypes
    <2>2. w # <<>> <=> Len(w) > 0
      BY <1>5
    <2> QED BY <1>7, <2>1, <2>2 DEF Collector, Same
  <1> HIDE DEF olds, one, old
  <1>12. olds \in Seq(Collector) /\ Len(olds) = new - 1
    BY <1>7, <1>9, <1>11
  <1>13. /\ collectors' \in Seq(Collector) /\ DOMAIN collectors' = 1 .. new /\ collectors'[new] = one
         /\ \A c \in 1 .. new - 1 : collectors'[c] = old(c)
    BY <1>7, <1>8, <1>9, <1>10, <1>12
  <1>14. MetricTypes'
    BY <1>1, <1>5, <1>7, <1>8, <1>13 DEF MetricTypes
  <1>15. Created(t, w, i, new)
    BY <1>2, <1>5, <1>6, <1>8, <1>10, <1>11, <1>13 DEF Created
  <1> QED BY <1>7, <1>14, <1>15

\* Who has called after thread t created a collector: its innermost one too.
LEMMA CalledThen ==
  ASSUME MetricTypes, CallerInv, NEW t, NEW w, NEW i \in Nat, NEW new \in Nat, Created(t, w, i, new)
  PROVE  /\ DOMAIN collectors = 1 .. new - 1 /\ new \in Nat \ {0} /\ i < new
         /\ \A c \in 1 .. new - 1 : HasCalled(c)' <=> HasCalled(c) \/ c = i
         /\ ~HasCalled(new)'
  <1>1. DOMAIN collectors = 1 .. new - 1 /\ new \in Nat \ {0}
    BY DEF Created, MetricTypes
  <1>2. i < new /\ (i # 0 => i \in 1 .. new - 1)
    BY <1>1 DEF Created, Inner
  <1>3. DOMAIN collectors' = 1 .. new /\ \A d \in 1 .. new - 1 : collectors'[d].caller = collectors[d].caller
    BY DEF Created, Same
  <1>4. collectors'[new].caller = i
    BY DEF Created
  <1>5. \A d \in 1 .. new - 1 : collectors[d].caller < d /\ collectors[d].caller \in Nat
    <2>1. \A d \in 1 .. new - 1 : collectors[d].caller < d
      BY <1>1 DEF CallerInv
    <2>2. \A d \in 1 .. new - 1 : collectors[d] \in Collector
      BY <1>1 DEF MetricTypes
    <2> QED BY <2>1, <2>2 DEF Collector
  <1>6. ASSUME NEW c \in 1 .. new - 1 PROVE HasCalled(c)' <=> HasCalled(c) \/ c = i
    <2>1. HasCalled(c)' <=> \E d \in 1 .. new : collectors'[d].caller = c
      BY <1>3 DEF HasCalled
    <2>2. HasCalled(c) <=> \E d \in 1 .. new - 1 : collectors[d].caller = c
      BY <1>1 DEF HasCalled
    <2>3. 1 .. new = (1 .. new - 1) \cup {new}
      BY <1>1
    <2> QED BY <1>3, <1>4, <2>1, <2>2, <2>3
  <1>7. ~HasCalled(new)'
    <2>1. \A d \in 1 .. new : collectors'[d].caller # new
      BY <1>1, <1>2, <1>3, <1>4, <1>5
    <2> QED BY <1>3, <2>1 DEF HasCalled
  <1> QED BY <1>1, <1>2, <1>6, <1>7

LEMMA CreateKeepsCallers ==
  ASSUME MetricTypes, InnerInv, CallerInv, NEW t \in Tid, NEW w, NEW i \in Nat, NEW new \in Nat, Created(t, w, i, new)
  PROVE  CallerInv' /\ InnerInv'
  <1>1. /\ DOMAIN collectors = 1 .. new - 1 /\ new \in Nat \ {0} /\ i < new
        /\ DOMAIN collectors' = 1 .. new
        /\ \A c \in 1 .. new - 1 : /\ collectors'[c].tid = collectors[c].tid /\ collectors'[c].alive = collectors[c].alive
                                   /\ collectors'[c].caller = collectors[c].caller
        /\ collectors'[new].tid = t /\ collectors'[new].alive /\ collectors'[new].caller = i
    <2>1. DOMAIN collectors = 1 .. new - 1 /\ new \in Nat \ {0} /\ i < new
      BY CalledThen
    <2>2. \A c \in 1 .. new - 1 : /\ collectors'[c].tid = collectors[c].tid /\ collectors'[c].alive = collectors[c].alive
                                  /\ collectors'[c].caller = collectors[c].caller
      BY DEF Created, Same
    <2>3. DOMAIN collectors' = 1 .. new /\ collectors'[new].tid = t /\ collectors'[new].alive /\ collectors'[new].caller = i
      BY DEF Created
    <2> QED BY <2>1, <2>2, <2>3
  <1>2. /\ i = 0 \/ (i \in 1 .. new - 1 /\ collectors[i].tid = t /\ collectors[i].alive)
        /\ \A c \in 1 .. new - 1 : collectors[c].tid = t /\ collectors[c].alive => c <= i
    BY <1>1 DEF Created, Inner
  <1>3. \A d \in 1 .. new - 1 : collectors[d].caller < d /\ collectors[d].caller \in Nat
    <2>1. \A d \in 1 .. new - 1 : collectors[d].caller < d
      BY <1>1 DEF CallerInv
    <2>2. \A d \in 1 .. new - 1 : collectors[d] \in Collector
      BY <1>1 DEF MetricTypes
    <2> QED BY <2>1, <2>2 DEF Collector
  <1> DEFINE Right(d) ==
        /\ collectors'[d].caller < d
        /\ collectors'[d].caller # 0 =>
             /\ collectors'[collectors'[d].caller].tid = collectors'[d].tid
             /\ collectors'[d].alive => collectors'[collectors'[d].caller].alive
        /\ \A c \in 1 .. d - 1 : collectors'[c].alive /\ collectors'[c].tid = collectors'[d].tid => c <= collectors'[d].caller
  <1>4. ASSUME NEW d \in 1 .. new - 1 PROVE Right(d)
    <2>1. /\ collectors[d].caller < d
          /\ collectors[d].caller # 0 =>
               /\ collectors[collectors[d].caller].tid = collectors[d].tid
               /\ collectors[d].alive => collectors[collectors[d].caller].alive
          /\ \A c \in 1 .. d - 1 : collectors[c].alive /\ collectors[c].tid = collectors[d].tid => c <= collectors[d].caller
      BY <1>1 DEF CallerInv
    <2>2. collectors[d].caller # 0 => collectors[d].caller \in 1 .. new - 1
      BY <1>1, <1>3
    <2>3. \A c \in 1 .. d - 1 : c \in 1 .. new - 1
      BY <1>1
    <2> QED BY <1>1, <2>1, <2>2, <2>3
  <1>5. Right(new)
    BY <1>1, <1>2
  <1>6. CallerInv'
    <2>1. 1 .. new = (1 .. new - 1) \cup {new}
      BY <1>1
    <2>2. \A d \in 1 .. new : Right(d)
      BY <1>4, <1>5, <2>1
    <2> QED BY <1>1, <2>2 DEF CallerInv
  <1>7. ASSUME NEW u \in Tid PROVE \E j \in Nat : Inner(u, j)'
    <2>1. CASE u = t
      <3>1. Inner(u, new)'
        BY <1>1, <1>2, <2>1 DEF Inner
      <3> QED BY <3>1
    <2>2. CASE u # t
      <3>1. PICK j \in Nat : Inner(u, j)
        BY DEF InnerInv
      <3>2. Inner(u, j)'
        BY <1>1, <2>2, <3>1 DEF Inner
      <3> QED BY <3>2
    <2> QED BY <2>1, <2>2
  <1>8. InnerInv'
    BY <1>7 DEF InnerInv
  <1> QED BY <1>6, <1>8

\* The stack of the thread that created.
LEMMA StackThen ==
  ASSUME MetricTypes, CallerInv, NEW t \in Tid, NEW w, NEW i \in Nat, NEW new \in Nat, Created(t, w, i, new),
         StackOf(t, m_metrics_map[t])
  PROVE  StackOf(t, Append(w, new))'
  <1>1. PICK s : s = m_metrics_map[t]
    OBVIOUS
  <1>2. PICK n : n = Len(s)
    OBVIOUS
  <1>3. PICK z : z = Len(w)
    OBVIOUS
  <1>4. PICK v : v = Append(w, new)
    OBVIOUS
  <1>5. s \in Seq(Nat) /\ n \in Nat /\ w \in Seq(Nat) /\ z \in Nat
    BY <1>1, <1>2, <1>3 DEF MetricTypes, Created
  <1>6. Len(v) = z + 1 /\ v[z + 1] = new /\ \A p \in 1 .. z : v[p] = w[p]
    BY <1>3, <1>4, <1>5
  <1>7. /\ DOMAIN collectors = 1 .. new - 1 /\ new \in Nat \ {0} /\ i < new
        /\ \A c \in 1 .. new - 1 : HasCalled(c)' <=> HasCalled(c) \/ c = i
        /\ ~HasCalled(new)'
    BY CalledThen
  <1>8. \A c \in 1 .. new - 1 : /\ collectors'[c].tid = collectors[c].tid /\ collectors'[c].alive = collectors[c].alive
                                /\ collectors'[c].caller = collectors[c].caller
    BY DEF Created, Same
  <1>9. DOMAIN collectors' = 1 .. new /\ collectors'[new].tid = t /\ collectors'[new].alive /\ collectors'[new].caller = i
    BY DEF Created
  <1>10. /\ i = 0 \/ (i \in 1 .. new - 1 /\ collectors[i].tid = t /\ collectors[i].alive)
         /\ \A c \in 1 .. new - 1 : collectors[c].tid = t /\ collectors[c].alive => c <= i
    BY <1>7 DEF Created, Inner
  <1>11. /\ \A p \in 1 .. n : s[p] \in 1 .. new - 1 /\ collectors[s[p]].tid = t
         /\ \A p, q \in 1 .. n : p < q => s[p] < s[q]
         /\ \A c \in 1 .. new - 1 : collectors[c].tid = t /\ collectors[c].alive => \E p \in 1 .. n : s[p] = c
         /\ \A p \in 1 .. n : collectors[s[p]].alive => Above(n, p, s[p])
    BY <1>1, <1>2, <1>7 DEF StackOf
  <1>12. /\ (z = n /\ (n > 0 => collectors[s[n]].alive)) \/ (n > 0 /\ ~collectors[s[n]].alive /\ z = n - 1)
         /\ \A p \in 1 .. z : w[p] = s[p]
    BY <1>1, <1>2, <1>3, <1>5 DEF Cleaned, Created
  <1>13. z <= n /\ n <= z + 1 /\ \A p \in 1 .. z : p \in 1 .. n /\ v[p] = s[p]
    BY <1>5, <1>6, <1>12
  <1>14. ASSUME NEW p \in 1 .. z + 1 PROVE v[p] \in 1 .. new /\ collectors'[v[p]].tid = t
    <2>1. CASE p = z + 1
      BY <1>6, <1>7, <1>9, <2>1
    <2>2. CASE p # z + 1
      <3>1. p \in 1 .. z
        BY <1>5, <2>2
      <3>2. v[p] \in 1 .. new - 1 /\ collectors[v[p]].tid = t
        BY <1>11, <1>13, <3>1
      <3> QED BY <1>7, <1>8, <3>2
    <2> QED BY <2>1, <2>2
  <1>15. ASSUME NEW p \in 1 .. z + 1, NEW q \in 1 .. z + 1, p < q PROVE v[p] < v[q]
    <2>1. p \in 1 .. z /\ v[p] = s[p] /\ s[p] \in 1 .. new - 1
      BY <1>5, <1>11, <1>13, <1>15
    <2>2. CASE q = z + 1
      BY <1>6, <1>7, <2>1, <2>2
    <2>3. CASE q # z + 1
      <3>1. q \in 1 .. z
        BY <1>5, <2>3
      <3> QED BY <1>11, <1>13, <1>15, <2>1, <3>1
    <2> QED BY <2>2, <2>3
  <1>16. ASSUME NEW c \in 1 .. new, collectors'[c].tid = t, collectors'[c].alive PROVE \E p \in 1 .. z + 1 : v[p] = c
    <2>1. CASE c = new
      BY <1>5, <1>6, <2>1
    <2>2. CASE c # new
      <3>1. c \in 1 .. new - 1 /\ collectors[c].tid = t /\ collectors[c].alive
        BY <1>7, <1>8, <1>16, <2>2
      <3>2. PICK p \in 1 .. n : s[p] = c
        BY <1>11, <3>1
      <3>3. p \in 1 .. z
        BY <1>5, <1>12, <3>1, <3>2
      <3>4. p \in 1 .. z + 1 /\ v[p] = c
        BY <1>5, <1>13, <3>2, <3>3
      <3> QED BY <3>4
    <2> QED BY <2>1, <2>2
  <1>17. ASSUME NEW p \in 1 .. z + 1, collectors'[v[p]].alive PROVE Above(z + 1, p, v[p])'
    <2>1. CASE p = z + 1
      BY <1>6, <1>7, <2>1 DEF Above
    <2>2. CASE p # z + 1
      <3>1. p \in 1 .. z /\ p \in 1 .. n
        BY <1>5, <1>13, <2>2
      <3>2. PICK c : c = s[p]
        OBVIOUS
      <3>3. c \in 1 .. new - 1 /\ collectors[c].alive /\ collectors[c].tid = t /\ v[p] = c /\ c <= i
        BY <1>8, <1>10, <1>11, <1>13, <1>17, <3>1, <3>2
      <3>4. i \in 1 .. new - 1 /\ collectors[i].tid = t /\ collectors[i].alive /\ i # 0
        BY <1>10, <3>3
      <3>5. PICK q \in 1 .. n : s[q] = i
        BY <1>11, <3>4
      <3>6. Above(n, p, c) /\ Above(n, q, i)
        BY <1>11, <3>1, <3>2, <3>3, <3>4, <3>5
      <3>7. CASE c = i
        <4>1. HasCalled(c)'
          BY <1>7, <3>3, <3>7
        <4> QED BY <3>3, <4>1 DEF Above
      <3>8. CASE c # i
        <4>1. c < i /\ p < q
          BY <1>7, <1>11, <3>1, <3>2, <3>3, <3>4, <3>5, <3>8
        <4>2. HasCalled(c)
          BY <1>5, <3>1, <3>6, <4>1 DEF Above
        <4>3. HasCalled(c)'
          BY <1>7, <3>3, <4>2
        <4> QED BY <3>3, <4>3 DEF Above
      <3> QED BY <3>7, <3>8
    <2> QED BY <2>1, <2>2
  <1>18. StackOf(t, v)'
    <2>1. v' = v
      BY <1>4
    <2> QED BY <1>6, <1>9, <1>14, <1>15, <1>16, <1>17 DEF StackOf
  <1> QED BY <1>4, <1>18

LEMMA CreateKeepsStacks ==
  ASSUME MetricTypes, CallerInv, StackInv, NEW t \in Tid, NEW w, NEW i \in Nat, NEW new \in Nat, Created(t, w, i, new)
  PROVE  StackInv'
  <1>1. m_metrics_map' = [m_metrics_map EXCEPT ![t] = Append(w, new)]
    BY DEF Created
  <1>2. ASSUME NEW u \in Tid PROVE StackOf(u, m_metrics_map[u])
    BY DEF StackInv
  <1>3. StackOf(t, Append(w, new))'
    BY <1>2, StackThen
  <1>4. m_metrics_map'[t] = Append(w, new)
    BY <1>1 DEF MetricTypes
  <1>5. ASSUME NEW u \in Tid, u # t PROVE StackOf(u, m_metrics_map[u])'
    <2>1. PICK s : s = m_metrics_map[u]
      OBVIOUS
    <2>2. StackOf(u, s) /\ m_metrics_map'[u] = s
      BY <1>1, <1>2, <1>5, <2>1 DEF MetricTypes
    <2>3. /\ DOMAIN collectors = 1 .. new - 1 /\ new \in Nat \ {0} /\ i < new
          /\ \A c \in 1 .. new - 1 : HasCalled(c)' <=> HasCalled(c) \/ c = i
      BY CalledThen
    <2>4. \A c \in 1 .. new - 1 : collectors'[c].tid = collectors[c].tid /\ collectors'[c].alive = collectors[c].alive
      BY DEF Created, Same
    <2>5. DOMAIN collectors' = 1 .. new /\ collectors'[new].tid = t
      BY DEF Created
    <2>6. i # 0 => i \in 1 .. new - 1 /\ collectors[i].tid = t
      BY <2>3 DEF Created, Inner
    <2>7. \A p \in 1 .. Len(s) : s[p] \in 1 .. new - 1 /\ collectors[s[p]].tid = u
      BY <2>2, <2>3 DEF StackOf
    <2>8. \A p \in 1 .. Len(s) : s[p] \in 1 .. new /\ collectors'[s[p]].tid = u
      BY <2>3, <2>4, <2>7
    <2>9. ASSUME NEW p \in 1 .. Len(s), collectors'[s[p]].alive PROVE Above(Len(s), p, s[p])'
      <3>1. PICK c : c = s[p]
        OBVIOUS
      <3>2. c \in 1 .. new - 1 /\ collectors[c].tid = u /\ Above(Len(s), p, c)
        BY <2>2, <2>4, <2>7, <2>9, <3>1 DEF StackOf
      <3>3. c # i
        BY <1>5, <2>3, <2>6, <3>2
      <3>4. HasCalled(c)' <=> HasCalled(c)
        BY <2>3, <3>2, <3>3
      <3>5. Above(Len(s), p, c)'
        BY <3>2, <3>4 DEF Above
      <3> QED BY <3>1, <3>5
    <2>10. ASSUME NEW c \in 1 .. new, collectors'[c].tid = u, collectors'[c].alive PROVE \E p \in 1 .. Len(s) : s[p] = c
      <3>1. c \in 1 .. new - 1
        BY <1>5, <2>3, <2>5, <2>10
      <3> QED BY <2>2, <2>3, <2>4, <2>10, <3>1 DEF StackOf
    <2>11. \A p, q \in 1 .. Len(s) : p < q => s[p] < s[q]
      BY <2>2 DEF StackOf
    <2>12. StackOf(u, s)'
      BY <2>5, <2>8, <2>9, <2>10, <2>11 DEF StackOf
    <2> QED BY <2>2, <2>12
  <1>6. ASSUME NEW u \in Tid PROVE StackOf(u, m_metrics_map[u])'
    <2>1. CASE u = t
      BY <1>3, <1>4, <2>1
    <2>2. CASE u # t
      BY <1>5, <2>2
    <2> QED BY <2>1, <2>2
  <1> QED BY <1>6 DEF StackInv

\* Of the old collectors only the innermost one is given the new name, and it is
\* given it if it has called nothing before.
LEMMA CreateKeepsNames ==
  ASSUME MetricTypes, CallerInv, StackInv, ParentInv,
         NEW t \in Tid, NEW w, NEW i \in Nat, NEW new \in Nat, Created(t, w, i, new)
  PROVE  ParentInv'
  <1>1. /\ DOMAIN collectors = 1 .. new - 1 /\ new \in Nat \ {0} /\ i < new
        /\ \A c \in 1 .. new - 1 : HasCalled(c)' <=> HasCalled(c) \/ c = i
        /\ ~HasCalled(new)'
    BY CalledThen
  <1>2. /\ DOMAIN collectors' = 1 .. new /\ collectors'[new].caller = i /\ collectors'[new].m_parent = 0
        /\ \A c \in 1 .. new - 1 :
             collectors'[c].m_parent = IF Len(w) > 0 /\ c = w[Len(w)] /\ collectors[c].alive THEN new ELSE collectors[c].m_parent
    BY DEF Created
  <1>3. \A c \in 1 .. new - 1 : collectors'[c].caller = collectors[c].caller
    BY DEF Created, Same
  <1>4. /\ i = 0 \/ (i \in 1 .. new - 1 /\ collectors[i].tid = t /\ collectors[i].alive)
        /\ \A c \in 1 .. new - 1 : collectors[c].tid = t /\ collectors[c].alive => c <= i
    BY <1>1 DEF Created, Inner
  <1>5. \A d \in 1 .. new - 1 : collectors[d].caller < d /\ collectors[d].caller \in Nat
    <2>1. \A d \in 1 .. new - 1 : collectors[d].caller < d
      BY <1>1 DEF CallerInv
    <2>2. \A d \in 1 .. new - 1 : collectors[d] \in Collector
      BY <1>1 DEF MetricTypes
    <2> QED BY <2>1, <2>2 DEF Collector
  <1>6. ASSUME NEW c \in 1 .. new - 1
        PROVE  Named(c, collectors[c].m_parent) /\ collectors[c].m_parent \in Nat
    <2>1. collectors[c] \in Collector
      BY <1>1 DEF MetricTypes
    <2> QED BY <1>1, <2>1 DEF ParentInv, Collector
  \* The top that is named is the innermost one, which is the top unless it called.
  <1>7. ASSUME NEW c \in 1 .. new - 1
        PROVE  /\ Len(w) > 0 /\ c = w[Len(w)] /\ collectors[c].alive => c = i
               /\ c = i /\ ~HasCalled(i) => Len(w) > 0 /\ c = w[Len(w)] /\ collectors[c].alive
    <2>1. PICK s : s = m_metrics_map[t]
      OBVIOUS
    <2>2. PICK n : n = Len(s)
      OBVIOUS
    <2>3. PICK z : z = Len(w)
      OBVIOUS
    <2>4. n \in Nat /\ z \in Nat
      BY <2>1, <2>2, <2>3 DEF MetricTypes, Created
    <2>5. StackOf(t, s)
      BY <2>1 DEF StackInv
    <2>6. /\ \A p \in 1 .. n : s[p] \in 1 .. new - 1 /\ collectors[s[p]].tid = t
          /\ \A p, q \in 1 .. n : p < q => s[p] < s[q]
          /\ \A d \in 1 .. new - 1 : collectors[d].tid = t /\ collectors[d].alive => \E p \in 1 .. n : s[p] = d
          /\ \A p \in 1 .. n : collectors[s[p]].alive => Above(n, p, s[p])
      BY <1>1, <2>2, <2>5 DEF StackOf
    <2>7. (z = n /\ (n > 0 => collectors[s[n]].alive) /\ w = s)
            \/ (n > 0 /\ ~collectors[s[n]].alive /\ z = n - 1 /\ \A p \in 1 .. z : w[p] = s[p])
      BY <2>1, <2>2, <2>3 DEF Cleaned, Created
    <2>8. \A p \in 1 .. z : p \in 1 .. n /\ w[p] = s[p]
      BY <2>4, <2>7
    <2>9. ASSUME z > 0, c = w[z], collectors[c].alive PROVE c = i
      <3>1. z \in 1 .. n /\ c = s[z] /\ collectors[c].tid = t
        BY <2>4, <2>6, <2>8, <2>9
      <3>2. c <= i /\ i \in 1 .. new - 1 /\ collectors[i].tid = t /\ collectors[i].alive
        BY <1>1, <1>4, <2>9, <3>1
      <3>3. PICK q \in 1 .. n : s[q] = i
        BY <2>6, <3>2
      <3>4. q = z
        <4>1. ~(q < z)
          BY <1>1, <2>6, <3>1, <3>2, <3>3
        <4>2. ~(z < q)
          <5> SUFFICES ASSUME z < q PROVE FALSE
            OBVIOUS
          <5>1. q = n /\ ~collectors[s[n]].alive
            BY <2>4, <2>7
          <5> QED BY <3>2, <3>3, <5>1
        <4> QED BY <2>4, <4>1, <4>2
      <3> QED BY <3>1, <3>3, <3>4
    <2>10. ASSUME c = i, ~HasCalled(i) PROVE z > 0 /\ c = w[z] /\ collectors[c].alive
      <3>1. collectors[i].tid = t /\ collectors[i].alive
        BY <1>4, <2>10
      <3>2. PICK q \in 1 .. n : s[q] = i
        BY <2>6, <2>10, <3>1
      <3>3. Above(n, q, i)
        BY <2>6, <3>1, <3>2
      <3>4. q = z
        BY <2>4, <2>7, <2>10, <3>1, <3>2, <3>3 DEF Above
      <3> QED BY <2>4, <2>8, <2>10, <3>1, <3>2, <3>4
    <2> QED BY <2>3, <2>9, <2>10
  <1>8. ASSUME NEW c \in 1 .. new - 1 PROVE Named(c, collectors[c].m_parent)'
    <2>1. PICK m : m = collectors[c].m_parent
      OBVIOUS
    <2>2. Named(c, m) /\ m \in Nat
      BY <1>6, <2>1
    <2>3. PICK k : k = collectors'[c].m_parent
      OBVIOUS
    <2>4. CASE Len(w) > 0 /\ c = w[Len(w)] /\ collectors[c].alive
      <3>1. k = new /\ c = i
        BY <1>2, <1>7, <2>3, <2>4
      <3>2. Named(c, new)'
        BY <1>1, <1>2, <3>1 DEF Named
      <3> QED BY <2>3, <3>1, <3>2
    <2>5. CASE ~(Len(w) > 0 /\ c = w[Len(w)] /\ collectors[c].alive)
      <3>1. k = m /\ ~(c = i /\ ~HasCalled(i))
        BY <1>2, <1>7, <2>1, <2>3, <2>5
      <3>2. CASE m = 0 /\ ~HasCalled(c)
        <4>1. ~HasCalled(c)'
          BY <1>1, <3>1, <3>2
        <4>2. Named(c, 0)'
          BY <4>1 DEF Named
        <4> QED BY <2>3, <3>1, <3>2, <4>2
      <3>3. CASE ~(m = 0 /\ ~HasCalled(c))
        <4>1. m \in 1 .. new - 1 /\ collectors[m].caller = c
          BY <1>1, <2>2, <3>3 DEF Named
        <4>2. m \in 1 .. new /\ collectors'[m].caller = c
          BY <1>1, <1>3, <4>1
        <4>3. Named(c, m)'
          BY <1>2, <4>2 DEF Named
        <4> QED BY <2>3, <3>1, <4>3
      <3> QED BY <3>2, <3>3
    <2> QED BY <2>4, <2>5
  <1>9. Named(new, collectors[new].m_parent)'
    BY <1>1, <1>2 DEF Named
  <1>10. ASSUME NEW c \in 1 .. new PROVE Named(c, collectors[c].m_parent)'
    BY <1>1, <1>8, <1>9, <1>10
  <1> QED BY <1>2, <1>10 DEF ParentInv

-------------------------------------------------------------------------------
(* What collect, the destructor and the passing of time leave alone.          *)

\* The collectors keep who called whom, and who was named; some may have died.
Ages(alive) ==
  /\ DOMAIN collectors' = DOMAIN collectors /\ m_metrics_map' = m_metrics_map
  /\ \A c \in DOMAIN collectors :
       /\ collectors'[c].tid = collectors[c].tid /\ collectors'[c].caller = collectors[c].caller
       /\ collectors'[c].m_parent = collectors[c].m_parent /\ (collectors'[c].alive <=> c \in alive)
  /\ \A c \in alive : collectors[c].alive

LEMMA AgesCalled ==
  ASSUME NEW alive, Ages(alive)
  PROVE  /\ \A c : HasCalled(c)' <=> HasCalled(c)
         /\ \A n, p, c : Above(n, p, c)' <=> Above(n, p, c)
         /\ \A c, n : Named(c, n)' <=> Named(c, n)
  <1>1. \A c : HasCalled(c)' <=> HasCalled(c)
    BY DEF Ages, HasCalled
  <1>2. \A n, p, c : Above(n, p, c)' <=> Above(n, p, c)
    BY <1>1 DEF Above
  <1>3. \A c, n : Named(c, n)' <=> Named(c, n)
    BY <1>1 DEF Named, Ages
  <1> QED BY <1>1, <1>2, <1>3

LEMMA AgesStacks ==
  ASSUME NEW alive, Ages(alive), StackInv, ParentInv
  PROVE  StackInv' /\ ParentInv'
  <1>1. \A n, p, c : Above(n, p, c)' <=> Above(n, p, c)
    BY AgesCalled
  <1>2. \A c, n : Named(c, n)' <=> Named(c, n)
    BY AgesCalled
  <1>3. ParentInv'
    <2> SUFFICES ASSUME NEW c \in DOMAIN collectors PROVE Named(c, collectors[c].m_parent)'
      BY DEF ParentInv, Ages
    <2>1. PICK n : n = collectors[c].m_parent
      OBVIOUS
    <2>2. Named(c, n)' /\ collectors'[c].m_parent = n
      BY <1>2, <2>1 DEF ParentInv, Ages
    <2> QED BY <2>2
  <1>4. ASSUME NEW t \in Tid PROVE StackOf(t, m_metrics_map[t])'
    <2>1. PICK s : s = m_metrics_map[t]
      OBVIOUS
    <2>2. StackOf(t, s) /\ m_metrics_map'[t] = s
      BY <2>1 DEF StackInv, Ages
    <2>3. /\ \A p \in 1 .. Len(s) : s[p] \in DOMAIN collectors /\ collectors[s[p]].tid = t
          /\ \A p, q \in 1 .. Len(s) : p < q => s[p] < s[q]
          /\ \A c \in DOMAIN collectors : collectors[c].tid = t /\ collectors[c].alive => \E p \in 1 .. Len(s) : s[p] = c
          /\ \A p \in 1 .. Len(s) : collectors[s[p]].alive => Above(Len(s), p, s[p])
      BY <2>2 DEF StackOf
    <2>4. /\ DOMAIN collectors' = DOMAIN collectors
          /\ \A c \in DOMAIN collectors : collectors'[c].tid = collectors[c].tid /\ (collectors'[c].alive => collectors[c].alive)
      BY DEF Ages
    <2>5. \A p \in 1 .. Len(s) : collectors'[s[p]].alive => Above(Len(s), p, s[p])'
      BY <1>1, <2>3, <2>4
    <2>6. StackOf(t, s)'
      BY <2>3, <2>4, <2>5 DEF StackOf
    <2> QED BY <2>2, <2>6
  <1> QED BY <1>3, <1>4 DEF StackInv

\* As long as a caller lives as long as its callee.
LEMMA AgesCallers ==
  ASSUME NEW alive, Ages(alive), MetricTypes, CallerInv,
         \A d \in alive \cap DOMAIN collectors : collectors[d].caller # 0 => collectors[d].caller \in alive
  PROVE  CallerInv'
  <1>1. /\ DOMAIN collectors' = DOMAIN collectors
        /\ \A c \in DOMAIN collectors :
             /\ collectors'[c].tid = collectors[c].tid /\ collectors'[c].caller = collectors[c].caller
             /\ (collectors'[c].alive <=> c \in alive) /\ (c \in alive => collectors[c].alive)
    BY DEF Ages
  <1> SUFFICES ASSUME NEW d \in DOMAIN collectors
               PROVE  /\ collectors'[d].caller < d
                      /\ collectors'[d].caller # 0 =>
                           /\ collectors'[collectors'[d].caller].tid = collectors'[d].tid
                           /\ collectors'[d].alive => collectors'[collectors'[d].caller].alive
                      /\ \A c \in 1 .. d - 1 : collectors'[c].alive /\ collectors'[c].tid = collectors'[d].tid => c <= collectors'[d].caller
    BY <1>1 DEF CallerInv
  <1>2. DOMAIN collectors = 1 .. Len(collectors) /\ Len(collectors) \in Nat /\ collectors[d] \in Collector
    BY DEF MetricTypes
  <1>3. PICK k : k = collectors[d].caller
    OBVIOUS
  <1>4. /\ k \in Nat /\ k < d
        /\ k # 0 => collectors[k].tid = collectors[d].tid
        /\ \A c \in 1 .. d - 1 : collectors[c].alive /\ collectors[c].tid = collectors[d].tid => c <= k
    BY <1>2, <1>3 DEF CallerInv, Collector
  <1>5. k # 0 => k \in DOMAIN collectors
    BY <1>2, <1>4
  <1>6. \A c \in 1 .. d - 1 : c \in DOMAIN collectors
    BY <1>2
  <1>7. k # 0 => collectors'[k].tid = collectors'[d].tid /\ (collectors'[d].alive => collectors'[k].alive)
    BY <1>1, <1>3, <1>4, <1>5
  <1>8. \A c \in 1 .. d - 1 : collectors'[c].alive /\ collectors'[c].tid = collectors'[d].tid => c <= k
    BY <1>1, <1>4, <1>6
  <1> QED BY <1>1, <1>3, <1>4, <1>7, <1>8

-------------------------------------------------------------------------------
(* The other steps.                                                           *)

LEMMA CollectStep ==
  ASSUME MetricIInv, NEW i \in DOMAIN collectors, Calls!Collect(i)
  PROVE  MetricIInv'
  <1>1. MetricTypes /\ FiguresInv /\ InnerInv /\ CallerInv /\ StackInv /\ ParentInv
    BY DEF MetricIInv
  <1>2. PICK o : o = collectors[i]
    OBVIOUS
  <1>3. PICK u : u = reading - o.m_start_time
    OBVIOUS
  <1>4. PICK v : v = reading - o.m_cpu_time
    OBVIOUS
  <1>5. PICK x : x = reading - o.m_heap_usage
    OBVIOUS
  <1>6. o \in Collector /\ u \in Int /\ v \in Int /\ x \in Int /\ reading \in Int /\ Figures(o)
    <2>1. o \in Collector /\ reading \in Int /\ Figures(o)
      BY <1>1, <1>2 DEF MetricTypes, FiguresInv
    <2> QED BY <1>3, <1>4, <1>5, <2>1 DEF Collector
  <1> DEFINE p == [o EXCEPT !.m_duration = u, !.m_cpu_time = v, !.m_heap_usage = x, !.last = reading, !.collects = o.collects + 1]
  <1>7. collectors' = [collectors EXCEPT ![i] = p] /\ m_metrics_map' = m_metrics_map /\ reading' = reading
    BY <1>2, <1>3, <1>4, <1>5, <1>6 DEF Calls!Collect, Collector
  <1>8. /\ p \in Collector /\ p.tid = o.tid /\ p.caller = o.caller /\ p.m_parent = o.m_parent /\ p.alive = o.alive
        /\ p.m_start_time = o.m_start_time /\ p.began = o.began /\ p.last = reading /\ p.collects = o.collects + 1
        /\ p.m_duration = u /\ p.m_cpu_time = v /\ p.m_heap_usage = x
    <2>1. PICK n : n = o.collects + 1
      OBVIOUS
    <2>2. n \in Nat
      BY <1>6, <2>1 DEF Collector
    <2>3. p = [o EXCEPT !.m_duration = u, !.m_cpu_time = v, !.m_heap_usage = x, !.last = reading, !.collects = n]
      BY <2>1
    <2> HIDE DEF p
    <2>4. p \in Collector
      BY <1>6, <2>2, <2>3 DEF Collector
    <2>5. /\ p.tid = o.tid /\ p.caller = o.caller /\ p.m_parent = o.m_parent /\ p.alive = o.alive
          /\ p.m_start_time = o.m_start_time /\ p.began = o.began
      BY <1>6, <2>3 DEF Collector
    <2>6. p.last = reading /\ p.collects = n /\ p.m_duration = u /\ p.m_cpu_time = v /\ p.m_heap_usage = x
      BY <1>6, <2>3 DEF Collector
    <2> QED BY <2>1, <2>4, <2>5, <2>6
  <1>9. Figures(p)
    <2>1. o.collects \in Nat /\ o.began \in Int
      BY <1>6 DEF Collector
    <2> HIDE DEF p
    <2> QED BY <1>3, <1>4, <1>5, <1>6, <1>8, <2>1 DEF Figures
  <1> HIDE DEF p
  <1>10. MetricTypes'
    BY <1>1, <1>7, <1>8 DEF MetricTypes
  <1>11. DOMAIN collectors' = DOMAIN collectors /\ collectors'[i] = p
         /\ \A c \in DOMAIN collectors : c # i => collectors'[c] = collectors[c]
    BY <1>1, <1>7 DEF MetricTypes
  <1>12. FiguresInv'
    BY <1>1, <1>9, <1>11 DEF FiguresInv
  <1>13. \A c \in DOMAIN collectors :
           /\ collectors'[c].tid = collectors[c].tid /\ collectors'[c].caller = collectors[c].caller
           /\ collectors'[c].m_parent = collectors[c].m_parent /\ collectors'[c].alive = collectors[c].alive
    BY <1>2, <1>8, <1>11
  <1> DEFINE alive == {c \in DOMAIN collectors : collectors[c].alive}
  <1>14. Ages(alive)
    <2>1. \A c \in DOMAIN collectors : collectors[c].alive \in BOOLEAN
      <3>1. \A c \in DOMAIN collectors : collectors[c] \in Collector
        BY <1>1 DEF MetricTypes
      <3> QED BY <3>1 DEF Collector
    <2> QED BY <1>7, <1>11, <1>13, <2>1 DEF Ages
  <1>15. StackInv' /\ ParentInv'
    BY <1>1, <1>14, AgesStacks
  <1>16. CallerInv'
    <2>1. \A d \in DOMAIN collectors : collectors[d].caller # 0 => collectors[d].caller \in DOMAIN collectors
      <3> SUFFICES ASSUME NEW d \in DOMAIN collectors, collectors[d].caller # 0 PROVE collectors[d].caller \in DOMAIN collectors
        OBVIOUS
      <3>0. collectors[d] \in Collector
        BY <1>1 DEF MetricTypes
      <3>1. DOMAIN collectors = 1 .. Len(collectors) /\ Len(collectors) \in Nat /\ collectors[d].caller \in Nat
        BY <1>1, <3>0 DEF MetricTypes, Collector
      <3>2. collectors[d].caller < d
        BY <1>1 DEF CallerInv
      <3> QED BY <3>1, <3>2
    <2>2. \A d \in alive \cap DOMAIN collectors : collectors[d].caller # 0 => collectors[d].caller \in alive
      BY <1>1, <2>1 DEF CallerInv
    <2> HIDE DEF alive
    <2> QED BY <1>1, <1>14, <2>2, AgesCallers
  <1>17. InnerInv'
    BY <1>1, <1>11, <1>13 DEF InnerInv, Inner
  <1> QED BY <1>10, <1>12, <1>15, <1>16, <1>17 DEF MetricIInv

\* The innermost collector of a thread dies, and its caller is the innermost one.
LEMMA DestroyInner ==
  ASSUME MetricIInv, NEW t \in Tid, NEW i \in DOMAIN collectors, Inner(t, i), Calls!Destroy(i)
  PROVE  MetricIInv'
  <1>1. MetricTypes /\ FiguresInv /\ InnerInv /\ CallerInv /\ StackInv /\ ParentInv
    BY DEF MetricIInv
  <1>2. PICK o : o = collectors[i]
    OBVIOUS
  <1>3. o \in Collector /\ o.m_heap_res \in Int /\ reading \in Int /\ Figures(o)
    <2>1. o \in Collector /\ reading \in Int /\ Figures(o)
      BY <1>1, <1>2 DEF MetricTypes, FiguresInv
    <2> QED BY <2>1 DEF Collector
  <1>4. PICK x : x = reading - o.m_heap_res
    OBVIOUS
  <1> DEFINE p == [o EXCEPT !.alive = FALSE, !.m_heap_res = x]
  <1>5. collectors' = [collectors EXCEPT ![i] = p] /\ m_metrics_map' = m_metrics_map /\ reading' = reading
    BY <1>2, <1>3, <1>4 DEF Calls!Destroy, Collector
  <1>6. p \in Collector /\ p.tid = o.tid /\ p.caller = o.caller /\ p.m_parent = o.m_parent /\ ~p.alive
    <2>1. x \in Int
      BY <1>3, <1>4
    <2>2. p \in Collector
      BY <1>3, <2>1 DEF Collector
    <2> QED BY <1>3, <2>2 DEF Collector
  <1>7. Figures(p)
    BY <1>3 DEF Figures, Collector
  <1> HIDE DEF p
  <1>8. MetricTypes'
    BY <1>1, <1>5, <1>6 DEF MetricTypes
  <1>9. DOMAIN collectors' = DOMAIN collectors /\ collectors'[i] = p
        /\ \A c \in DOMAIN collectors : c # i => collectors'[c] = collectors[c]
    BY <1>1, <1>5 DEF MetricTypes
  <1>10. FiguresInv'
    BY <1>1, <1>7, <1>9 DEF FiguresInv
  <1>11. DOMAIN collectors = 1 .. Len(collectors) /\ Len(collectors) \in Nat /\ \A c \in DOMAIN collectors : collectors[c] \in Collector
    BY <1>1 DEF MetricTypes
  <1>12. \A c \in DOMAIN collectors : collectors[c].alive \in BOOLEAN /\ collectors[c].caller \in Nat /\ collectors[c].caller < c
    BY <1>1, <1>11 DEF Collector, CallerInv
  <1> DEFINE alive == {c \in DOMAIN collectors : collectors[c].alive /\ c # i}
  <1>13. Ages(alive)
    <2>1. \A c \in DOMAIN collectors :
            /\ collectors'[c].tid = collectors[c].tid /\ collectors'[c].caller = collectors[c].caller
            /\ collectors'[c].m_parent = collectors[c].m_parent
      BY <1>2, <1>6, <1>9
    <2>2. p.alive = FALSE
      BY <1>6 DEF Collector
    <2>3. \A c \in DOMAIN collectors : collectors'[c].alive <=> c \in alive
      BY <1>9, <1>12, <2>2
    <2> QED BY <1>5, <1>9, <2>1, <2>3 DEF Ages
  <1>14. StackInv' /\ ParentInv'
    BY <1>1, <1>13, AgesStacks
  <1>15. i # 0 /\ collectors[i].tid = t /\ collectors[i].alive /\ \A c \in DOMAIN collectors : collectors[c].tid = t /\ collectors[c].alive => c <= i
    BY <1>11 DEF Inner
  <1>16. CallerInv'
    <2>1. ASSUME NEW d \in alive, collectors[d].caller # 0 PROVE collectors[d].caller \in alive
      <3>1. PICK k : k = collectors[d].caller
        OBVIOUS
      <3>2. d \in DOMAIN collectors /\ collectors[d].alive /\ d # i /\ k \in Nat /\ k < d /\ k # 0
        BY <1>12, <2>1, <3>1
      <3>3. k \in DOMAIN collectors /\ collectors[k].tid = collectors[d].tid /\ collectors[k].alive
        BY <1>1, <1>11, <3>1, <3>2 DEF CallerInv
      <3>4. k # i
        BY <1>11, <1>15, <3>2, <3>3
      <3> QED BY <3>1, <3>3, <3>4
    <2> HIDE DEF alive
    <2> QED BY <1>1, <1>13, <2>1, AgesCallers
  <1>17. ASSUME NEW u \in Tid PROVE \E j \in Nat : Inner(u, j)'
    <2>0. DOMAIN collectors' = DOMAIN collectors
          /\ \A c \in DOMAIN collectors : collectors'[c].tid = collectors[c].tid /\ (collectors'[c].alive <=> collectors[c].alive /\ c # i)
      BY <1>13 DEF Ages
    <2>1. CASE u = t
      <3>1. PICK k : k = collectors[i].caller
        OBVIOUS
      <3>2. k \in Nat /\ k < i
        BY <1>12, <3>1
      <3>3. k # 0 => k \in DOMAIN collectors /\ collectors[k].tid = t /\ collectors[k].alive
        BY <1>1, <1>11, <1>15, <3>1, <3>2 DEF CallerInv
      <3>4. ASSUME NEW c \in DOMAIN collectors, collectors[c].tid = t, collectors[c].alive, c # i PROVE c <= k
        <4>1. c \in 1 .. i - 1
          BY <1>11, <1>15, <3>4
        <4> QED BY <1>1, <1>15, <3>1, <3>4, <4>1 DEF CallerInv
      <3>5. Inner(t, k)'
        BY <1>11, <2>0, <3>2, <3>3, <3>4 DEF Inner
      <3> QED BY <2>1, <3>2, <3>5
    <2>2. CASE u # t
      <3>1. PICK j \in Nat : Inner(u, j)
        BY <1>1 DEF InnerInv
      <3>2. Inner(u, j)'
        BY <1>15, <2>0, <2>2, <3>1 DEF Inner
      <3> QED BY <3>2
    <2> QED BY <2>1, <2>2
  <1>18. InnerInv'
    BY <1>17 DEF InnerInv
  <1> QED BY <1>8, <1>10, <1>14, <1>16, <1>18 DEF MetricIInv

LEMMA CreateStep ==
  ASSUME MetricIInv, NEW t \in Tid, Calls!Create(t)
  PROVE  MetricIInv'
  <1>1. MetricTypes /\ FiguresInv /\ InnerInv /\ CallerInv /\ StackInv /\ ParentInv
    BY DEF MetricIInv
  <1>2. MetricTypes'
    BY CreatedIs
  <1>3. PICK w, i, new : i \in Nat /\ new \in Nat /\ Created(t, w, i, new)
    BY CreatedIs
  <1>4. CallerInv' /\ InnerInv'
    BY <1>1, <1>3, CreateKeepsCallers
  <1>5. StackInv'
    BY <1>1, <1>3, CreateKeepsStacks
  <1>6. ParentInv'
    BY <1>1, <1>3, CreateKeepsNames
  <1>7. FiguresInv'
    <2>1. /\ DOMAIN collectors' = 1 .. new /\ Figures(collectors'[new])
          /\ \A c \in 1 .. new - 1 : Same(collectors[c], collectors'[c])
      BY <1>3 DEF Created
    <2>2. DOMAIN collectors = 1 .. new - 1
      BY <1>1, <1>3 DEF Created, MetricTypes
    <2>3. \A c \in 1 .. new - 1 : Figures(collectors'[c])
      BY <1>1, <2>1, <2>2 DEF FiguresInv, Figures, Same
    <2>4. \A c \in 1 .. new : c = new \/ c \in 1 .. new - 1
      BY <1>3
    <2> QED BY <2>1, <2>3, <2>4 DEF FiguresInv
  <1> QED BY <1>2, <1>4, <1>5, <1>6, <1>7 DEF MetricIInv

LEMMA MetricStep == MetricIInv /\ [Calls!Next]_(Calls!metricsVars) => MetricIInv'
  <1> SUFFICES ASSUME MetricIInv, [Calls!Next]_(Calls!metricsVars) PROVE MetricIInv'
    OBVIOUS
  <1>1. ASSUME UNCHANGED <<collectors, m_metrics_map>>, reading' \in Int PROVE MetricIInv'
    <2>1. MetricTypes'
      BY <1>1 DEF MetricIInv, MetricTypes
    <2>2. FiguresInv' /\ InnerInv' /\ CallerInv'
      BY <1>1 DEF MetricIInv, FiguresInv, InnerInv, Inner, CallerInv
    <2>3. StackInv' /\ ParentInv'
      BY <1>1 DEF MetricIInv, StackInv, StackOf, ParentInv, Named, Above, HasCalled
    <2> QED BY <2>1, <2>2, <2>3 DEF MetricIInv
  <1>2. CASE UNCHANGED Calls!metricsVars
    BY <1>1, <1>2 DEF Calls!metricsVars, MetricIInv, MetricTypes
  <1>3. CASE Calls!Work
    BY <1>1, <1>3 DEF Calls!Work, MetricIInv, MetricTypes
  <1>4. ASSUME NEW t \in Tid, Calls!Create(t) PROVE MetricIInv'
    BY <1>4, CreateStep
  <1>5. ASSUME NEW t \in Tid, Calls!Innermost(t) # Calls!NoName,
               Calls!Collect(Calls!Innermost(t)) \/ Calls!Destroy(Calls!Innermost(t))
        PROVE  MetricIInv'
    <2>1. PICK i \in Nat : Inner(t, i)
      BY DEF MetricIInv, InnerInv
    <2>2. Calls!Innermost(t) = i
      BY <2>1, InnermostIs DEF MetricIInv
    <2>3. i \in DOMAIN collectors
      BY <1>5, <2>1, <2>2 DEF Inner, Calls!NoName
    <2> QED BY <1>5, <2>1, <2>2, <2>3, CollectStep, DestroyInner
  <1> QED BY <1>2, <1>3, <1>4, <1>5 DEF Calls!Next

\* However the calls of any threads nest and follow one another, an event has
\* the duration up to its last collect, and the CPU time and the growth of the
\* heap of its own call when it was collected once; a name links a function with
\* one that called it or that it called, and every function that called is so
\* linked.
THEOREM EventsCorrect == Calls!Spec => []ReportsTheCall
  <1>1. MetricIInv => ReportsTheCall
    <2> SUFFICES ASSUME MetricIInv, NEW c \in DOMAIN collectors
                 PROVE  /\ collectors[c].collects > 0 => collectors[c].m_duration = collectors[c].last - collectors[c].began
                        /\ collectors[c].collects = 1 => /\ collectors[c].m_cpu_time = collectors[c].m_duration
                                                         /\ collectors[c].m_heap_usage = collectors[c].m_duration
                        /\ collectors[c].m_parent # 0 =>
                             \/ collectors[c].m_parent \in Calls!Callees(c)
                             \/ c \in Calls!Callees(collectors[c].m_parent)
                        /\ Calls!Callees(c) # {} => \E d \in Calls!Callees(c) :
                             collectors[c].m_parent = d \/ collectors[d].m_parent = c
      BY DEF ReportsTheCall, Calls!ReportsTheCall, Calls!NoName
    <2>1. MetricTypes /\ Figures(collectors[c]) /\ Named(c, collectors[c].m_parent) /\ collectors[c] \in Collector
      BY DEF MetricIInv, FiguresInv, ParentInv, MetricTypes
    <2>2. CASE collectors[c].m_parent = 0 /\ ~HasCalled(c)
      <3>1. Calls!Callees(c) = {}
        BY <2>2 DEF Calls!Callees, HasCalled
      <3> QED BY <2>1, <2>2, <3>1 DEF Figures
    <2>3. CASE collectors[c].m_parent \in DOMAIN collectors /\ collectors[collectors[c].m_parent].caller = c
      <3>1. collectors[c].m_parent \in Calls!Callees(c)
        BY <2>3 DEF Calls!Callees
      <3> QED BY <2>1, <3>1 DEF Figures
    <2> QED BY <2>1, <2>2, <2>3 DEF Named
  <1> QED BY <1>1, MetricInit, MetricStep, PTL DEF Calls!Spec

-------------------------------------------------------------------------------
(* The ByteBuffers of a program: values are got back as they were put, and    *)
(* each memory is deleted by one buffer.                                      *)

\* What is put is a sequence of bytes, and what is asked for is not nothing.
PutsBytes == Values \subseteq Seq(Byte) \ {<<>>} /\ Sizes \subseteq Nat \ {0}

Cell8 == Byte \cup {NullByte, Garbage}
Order == {"Big", "Little"}
ObjectType ==
  [data : Seq(Cell8), position : Nat, size : Nat, live : BOOLEAN, order : Order,
   memory : Nat \cup {-1}, owns : BOOLEAN]
Field == [at : Nat, value : Seq(Byte) \ {<<>>}, order : Order]

ByteTypes ==
  /\ bufs \in [Buffers -> ObjectType]
  /\ fields \in [Buffers -> SUBSET Field]
  /\ appended \in [Buffers -> BOOLEAN]
  /\ heap \subseteq Nat \ {0} /\ IsFiniteSet(heap)

\* An object over the caller's memory does not own it, every other one does.
OwnsRight(o) ==
  /\ ~o.live => ~o.owns /\ o.memory = 0
  /\ ~o.owns /\ o.live => o.memory = -1
  /\ o.owns => o.memory # -1

\* The memories of new[] and the objects that own them are one to one.
HeapInv ==
  /\ ~wronglyDeleted
  /\ \A b \in Buffers : OwnsRight(bufs[b]) /\ (bufs[b].owns => bufs[b].memory \in heap \cup {0})
  /\ \A h \in heap : \E b \in Buffers : bufs[b].owns /\ bufs[b].memory = h
  /\ \A b, c \in Buffers : b # c => bufs[b].memory # bufs[c].memory \/ bufs[b].memory \in {0, -1}

\* The object o holds the value of field f where it was put.
HoldsField(o, f) ==
  /\ f.at + Len(f.value) <= Len(o.data)
  /\ \A i \in 1..Len(f.value) : o.data[f.at + i] = Bytes!InMemory(f.value, f.order)[i]

Keeps(o, fs, end) ==
  \A f \in fs : HoldsField(o, f) /\ o.size > 0 /\ (end => f.at + Len(f.value) <= o.size)

KeepInv == \A b \in Buffers : Keeps(bufs[b], fields[b], appended[b])

BytesIInv == tame => ByteTypes /\ HeapInv /\ KeepInv

LEMMA BytesInit == Bytes!Init => BytesIInv
  <1> SUFFICES ASSUME Bytes!Init PROVE ByteTypes /\ HeapInv /\ KeepInv
    BY DEF BytesIInv
  <1> DEFINE d == [data |-> <<>>, position |-> 0, size |-> 0, live |-> FALSE, order |-> "Little", memory |-> 0, owns |-> FALSE]
  <1>1. Bytes!Dead = d
    BY DEF Bytes!Dead, Bytes!Object, Bytes!NoBuffer, Bytes!Null
  <1>2. d \in ObjectType /\ OwnsRight(d) /\ d.memory = 0 /\ ~d.owns
    BY DEF ObjectType, Order, OwnsRight
  <1> HIDE DEF d
  <1>3. \A b \in Buffers : bufs[b] = d /\ fields[b] = {} /\ appended[b] = TRUE
    BY <1>1 DEF Bytes!Init
  <1>4. ByteTypes
    BY <1>1, <1>2, FS_EmptySet DEF Bytes!Init, ByteTypes
  <1>5. HeapInv
    BY <1>2, <1>3 DEF Bytes!Init, HeapInv
  <1>6. KeepInv
    BY <1>3 DEF KeepInv, Keeps
  <1> QED BY <1>4, <1>5, <1>6

-------------------------------------------------------------------------------
(* The bytes of an object.                                                    *)

LEMMA SameBytes ==
  ASSUME NEW S, NEW s \in Seq(S), NEW t \in Seq(S), Len(s) = Len(t), \A i \in 1..Len(s) : s[i] = t[i]
  PROVE  s = t
  OBVIOUS

\* Either order keeps the length of a value, and twice the same is the value.
LEMMA InMemoryIs ==
  ASSUME NEW S, NEW s \in Seq(S), NEW order
  PROVE  /\ Bytes!InMemory(s, order) \in Seq(S) /\ Len(Bytes!InMemory(s, order)) = Len(s)
         /\ Bytes!InMemory(Bytes!InMemory(s, order), order) = s
  <1>1. CASE order = "Big"
    BY <1>1 DEF Bytes!InMemory
  <1>2. CASE order # "Big"
    <2> DEFINE r == Bytes!Reverse(s)
               q == Bytes!Reverse(r)
    <2>1. r \in Seq(S) /\ Len(r) = Len(s) /\ \A i \in 1..Len(s) : r[i] = s[(Len(s) - i) + 1]
      BY DEF Bytes!Reverse
    <2> HIDE DEF r
    <2>2. q \in Seq(S) /\ Len(q) = Len(r) /\ \A i \in 1..Len(r) : q[i] = r[(Len(r) - i) + 1]
      BY <2>1 DEF Bytes!Reverse
    <2> HIDE DEF q
    <2>3. ASSUME NEW i \in 1..Len(q) PROVE q[i] = s[i]
      <3>1. i \in 1..Len(s) /\ (Len(s) - i) + 1 \in 1..Len(s) /\ Len(s) - ((Len(s) - i) + 1) + 1 = i
        BY <2>1, <2>2, <2>3
      <3> QED BY <2>1, <2>2, <3>1
    <2>4. q = s
      BY <2>1, <2>2, <2>3, SameBytes
    <2>5. Bytes!InMemory(s, order) = r /\ Bytes!InMemory(r, order) = q
      BY <1>2 DEF Bytes!InMemory, r, q
    <2> QED BY <2>1, <2>4, <2>5
  <1> QED BY <1>1, <1>2

\* A value that an object holds is got back.
LEMMA GotBack ==
  ASSUME NEW b \in Buffers, bufs[b] \in ObjectType, NEW f \in Field, HoldsField(bufs[b], f), bufs[b].size > 0
  PROVE  Bytes!GetAt(b, f.at, Len(f.value), f.order) = f.value
  <1>1. PICK d : d = bufs[b].data
    OBVIOUS
  <1>2. PICK n : n = Len(f.value)
    OBVIOUS
  <1>3. PICK place : place = f.at
    OBVIOUS
  <1>4. PICK v : v = f.value
    OBVIOUS
  <1>5. d \in Seq(Cell8) /\ place \in Nat /\ v \in Seq(Cell8) /\ n \in Nat /\ n = Len(v) /\ Len(d) \in Nat
    <2>1. v \in Seq(Byte)
      BY <1>4 DEF Field
    <2> QED BY <1>1, <1>2, <1>3, <1>4, <2>1 DEF ObjectType, Field, Cell8
  <1> DEFINE m == Bytes!InMemory(v, f.order)
             s == SubSeq(d, place + 1, place + n)
  <1>6. m \in Seq(Cell8) /\ Len(m) = n /\ Bytes!InMemory(m, f.order) = v
    BY <1>5, InMemoryIs
  <1> HIDE DEF m
  <1>7. place + n <= Len(d) /\ \A i \in 1..n : d[place + i] = m[i]
    BY <1>1, <1>2, <1>3, <1>4 DEF HoldsField, m
  <1>8. s \in Seq(Cell8) /\ Len(s) = n /\ \A i \in 1..n : s[i] = d[place + i]
    <2>1. PICK x \in Nat : x = place + 1
      BY <1>5
    <2>2. PICK y \in Nat : y = place + n
      BY <1>5
    <2>3. \A i \in x..y : d[i] \in Cell8
      BY <1>5, <1>7, <2>1, <2>2
    <2>4. /\ SubSeq(d, x, y) \in Seq(Cell8) /\ Len(SubSeq(d, x, y)) = IF x <= y THEN y - x + 1 ELSE 0
          /\ \A i \in 1 .. y - x + 1 : SubSeq(d, x, y)[i] = d[x + i - 1]
      BY <2>1, <2>2, <2>3, SubSeqProperties
    <2>5. s = SubSeq(d, x, y) /\ y - x + 1 = n /\ (IF x <= y THEN y - x + 1 ELSE 0) = n
      BY <1>5, <2>1, <2>2
    <2>6. \A i \in 1..n : x + i - 1 = place + i
      BY <1>5, <2>1
    <2> QED BY <2>4, <2>5, <2>6
  <1> HIDE DEF s
  <1>9. s = m
    BY <1>6, <1>7, <1>8, SameBytes
  <1>10. Bytes!GetAt(b, place, n, f.order) = Bytes!InMemory(s, f.order)
    BY <1>1, <1>7 DEF Bytes!GetAt, Bytes!Fits, Bytes!Capacity, s, ObjectType
  <1> QED BY <1>2, <1>3, <1>4, <1>6, <1>9, <1>10

\* What is written over an object's bytes, within them.
LEMMA WrittenOver ==
  ASSUME NEW d \in Seq(Cell8), NEW place \in Nat, NEW s \in Seq(Byte), place + Len(s) <= Len(d)
  PROVE  /\ Bytes!Overlay(d, place, s) \in Seq(Cell8) /\ Len(Bytes!Overlay(d, place, s)) = Len(d)
         /\ \A i \in 1..Len(d) : Bytes!Overlay(d, place, s)[i] = IF i \in place + 1 .. place + Len(s) THEN s[i - place] ELSE d[i]
  <1>1. CASE s = <<>>
    BY <1>1 DEF Bytes!Overlay
  <1>2. CASE s # <<>>
    <2> DEFINE e(i) == IF i \in place + 1 .. place + Len(s) THEN s[i - place] ELSE IF i <= Len(d) THEN d[i] ELSE NullByte
               n == Bytes!Larger(Len(d), place + Len(s))
               t == [i \in 1..n |-> e(i)]
    <2>1. n = Len(d) /\ n \in Nat
      BY DEF Bytes!Larger
    <2>2. ASSUME NEW i \in 1..Len(d) PROVE e(i) \in Cell8 /\ e(i) = IF i \in place + 1 .. place + Len(s) THEN s[i - place] ELSE d[i]
      BY DEF Cell8
    <2> HIDE DEF n, e
    <2>3. t \in Seq(Cell8) /\ Len(t) = Len(d) /\ \A i \in 1..Len(d) : t[i] = e(i)
      BY <2>1, <2>2
    <2>4. Bytes!Overlay(d, place, s) = t
      BY <1>2 DEF Bytes!Overlay, n, e
    <2> QED BY <2>2, <2>3, <2>4
  <1> QED BY <1>1, <1>2

\* The fields that lie apart from what is written are held as before.
LEMMA ApartHolds ==
  ASSUME NEW o \in ObjectType, NEW p \in ObjectType, NEW place \in Nat, NEW s \in Seq(Byte), place + Len(s) <= Len(o.data),
         p.data = Bytes!Overlay(o.data, place, s), NEW f \in Field, HoldsField(o, f), Bytes!Apart(f, place, Len(s))
  PROVE  HoldsField(p, f)
  <1>1. PICK d : d = o.data
    OBVIOUS
  <1>2. PICK e : e = p.data
    OBVIOUS
  <1>3. PICK x : x = f.at
    OBVIOUS
  <1>4. PICK n : n = Len(f.value)
    OBVIOUS
  <1>5. d \in Seq(Cell8) /\ Len(d) \in Nat /\ x \in Nat /\ n \in Nat
    <2>1. f.value \in Seq(Byte)
      BY DEF Field
    <2> QED BY <1>1, <1>3, <1>4, <2>1 DEF ObjectType, Field
  <1>6. Len(e) = Len(d) /\ \A i \in 1..Len(d) : e[i] = IF i \in place + 1 .. place + Len(s) THEN s[i - place] ELSE d[i]
    BY <1>1, <1>2, <1>5, WrittenOver
  <1>7. x + n <= Len(d) /\ (x + n <= place \/ place + Len(s) <= x)
    BY <1>1, <1>3, <1>4 DEF HoldsField, Bytes!Apart
  <1>8. ASSUME NEW i \in 1..n PROVE e[x + i] = d[x + i]
    <2>1. x + i \in 1..Len(d) /\ x + i \notin place + 1 .. place + Len(s)
      BY <1>5, <1>7, <1>8
    <2> QED BY <1>6, <2>1
  <1> QED BY <1>1, <1>2, <1>3, <1>4, <1>6, <1>7, <1>8 DEF HoldsField

\* What was written is held.
LEMMA PutHolds ==
  ASSUME NEW o \in ObjectType, NEW p \in ObjectType, NEW f \in Field, f.at + Len(f.value) <= Len(o.data),
         p.data = Bytes!Overlay(o.data, f.at, Bytes!InMemory(f.value, f.order))
  PROVE  HoldsField(p, f)
  <1>1. PICK d : d = o.data
    OBVIOUS
  <1>2. PICK e : e = p.data
    OBVIOUS
  <1>3. PICK x : x = f.at
    OBVIOUS
  <1>4. PICK s : s = Bytes!InMemory(f.value, f.order)
    OBVIOUS
  <1>5. d \in Seq(Cell8) /\ Len(d) \in Nat /\ x \in Nat /\ s \in Seq(Byte) /\ Len(s) = Len(f.value) /\ Len(s) \in Nat
    <2>1. f.value \in Seq(Byte)
      BY DEF Field
    <2>2. s \in Seq(Byte) /\ Len(s) = Len(f.value)
      BY <1>4, <2>1, InMemoryIs
    <2> QED BY <1>1, <1>3, <2>2 DEF ObjectType, Field
  <1>6. Len(e) = Len(d) /\ \A i \in 1..Len(d) : e[i] = IF i \in x + 1 .. x + Len(s) THEN s[i - x] ELSE d[i]
    <2>1. e = Bytes!Overlay(d, x, s) /\ x + Len(s) <= Len(d)
      BY <1>1, <1>2, <1>3, <1>4, <1>5
    <2>2. /\ Len(Bytes!Overlay(d, x, s)) = Len(d)
          /\ \A i \in 1..Len(d) : Bytes!Overlay(d, x, s)[i] = IF i \in x + 1 .. x + Len(s) THEN s[i - x] ELSE d[i]
      BY <1>5, <2>1, WrittenOver
    <2> QED BY <2>1, <2>2
  <1>7. ASSUME NEW i \in 1..Len(s) PROVE e[x + i] = s[i]
    <2>1. x + i \in 1..Len(d) /\ x + i \in x + 1 .. x + Len(s) /\ (x + i) - x = i
      BY <1>1, <1>3, <1>5, <1>7
    <2> QED BY <1>6, <2>1
  <1> QED BY <1>1, <1>2, <1>3, <1>4, <1>5, <1>6, <1>7 DEF HoldsField
-------------------------------------------------------------------------------
(* One call.                                                                  *)

\* A call that leaves one object and its fields as they should be.
LEMMA BecomesRight ==
  ASSUME ByteTypes, KeepInv, NEW b \in Buffers, NEW o \in ObjectType, NEW fs \in SUBSET Field, NEW end \in BOOLEAN,
         Bytes!Becomes(b, o, fs, end), Keeps(o, fs, end)
  PROVE  /\ bufs' \in [Buffers -> ObjectType] /\ fields' \in [Buffers -> SUBSET Field] /\ appended' \in [Buffers -> BOOLEAN]
         /\ bufs' = [bufs EXCEPT ![b] = o] /\ KeepInv'
  <1>1. bufs' = [bufs EXCEPT ![b] = o] /\ fields' = [fields EXCEPT ![b] = fs] /\ appended' = [appended EXCEPT ![b] = end]
    BY DEF Bytes!Becomes
  <1>2. bufs' \in [Buffers -> ObjectType] /\ fields' \in [Buffers -> SUBSET Field] /\ appended' \in [Buffers -> BOOLEAN]
    BY <1>1 DEF ByteTypes
  <1>3. ASSUME NEW c \in Buffers PROVE Keeps(bufs'[c], fields'[c], appended'[c])
    <2>1. CASE c = b
      BY <1>1, <2>1 DEF ByteTypes
    <2>2. CASE c # b
      BY <1>1, <2>2 DEF ByteTypes, KeepInv
    <2> QED BY <2>1, <2>2
  <1>4. KeepInv'
    BY <1>3 DEF KeepInv
  <1> QED BY <1>1, <1>2, <1>4

\* The memory of the object stays: what it owns, and its being alive, too.
LEMMA MemoryKept ==
  ASSUME ByteTypes, HeapInv, NEW b \in Buffers, NEW o \in ObjectType, bufs' = [bufs EXCEPT ![b] = o],
         o.memory = bufs[b].memory, o.owns = bufs[b].owns, o.live = bufs[b].live, Bytes!Safe
  PROVE  HeapInv' /\ heap' \subseteq Nat \ {0} /\ IsFiniteSet(heap')
  <1>1. heap' = heap /\ wronglyDeleted' = wronglyDeleted
    BY DEF Bytes!Safe
  <1>2. \A c \in Buffers : /\ bufs'[c].memory = bufs[c].memory /\ bufs'[c].owns = bufs[c].owns /\ bufs'[c].live = bufs[c].live
    BY DEF ByteTypes
  <1>3. HeapInv'
    BY <1>1, <1>2 DEF HeapInv, OwnsRight
  <1> QED BY <1>1, <1>3 DEF ByteTypes

\* A call that changes nothing of the memories.
LEMMA SafeCall ==
  ASSUME ByteTypes, HeapInv, KeepInv, NEW b \in Buffers, NEW o \in ObjectType, NEW fs \in SUBSET Field, NEW end \in BOOLEAN,
         Bytes!Becomes(b, o, fs, end), Keeps(o, fs, end),
         o.memory = bufs[b].memory, o.owns = bufs[b].owns, o.live = bufs[b].live, Bytes!Safe
  PROVE  BytesIInv'
  <1>1. /\ bufs' \in [Buffers -> ObjectType] /\ fields' \in [Buffers -> SUBSET Field] /\ appended' \in [Buffers -> BOOLEAN]
        /\ bufs' = [bufs EXCEPT ![b] = o] /\ KeepInv'
    BY BecomesRight
  <1>2. HeapInv' /\ heap' \subseteq Nat \ {0} /\ IsFiniteSet(heap')
    BY <1>1, MemoryKept
  <1>3. ByteTypes'
    BY <1>1, <1>2 DEF ByteTypes
  <1> QED BY <1>1, <1>2, <1>3 DEF BytesIInv

\* A memory of new[] is one that there is not yet.
LEMMA FreshIs ==
  ASSUME heap \subseteq Nat \ {0}, IsFiniteSet(heap)
  PROVE  Bytes!Fresh(heap) \in Nat \ {0} /\ Bytes!Fresh(heap) \notin heap
  <1>1. PICK n : n = Cardinality(heap) + 1
    OBVIOUS
  <1>2. n \in Nat /\ n = Cardinality(heap) + 1 /\ Cardinality(heap) \in Nat
    BY <1>1, FS_CardinalityType
  <1>3. IsFiniteSet(1..n) /\ Cardinality(1..n) = n
    <2>1. 1 \in Int /\ n \in Int /\ ~(1 > n) /\ n - 1 + 1 = n
      BY <1>2
    <2> QED BY <2>1, FS_Interval
  <1>4. \E i \in 1..n : i \notin heap
    <2> SUFFICES ASSUME 1..n \subseteq heap PROVE FALSE
      OBVIOUS
    <2>1. Cardinality(1..n) <= Cardinality(heap)
      BY FS_Subset
    <2> QED BY <1>2, <1>3, <2>1
  <1>5. Bytes!Cardinality(heap) = Cardinality(heap)
    BY DEF Bytes!Cardinality, Cardinality
  <1>6. Bytes!Fresh(heap) = CHOOSE i \in 1..n : i \notin heap
    BY <1>1, <1>5 DEF Bytes!Fresh
  <1> QED BY <1>2, <1>4, <1>6

\* The memory of the object is another one, its old one deleted if it owned it.
LEMMA MemoryReplaced ==
  ASSUME ByteTypes, HeapInv, NEW b \in Buffers, NEW o \in ObjectType, bufs' = [bufs EXCEPT ![b] = o], OwnsRight(o),
         o.memory \in {0, -1} \/ (o.owns /\ o.memory \notin heap),
         wronglyDeleted' => (wronglyDeleted \/ (bufs[b].owns /\ bufs[b].memory \notin heap \cup {0})),
         heap' = (IF bufs[b].owns THEN heap \ {bufs[b].memory} ELSE heap) \cup ({o.memory} \ {0, -1})
  PROVE  HeapInv' /\ heap' \subseteq Nat \ {0} /\ IsFiniteSet(heap')
  <1> DEFINE old == bufs[b]
             kept == IF old.owns THEN heap \ {old.memory} ELSE heap
             new == {o.memory} \ {0, -1}
  <1>1. old \in ObjectType /\ OwnsRight(old) /\ (old.owns => old.memory \in heap \cup {0}) /\ ~wronglyDeleted
    BY DEF ByteTypes, HeapInv
  <1>2. ~wronglyDeleted'
    BY <1>1 DEF HeapInv
  <1>3. kept \subseteq Nat \ {0} /\ IsFiniteSet(kept) /\ new \subseteq Nat \ {0} /\ IsFiniteSet(new)
    <2>1. IsFiniteSet(kept)
      <3>1. kept \subseteq heap
        OBVIOUS
      <3> HIDE DEF kept
      <3> QED BY <3>1, FS_Subset DEF ByteTypes
    <2>2. IsFiniteSet(new)
      <3>1. IsFiniteSet({o.memory}) /\ new \subseteq {o.memory}
        BY FS_Singleton
      <3> HIDE DEF new
      <3> QED BY <3>1, FS_Subset
    <2> QED BY <2>1, <2>2 DEF ByteTypes, ObjectType
  <1>4. heap' = kept \cup new
    OBVIOUS
  <1>5. heap' \subseteq Nat \ {0} /\ IsFiniteSet(heap')
    <2> HIDE DEF kept, new
    <2>1. IsFiniteSet(kept \cup new)
      BY <1>3, FS_Union
    <2> QED BY <1>3, <1>4, <2>1
  <1>6. bufs'[b] = o /\ \A c \in Buffers : c # b => bufs'[c] = bufs[c]
    BY DEF ByteTypes
  <1>7. ASSUME NEW c \in Buffers PROVE OwnsRight(bufs'[c]) /\ (bufs'[c].owns => bufs'[c].memory \in heap' \cup {0})
    <2>1. CASE c = b
      BY <1>4, <1>6, <2>1 DEF OwnsRight
    <2>2. CASE c # b
      <3>1. OwnsRight(bufs[c]) /\ (bufs[c].owns => bufs[c].memory \in heap \cup {0})
        BY DEF HeapInv
      <3>2. bufs[b].memory # bufs[c].memory \/ bufs[b].memory \in {0, -1}
        BY <2>2 DEF HeapInv
      <3>3. bufs[c].owns => bufs[c].memory \in kept \cup {0}
        BY <1>1, <3>1, <3>2 DEF OwnsRight, ByteTypes
      <3> QED BY <1>4, <1>6, <2>2, <3>1, <3>3
    <2> QED BY <2>1, <2>2
  <1>8. ASSUME NEW h \in heap' PROVE \E c \in Buffers : bufs'[c].owns /\ bufs'[c].memory = h
    <2>1. CASE h \in new
      <3>1. h = o.memory /\ o.owns
        BY <2>1
      <3> QED BY <1>6, <3>1
    <2>2. CASE h \in kept
      <3>1. PICK c \in Buffers : bufs[c].owns /\ bufs[c].memory = h
        BY <2>2 DEF HeapInv
      <3>2. c # b
        BY <2>2, <3>1
      <3> QED BY <1>6, <3>1, <3>2
    <2> QED BY <1>4, <2>1, <2>2
  <1>9. ASSUME NEW c \in Buffers, NEW d \in Buffers, c # d
        PROVE  bufs'[c].memory # bufs'[d].memory \/ bufs'[c].memory \in {0, -1}
    <2>1. \A e \in Buffers : bufs[e].memory \in heap \cup {0, -1}
      <3> SUFFICES ASSUME NEW e \in Buffers PROVE bufs[e].memory \in heap \cup {0, -1}
        OBVIOUS
      <3>1. OwnsRight(bufs[e]) /\ (bufs[e].owns => bufs[e].memory \in heap \cup {0}) /\ bufs[e].live \in BOOLEAN /\ bufs[e].owns \in BOOLEAN
        BY DEF HeapInv, ByteTypes, ObjectType
      <3> QED BY <3>1 DEF OwnsRight
    <2>2. CASE c # b /\ d # b
      BY <1>6, <1>9, <2>2 DEF HeapInv
    <2>3. CASE c = b
      BY <1>6, <1>9, <2>1, <2>3
    <2>4. CASE d = b
      BY <1>6, <1>9, <2>1, <2>4
    <2> QED BY <2>2, <2>3, <2>4
  <1>10. HeapInv'
    BY <1>2, <1>7, <1>8, <1>9 DEF HeapInv
  <1> QED BY <1>5, <1>10

\* A call that gives the object another memory, or none.
LEMMA ReplacingCall ==
  ASSUME ByteTypes, HeapInv, KeepInv, NEW b \in Buffers, NEW o \in ObjectType, NEW fs \in SUBSET Field, NEW end \in BOOLEAN,
         Bytes!Becomes(b, o, fs, end), Keeps(o, fs, end), OwnsRight(o),
         o.memory \in {0, -1} \/ (o.owns /\ o.memory \notin heap),
         wronglyDeleted' => (wronglyDeleted \/ (bufs[b].owns /\ bufs[b].memory \notin heap \cup {0})),
         heap' = (IF bufs[b].owns THEN heap \ {bufs[b].memory} ELSE heap) \cup ({o.memory} \ {0, -1})
  PROVE  BytesIInv'
  <1>1. /\ bufs' \in [Buffers -> ObjectType] /\ fields' \in [Buffers -> SUBSET Field] /\ appended' \in [Buffers -> BOOLEAN]
        /\ bufs' = [bufs EXCEPT ![b] = o] /\ KeepInv'
    BY BecomesRight
  <1>2. HeapInv' /\ heap' \subseteq Nat \ {0} /\ IsFiniteSet(heap')
    BY <1>1, MemoryReplaced
  <1>3. ByteTypes'
    BY <1>1, <1>2 DEF ByteTypes
  <1> QED BY <1>1, <1>2, <1>3 DEF BytesIInv

\* An object with the bytes and the size of another keeps what that one keeps.
LEMMA KeepsLike ==
  ASSUME NEW o, NEW p, NEW fs, NEW end, Keeps(o, fs, end), p.data = o.data, p.size = o.size
  PROVE  Keeps(p, fs, end)
  BY DEF Keeps, HoldsField
-------------------------------------------------------------------------------
(* The calls that leave the memory where it is.                               *)

LEMMA Moves ==
  ASSUME PutsBytes, ByteTypes, HeapInv, KeepInv, NEW b \in Buffers,
         (\E p \in Nat : Bytes!SetPosition(b, p)) \/ (\E order \in Order : Bytes!SetByteOrder(b, order))
         \/ (\E v \in Values : Bytes!Get(b, Len(v)))
  PROVE  BytesIInv'
  <1>1. bufs[b] \in ObjectType /\ fields[b] \in SUBSET Field /\ appended[b] \in BOOLEAN /\ Keeps(bufs[b], fields[b], appended[b])
    BY DEF ByteTypes, KeepInv
  <1>2. ASSUME NEW o \in ObjectType, o.data = bufs[b].data, o.size = bufs[b].size, o.memory = bufs[b].memory,
               o.owns = bufs[b].owns, o.live = bufs[b].live, Bytes!Becomes(b, o, fields[b], appended[b]), Bytes!Safe
        PROVE  BytesIInv'
    <2>1. Keeps(o, fields[b], appended[b])
      BY <1>1, <1>2, KeepsLike
    <2> QED BY <1>1, <1>2, <2>1, SafeCall
  <1>3. ASSUME NEW p \in Nat, Bytes!Becomes(b, Bytes!PositionedAt(bufs[b], p), fields[b], appended[b]), Bytes!Safe PROVE BytesIInv'
    <2> DEFINE o == Bytes!PositionedAt(bufs[b], p)
    <2>1. /\ o \in ObjectType /\ o.data = bufs[b].data /\ o.size = bufs[b].size /\ o.memory = bufs[b].memory
          /\ o.owns = bufs[b].owns /\ o.live = bufs[b].live
      BY <1>1 DEF Bytes!PositionedAt, ObjectType
    <2> HIDE DEF o
    <2>2. Bytes!Becomes(b, o, fields[b], appended[b])
      BY <1>3 DEF o
    <2> QED BY <1>2, <1>3, <2>1, <2>2
  <1>4. CASE \E p \in Nat : Bytes!SetPosition(b, p)
    BY <1>3, <1>4 DEF Bytes!SetPosition
  <1>5. ASSUME NEW order \in Order, Bytes!SetByteOrder(b, order) PROVE BytesIInv'
    <2> DEFINE o == [bufs[b] EXCEPT !.order = order]
    <2>1. /\ o \in ObjectType /\ o.data = bufs[b].data /\ o.size = bufs[b].size /\ o.memory = bufs[b].memory
          /\ o.owns = bufs[b].owns /\ o.live = bufs[b].live
      BY <1>1 DEF ObjectType
    <2> HIDE DEF o
    <2>2. Bytes!Becomes(b, o, fields[b], appended[b]) /\ Bytes!Safe
      BY <1>5 DEF o, Bytes!SetByteOrder
    <2> QED BY <1>2, <2>1, <2>2
  <1>6. ASSUME NEW v \in Values, Bytes!Get(b, Len(v)) PROVE BytesIInv'
    <2>1. PICK p : p = bufs[b].position + Len(v)
      OBVIOUS
    <2>2. p \in Nat
      <3>1. v \in Seq(Byte)
        BY DEF PutsBytes
      <3>2. Len(v) \in Nat /\ bufs[b].position \in Nat
        BY <1>1, <3>1 DEF ObjectType
      <3> QED BY <2>1, <3>2
    <2> QED BY <1>3, <1>6, <2>1, <2>2 DEF Bytes!Get
  <1> QED BY <1>4, <1>5, <1>6

\* A put keeps the fields apart from it and the new one.
LEMMA PutKeeps ==
  ASSUME NEW o \in ObjectType, NEW p \in ObjectType, NEW f \in Field, f.at + Len(f.value) <= Len(o.data),
         p.data = Bytes!Overlay(o.data, f.at, Bytes!InMemory(f.value, f.order)), p.size > 0,
         NEW fs \in SUBSET Field, NEW end, Keeps(o, fs, end), NEW then,
         then => end /\ o.size <= p.size /\ f.at + Len(f.value) <= p.size
  PROVE  Keeps(p, {g \in fs : Bytes!Apart(g, f.at, Len(f.value))} \cup {f}, then)
  <1>1. HoldsField(p, f)
    BY PutHolds
  <1>2. ASSUME NEW g \in fs, Bytes!Apart(g, f.at, Len(f.value))
        PROVE  HoldsField(p, g) /\ (then => g.at + Len(g.value) <= p.size)
    <2>1. g \in Field /\ HoldsField(o, g) /\ (end => g.at + Len(g.value) <= o.size)
      BY DEF Keeps
    <2>2. f.value \in Seq(Byte) /\ g.value \in Seq(Byte) /\ f.at \in Nat /\ g.at \in Nat
      BY <2>1 DEF Field
    <2>3. PICK s : s = Bytes!InMemory(f.value, f.order)
      OBVIOUS
    <2>4. s \in Seq(Byte) /\ Len(s) = Len(f.value)
      BY <2>2, <2>3, InMemoryIs
    <2>5. Bytes!Apart(g, f.at, Len(s)) /\ f.at + Len(s) <= Len(o.data) /\ p.data = Bytes!Overlay(o.data, f.at, s)
      BY <1>2, <2>3, <2>4
    <2>6. HoldsField(p, g)
      BY <2>1, <2>2, <2>4, <2>5, ApartHolds
    <2>7. o.size \in Nat /\ p.size \in Nat /\ g.at + Len(g.value) \in Nat
      BY <2>2 DEF ObjectType
    <2> QED BY <2>1, <2>6, <2>7
  <1> QED BY <1>1, <1>2 DEF Keeps

\* put and putBuffer, once it fits.
LEMMA Puts ==
  ASSUME ByteTypes, HeapInv, KeepInv, NEW b \in Buffers, NEW f \in Field, f.at + Len(f.value) <= Len(bufs[b].data),
         NEW size \in Nat \ {0}, NEW end \in BOOLEAN,
         end => appended[b] /\ bufs[b].size <= size /\ f.at + Len(f.value) <= size,
         Bytes!Becomes(b, [Bytes!WithPut(bufs[b], f.at, Bytes!InMemory(f.value, f.order)) EXCEPT !.size = size],
                       {g \in fields[b] : Bytes!Apart(g, f.at, Len(f.value))} \cup {f}, end),
         Bytes!Safe
  PROVE  BytesIInv'
  <1>1. bufs[b] \in ObjectType /\ fields[b] \in SUBSET Field /\ appended[b] \in BOOLEAN /\ Keeps(bufs[b], fields[b], appended[b])
    BY DEF ByteTypes, KeepInv
  <1> DEFINE s == Bytes!InMemory(f.value, f.order)
             d == Bytes!Overlay(bufs[b].data, f.at, s)
             o == [Bytes!WithPut(bufs[b], f.at, s) EXCEPT !.size = size]
             fs == {g \in fields[b] : Bytes!Apart(g, f.at, Len(f.value))} \cup {f}
  <1>2. s \in Seq(Byte) /\ Len(s) = Len(f.value) /\ f.at \in Nat /\ Len(s) \in Nat
    <2>1. f.value \in Seq(Byte) /\ f.at \in Nat
      BY DEF Field
    <2> QED BY <2>1, InMemoryIs
  <1>3. d \in Seq(Cell8)
    <2>1. bufs[b].data \in Seq(Cell8)
      BY <1>1 DEF ObjectType
    <2> HIDE DEF s
    <2> QED BY <1>2, <2>1, WrittenOver
  <1>4. /\ o \in ObjectType /\ o.data = d /\ o.size = size /\ o.memory = bufs[b].memory
        /\ o.owns = bufs[b].owns /\ o.live = bufs[b].live
    <2> HIDE DEF s
    <2>1. PICK place : place = f.at + Len(s)
      OBVIOUS
    <2>2. place \in Nat
      BY <1>2, <2>1
    <2>3. o = [bufs[b] EXCEPT !.data = d, !.position = place, !.size = size]
      BY <1>1, <2>1 DEF Bytes!WithPut, ObjectType
    <2> HIDE DEF d, o
    <2> QED BY <1>1, <1>3, <2>2, <2>3 DEF ObjectType
  <1>5. Bytes!Becomes(b, o, fs, end)
    OBVIOUS
  <1>6. fs \in SUBSET Field
    BY <1>1
  <1> HIDE DEF s, o
  <1>7. o.data = Bytes!Overlay(bufs[b].data, f.at, Bytes!InMemory(f.value, f.order)) /\ o.size > 0
    BY <1>4 DEF s
  <1>8. Keeps(o, fs, end)
    BY <1>1, <1>4, <1>7, PutKeeps
  <1> HIDE DEF fs
  <1> QED BY <1>4, <1>5, <1>6, <1>8, SafeCall

LEMMA PutStep ==
  ASSUME PutsBytes, ByteTypes, HeapInv, KeepInv, NEW b \in Buffers, NEW v \in Values, Bytes!Put(b, v)
  PROVE  BytesIInv'
  <1>1. bufs[b] \in ObjectType /\ appended[b] \in BOOLEAN /\ v \in Seq(Byte) \ {<<>>}
    BY DEF ByteTypes, PutsBytes
  <1> DEFINE f == [at |-> bufs[b].position, value |-> v, order |-> bufs[b].order]
             size == Bytes!SizeAfter(bufs[b], Len(v))
             end == appended[b] /\ bufs[b].position = bufs[b].size
  <1>2. f \in Field /\ f.at = bufs[b].position /\ f.value = v /\ f.order = bufs[b].order
    BY <1>1 DEF Field, ObjectType
  <1>3. Len(v) \in Nat \ {0} /\ bufs[b].position \in Nat /\ bufs[b].size \in Nat
    BY <1>1, EmptySeq DEF ObjectType
  <1>4. size \in Nat \ {0}
    BY <1>3 DEF Bytes!SizeAfter
  <1>5. end => appended[b] /\ bufs[b].size <= size /\ f.at + Len(v) <= size
    <2> SUFFICES ASSUME end PROVE appended[b] /\ bufs[b].size <= size /\ f.at + Len(v) <= size
      OBVIOUS
    <2>1. PICK x : x = bufs[b].position
      OBVIOUS
    <2>2. PICK n : n = Len(v)
      OBVIOUS
    <2>3. n \in Nat \ {0} /\ x \in Nat /\ x = bufs[b].size /\ x = f.at
      BY <1>2, <1>3, <2>1, <2>2
    <2>4. size = IF n = 1 THEN x + 1 ELSE x + n
      BY <2>1, <2>2, <2>3 DEF Bytes!SizeAfter
    <2>5. size = x + n
      BY <2>3, <2>4
    <2> HIDE DEF f, size
    <2>6. bufs[b].size <= size /\ f.at + Len(v) <= size
      BY <2>2, <2>3, <2>5
    <2> QED BY <2>6
  <1>6. end \in BOOLEAN
    BY <1>1
  <1>7. /\ f.at + Len(v) <= Len(bufs[b].data) /\ Bytes!Safe
        /\ Bytes!Becomes(b, [Bytes!WithPut(bufs[b], bufs[b].position, Bytes!InMemory(v, bufs[b].order)) EXCEPT !.size = size],
                         {g \in fields[b] : Bytes!Apart(g, bufs[b].position, Len(v))} \cup {f}, end)
    BY <1>2 DEF Bytes!Put, Bytes!Fits, Bytes!Capacity, Bytes!WithField
  <1> HIDE DEF f, size, end
  <1> QED BY <1>2, <1>4, <1>5, <1>6, <1>7, Puts

LEMMA PutBufferStep ==
  ASSUME PutsBytes, ByteTypes, HeapInv, KeepInv, NEW b \in Buffers, NEW start \in Nat, NEW v \in Values, Bytes!PutBuffer(b, start, v)
  PROVE  BytesIInv'
  <1>1. bufs[b] \in ObjectType /\ appended[b] \in BOOLEAN /\ v \in Seq(Byte) \ {<<>>}
    BY DEF ByteTypes, PutsBytes
  <1>2. CASE ~Bytes!Fits(bufs[b], start, Len(v))
    <2>1. Bytes!SetPosition(b, start)
      BY <1>2 DEF Bytes!PutBuffer, Bytes!SetPosition
    <2> QED BY <2>1, Moves
  <1>3. CASE Bytes!Fits(bufs[b], start, Len(v))
    <2> DEFINE f == [at |-> start, value |-> v, order |-> "Big"]
               size == Bytes!Larger(bufs[b].size, start + Len(v))
               end == appended[b] /\ start = bufs[b].size
    <2>1. f \in Field /\ f.at = start /\ f.value = v /\ f.order = "Big"
      BY <1>1 DEF Field, Order
    <2>2. Len(v) \in Nat \ {0} /\ bufs[b].size \in Nat
      BY <1>1, EmptySeq DEF ObjectType
    <2>3. size \in Nat \ {0} /\ bufs[b].size <= size /\ start + Len(v) <= size
      BY <2>2 DEF Bytes!Larger
    <2>4. end \in BOOLEAN
      BY <1>1
    <2>5. Bytes!InMemory(v, "Big") = v
      BY DEF Bytes!InMemory
    <2> HIDE DEF size
    <2>6. Bytes!WithPut(bufs[b], start, v) = [Bytes!WithPut(bufs[b], start, v) EXCEPT !.size = size]
      BY <1>1 DEF Bytes!WithPut, ObjectType, size
    <2>7. /\ f.at + Len(v) <= Len(bufs[b].data) /\ Bytes!Safe
          /\ Bytes!Becomes(b, [Bytes!WithPut(bufs[b], start, Bytes!InMemory(v, "Big")) EXCEPT !.size = size],
                           {g \in fields[b] : Bytes!Apart(g, start, Len(v))} \cup {f}, end)
      BY <1>3, <2>1, <2>5, <2>6 DEF Bytes!PutBuffer, Bytes!Fits, Bytes!Capacity, Bytes!WithField
    <2> HIDE DEF f, end
    <2>8. end => appended[b] /\ bufs[b].size <= size /\ f.at + Len(v) <= size
      BY <2>1, <2>3 DEF end
    <2> QED BY <2>1, <2>3, <2>4, <2>7, <2>8, Puts
  <1> QED BY <1>2, <1>3

LEMMA ClearStep ==
  ASSUME ByteTypes, HeapInv, KeepInv, NEW b \in Buffers, Bytes!Clear(b)
  PROVE  BytesIInv'
  <1>1. bufs[b] \in ObjectType
    BY DEF ByteTypes
  <1> DEFINE z == Bytes!Fill(NullByte, Len(bufs[b].data))
             o == Bytes!Cleared(bufs[b])
  <1>2. z \in Seq(Cell8)
    <2>1. Len(bufs[b].data) \in Nat
      BY <1>1 DEF ObjectType
    <2> QED BY <2>1 DEF Bytes!Fill, Cell8
  <1>3. o \in ObjectType /\ o.memory = bufs[b].memory /\ o.owns = bufs[b].owns /\ o.live = bufs[b].live
    <2>1. o = [bufs[b] EXCEPT !.data = z, !.position = 0, !.size = 0]
      BY <1>1 DEF Bytes!Cleared, ObjectType
    <2> HIDE DEF z, o
    <2> QED BY <1>1, <1>2, <2>1 DEF ObjectType
  <1>4. Bytes!Becomes(b, o, {}, TRUE) /\ Bytes!Safe
    BY DEF Bytes!Clear
  <1>5. Keeps(o, {}, TRUE)
    BY DEF Keeps
  <1> HIDE DEF o
  <1> QED BY <1>3, <1>4, <1>5, SafeCall
-------------------------------------------------------------------------------
(* The calls that give an object another memory.                              *)

\* The memory is deleted, and there is no other one of new[].
LEMMA DeletingCall ==
  ASSUME ByteTypes, HeapInv, KeepInv, NEW b \in Buffers, NEW o \in ObjectType, NEW end \in BOOLEAN,
         Bytes!Becomes(b, o, {}, end), OwnsRight(o), o.memory \in {0, -1}, Bytes!Delete(bufs[b])
  PROVE  BytesIInv'
  <1>1. Keeps(o, {}, end) /\ {} \in SUBSET Field
    BY DEF Keeps
  <1>2. wronglyDeleted' => (wronglyDeleted \/ (bufs[b].owns /\ bufs[b].memory \notin heap \cup {0}))
    BY DEF Bytes!Delete, Bytes!Null
  <1>3. heap' = (IF bufs[b].owns THEN heap \ {bufs[b].memory} ELSE heap) \cup ({o.memory} \ {0, -1})
    BY DEF Bytes!Delete
  <1> QED BY <1>1, <1>2, <1>3, ReplacingCall

LEMMA DestroyStep ==
  ASSUME ByteTypes, HeapInv, KeepInv, NEW b \in Buffers, Bytes!Destroy(b)
  PROVE  BytesIInv'
  <1> DEFINE d == Bytes!Dead
  <1>1. d = [data |-> <<>>, position |-> 0, size |-> 0, live |-> FALSE, order |-> "Little", memory |-> 0, owns |-> FALSE]
    BY DEF Bytes!Dead, Bytes!Object, Bytes!NoBuffer, Bytes!Null
  <1>2. d \in ObjectType /\ OwnsRight(d) /\ d.memory \in {0, -1}
    BY <1>1 DEF ObjectType, Order, OwnsRight
  <1>3. Bytes!Becomes(b, d, {}, TRUE) /\ Bytes!Delete(bufs[b])
    BY DEF Bytes!Destroy
  <1> HIDE DEF d
  <1> QED BY <1>2, <1>3, DeletingCall

LEMMA SetBufferStep ==
  ASSUME ByteTypes, HeapInv, KeepInv, NEW b \in Buffers, NEW n \in Nat, NEW keepSize \in BOOLEAN, Bytes!SetBuffer(b, n, keepSize)
  PROVE  BytesIInv'
  <1>1. bufs[b] \in ObjectType
    BY DEF ByteTypes
  <1> DEFINE z == Bytes!Fill(NullByte, n)
             o == Bytes!Object(Bytes!OverMemory(bufs[b], z, keepSize), bufs[b].order, Bytes!Foreign, FALSE)
  <1>2. z \in Seq(Cell8) /\ Len(z) \in Nat
    BY DEF Bytes!Fill, Cell8
  <1>3. PICK p \in Nat, s \in Nat : o = [data |-> z, position |-> p, size |-> s, live |-> TRUE,
                                         order |-> bufs[b].order, memory |-> -1, owns |-> FALSE]
    <2> HIDE DEF z
    <2>1. PICK p : p = IF keepSize THEN bufs[b].position ELSE Len(z)
      OBVIOUS
    <2>2. PICK s : s = IF keepSize THEN bufs[b].size ELSE Len(z)
      OBVIOUS
    <2>3. p \in Nat /\ s \in Nat
      BY <1>1, <1>2, <2>1, <2>2 DEF ObjectType
    <2>4. o = [data |-> z, position |-> p, size |-> s, live |-> TRUE, order |-> bufs[b].order, memory |-> -1, owns |-> FALSE]
      BY <2>1, <2>2 DEF Bytes!Object, Bytes!OverMemory, Bytes!Foreign
    <2> QED BY <2>3, <2>4
  <1>4. Bytes!Becomes(b, o, {}, FALSE) /\ Bytes!Delete(bufs[b])
    BY DEF Bytes!SetBuffer
  <1>5. bufs[b].order \in Order
    BY <1>1 DEF ObjectType
  <1> HIDE DEF z, o
  <1>6. o \in ObjectType /\ OwnsRight(o) /\ o.memory \in {0, -1}
    BY <1>2, <1>3, <1>5 DEF ObjectType, OwnsRight
  <1> QED BY <1>4, <1>6, DeletingCall

\* A call after a delete[] and a new[].
LEMMA RenewingCall ==
  ASSUME ByteTypes, HeapInv, KeepInv, NEW b \in Buffers, NEW o \in ObjectType, NEW fs \in SUBSET Field, NEW end \in BOOLEAN,
         Bytes!Becomes(b, o, fs, end), Keeps(o, fs, end), o.owns, o.live,
         o.memory = Bytes!Fresh(heap), Bytes!Replace(bufs[b], o.memory)
  PROVE  BytesIInv'
  <1>1. o.memory \in Nat \ {0} /\ o.memory \notin heap
    BY FreshIs DEF ByteTypes
  <1>2. OwnsRight(o)
    BY <1>1 DEF OwnsRight
  <1>3. wronglyDeleted' => (wronglyDeleted \/ (bufs[b].owns /\ bufs[b].memory \notin heap \cup {0}))
    BY DEF Bytes!Replace, Bytes!Null
  <1>4. {o.memory} \ {0, -1} = {o.memory}
    BY <1>1
  <1>5. heap' = (IF bufs[b].owns THEN heap \ {bufs[b].memory} ELSE heap) \cup ({o.memory} \ {0, -1})
    BY <1>4 DEF Bytes!Replace
  <1> QED BY <1>1, <1>2, <1>3, <1>5, ReplacingCall

LEMMA ConstructStep ==
  ASSUME ByteTypes, HeapInv, KeepInv, NEW b \in Buffers, NEW v \in Seq(Byte), NEW n \in Nat, Bytes!Construct(b, v, n)
  PROVE  BytesIInv'
  <1> DEFINE d == v \o Bytes!Fill(NullByte, n)
             m == IF d = <<>> THEN 0 ELSE Bytes!Fresh(heap)
             o == [data |-> d, position |-> 0, size |-> Len(v), live |-> TRUE, order |-> "Little", memory |-> m, owns |-> TRUE]
             fs == {[at |-> i - 1, value |-> <<v[i]>>, order |-> "Big"] : i \in DOMAIN v}
  <1>1. d \in Seq(Cell8) /\ Len(v) \in Nat /\ Len(d) \in Nat /\ Len(d) >= Len(v) /\ \A i \in 1..Len(v) : d[i] = v[i]
    <2> DEFINE z == Bytes!Fill(NullByte, n)
    <2>1. z \in Seq(Cell8) /\ Len(z) = n
      BY DEF Bytes!Fill, Cell8
    <2>2. v \in Seq(Cell8)
      BY DEF Cell8
    <2> HIDE DEF z
    <2>3. d = v \o z
      BY DEF z
    <2> HIDE DEF d
    <2> QED BY <2>1, <2>2, <2>3
  <1>2. m = 0 \/ (m \in Nat \ {0} /\ m \notin heap)
    BY FreshIs DEF ByteTypes
  <1>3. Bytes!Becomes(b, o, fs, TRUE) /\ heap' = heap \cup ({m} \ {0}) /\ UNCHANGED <<wronglyDeleted, tame>> /\ ~bufs[b].live
    <2>1. Bytes!Object([Bytes!NoBuffer EXCEPT !.data = d, !.size = Len(v)], "Little", m, TRUE) = o
      BY DEF Bytes!Object, Bytes!NoBuffer
    <2>2. [Bytes!NoBuffer EXCEPT !.data = d, !.size = Len(v)].data = d
      BY DEF Bytes!NoBuffer
    <2> QED BY <2>1, <2>2 DEF Bytes!Construct, Bytes!Alive, Bytes!Null
  <1> HIDE DEF m, d
  <1>4. o \in ObjectType /\ OwnsRight(o)
    BY <1>1, <1>2 DEF ObjectType, Order, OwnsRight
  <1>5. fs \in SUBSET Field
    <2> SUFFICES ASSUME NEW i \in 1..Len(v) PROVE [at |-> i - 1, value |-> <<v[i]>>, order |-> "Big"] \in Field
      OBVIOUS
    <2>1. i - 1 \in Nat /\ <<v[i]>> \in Seq(Byte) \ {<<>>}
      BY <1>1
    <2> QED BY <2>1 DEF Field, Order
  <1>6. Keeps(o, fs, TRUE)
    <2> SUFFICES ASSUME NEW f \in fs PROVE HoldsField(o, f) /\ o.size > 0 /\ f.at + Len(f.value) <= o.size
      BY DEF Keeps
    <2>1. PICK i \in 1..Len(v) : f = [at |-> i - 1, value |-> <<v[i]>>, order |-> "Big"]
      OBVIOUS
    <2>2. f.at + 1 = i /\ Len(f.value) = 1 /\ Bytes!InMemory(f.value, f.order) = <<v[i]>>
      BY <1>1, <2>1 DEF Bytes!InMemory
    <2>3. o.data = d /\ o.size = Len(v) /\ d[i] = v[i] /\ i <= Len(d) /\ i <= Len(v) /\ Len(v) > 0
      BY <1>1
    <2> HIDE DEF fs, o
    <2>4. HoldsField(o, f)
      BY <2>2, <2>3 DEF HoldsField
    <2> QED BY <2>2, <2>3, <2>4
  <1>7. ~bufs[b].owns
    BY <1>3 DEF HeapInv, OwnsRight
  <1>8. wronglyDeleted' => (wronglyDeleted \/ (bufs[b].owns /\ bufs[b].memory \notin heap \cup {0}))
    BY <1>3, <1>7 DEF HeapInv
  <1>9. heap' = (IF bufs[b].owns THEN heap \ {bufs[b].memory} ELSE heap) \cup ({o.memory} \ {0, -1})
    BY <1>2, <1>3, <1>7
  <1>10. o.memory \in {0, -1} \/ (o.owns /\ o.memory \notin heap)
    BY <1>2
  <1> HIDE DEF o, fs
  <1> QED BY <1>3, <1>4, <1>5, <1>6, <1>8, <1>9, <1>10, ReplacingCall

LEMMA CopyStep ==
  ASSUME ByteTypes, HeapInv, KeepInv, NEW b \in Buffers, NEW from \in Buffers, Bytes!Copy(b, from)
  PROVE  BytesIInv'
  <1>0. SUFFICES ASSUME tame' PROVE BytesIInv'
    BY DEF BytesIInv
  <1>1. /\ bufs[b] \in ObjectType /\ bufs[from] \in ObjectType /\ fields[from] \in SUBSET Field /\ appended[from] \in BOOLEAN
        /\ Keeps(bufs[from], fields[from], appended[from]) /\ OwnsRight(bufs[b])
    BY DEF ByteTypes, KeepInv, HeapInv
  <1> DEFINE owns == IF bufs[b].live THEN bufs[b].owns ELSE TRUE
             o == [bufs[from] EXCEPT !.owns = owns, !.memory = Bytes!Fresh(heap)]
  <1>2. /\ bufs[from].live /\ bufs[b].memory # -1
        /\ Bytes!Becomes(b, o, fields[from], appended[from]) /\ Bytes!Replace(bufs[b], Bytes!Fresh(heap))
    BY <1>0 DEF Bytes!Copy, Bytes!Alive, Bytes!Foreign
  <1>3. owns = TRUE
    BY <1>1, <1>2 DEF OwnsRight, ObjectType
  <1>4. Bytes!Fresh(heap) \in Nat
    BY FreshIs DEF ByteTypes
  <1>5. /\ o \in ObjectType /\ o.owns /\ o.live /\ o.memory = Bytes!Fresh(heap)
        /\ o.data = bufs[from].data /\ o.size = bufs[from].size
    <2> HIDE DEF owns
    <2> QED BY <1>1, <1>2, <1>3, <1>4 DEF ObjectType
  <1> HIDE DEF o
  <1>6. Keeps(o, fields[from], appended[from])
    BY <1>1, <1>5, KeepsLike
  <1> QED BY <1>1, <1>2, <1>5, <1>6, RenewingCall

LEMMA MoveStep ==
  ASSUME ByteTypes, HeapInv, KeepInv, NEW b \in Buffers, NEW from \in Buffers, Bytes!Move(b, from)
  PROVE  BytesIInv'
  <1>0. SUFFICES ASSUME tame' PROVE BytesIInv'
    BY DEF BytesIInv
  <1> DEFINE x == bufs[b]
             y == bufs[from]
             owns == IF x.live THEN x.owns ELSE TRUE
             p == [y EXCEPT !.owns = owns]
             q == Bytes!MovedFrom(y)
  <1>1. /\ x \in ObjectType /\ y \in ObjectType /\ OwnsRight(x) /\ OwnsRight(y)
        /\ (x.owns => x.memory \in heap \cup {0}) /\ (y.owns => y.memory \in heap \cup {0})
        /\ fields[from] \in SUBSET Field /\ appended[from] \in BOOLEAN /\ Keeps(y, fields[from], appended[from])
    BY DEF ByteTypes, HeapInv, KeepInv
  <1>2. /\ y.live /\ b # from /\ x.memory # -1 /\ y.memory # -1
        /\ bufs' = [bufs EXCEPT ![b] = p, ![from] = q]
        /\ fields' = [fields EXCEPT ![b] = fields[from], ![from] = {}]
        /\ appended' = [appended EXCEPT ![b] = appended[from], ![from] = TRUE]
        /\ Bytes!Delete(x)
    BY <1>0, <1>1 DEF Bytes!Move, Bytes!Alive, Bytes!Foreign, ByteTypes
  <1>3. owns = TRUE /\ y.owns
    BY <1>1, <1>2 DEF OwnsRight, ObjectType
  <1>4. p \in ObjectType /\ p.owns /\ p.live /\ p.memory = y.memory /\ p.data = y.data /\ p.size = y.size
    <2> HIDE DEF owns
    <2> QED BY <1>1, <1>2, <1>3 DEF ObjectType
  <1>5. q \in ObjectType /\ q.owns /\ q.live /\ q.memory = 0
    <2>1. q = [y EXCEPT !.data = <<>>, !.memory = 0, !.position = 0, !.size = 0]
      BY DEF Bytes!MovedFrom, Bytes!Null
    <2>2. y \in ObjectType /\ y.live /\ y.owns
      BY <1>1, <1>2, <1>3
    <2>3. <<>> \in Seq(Cell8)
      OBVIOUS
    <2> HIDE DEF q, y
    <2> QED BY <2>1, <2>2, <2>3 DEF ObjectType
  <1> HIDE DEF p, q
  <1>6. bufs'[b] = p /\ bufs'[from] = q /\ \A c \in Buffers \ {b, from} : bufs'[c] = bufs[c]
    BY <1>2 DEF ByteTypes
  <1>7. Keeps(p, fields[from], appended[from])
    BY <1>1, <1>4, KeepsLike
  <1>8. KeepInv'
    <2>1. /\ fields'[b] = fields[from] /\ appended'[b] = appended[from] /\ fields'[from] = {}
          /\ \A c \in Buffers \ {b, from} : fields'[c] = fields[c] /\ appended'[c] = appended[c]
      BY <1>2 DEF ByteTypes
    <2> SUFFICES ASSUME NEW c \in Buffers PROVE Keeps(bufs'[c], fields'[c], appended'[c])
      BY DEF KeepInv
    <2>2. CASE c = b
      BY <1>6, <1>7, <2>1, <2>2
    <2>3. CASE c = from
      BY <2>1, <2>3 DEF Keeps
    <2>4. CASE c \notin {b, from}
      BY <1>6, <2>1, <2>4 DEF KeepInv
    <2> QED BY <2>2, <2>3, <2>4
  <1>9. heap' = (IF x.owns THEN heap \ {x.memory} ELSE heap) /\ ~wronglyDeleted'
    BY <1>1, <1>2 DEF Bytes!Delete, Bytes!Null, HeapInv
  <1>10. heap' \subseteq Nat \ {0} /\ IsFiniteSet(heap')
    <2>1. heap' \subseteq heap
      BY <1>9
    <2> QED BY <2>1, FS_Subset DEF ByteTypes
  <1>11. ByteTypes'
    <2>1. bufs' \in [Buffers -> ObjectType]
      BY <1>2, <1>4, <1>5 DEF ByteTypes
    <2>2. fields' \in [Buffers -> SUBSET Field] /\ appended' \in [Buffers -> BOOLEAN]
      BY <1>1, <1>2 DEF ByteTypes
    <2> QED BY <1>10, <2>1, <2>2 DEF ByteTypes
  \* The memory that the others have is not the one that was deleted.
  <1>12. ASSUME NEW c \in Buffers, c # b, bufs[c].owns PROVE bufs[c].memory \in heap' \cup {0}
    <2>1. bufs[c].memory \in heap \cup {0}
      BY <1>12 DEF HeapInv
    <2>2. x.memory # bufs[c].memory \/ x.memory \in {0, -1}
      BY <1>12 DEF HeapInv
    <2> QED BY <1>2, <1>9, <2>1, <2>2 DEF ByteTypes
  <1>13. ASSUME NEW c \in Buffers PROVE OwnsRight(bufs'[c]) /\ (bufs'[c].owns => bufs'[c].memory \in heap' \cup {0})
    <2>1. CASE c = b
      BY <1>2, <1>3, <1>4, <1>6, <1>12, <2>1 DEF OwnsRight
    <2>2. CASE c = from
      BY <1>5, <1>6, <2>2 DEF OwnsRight
    <2>3. CASE c \notin {b, from}
      BY <1>6, <1>12, <2>3 DEF HeapInv
    <2> QED BY <2>1, <2>2, <2>3
  <1>14. ASSUME NEW h \in heap' PROVE \E c \in Buffers : bufs'[c].owns /\ bufs'[c].memory = h
    <2>1. h \in heap /\ (x.owns => h # x.memory)
      BY <1>9
    <2>2. PICK c \in Buffers : bufs[c].owns /\ bufs[c].memory = h
      BY <2>1 DEF HeapInv
    <2>3. c # b
      BY <2>1, <2>2
    <2>4. CASE c = from
      BY <1>4, <1>6, <2>2, <2>4
    <2>5. CASE c # from
      BY <1>6, <2>2, <2>3, <2>5
    <2> QED BY <2>4, <2>5
  <1>15. ASSUME NEW c \in Buffers, NEW d \in Buffers, c # d
         PROVE  bufs'[c].memory # bufs'[d].memory \/ bufs'[c].memory \in {0, -1}
    <2>1. ASSUME NEW e \in Buffers, e \notin {b, from} PROVE bufs[e].memory # y.memory \/ y.memory \in {0, -1}
      BY <2>1 DEF HeapInv
    <2>2. CASE c = from
      BY <1>5, <1>6, <2>2
    <2>3. CASE d = from /\ c # from
      BY <1>5, <1>6, <2>3
    <2>4. CASE c = b /\ d # from
      BY <1>4, <1>6, <1>15, <2>1, <2>4
    <2>5. CASE d = b /\ c # from
      BY <1>4, <1>6, <1>15, <2>1, <2>5
    <2>6. CASE c \notin {b, from} /\ d \notin {b, from}
      BY <1>6, <1>15, <2>6 DEF HeapInv
    <2> QED BY <1>15, <2>2, <2>3, <2>4, <2>5, <2>6
  <1>16. HeapInv'
    BY <1>9, <1>13, <1>14, <1>15 DEF HeapInv
  <1> QED BY <1>8, <1>11, <1>16 DEF BytesIInv

\* An object that owns its memory, in a larger one.
LEMMA EnlargedIs ==
  ASSUME NEW o \in ObjectType, NEW n \in Nat, o.owns, o.live, Len(o.data) < n, heap \subseteq Nat \ {0}, IsFiniteSet(heap),
         NEW fs \in SUBSET Field, NEW end, Keeps(o, fs, end)
  PROVE  /\ Bytes!Enlarged(o, n) \in ObjectType /\ Bytes!Enlarged(o, n).owns /\ Bytes!Enlarged(o, n).live
         /\ Bytes!Enlarged(o, n).memory = Bytes!Fresh(heap)
         /\ Len(Bytes!Enlarged(o, n).data) = n /\ Keeps(Bytes!Enlarged(o, n), fs, end)
  <1>1. PICK d : d = o.data
    OBVIOUS
  <1>2. d \in Seq(Cell8) /\ Len(d) \in Nat
    BY <1>1 DEF ObjectType
  <1> DEFINE g == Bytes!Fill(Garbage, n - Len(d))
             e == Bytes!Enlarged(o, n)
             c == d \o g
  <1>3. c \in Seq(Cell8) /\ Len(c) = n /\ \A i \in 1..Len(d) : c[i] = d[i]
    <2>1. n - Len(d) \in Nat
      BY <1>1, <1>2
    <2>2. g \in Seq(Cell8) /\ Len(g) = n - Len(d)
      BY <2>1 DEF Bytes!Fill, Cell8
    <2> HIDE DEF g
    <2> QED BY <1>2, <2>1, <2>2
  <1>4. e = [o EXCEPT !.data = c, !.memory = Bytes!Fresh(heap)]
    BY <1>1 DEF Bytes!Enlarged, Bytes!Allocated, Bytes!Capacity, ObjectType
  <1>5. Bytes!Fresh(heap) \in Nat
    BY FreshIs
  <1> HIDE DEF c, e
  <1>6. e \in ObjectType /\ e.owns /\ e.live /\ e.memory = Bytes!Fresh(heap) /\ e.data = c /\ e.size = o.size
    BY <1>3, <1>4, <1>5 DEF ObjectType
  <1>7. Keeps(e, fs, end)
    <2> SUFFICES ASSUME NEW f \in fs PROVE HoldsField(e, f)
      BY <1>6 DEF Keeps
    <2>1. HoldsField(o, f)
      BY DEF Keeps
    <2>2. PICK x : x = f.at
      OBVIOUS
    <2>3. PICK k : k = Len(f.value)
      OBVIOUS
    <2>4. x \in Nat /\ k \in Nat
      <3>1. f.value \in Seq(Byte) /\ f.at \in Nat
        BY DEF Field
      <3> QED BY <2>2, <2>3, <3>1
    <2>5. x + k <= Len(d)
      BY <1>1, <2>1, <2>2, <2>3 DEF HoldsField
    <2>6. x + k <= Len(c) /\ \A i \in 1..k : c[x + i] = d[x + i]
      BY <1>1, <1>2, <1>3, <2>4, <2>5
    <2> QED BY <1>1, <1>6, <2>1, <2>2, <2>3, <2>6 DEF HoldsField
  <1> QED BY <1>3, <1>6, <1>7 DEF e

\* allocate, as long as the buffer is one that owns its memory.
LEMMA Enlarging ==
  ASSUME ByteTypes, HeapInv, KeepInv, NEW b \in Buffers, NEW n \in Nat, bufs[b].live, Len(bufs[b].data) < n,
         Bytes!Enlarges(bufs[b], n), tame'
  PROVE  LET e == Bytes!Enlarged(bufs[b], n)
         IN  /\ e \in ObjectType /\ e.owns /\ e.live /\ e.memory = Bytes!Fresh(heap) /\ Bytes!Replace(bufs[b], e.memory)
             /\ Len(e.data) = n /\ Keeps(e, fields[b], appended[b])
  <1>1. bufs[b] \in ObjectType /\ OwnsRight(bufs[b]) /\ fields[b] \in SUBSET Field /\ Keeps(bufs[b], fields[b], appended[b])
    BY DEF ByteTypes, HeapInv, KeepInv
  <1>2. ~(Len(bufs[b].data) >= n)
    BY <1>1 DEF ObjectType
  <1>3. Bytes!Replace(bufs[b], Bytes!Fresh(heap)) /\ bufs[b].memory # -1
    BY <1>2 DEF Bytes!Enlarges, Bytes!Capacity, Bytes!Foreign
  <1>4. bufs[b].owns
    BY <1>1, <1>3 DEF OwnsRight
  <1> QED BY <1>1, <1>3, <1>4, EnlargedIs DEF ByteTypes

LEMMA AllocateStep ==
  ASSUME ByteTypes, HeapInv, KeepInv, NEW b \in Buffers, NEW n \in Nat, Bytes!Allocate(b, n)
  PROVE  BytesIInv'
  <1>0. SUFFICES ASSUME tame' PROVE BytesIInv'
    BY DEF BytesIInv
  <1> DEFINE e == Bytes!Enlarged(bufs[b], n)
  <1>1. bufs[b].live /\ Len(bufs[b].data) < n /\ Bytes!Enlarges(bufs[b], n) /\ Bytes!Becomes(b, e, fields[b], appended[b])
    BY DEF Bytes!Allocate, Bytes!Alive, Bytes!Capacity
  <1>2. /\ e \in ObjectType /\ e.owns /\ e.live /\ e.memory = Bytes!Fresh(heap) /\ Bytes!Replace(bufs[b], e.memory)
        /\ Keeps(e, fields[b], appended[b])
    BY <1>0, <1>1, Enlarging
  <1>3. fields[b] \in SUBSET Field /\ appended[b] \in BOOLEAN
    BY DEF ByteTypes
  <1> HIDE DEF e
  <1> QED BY <1>1, <1>2, <1>3, RenewingCall

\* What is read lies in front, and the fields behind it are kept.
LEMMA ReadKeeps ==
  ASSUME NEW o \in ObjectType, NEW s \in Seq(Byte), Len(s) <= Len(o.data), NEW fs \in SUBSET Field, NEW end, Keeps(o, fs, end)
  PROVE  LET p == [o EXCEPT !.data = Bytes!Overlay(@, 0, s), !.position = Len(s)]
         IN  /\ p \in ObjectType /\ p.memory = o.memory /\ p.owns = o.owns /\ p.live = o.live
             /\ Keeps(p, {f \in fs : Bytes!Apart(f, 0, Len(s))}, end)
  <1> DEFINE d == Bytes!Overlay(o.data, 0, s)
             p == [o EXCEPT !.data = d, !.position = Len(s)]
             in == {f \in fs : Bytes!Apart(f, 0, Len(s))}
  <1>1. o.data \in Seq(Cell8) /\ Len(s) \in Nat /\ 0 + Len(s) = Len(s)
    BY DEF ObjectType
  <1>2. d \in Seq(Cell8)
    BY <1>1, WrittenOver
  <1>3. p \in ObjectType /\ p.memory = o.memory /\ p.owns = o.owns /\ p.live = o.live /\ p.size = o.size /\ p.data = d
    <2> HIDE DEF d
    <2> QED BY <1>1, <1>2 DEF ObjectType
  <1>4. p = [o EXCEPT !.data = Bytes!Overlay(@, 0, s), !.position = Len(s)]
    OBVIOUS
  <1> HIDE DEF p
  <1>5. ASSUME NEW f \in in PROVE HoldsField(p, f) /\ p.size > 0 /\ (end => f.at + Len(f.value) <= p.size)
    <2>1. f \in Field /\ HoldsField(o, f) /\ Bytes!Apart(f, 0, Len(s)) /\ o.size > 0 /\ (end => f.at + Len(f.value) <= o.size)
      BY DEF Keeps
    <2>2. HoldsField(p, f)
      BY <1>1, <1>3, <2>1, ApartHolds
    <2> QED BY <1>3, <2>1, <2>2
  <1>6. Keeps(p, in, end)
    BY <1>5 DEF Keeps
  <1> QED BY <1>3, <1>4, <1>6

LEMMA ReadIntoStep ==
  ASSUME ByteTypes, HeapInv, KeepInv, NEW b \in Buffers, NEW n \in Nat, NEW s \in Seq(Byte), Bytes!ReadInto(b, n, s)
  PROVE  BytesIInv'
  <1>0. SUFFICES ASSUME tame' PROVE BytesIInv'
    BY DEF BytesIInv
  <1> DEFINE e == Bytes!Enlarged(bufs[b], n)
             p == [e EXCEPT !.data = Bytes!Overlay(@, 0, s), !.position = Len(s)]
             fs == {f \in fields[b] : Bytes!Apart(f, 0, Len(s))}
  <1>1. bufs[b].live /\ Len(s) <= n /\ Bytes!Enlarges(bufs[b], n) /\ Bytes!Becomes(b, p, fs, appended[b])
    BY DEF Bytes!ReadInto, Bytes!Alive
  <1>2. /\ bufs[b] \in ObjectType /\ fields[b] \in SUBSET Field /\ appended[b] \in BOOLEAN /\ Len(bufs[b].data) \in Nat
        /\ Keeps(bufs[b], fields[b], appended[b])
    BY DEF ByteTypes, KeepInv, ObjectType
  <1>3. Len(s) \in Nat /\ fs \in SUBSET Field
    BY <1>2
  <1>4. CASE Len(bufs[b].data) < n
    <2>1. /\ e \in ObjectType /\ e.owns /\ e.live /\ e.memory = Bytes!Fresh(heap) /\ Bytes!Replace(bufs[b], e.memory)
          /\ Len(e.data) = n /\ Keeps(e, fields[b], appended[b])
      BY <1>0, <1>1, <1>4, Enlarging
    <2> HIDE DEF e
    <2>2. /\ p \in ObjectType /\ p.memory = e.memory /\ p.owns = e.owns /\ p.live = e.live /\ Keeps(p, fs, appended[b])
      BY <1>1, <1>2, <2>1, ReadKeeps
    <2> HIDE DEF p, fs
    <2> QED BY <1>1, <1>2, <1>3, <2>1, <2>2, RenewingCall
  <1>5. CASE ~(Len(bufs[b].data) < n)
    <2>1. e = bufs[b] /\ Bytes!Safe
      BY <1>1, <1>2, <1>5 DEF Bytes!Enlarged, Bytes!Enlarges, Bytes!Capacity
    <2>2. Len(s) <= Len(e.data)
      BY <1>1, <1>2, <1>3, <1>5, <2>1
    <2> HIDE DEF e
    <2>3. e \in ObjectType /\ fields[b] \in SUBSET Field /\ Keeps(e, fields[b], appended[b])
      BY <1>2, <2>1
    <2>4. /\ p \in ObjectType /\ p.memory = e.memory /\ p.owns = e.owns /\ p.live = e.live /\ Keeps(p, fs, appended[b])
      BY <2>2, <2>3, ReadKeeps
    <2> HIDE DEF p, fs
    <2> QED BY <1>1, <1>2, <1>3, <2>1, <2>4, SafeCall
  <1> QED BY <1>4, <1>5
-------------------------------------------------------------------------------
(* All calls.                                                                 *)

LEMMA BytesStep == PutsBytes /\ BytesIInv /\ [Bytes!Next]_(Bytes!byteVars) => BytesIInv'
  <1> SUFFICES ASSUME PutsBytes, BytesIInv, [Bytes!Next]_(Bytes!byteVars), tame' PROVE BytesIInv'
    BY DEF BytesIInv
  <1>1. CASE UNCHANGED Bytes!byteVars
    BY <1>1 DEF Bytes!byteVars, BytesIInv, ByteTypes, HeapInv, KeepInv
  <1>2. ASSUME NEW b \in Buffers,
               \/ \E n \in Sizes \cup {0} : Bytes!Construct(b, <<>>, n) \/ Bytes!Allocate(b, n)
               \/ \E v \in Values : Bytes!Construct(b, v, 0) \/ Bytes!Put(b, v) \/ Bytes!Get(b, Len(v))
               \/ \E v \in Values, start \in 0..1 : Bytes!PutBuffer(b, start, v)
               \/ \E n \in Sizes, v \in Values \cup {<<>>} : Bytes!ReadInto(b, n, v)
               \/ \E n \in Sizes, keepSize \in BOOLEAN : Bytes!SetBuffer(b, n, keepSize)
               \/ \E from \in Buffers : Bytes!Copy(b, from) \/ Bytes!Move(b, from)
               \/ \E p \in 0..1 : Bytes!SetPosition(b, p)
               \/ \E order \in {"Big", "Little"} : Bytes!SetByteOrder(b, order)
               \/ Bytes!Destroy(b) \/ Bytes!Clear(b)
        PROVE  BytesIInv'
    <2>0. tame
      BY <1>2 DEF Bytes!Construct, Bytes!Allocate, Bytes!Put, Bytes!Get, Bytes!PutBuffer, Bytes!ReadInto, Bytes!SetBuffer,
                  Bytes!Copy, Bytes!Move, Bytes!SetPosition, Bytes!SetByteOrder, Bytes!Destroy, Bytes!Clear,
                  Bytes!Enlarges, Bytes!Safe
    <2>1. ByteTypes /\ HeapInv /\ KeepInv
      BY <2>0 DEF BytesIInv
    <2>2. Sizes \subseteq Nat /\ Values \subseteq Seq(Byte) /\ <<>> \in Seq(Byte) /\ 0 \in Nat /\ 0..1 \subseteq Nat
      BY DEF PutsBytes
    <2>3. CASE \E n \in Sizes \cup {0} : Bytes!Construct(b, <<>>, n)
      BY <2>1, <2>2, <2>3, ConstructStep
    <2>4. CASE \E n \in Sizes \cup {0} : Bytes!Allocate(b, n)
      BY <2>1, <2>2, <2>4, AllocateStep
    <2>5. CASE \E v \in Values : Bytes!Construct(b, v, 0)
      BY <2>1, <2>2, <2>5, ConstructStep
    <2>6. CASE \E v \in Values : Bytes!Put(b, v)
      BY <2>1, <2>6, PutStep
    <2>7. CASE \E v \in Values : Bytes!Get(b, Len(v))
      BY <2>1, <2>7, Moves
    <2>8. CASE \E v \in Values, start \in 0..1 : Bytes!PutBuffer(b, start, v)
      BY <2>1, <2>2, <2>8, PutBufferStep
    <2>9. CASE \E n \in Sizes, v \in Values \cup {<<>>} : Bytes!ReadInto(b, n, v)
      BY <2>1, <2>2, <2>9, ReadIntoStep
    <2>10. CASE \E n \in Sizes, keepSize \in BOOLEAN : Bytes!SetBuffer(b, n, keepSize)
      BY <2>1, <2>2, <2>10, SetBufferStep
    <2>11. CASE \E from \in Buffers : Bytes!Copy(b, from)
      BY <2>1, <2>11, CopyStep
    <2>12. CASE \E from \in Buffers : Bytes!Move(b, from)
      BY <2>1, <2>12, MoveStep
    <2>13. CASE \E p \in 0..1 : Bytes!SetPosition(b, p)
      BY <2>1, <2>2, <2>13, Moves
    <2>14. CASE \E order \in {"Big", "Little"} : Bytes!SetByteOrder(b, order)
      BY <2>1, <2>14, Moves DEF Order
    <2>15. CASE Bytes!Destroy(b)
      BY <2>1, <2>15, DestroyStep
    <2>16. CASE Bytes!Clear(b)
      BY <2>1, <2>16, ClearStep
    <2> QED BY <1>2, <2>3, <2>4, <2>5, <2>6, <2>7, <2>8, <2>9, <2>10, <2>11, <2>12, <2>13, <2>14, <2>15, <2>16
  <1> QED BY <1>1, <1>2 DEF Bytes!Next

LEMMA BytesGiveBack == BytesIInv => GivesBack
  <1> SUFFICES ASSUME tame, ByteTypes, HeapInv, KeepInv
               PROVE  /\ ~wronglyDeleted
                      /\ heap = {bufs[b].memory : b \in {b \in Buffers : bufs[b].owns}} \ {0}
                      /\ \A b, c \in Buffers : b # c => bufs[b].memory \notin {bufs[c].memory} \ {0, -1}
                      /\ \A b \in Buffers : \A f \in fields[b] :
                           /\ Bytes!GetAt(b, f.at, Len(f.value), f.order) = f.value
                           /\ appended[b] => f.at + Len(f.value) <= bufs[b].size
    BY DEF GivesBack, Bytes!GivesBack, Bytes!Null, Bytes!Foreign, BytesIInv
  <1>1. heap \subseteq {bufs[b].memory : b \in {b \in Buffers : bufs[b].owns}} \ {0}
    BY DEF HeapInv, ByteTypes
  <1>2. {bufs[b].memory : b \in {b \in Buffers : bufs[b].owns}} \ {0} \subseteq heap
    BY DEF HeapInv
  <1>3. ASSUME NEW b \in Buffers, NEW f \in fields[b]
        PROVE  /\ Bytes!GetAt(b, f.at, Len(f.value), f.order) = f.value
               /\ appended[b] => f.at + Len(f.value) <= bufs[b].size
    <2>1. bufs[b] \in ObjectType /\ f \in Field /\ Keeps(bufs[b], fields[b], appended[b])
      BY DEF ByteTypes, KeepInv
    <2>2. HoldsField(bufs[b], f) /\ bufs[b].size > 0 /\ (appended[b] => f.at + Len(f.value) <= bufs[b].size)
      BY <2>1 DEF Keeps
    <2> QED BY <2>1, <2>2, GotBack
  <1> QED BY <1>1, <1>2, <1>3 DEF HeapInv

\* Whatever buffers are copied, moved, enlarged, read into or cleared, a value
\* is got back as it was put, and each memory of new[] is deleted by exactly
\* one buffer, as long as a buffer over the caller's memory is only written
\* and read.
THEOREM ValuesCorrect ==
  ASSUME PutsBytes
  PROVE  Bytes!Spec => []GivesBack
  <1>1. PutsBytes /\ BytesIInv /\ [Bytes!Next]_(Bytes!byteVars) => BytesIInv'
    BY BytesStep
  <1> QED BY <1>1, BytesInit, BytesGiveBack, PTL DEF Bytes!Spec
================================================================================
