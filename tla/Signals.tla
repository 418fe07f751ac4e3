-------------------------------- MODULE Signals --------------------------------
(****************************************************************************)
(* ccl::dp::signals: one Signal and its Connections, used by several        *)
(* threads.  connect, disconnect and the first part of emit run under the   *)
(* static mutex and are one step each; emit calls the slots it has copied   *)
(* after it has unlocked, one step per slot, and isConnected never locks.   *)
(* While a slot runs, its thread may connect and disconnect; that a slot    *)
(* emits the signal again is left out.                                      *)
(****************************************************************************)
EXTENDS Integers, Sequences, SequencesExt

CONSTANTS
  Thread,
  Kind,           \* of a connection: "manual", "token", or "guarded", a token and a make_callback slot
  MaxConnections, \* bound on the connections made
  MaxCalls        \* bound on the emissions and on the isConnected calls

VARIABLES
  m_connections,  \* the ids in the map
  kind,           \* kind[id] of every connection made; Len(kind) is the last id
  expired,        \* the ids whose lifetime token has expired
  calling,        \* calling[t]: what t is in: "nothing", "emit" before the lock, "slots", "isConnected"
  slots,          \* slots[t]: the ids left in slots_to_call
  asked,          \* asked[t]: the id isConnected looks up, and the map and its last id when it began
  called,         \* called[t]: the slots t's emit has called
  before, due,    \* the ids cut before t's call, and connected at its start
  cut,            \* the ids disconnected or expired
  wrong,          \* an isConnected during which the map did not change gave a false answer
  calls

signalVars == <<m_connections, kind, expired, calling, slots, asked, called, before, due, cut, wrong, calls>>

NotAsked == [id |-> 0, map |-> {}, made |-> 0]

Init ==
  /\ m_connections = {} /\ kind = <<>> /\ expired = {}
  /\ calling = [t \in Thread |-> "nothing"]
  /\ slots = [t \in Thread |-> {}]
  /\ asked = [t \in Thread |-> NotAsked]
  /\ called = [t \in Thread |-> <<>>]
  /\ before = [t \in Thread |-> {}] /\ due = [t \in Thread |-> {}]
  /\ cut = {} /\ wrong = FALSE /\ calls = 0

HasToken(id) == kind[id] # "manual"
Free(t) == calling[t] \in {"nothing", "slots"}
Goto(t, where) == calling' = [calling EXCEPT ![t] = where]
SameMap == UNCHANGED <<m_connections, kind, expired, cut>>

-----------------------------------------------------------------------------
\* Signal::connect, of a slot with or without a lifetime token.
Connect(t, k) ==
  /\ Free(t) /\ Len(kind) < MaxConnections
  /\ kind' = Append(kind, k)
  /\ m_connections' = m_connections \cup {Len(kind) + 1}
  /\ UNCHANGED <<expired, calling, slots, asked, called, before, due, cut, wrong, calls>>

\* Connection::disconnect
Disconnect(t, id) ==
  /\ Free(t)
  /\ m_connections' = m_connections \ {id}
  /\ cut' = cut \cup {id}
  /\ UNCHANGED <<kind, expired, calling, slots, asked, called, before, due, wrong, calls>>

\* The last owner of the object behind a lifetime token lets it go.
Expire(id) ==
  /\ HasToken(id)
  /\ expired' = expired \cup {id}
  /\ cut' = cut \cup {id}
  /\ UNCHANGED <<m_connections, kind, calling, slots, asked, called, before, due, wrong, calls>>

Begin(t, where) ==
  /\ calling[t] = "nothing" /\ calls < MaxCalls
  /\ calls' = calls + 1
  /\ Goto(t, where)
  /\ before' = [before EXCEPT ![t] = cut]
  /\ due' = [due EXCEPT ![t] = DOMAIN kind \ cut]
  /\ SameMap

Emit(t) ==
  /\ Begin(t, "emit")
  /\ UNCHANGED <<slots, asked, called, wrong>>

\* The loop of emit over the map: the connections that stay.
LiveMutant(ids) == {id \in ids : id \notin expired /\ id - 1 \notin ids \cap expired}
Live(ids) == {id \in ids : id \notin expired}

\* emit under the lock: connections whose token has expired leave the map.
Snapshot(t) ==
  /\ calling[t] = "emit"
  /\ m_connections' = Live(m_connections)
  /\ slots' = [slots EXCEPT ![t] = Live(m_connections)]
  /\ Goto(t, "slots")
  /\ UNCHANGED <<kind, expired, asked, called, before, due, cut, wrong, calls>>

\* A slot of make_callback runs nothing once its object is gone.
Runs(id) == ~(kind[id] = "guarded" /\ id \in expired)

\* emit calls the next slot: the std::map was walked in the order of the ids.
CallSlot(t) ==
  /\ calling[t] = "slots"
  /\ \E id \in slots[t] :
       /\ \A later \in slots[t] : id <= later
       /\ slots' = [slots EXCEPT ![t] = @ \ {id}]
       /\ called' = IF Runs(id) THEN [called EXCEPT ![t] = Append(@, id)] ELSE called
  /\ SameMap /\ UNCHANGED <<calling, asked, before, due, wrong, calls>>

Return(t) ==
  /\ calling[t] = "slots" /\ slots[t] = {}
  /\ Goto(t, "nothing")
  /\ called' = [called EXCEPT ![t] = <<>>]
  /\ SameMap /\ UNCHANGED <<slots, asked, before, due, wrong, calls>>

\* Connection::isConnected: find and the test of the token, with no lock.
Find(t, id) ==
  /\ Begin(t, "isConnected")
  /\ asked' = [asked EXCEPT ![t] = [id |-> id, map |-> m_connections, made |-> Len(kind)]]
  /\ UNCHANGED <<slots, called, wrong>>

\* When another thread has changed the map since, the search and the iterator
\* it found raced with the change, and the answer can be anything.
Answer(t) ==
  LET id == asked[t].id
      raced == m_connections # asked[t].map \/ Len(kind) # asked[t].made
      connected == id \in m_connections /\ ~(HasToken(id) /\ id \in expired)
  IN  /\ calling[t] = "isConnected"
      /\ \E answer \in IF raced THEN BOOLEAN ELSE {connected} :
           LET false == IF answer THEN id \in before[t] ELSE id \notin cut
           IN  wrong' = (wrong \/ (false /\ ~raced))
      /\ asked' = [asked EXCEPT ![t] = NotAsked]
      /\ Goto(t, "nothing")
      /\ SameMap /\ UNCHANGED <<slots, called, before, due, calls>>

Next ==
  \/ \E t \in Thread :
       \/ \E k \in Kind : Connect(t, k)
       \/ \E id \in DOMAIN kind : Disconnect(t, id) \/ Find(t, id)
       \/ Emit(t) \/ Snapshot(t) \/ CallSlot(t) \/ Return(t) \/ Answer(t)
  \/ \E id \in DOMAIN kind : Expire(id)

Spec == Init /\ [][Next]_signalVars
-----------------------------------------------------------------------------
\* However emissions, connections, disconnections and expiries interleave, an
\* emission calls slots in the order they were connected, each at most once,
\* none that was cut off before emit was called, and, by the time emit has
\* called its last slot, every one that was connected then and still is.
\* isConnected, which takes no lock, calls no connection connected that was cut
\* before the call, and none cut that never was, unless another thread changed
\* the map in the middle of it.
SlotsFollowConnections ==
  \A t \in Thread :
    LET last == Len(called[t])
    IN  /\ \A i, j \in 1..last : i < j => called[t][i] < called[t][j]
        /\ ToSet(called[t]) \cap before[t] = {}
        /\ calling[t] = "slots" /\ slots[t] = {} => due[t] \ cut \subseteq ToSet(called[t])
        /\ ~wrong
=============================================================================
