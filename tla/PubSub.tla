-------------------------------- MODULE PubSub --------------------------------
(****************************************************************************)
(* ccl::dp::pub_sub: publishers, the PubSubBroker and its AsyncSubscribers. *)
(*                                                                          *)
(* The broker keeps weak pointers to its subscribers and notifies them      *)
(* under m_mutex; a subscriber's notify appends to its own queue, from      *)
(* which its thread pops and consumes until it finds the null event.        *)
(* Publishers reach the broker through a weak pointer.  Weak pointers       *)
(* expire when the last shared pointer goes: the client's or, for the time  *)
(* of a notification, the broker's own.  The event queue is the FIFO that   *)
(* ConcurrentQueue implements.                                              *)
(****************************************************************************)
EXTENDS Naturals, Sequences, FiniteSets, SequencesExt

CONSTANTS
  Thread,        \* the client threads
  Subscriber,    \* the AsyncSubscribers
  Type,          \* the event types
  Owner,         \* Owner[s]: the client that subscribes, stops and releases s
  BrokerOwner,   \* the client that holds the broker, Nobody if it is never released
  Nobody,        \* the owner of a free mutex; a weak pointer that was moved from
  Null,          \* the null event
  OnceEach,      \* TRUE: clients subscribe what is not, unsubscribe what is subscribed
  QuietRelease,  \* TRUE: clients release a subscriber only while it is not in the broker
  StopFirst,     \* TRUE: clients stop a subscriber before they release it
  MaxEvents,     \* bound: events ever published
  MaxTokens,     \* bound: weak pointers kept per event type
  MaxCancels     \* bound: null events in one queue

ASSUME PubSubAssumption ==
  /\ Nobody \notin Thread \cup Subscriber
  /\ Owner \in [Subscriber -> Thread]
  /\ BrokerOwner \in Thread \cup {Nobody}
  /\ {OnceEach, QuietRelease, StopFirst} \subseteq BOOLEAN
  /\ {MaxEvents, MaxTokens, MaxCancels} \subseteq Nat

Event == [id : 1 .. MaxEvents, type : Type]

ASSUME NullAssumption == Null \notin Event

VARIABLES
  m_subscribers,  \* per event type, the weak pointers in order of subscription
  m_mutex,        \* owner of the broker's mutex
  brokerHeld,     \* whether BrokerOwner still holds the broker
  held,           \* whether the client still holds each subscriber
  m_events,       \* each subscriber's event queue
  m_thread,       \* where each subscriber's thread is
  handling,       \* the event it consumes
  consumed,       \* the events it has consumed
  pc,             \* where each client is
  event,          \* the event it publishes
  vec_it,         \* its position in the subscribers notified
  sub_ptr,        \* the subscriber it locked, joins or destroys
  published,      \* how many events were published
  subscribed,     \* what the clients subscribed: the types of each subscriber
  promised,       \* the subscribers each publish found subscribed
  due             \* the events each subscriber was sent before it was cancelled

broker == <<m_subscribers, m_mutex>>
threads == <<m_events, m_thread, handling, consumed>>
calls == <<pc, event, vec_it, sub_ptr, published>>
account == <<subscribed, promised, due>>
vars == <<broker, brokerHeld, held, threads, calls, account>>

ClientLabels == {"idle", "expired", "lockBroker", "enter", "cycle", "lock", "release", "join", "destroy", "crashed"}
ThreadLabels == {"unstarted", "pop", "consume", "done", "joined"}

\* A null dereference, an erase past the end or a use of a destroyed queue: the
\* program ends there.
Crashed == \E t \in Thread : pc[t] = "crashed"

BrokerAlive ==
  \/ brokerHeld
  \/ \E t \in Thread : pc[t] \in {"enter", "cycle", "lock", "release"}
  \/ \E t \in Thread : pc[t] = "destroy" /\ event[t] # Null

\* A subscriber lives while a client or a notification in progress holds it.
Alive(s) == s # Nobody /\ (held[s] \/ \E t \in Thread : pc[t] = "release" /\ sub_ptr[t] = s)
Cancelled(s) == Contains(m_events[s], Null) \/ m_thread[s] \in {"done", "joined"}

Init ==
  /\ m_subscribers = [y \in Type |-> <<>>]
  /\ m_mutex = Nobody
  /\ brokerHeld = TRUE
  /\ held = [s \in Subscriber |-> TRUE]
  /\ m_events = [s \in Subscriber |-> <<>>]
  /\ m_thread = [s \in Subscriber |-> "unstarted"]
  /\ handling = [s \in Subscriber |-> Null]
  /\ consumed = [s \in Subscriber |-> <<>>]
  /\ pc = [t \in Thread |-> "idle"]
  /\ event = [t \in Thread |-> Null]
  /\ vec_it = [t \in Thread |-> 1]
  /\ sub_ptr = [t \in Thread |-> Nobody]
  /\ published = 0
  /\ subscribed = [s \in Subscriber |-> {}]
  /\ promised = [t \in Thread |-> {}]
  /\ due = [s \in Subscriber |-> {}]

Goto(t, label) == pc' = [pc EXCEPT ![t] = label]

-------------------------------------------------------------------------------
(* PubSubBroker::subscribe and unsubscribe. *)

Subscribe(t, s, types) ==
  /\ pc[t] = "idle" /\ Owner[s] = t /\ held[s] /\ brokerHeld
  /\ OnceEach => types \cap subscribed[s] = {}
  /\ \A y \in types : Len(m_subscribers[y]) < MaxTokens
  /\ m_mutex = Nobody
  /\ m_subscribers' = [y \in Type |-> IF y \in types THEN Append(m_subscribers[y], s) ELSE m_subscribers[y]]
  /\ subscribed' = [subscribed EXCEPT ![s] = @ \cup types]
  /\ UNCHANGED <<m_mutex, brokerHeld, held, threads, calls, promised, due>>

\* vec.erase(std::remove_if(...)): remove_if moves the weak pointers it keeps to
\* the front; behind them stay the removed ones that nothing overwrote and the
\* moved-from shells of the kept ones.  erase(iterator) drops one of these.
Gone(s, tkn) == tkn = s \/ ~Alive(tkn)
Rank(I, i) == Cardinality({j \in I : j <= i})
Picked(vec, I) == [k \in 1 .. Cardinality(I) |-> vec[CHOOSE i \in I : Rank(I, i) = k]]
ErasedMutant(s, vec) == Picked(vec, {i \in DOMAIN vec : Alive(vec[i])})
Erased(s, vec) ==
  LET kept == Picked(vec, {i \in DOMAIN vec : ~Gone(s, vec[i])})
      rest == [i \in 1 .. Len(vec) - Len(kept) |->
                 LET tkn == vec[Len(kept) + i] IN IF Gone(s, tkn) THEN tkn ELSE Nobody]
  IN  kept \o Tail(rest)

\* With nothing to remove erase(end()) is undefined.  A type that was never
\* subscribed to has no list and is passed over; one whose list ran empty is not.
\* Both are the empty sequence here, so either may happen.
Unsubscribe(t, s, types) ==
  /\ pc[t] = "idle" /\ Owner[s] = t /\ held[s] /\ brokerHeld
  /\ OnceEach => types \subseteq subscribed[s]
  /\ m_mutex = Nobody
  /\ \/ /\ \E y \in types : \A i \in DOMAIN m_subscribers[y] : ~Gone(s, m_subscribers[y][i])
        /\ Goto(t, "crashed") /\ UNCHANGED <<m_subscribers, subscribed>>
     \/ /\ \A y \in types : m_subscribers[y] = <<>> \/ \E i \in DOMAIN m_subscribers[y] : Gone(s, m_subscribers[y][i])
        /\ m_subscribers' = [y \in Type |->
             IF y \in types /\ m_subscribers[y] # <<>> THEN Erased(s, m_subscribers[y]) ELSE m_subscribers[y]]
        /\ subscribed' = [subscribed EXCEPT ![s] = @ \ types]
        /\ UNCHANGED pc
  /\ UNCHANGED <<m_mutex, brokerHeld, held, threads, event, vec_it, sub_ptr, published, promised, due>>

-------------------------------------------------------------------------------
(* Publisher::publish and PubSubBroker::notifySubscribers. *)

Publish(t, y) ==
  /\ pc[t] = "idle" /\ published < MaxEvents
  /\ published' = published + 1
  /\ event' = [event EXCEPT ![t] = [id |-> published + 1, type |-> y]]
  /\ Goto(t, "expired")
  /\ UNCHANGED <<broker, brokerHeld, held, threads, vec_it, sub_ptr, account>>

\* m_broker.expired()
BrokerExpired(t) ==
  /\ pc[t] = "expired"
  /\ IF BrokerAlive
     THEN Goto(t, "lockBroker") /\ UNCHANGED event
     ELSE Goto(t, "idle") /\ event' = [event EXCEPT ![t] = Null]
  /\ UNCHANGED <<broker, brokerHeld, held, threads, vec_it, sub_ptr, published, account>>

\* m_broker.lock(), dereferenced without a test.
LockBroker(t) ==
  /\ pc[t] = "lockBroker"
  /\ Goto(t, IF BrokerAlive THEN "enter" ELSE "crashed")
  /\ UNCHANGED <<broker, brokerHeld, held, threads, event, vec_it, sub_ptr, published, account>>

Enter(t) ==
  /\ pc[t] = "enter"
  /\ m_mutex = Nobody
  /\ m_mutex' = t
  /\ vec_it' = [vec_it EXCEPT ![t] = 1]
  /\ promised' = [promised EXCEPT ![t] = {s \in Subscriber : event[t].type \in subscribed[s]}]
  /\ Goto(t, "cycle")
  /\ UNCHANGED <<m_subscribers, brokerHeld, held, threads, event, sub_ptr, published, subscribed, due>>

Leave(t) ==
  /\ m_mutex' = Nobody
  /\ Goto(t, "idle")
  /\ event' = [event EXCEPT ![t] = Null]
  /\ promised' = [promised EXCEPT ![t] = {}]
  /\ due' = [s \in Subscriber |->
               IF s \in promised[t] /\ ~Cancelled(s) THEN due[s] \cup {event[t]} ELSE due[s]]
  /\ UNCHANGED <<m_subscribers, vec_it>>

\* One turn of the loop, up to the test of expired().
Cycle(t) ==
  /\ pc[t] = "cycle"
  /\ LET vec == m_subscribers[event[t].type] IN
       \/ vec_it[t] > Len(vec) /\ Leave(t)
       \/ /\ vec_it[t] <= Len(vec) /\ Alive(vec[vec_it[t]])
          /\ Goto(t, "lock")
          /\ UNCHANGED <<broker, event, vec_it, promised, due>>
       \/ /\ vec_it[t] <= Len(vec) /\ ~Alive(vec[vec_it[t]])
          /\ m_subscribers' = [m_subscribers EXCEPT ![event[t].type] = RemoveAt(vec, vec_it[t])]
          /\ UNCHANGED <<m_mutex, pc, event, vec_it, promised, due>>
  /\ UNCHANGED <<brokerHeld, held, threads, sub_ptr, published, subscribed>>

LockMutant(t) ==
  /\ pc[t] = "lock"
  /\ LET s == m_subscribers[event[t].type][vec_it[t]] IN
       IF Alive(s)
       THEN /\ sub_ptr' = [sub_ptr EXCEPT ![t] = s]
            /\ m_events' = [m_events EXCEPT ![s] = <<event[t]>> \o @]
            /\ Goto(t, "release")
       ELSE Goto(t, "crashed") /\ UNCHANGED <<sub_ptr, m_events>>
  /\ UNCHANGED <<broker, brokerHeld, held, m_thread, handling, consumed, event, vec_it, published, account>>

\* The weak pointer is locked and the subscriber it gave notified: its queue grows.
Lock(t) ==
  /\ pc[t] = "lock"
  /\ LET s == m_subscribers[event[t].type][vec_it[t]] IN
       IF Alive(s)
       THEN /\ sub_ptr' = [sub_ptr EXCEPT ![t] = s]
            /\ m_events' = [m_events EXCEPT ![s] = Append(@, event[t])]
            /\ Goto(t, "release")
       ELSE Goto(t, "crashed") /\ UNCHANGED <<sub_ptr, m_events>>
  /\ UNCHANGED <<broker, brokerHeld, held, m_thread, handling, consumed, event, vec_it, published, account>>

\* vec_it++, and the end of sub_ptr's scope: if it was the last pointer the
\* subscriber is destroyed here, under the broker's mutex.
Release(t) ==
  /\ pc[t] = "release"
  /\ vec_it' = [vec_it EXCEPT ![t] = @ + 1]
  /\ IF held[sub_ptr[t]]
     THEN Goto(t, "cycle") /\ sub_ptr' = [sub_ptr EXCEPT ![t] = Nobody]
     ELSE Goto(t, "destroy") /\ UNCHANGED sub_ptr
  /\ UNCHANGED <<broker, brokerHeld, held, threads, event, published, account>>

-------------------------------------------------------------------------------
(* AsyncSubscriber: its client's calls... *)

Start(t, s) ==
  /\ pc[t] = "idle" /\ Owner[s] = t /\ held[s]
  /\ m_thread[s] = "unstarted"
  /\ m_thread' = [m_thread EXCEPT ![s] = "pop"]
  /\ UNCHANGED <<broker, brokerHeld, held, m_events, handling, consumed, calls, account>>

Cancels(s) == Cardinality({i \in DOMAIN m_events[s] : m_events[s][i] = Null})

CancelMutant(t, s) ==
  /\ pc[t] = "idle" /\ Owner[s] = t /\ held[s]
  /\ Cancels(s) < MaxCancels
  /\ m_events' = [m_events EXCEPT ![s] = <<Null>> \o @]
  /\ UNCHANGED <<broker, brokerHeld, held, m_thread, handling, consumed, calls, account>>

\* Thread::cancel returns at once for a DEFERRED thread.
Cancel(t, s) ==
  /\ pc[t] = "idle" /\ Owner[s] = t /\ held[s]
  /\ Cancels(s) < MaxCancels
  /\ m_events' = [m_events EXCEPT ![s] = Append(@, Null)]
  /\ UNCHANGED <<broker, brokerHeld, held, m_thread, handling, consumed, calls, account>>

\* join of a thread that is joinable; stop is Cancel and then Join.
Join(t, s) ==
  /\ pc[t] = "idle" /\ Owner[s] = t /\ held[s]
  /\ m_thread[s] \in {"pop", "consume", "done"}
  /\ Cancelled(s)
  /\ sub_ptr' = [sub_ptr EXCEPT ![t] = s]
  /\ Goto(t, "join")
  /\ UNCHANGED <<broker, brokerHeld, held, threads, event, vec_it, published, account>>

Joined(t) ==
  /\ pc[t] = "join" /\ m_thread[sub_ptr[t]] = "done"
  /\ m_thread' = [m_thread EXCEPT ![sub_ptr[t]] = "joined"]
  /\ sub_ptr' = [sub_ptr EXCEPT ![t] = Nobody]
  /\ Goto(t, "idle")
  /\ UNCHANGED <<broker, brokerHeld, held, m_events, handling, consumed, event, vec_it, published, account>>

InBroker(s) == \E y \in Type : Contains(m_subscribers[y], s)

\* The client's shared pointer goes.
Drop(t, s) ==
  /\ pc[t] = "idle" /\ Owner[s] = t /\ held[s]
  /\ QuietRelease => ~InBroker(s)
  /\ StopFirst => m_thread[s] \in {"unstarted", "joined"}
  /\ held' = [held EXCEPT ![s] = FALSE]
  /\ IF \E u \in Thread : pc[u] = "release" /\ sub_ptr[u] = s
     THEN UNCHANGED <<pc, sub_ptr>>
     ELSE Goto(t, "destroy") /\ sub_ptr' = [sub_ptr EXCEPT ![t] = s]
  /\ UNCHANGED <<broker, brokerHeld, threads, event, vec_it, published, account>>

\* ~AsyncSubscriber destroys m_events and then ~Thread calls cancel, which a
\* DEFERRED thread ignores, and joins: a thread that still runs uses a queue that
\* is gone.
Destroyed(t) ==
  /\ pc[t] = "destroy"
  /\ \/ /\ m_thread[sub_ptr[t]] \in {"unstarted", "done", "joined"}
        /\ sub_ptr' = [sub_ptr EXCEPT ![t] = Nobody]
        /\ Goto(t, IF event[t] = Null THEN "idle" ELSE "cycle")
     \/ /\ m_thread[sub_ptr[t]] \in {"pop", "consume"}
        /\ Goto(t, "crashed") /\ UNCHANGED sub_ptr
  /\ UNCHANGED <<broker, brokerHeld, held, threads, event, vec_it, published, account>>

DropBroker ==
  /\ BrokerOwner # Nobody /\ pc[BrokerOwner] = "idle" /\ brokerHeld
  /\ brokerHeld' = FALSE
  /\ UNCHANGED <<broker, held, threads, calls, account>>

(* ... and its thread. *)

PopMutant(s) ==
  /\ m_thread[s] = "pop" /\ m_events[s] # <<>>
  /\ m_events' = [m_events EXCEPT ![s] = Tail(@)]
  /\ handling' = [handling EXCEPT ![s] = Head(m_events[s])]
  /\ m_thread' = [m_thread EXCEPT ![s] = "consume"]
  /\ UNCHANGED <<broker, brokerHeld, held, consumed, calls, account>>

\* run: the next event, or the null event that ends the loop.
Pop(s) ==
  /\ m_thread[s] = "pop" /\ m_events[s] # <<>>
  /\ m_events' = [m_events EXCEPT ![s] = Tail(@)]
  /\ handling' = [handling EXCEPT ![s] = Head(m_events[s])]
  /\ m_thread' = [m_thread EXCEPT ![s] = IF Head(m_events[s]) = Null THEN "done" ELSE "consume"]
  /\ UNCHANGED <<broker, brokerHeld, held, consumed, calls, account>>

Consume(s) ==
  /\ m_thread[s] = "consume"
  /\ consumed' = [consumed EXCEPT ![s] = Append(@, handling[s])]
  /\ handling' = [handling EXCEPT ![s] = Null]
  /\ m_thread' = [m_thread EXCEPT ![s] = "pop"]
  /\ UNCHANGED <<broker, brokerHeld, held, m_events, calls, account>>

-------------------------------------------------------------------------------
ClientStep(t) ==
  \/ BrokerExpired(t) \/ LockBroker(t) \/ Enter(t) \/ Cycle(t) \/ Lock(t) \/ Release(t)
  \/ Joined(t) \/ Destroyed(t)

SubscriberStep(s) == Pop(s) \/ Consume(s)

ClientCall(t) ==
  \/ \E y \in Type : Publish(t, y)
  \/ \E s \in Subscriber : \/ \E types \in SUBSET Type \ {{}} : Subscribe(t, s, types) \/ Unsubscribe(t, s, types)
                           \/ Start(t, s) \/ Cancel(t, s) \/ Join(t, s) \/ Drop(t, s)

Next ==
  /\ ~Crashed
  /\ \/ \E t \in Thread : ClientCall(t) \/ ClientStep(t)
     \/ \E s \in Subscriber : SubscriberStep(s)
     \/ DropBroker

Spec == Init /\ [][Next]_vars
FairSpec == /\ Spec
            /\ \A t \in Thread : WF_vars(~Crashed /\ ClientStep(t))
            /\ \A s \in Subscriber : WF_vars(~Crashed /\ SubscriberStep(s))
-------------------------------------------------------------------------------
(* Properties. *)

\* Every variable keeps its type.
TypeOK ==
  /\ m_subscribers \in [Type -> Seq(Subscriber \cup {Nobody})]
  /\ m_mutex \in Thread \cup {Nobody}
  /\ brokerHeld \in BOOLEAN
  /\ held \in [Subscriber -> BOOLEAN]
  /\ m_events \in [Subscriber -> Seq(Event \cup {Null})]
  /\ m_thread \in [Subscriber -> ThreadLabels]
  /\ handling \in [Subscriber -> Event \cup {Null}]
  /\ consumed \in [Subscriber -> Seq(Event)]
  /\ pc \in [Thread -> ClientLabels]
  /\ event \in [Thread -> Event \cup {Null}]
  /\ vec_it \in [Thread -> Nat \ {0}]
  /\ sub_ptr \in [Thread -> Subscriber \cup {Nobody}]
  /\ published \in 0 .. MaxEvents
  /\ subscribed \in [Subscriber -> SUBSET Type]
  /\ promised \in [Thread -> SUBSET Subscriber]
  /\ due \in [Subscriber -> SUBSET Event]

\* Two subscribers that both receive two events receive them in the same order,
\* whatever threads published them.  A subscriber's null events are not in question.
Received(s) ==
  consumed[s] \o (IF handling[s] = Null THEN <<>> ELSE <<handling[s]>>) \o m_events[s]
Before(s, e, f) == \E i, j \in DOMAIN Received(s) : i < j /\ Received(s)[i] = e /\ Received(s)[j] = f
SameOrder ==
  \A s, r \in Subscriber : \A e, f \in ToSet(Received(s)) \ {Null} :
    e # f /\ Before(s, e, f) => ~Before(r, f, e)

\* A subscriber that stops has consumed every event whose publication returned,
\* while it was subscribed, before it was cancelled.
DrainedOnStop ==
  \A s \in Subscriber : m_thread[s] \in {"done", "joined"} => due[s] \subseteq ToSet(consumed[s])

\* A subscriber is notified only of types it is subscribed to.
OnlySubscribed ==
  [][\A s \in Subscriber, t \in Thread :
       pc[t] = "lock" /\ m_events'[s] # m_events[s] /\ pc'[t] = "release"
         => event[t].type \in subscribed[s]]_vars

\* What unsubscribe says it leaves of a list: everyone but the caller and the
\* expired ones, each once for each of their subscriptions and in their order.
Cleaned(new, vec, s) ==
  \E at \in [DOMAIN new -> DOMAIN vec] :
    /\ \A k, l \in DOMAIN new : k < l => at[k] < at[l]
    /\ \A k \in DOMAIN new : new[k] = vec[at[k]]
    /\ \A i \in DOMAIN vec : (\E k \in DOMAIN new : at[k] = i) <=> vec[i] # s /\ Alive(vec[i])

\* unsubscribe removes all expired subscribers and the caller from the lists of the
\* types it names, and nobody else, whose places keep their order.
UnsubscribeCleans ==
  [][\A s \in Subscriber, y \in Type :
       y \in subscribed[s] /\ y \notin subscribed'[s]
         => Cleaned(m_subscribers'[y], m_subscribers[y], s)]_vars

\* Every publish returns, and so does every join of a cancelled subscriber and
\* every release: nobody waits for ever, and no expired pointer is dereferenced.
CallsReturn == \A t \in Thread : pc[t] # "idle" ~> pc[t] = "idle"
==============================================================================
