----------------------------- MODULE ThreadObject -----------------------------
(****************************************************************************)
(* ccl::sys::concurrent::Thread: one object, the thread that it runs, its   *)
(* owner, who makes all the calls, and another thread that may only cancel. *)
(* What a derived class overrides, run and tearDown, is there until the     *)
(* owner begins to destroy the object.  That the object is moved, and that  *)
(* a policy is set beside a cancel, are left out.                           *)
(****************************************************************************)
EXTENDS Integers

VARIABLES
  m_thread,    \* the std::thread: "null", "joinable", "joined" or "detached"
  m_policy, m_daemon, m_cancelled, m_started,
  wanted,      \* the policy and daemon given to the static start, or NotWanted
  body,        \* the system's thread: "none", "created", "running" or "ended"
  killed,      \* pthread_cancel was called on it
  object,      \* "alive", "base" once the derived part is destroyed, then "gone"
  at, after,   \* where the owner's call is, and what the call does after its cancel
  aiming,      \* the other thread is in cancel, past its test
  joined,      \* a join or a stop of a started thread, no daemon, has returned
  tornDown,    \* the calls of the derived tearDown
  crashed      \* "no", or what ends the program

threadVars == <<m_thread, m_policy, m_daemon, m_cancelled, m_started, wanted, body, killed,
                object, at, after, aiming, joined, tornDown, crashed>>

Policies == {"AT_CANCELLATION_POINT", "AT_CONDITION_CHECK", "DEFERRED"}
NotWanted == [policy |-> "DEFERRED", daemon |-> FALSE]

\* Thread(name, daemon, policy), or the ThreadImpl that the static start makes.
Init ==
  /\ m_thread = "null" /\ m_cancelled = FALSE /\ m_started = FALSE
  /\ \/ m_policy \in Policies /\ m_daemon \in BOOLEAN /\ wanted = NotWanted /\ at = "idle"
     \/ m_policy = "DEFERRED" /\ m_daemon = FALSE /\ wanted \in [policy : Policies, daemon : BOOLEAN] /\ at = "start"
  /\ body = "none" /\ killed = FALSE /\ object = "alive"
  /\ after = "idle" /\ aiming = FALSE
  /\ joined = FALSE /\ tornDown = 0 /\ crashed = "no"

Goes(from, to) == at = from /\ at' = to
Fields == <<m_policy, m_daemon, m_cancelled, m_started>>
Others == <<body, killed, object, aiming, joined, tornDown, crashed>>

-----------------------------------------------------------------------------
\* start: nothing on a thread that was started before.
CallStart ==
  /\ Goes("idle", "start") /\ ~m_started
  /\ UNCHANGED <<m_thread, Fields, wanted, after, Others>>

\* std::make_unique<std::thread>(&Thread::run, this)
MakeThread ==
  /\ Goes("start", "store")
  /\ m_thread' = "joinable" /\ body' = "created"
  /\ UNCHANGED <<Fields, wanted, killed, object, after, aiming, joined, tornDown, crashed>>

StoreStarted ==
  /\ Goes("store", IF wanted # NotWanted THEN "policy" ELSE IF m_daemon THEN "detach" ELSE "idle")
  /\ m_started' = TRUE
  /\ UNCHANGED <<m_thread, m_policy, m_daemon, m_cancelled, wanted, after, Others>>

\* The static start sets the policy once the thread runs.
SetWantedPolicy ==
  /\ Goes("policy", IF wanted.daemon THEN "detach" ELSE "idle")
  /\ m_policy' = wanted.policy
  /\ UNCHANGED <<m_thread, m_daemon, m_cancelled, m_started, wanted, after, Others>>

\* detach, of start or of the owner: on a cancelled thread it does nothing; on one
\* that is not joinable std::thread::detach throws, which leaves the thread and
\* m_daemon as they were and is its caller's to handle.
Detach ==
  /\ at \in {"idle", "detach"} /\ at' = "idle"
  /\ object = "alive"
  /\ IF ~m_cancelled /\ m_thread = "joinable"
     THEN m_thread' = "detached" /\ m_daemon' = TRUE
     ELSE UNCHANGED <<m_thread, m_daemon>>
  /\ UNCHANGED <<m_policy, m_cancelled, m_started, wanted, after, Others>>

\* setAffinity: native_handle of a std::thread that has no thread is null.
SetAffinity ==
  /\ at = "idle" /\ m_thread \in {"joined", "detached"}
  /\ crashed' = "null handle"
  /\ UNCHANGED <<m_thread, Fields, wanted, body, killed, object, at, after, aiming, joined, tornDown>>

-----------------------------------------------------------------------------
\* The test of cancel, and what it does behind it.
Cancels == m_thread # "null" /\ ~m_cancelled /\ m_started /\ m_policy # "DEFERRED"

TakeEffect ==
  /\ killed' = (killed \/ (m_policy = "AT_CANCELLATION_POINT" /\ m_thread = "joinable"))
  /\ crashed' = IF m_policy = "AT_CANCELLATION_POINT" /\ m_thread # "joinable" THEN "null handle" ELSE crashed
  /\ m_cancelled' = TRUE

\* cancel, stop and the destructor, which comes after the derived part's.
CallCancel(then) ==
  /\ Goes("idle", "cancel") /\ after' = then
  /\ then = "destroy" => ~aiming
  /\ object' = IF then = "destroy" THEN "base" ELSE object
  /\ UNCHANGED <<m_thread, Fields, wanted, body, killed, aiming, joined, tornDown, crashed>>

TestCancel ==
  /\ Goes("cancel", IF Cancels THEN "effect" ELSE IF after = "idle" THEN "idle" ELSE "join")
  /\ UNCHANGED <<m_thread, Fields, wanted, after, Others>>

Effect ==
  /\ Goes("effect", IF after = "idle" THEN "idle" ELSE "join")
  /\ TakeEffect
  /\ UNCHANGED <<m_thread, m_policy, m_daemon, m_started, wanted, body, object, after, aiming, joined, tornDown>>

CallJoin ==
  /\ Goes("idle", "join") /\ after' = "idle"
  /\ UNCHANGED <<m_thread, Fields, wanted, Others>>

isJoinable == m_thread = "joinable" /\ ~m_daemon

JoinMutant ==
  /\ Goes("join", IF after = "destroy" THEN "last" ELSE "idle")
  /\ isJoinable => body = "ended"
  /\ m_thread' = IF isJoinable THEN "joined" ELSE m_thread
  /\ tornDown' = IF object = "alive" THEN tornDown + 1 ELSE tornDown
  /\ joined' = (joined \/ (m_started /\ ~m_daemon /\ after # "destroy"))
  /\ UNCHANGED <<Fields, wanted, body, killed, object, after, aiming, crashed>>

\* join waits for the end of the thread and tears down; without the derived
\* part that is Thread::tearDown, which is empty.
Join ==
  /\ Goes("join", IF after = "destroy" THEN "last" ELSE "idle")
  /\ isJoinable => body = "ended"
  /\ m_thread' = IF isJoinable THEN "joined" ELSE m_thread
  /\ tornDown' = IF isJoinable /\ object = "alive" THEN tornDown + 1 ELSE tornDown
  /\ joined' = (joined \/ (m_started /\ ~m_daemon /\ after # "destroy"))
  /\ UNCHANGED <<Fields, wanted, body, killed, object, after, aiming, crashed>>

\* The members of Thread go: a std::thread that is still joinable terminates.
DestroyMembers ==
  /\ Goes("last", "gone")
  /\ object' = "gone"
  /\ crashed' = IF m_thread = "joinable" THEN "terminate" ELSE crashed
  /\ UNCHANGED <<m_thread, Fields, wanted, body, killed, after, aiming, joined, tornDown>>

-----------------------------------------------------------------------------
\* The other thread's cancel.
OtherTest ==
  /\ object = "alive" /\ ~aiming /\ Cancels
  /\ aiming' = TRUE
  /\ UNCHANGED <<m_thread, Fields, wanted, body, killed, object, at, after, joined, tornDown, crashed>>

OtherEffect ==
  /\ aiming /\ aiming' = FALSE
  /\ TakeEffect
  /\ UNCHANGED <<m_thread, m_policy, m_daemon, m_started, wanted, body, object, at, after, joined, tornDown>>

\* The thread calls run: that of a derived part which is gone is pure virtual.
Begin ==
  /\ body = "created" /\ body' = "running"
  /\ crashed' = IF object = "alive" THEN crashed ELSE "pure virtual"
  /\ UNCHANGED <<m_thread, Fields, wanted, killed, object, at, after, aiming, joined, tornDown>>

\* run cancels its own thread, as that of the EventHandler does.
RunCancels ==
  /\ body = "running" /\ object # "gone" /\ m_cancelled' = TRUE
  /\ UNCHANGED <<m_thread, m_policy, m_daemon, m_started, wanted, at, after, Others>>

\* run returns, or the thread was killed.
End ==
  /\ body = "running" \/ (body = "created" /\ killed)
  /\ body' = "ended"
  /\ UNCHANGED <<m_thread, Fields, wanted, killed, object, at, after, aiming, joined, tornDown, crashed>>

Next ==
  /\ crashed = "no"
  /\ \/ CallStart \/ MakeThread \/ StoreStarted \/ SetWantedPolicy \/ Detach \/ SetAffinity
     \/ \E then \in {"idle", "join", "destroy"} : CallCancel(then)
     \/ TestCancel \/ Effect \/ CallJoin \/ Join \/ DestroyMembers
     \/ OtherTest \/ OtherEffect \/ Begin \/ RunCancels \/ End

Spec == Init /\ [][Next]_threadVars
-----------------------------------------------------------------------------
\* However the owner's calls, a cancel from another thread, and run interleave:
\* when a join or a stop of a thread that is no daemon has returned, run has
\* ended and tearDown was called, once; and the program is only brought down by
\* a call of run on an object already being destroyed, by a native handle asked
\* of a thread that was detached or joined, or by the end of a daemon that was
\* cancelled before start could detach it.
EndsWell ==
  /\ joined /\ ~m_daemon => body = "ended" /\ tornDown = 1
  /\ tornDown <= 1 /\ (tornDown = 1 => body = "ended")
  /\ crashed = "terminate" => m_daemon /\ m_cancelled
  /\ crashed = "pure virtual" => object # "alive"
  /\ crashed = "null handle" => m_thread \in {"joined", "detached"}
=============================================================================
