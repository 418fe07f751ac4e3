---------------------------- MODULE EventHandler -----------------------------
(****************************************************************************)
(* ccl::cli::ui::EventHandler: a Thread, cancelled AT_CONDITION_CHECK, that *)
(* waits with epoll for input and for the interrupt descriptor, and puts    *)
(* each input it reads in a ring of events.                                 *)
(*                                                                          *)
(* The ring is the deque that ConcurrentRingBuffer implements for a putter  *)
(* and a popper: it drops its oldest event when it is full.  Only the       *)
(* application's thread calls start, cancel and join.                       *)
(****************************************************************************)
EXTENDS Naturals, Sequences

CONSTANTS
  Input,     \* the key presses and mouse actions a user can make, as events
  Unknown,   \* the event of a sequence that Event::from does not recognise
  Capacity,  \* the ring's capacity, 100 in the code
  MaxTyped   \* bound: inputs the user ever makes

ASSUME HandlerAssumption == Unknown \notin Input /\ Capacity \in Nat \ {0} /\ MaxTyped \in Nat

VARIABLES
  typed,        \* what the terminal holds: the inputs not read yet
  typedCount,   \* how many inputs the user made
  m_events,     \* the ring of events
  m_epoll_fd,   \* the epoll descriptor: "none" (-1 in the code), "open" or "closed"
  m_eint_fd,    \* the interrupt descriptor
  interrupted,  \* whether the interrupt descriptor has been written
  m_thread,     \* "none" before start, "running", "ended" when run() returned, "joined"
  m_cancelled,  \* Thread::m_cancelled
  label         \* where run() is

descriptors == <<m_epoll_fd, m_eint_fd, interrupted>>
terminal == <<typed, typedCount>>
handlerVars == <<terminal, m_events, descriptors, m_thread, m_cancelled, label>>

Labels == {"epoll_create1", "add_stdin", "eventfd", "add_eint", "check", "epoll_wait", "read", "end"}
Descriptor == {"none", "open", "closed"}

HandlerInit ==
  /\ typed = <<>>
  /\ typedCount = 0
  /\ m_events = <<>>
  /\ m_epoll_fd = "none"
  /\ m_eint_fd = "none"
  /\ interrupted = FALSE
  /\ m_thread = "none"
  /\ m_cancelled = FALSE
  /\ label = "epoll_create1"

\* The user presses a key, or uses the mouse.
Press ==
  /\ typedCount < MaxTyped
  /\ typedCount' = typedCount + 1
  /\ \E i \in Input : typed' = Append(typed, i)
  /\ UNCHANGED <<m_events, descriptors, m_thread, m_cancelled, label>>

-------------------------------------------------------------------------------
(* The calls of the application's thread.  These say nothing of the variables *)
(* they leave alone: each is a part of a step of UIApplication.               *)

Start == m_thread' = "running"

\* A started thread that is not DEFERRED.
Cancel == m_cancelled' = TRUE

\* A definition named ...Mutant is the next one with a plausible fault.
SendInterruptMutant == UNCHANGED interrupted

\* The interrupt is lost while the descriptor does not exist.
SendInterrupt == interrupted' = (interrupted \/ m_eint_fd = "open")

Close(fd) == IF fd = "open" THEN "closed" ELSE fd

TearDown ==
  /\ m_epoll_fd' = Close(m_epoll_fd)
  /\ m_eint_fd' = Close(m_eint_fd)

JoinMutant ==
  /\ m_thread' = "joined"
  /\ TearDown

\* join returns once run() has, and tears down.
Join ==
  /\ m_thread = "ended"
  /\ m_thread' = "joined"
  /\ TearDown

-------------------------------------------------------------------------------
(* run(). *)

Goto(l) == label' = l /\ UNCHANGED <<m_cancelled, m_thread>>

\* run() returns; after a system call that failed it cancels the thread first.
Finish == label' = "end" /\ m_thread' = "ended"
Fail == Finish /\ m_cancelled' = TRUE

CreateEpoll ==
  /\ label = "epoll_create1"
  /\ \/ m_epoll_fd' = "open" /\ Goto("add_stdin")
     \/ Fail /\ UNCHANGED m_epoll_fd
  /\ UNCHANGED <<terminal, m_events, m_eint_fd, interrupted>>

AddStdin ==
  /\ label = "add_stdin"
  /\ Goto("eventfd") \/ Fail
  /\ UNCHANGED <<terminal, m_events, descriptors>>

CreateInterrupt ==
  /\ label = "eventfd"
  /\ \/ m_eint_fd' = "open" /\ Goto("add_eint")
     \/ Fail /\ UNCHANGED m_eint_fd
  /\ UNCHANGED <<terminal, m_events, m_epoll_fd, interrupted>>

AddInterrupt ==
  /\ label = "add_eint"
  /\ Goto("check") \/ Fail
  /\ UNCHANGED <<terminal, m_events, descriptors>>

Check ==
  /\ label = "check"
  /\ \/ ~m_cancelled /\ Goto("epoll_wait")
     \/ m_cancelled /\ Finish /\ UNCHANGED m_cancelled
  /\ UNCHANGED <<terminal, m_events, descriptors>>

\* epoll_wait sleeps until a descriptor is ready, and gives one...
Wait ==
  /\ label = "epoll_wait"
  /\ \/ typed # <<>> /\ Goto("read")
     \/ interrupted /\ m_cancelled' = TRUE /\ label' = "check" /\ UNCHANGED m_thread
  /\ UNCHANGED <<terminal, m_events, descriptors>>

\* ... or fails, which nothing obliges it to do.
WaitFails ==
  /\ label = "epoll_wait"
  /\ Fail
  /\ UNCHANGED <<terminal, m_events, descriptors>>

\* A signal (EINTR) sends run() back to the test of m_cancelled.  When that
\* finds nothing the handler is waiting again: that round trip is no step here.
Signal ==
  /\ label = "epoll_wait" /\ m_cancelled
  /\ Goto("check")
  /\ UNCHANGED <<terminal, m_events, descriptors>>

\* One read takes everything the terminal holds, as one sequence.  Event::from
\* recognises a sequence that is one input.
From(sequence) == IF Len(sequence) = 1 THEN Head(sequence) ELSE Unknown

Read ==
  /\ label = "read"
  /\ typed' = <<>>
  /\ m_events' = Append(IF Len(m_events) = Capacity THEN Tail(m_events) ELSE m_events, From(typed))
  /\ Goto("check")
  /\ UNCHANGED <<typedCount, descriptors>>

\* A read that fails or gives nothing ends the turn of the loop: as after a signal,
\* a handler that is not cancelled is waiting again, and that is no step here.
ReadFails ==
  /\ label = "read" /\ m_cancelled
  /\ Goto("check")
  /\ UNCHANGED <<terminal, m_events, descriptors>>

HandlerStep ==
  /\ m_thread = "running"
  /\ CreateEpoll \/ AddStdin \/ CreateInterrupt \/ AddInterrupt \/ Check \/ Wait \/ Read
HandlerAccident == m_thread = "running" /\ (Signal \/ WaitFails \/ ReadFails)
==============================================================================
