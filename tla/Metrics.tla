-------------------------------- MODULE Metrics --------------------------------
(****************************************************************************)
(* MetricsCollector and MetricsBroker: a function creates a collector when  *)
(* it begins, collects once before it returns, and the end of its scope     *)
(* destroys the collector, which publishes an event.  The broker keeps, for *)
(* each thread, a stack of weak references to its collectors.  The clock,   *)
(* the CPU time and the heap of the process are one reading; the use of the *)
(* stack and the strings of /proc are left out, and a function has its      *)
(* collector's number for a name.                                           *)
(****************************************************************************)
EXTENDS Integers, Sequences, SequencesExt

CONSTANTS
  Tid,
  MaxCollectors,   \* bound: how many collectors there are after the last one that a thread creates
  MaxReading,      \* bound: what the system tells
  MaxCollects      \* bound: the calls of collect on a collector

VARIABLES
  m_metrics_map,   \* each thread's stack of the collectors it created
  collectors,      \* every collector, by its number; one not alive is the event that it published
  reading          \* what the system tells of the time, the CPU and the heap

metricsVars == <<m_metrics_map, collectors, reading>>

NoName == 0
NotRead == "unset"
Alive(c) == collectors[c].alive

\* The last four fields are not in the program: who called the function, what
\* the system told when it began and when it last collected, and how often it did.
NewCollector(tid, caller) ==
  [tid |-> tid, m_parent |-> NoName, alive |-> TRUE, m_start_time |-> reading, m_duration |-> NotRead,
   m_cpu_time |-> reading, m_heap_usage |-> reading, m_heap_res |-> reading,
   caller |-> caller, began |-> reading, last |-> reading, collects |-> 0]

Init ==
  /\ m_metrics_map = [t \in Tid |-> <<>>]
  /\ collectors = <<>>
  /\ reading = 0

\* The function that thread t is in, NoName when it has no collector.
Innermost(t) ==
  LET mine == {c \in DOMAIN collectors : collectors[c].tid = t /\ Alive(c)}
  IN  IF mine = {} THEN NoName ELSE CHOOSE c \in mine : \A d \in mine : d <= c

-----------------------------------------------------------------------------
\* What addMetricsCollector leaves of a stack before it pushes: it pops one
\* reference that expired, whatever lies below.
WithoutExpired(stack) == IF stack # <<>> /\ ~Alive(Last(stack)) THEN Front(stack) ELSE stack

\* The collector before the new one, if it is alive, is given the name of the new
\* one as the name of its parent.
WithParentMutant(stack, new) ==
  [c \in DOMAIN collectors |->
     IF stack # <<>> /\ c = Head(stack) /\ Alive(c) THEN [collectors[c] EXCEPT !.m_parent = new] ELSE collectors[c]]
WithParent(stack, new) ==
  [c \in DOMAIN collectors |->
     IF stack # <<>> /\ c = Last(stack) /\ Alive(c) THEN [collectors[c] EXCEPT !.m_parent = new] ELSE collectors[c]]

Create(t) ==
  LET stack == WithoutExpired(m_metrics_map[t])
      new == Len(collectors) + 1
  IN  /\ new <= MaxCollectors[t]
      /\ m_metrics_map' = [m_metrics_map EXCEPT ![t] = Append(stack, new)]
      /\ collectors' = Append(WithParent(stack, new), NewCollector(t, Innermost(t)))
      /\ UNCHANGED reading

\* collect puts differences in the place of the readings.
Collect(c) ==
  /\ collectors[c].collects < MaxCollects
  /\ LET o == collectors[c]
     IN  collectors' = [collectors EXCEPT ![c] =
           [o EXCEPT !.m_duration = reading - o.m_start_time, !.m_cpu_time = reading - @,
                     !.m_heap_usage = reading - @, !.last = reading, !.collects = @ + 1]]
  /\ UNCHANGED <<m_metrics_map, reading>>

\* ~MetricsCollector publishes what it has.
Destroy(c) ==
  /\ LET o == collectors[c]
     IN  collectors' = [collectors EXCEPT ![c] = [o EXCEPT !.alive = FALSE, !.m_heap_res = reading - @]]
  /\ UNCHANGED <<m_metrics_map, reading>>

Work ==
  /\ reading < MaxReading
  /\ reading' = reading + 1
  /\ UNCHANGED <<m_metrics_map, collectors>>

\* Collectors are local objects: only the innermost of a thread is used, and it
\* is the first to be destroyed.
Next ==
  \/ \E t \in Tid :
       \/ Create(t)
       \/ Innermost(t) # NoName /\ (Collect(Innermost(t)) \/ Destroy(Innermost(t)))
  \/ Work

Spec == Init /\ [][Next]_metricsVars
-----------------------------------------------------------------------------
Callees(c) == {d \in DOMAIN collectors : collectors[d].caller = c}

\* However the calls of several threads nest and follow one another, an event
\* has the duration up to the last collect, and the CPU time and the growth of
\* the heap of its own call when it was collected once.  A name that
\* addMetricsCollector gives away links two functions of which one called the
\* other, and a function that called has such a link with one that it called:
\* the expired references that calls leave on a stack never make it link a
\* function with a stranger, or with nobody.  Which end of a link is the parent
\* is left to ParentIsTheCaller.
ReportsTheCall ==
  \A c \in DOMAIN collectors :
    LET o == collectors[c]
    IN  /\ o.collects > 0 => o.m_duration = o.last - o.began
        /\ o.collects = 1 => o.m_cpu_time = o.m_duration /\ o.m_heap_usage = o.m_duration
        /\ o.m_parent # NoName => o.m_parent \in Callees(c) \/ c \in Callees(o.m_parent)
        /\ Callees(c) # {} => \E d \in Callees(c) : o.m_parent = d \/ collectors[d].m_parent = c

\* An event carries the "Parent function name" (metrics_gather.hpp:57), which
\* addMetricsCollector sets when it takes the collector before the new one to
\* "set the input collector as its child" (metrics_broker.cpp:25-26): the parent
\* of a function, where it has one, is the function that called it.
ParentIsTheCaller ==
  \A c \in DOMAIN collectors : collectors[c].m_parent # NoName => collectors[c].m_parent = collectors[c].caller
==============================================================================
