---------------------------- MODULE UIApplication ----------------------------
(****************************************************************************)
(* ccl::cli::ui::UIApplication: run() starts the EventHandler and, until    *)
(* control-C, quit() or the handler's end, draws a frame, waits for an      *)
(* event, and gives it to the widget in focus; tearDown then stops the      *)
(* handler.  run() is called once, and the widgets stay where they are.     *)
(*                                                                          *)
(* A place is the innermost widget there, or NoWidget.  A mouse event is    *)
(* one of the left button: the application ignores the others.  One button  *)
(* has its onClick connected to quit.                                       *)
(****************************************************************************)
EXTENDS EventHandler

CONSTANTS
  Widget,     \* the widgets on the screen, below its root panel
  Area,       \* Area[w]: the places inside the widget w
  Clickable,  \* the buttons
  QuitButton, \* the button connected to quit
  NoWidget,   \* a null Widget pointer; a place outside every widget
  CtrlC       \* the event of control-C

ASSUME ApplicationAssumption ==
  /\ NoWidget \notin Widget
  /\ Area \in [Widget -> SUBSET Widget]
  /\ \A w \in Widget : w \in Area[w]
  /\ Clickable \subseteq Widget /\ QuitButton \in Clickable
  /\ CtrlC \in Input
  /\ \A i \in Input : /\ i.type \in {"key", "mouse"}
                      /\ i.type = "mouse" => i.place \in Widget \cup {NoWidget} /\ i.press \in BOOLEAN
  /\ Unknown.type = "unknown" /\ CtrlC.type = "key"

VARIABLES
  m_running,         \* the loop's condition
  m_last_event,      \* the event being handled
  m_focused_widget,  \* the widget that receives the keys
  m_has_focus,       \* Widget::m_has_focus of each widget
  pc                 \* where the application's thread is in run()

application == <<m_running, m_last_event, m_focused_widget, m_has_focus, pc>>
focus == <<m_focused_widget, m_has_focus>>
vars == <<handlerVars, application>>

AppLabels == {"idle", "loop", "draw", "getEvent", "handle", "interrupt", "stop", "join", "done"}

Init ==
  /\ HandlerInit
  /\ m_running = FALSE
  /\ m_last_event = Unknown
  /\ m_focused_widget = NoWidget
  /\ m_has_focus = [w \in Widget |-> FALSE]
  /\ pc = "idle"

Run ==
  /\ pc = "idle"
  /\ Start
  /\ m_running' = TRUE
  /\ pc' = "loop"
  /\ UNCHANGED <<terminal, m_events, descriptors, m_cancelled, label, m_last_event, focus>>

Loop ==
  /\ pc = "loop"
  /\ pc' = IF m_running /\ ~m_cancelled THEN "draw" ELSE "interrupt"
  /\ UNCHANGED <<handlerVars, m_running, m_last_event, focus>>

\* An exception of the drawing or of the cursor's position ends the loop.
Draw ==
  /\ pc = "draw"
  /\ pc' \in {"getEvent", "interrupt"}
  /\ UNCHANGED <<handlerVars, m_running, m_last_event, focus>>

\* popFront waits for an event.
GetEvent ==
  /\ pc = "getEvent"
  /\ m_events # <<>>
  /\ m_last_event' = Head(m_events)
  /\ m_events' = Tail(m_events)
  /\ pc' = "handle"
  /\ UNCHANGED <<terminal, descriptors, m_thread, m_cancelled, label, m_running, focus>>

HandleCtrlC ==
  /\ m_last_event = CtrlC
  /\ m_running' = FALSE
  /\ pc' = "interrupt"
  /\ UNCHANGED <<handlerVars, m_last_event, focus>>

\* A key goes to the slots of the widget in focus; an unknown event to nobody.
HandleKey ==
  /\ m_last_event.type # "mouse" /\ m_last_event # CtrlC
  /\ pc' = "loop"
  /\ UNCHANGED <<handlerVars, m_running, m_last_event, focus>>

\* The widget under the mouse takes the focus, unless the mouse is still inside
\* the one that has it.  A button has the focus while it is pressed.
Inside(w, place) == w # NoWidget /\ place # NoWidget /\ place \in Area[w]
Target(place) == IF Inside(m_focused_widget, place) THEN m_focused_widget ELSE place

SetFocusMutant(place, press) ==
  LET target == Target(place) IN
    [w \in Widget |-> IF w = target THEN (w \in Clickable => press) ELSE m_has_focus[w]]

SetFocus(place, press) ==
  LET target == Target(place) IN
    [w \in Widget |->
       IF w = target THEN (w \in Clickable => press)
       ELSE m_has_focus[w] /\ ~(w = m_focused_widget /\ w # target)]

Quit == SendInterrupt /\ m_running' = FALSE

\* A button that loses the focus is clicked.
HandleMouse ==
  /\ m_last_event.type = "mouse"
  /\ m_focused_widget' = Target(m_last_event.place)
  /\ m_has_focus' = SetFocus(m_last_event.place, m_last_event.press)
  /\ IF m_has_focus[QuitButton] /\ ~m_has_focus'[QuitButton]
     THEN Quit
     ELSE UNCHANGED <<interrupted, m_running>>
  /\ pc' = "loop"
  /\ UNCHANGED <<terminal, m_events, m_epoll_fd, m_eint_fd, m_thread, m_cancelled, label, m_last_event>>

Handle == pc = "handle" /\ (HandleCtrlC \/ HandleKey \/ HandleMouse)

\* tearDown: sendInterrupt, then stop, which is cancel and join.
Interrupt ==
  /\ pc = "interrupt"
  /\ SendInterrupt
  /\ pc' = "stop"
  /\ UNCHANGED <<terminal, m_events, m_epoll_fd, m_eint_fd, m_thread, m_cancelled, label, m_running, m_last_event, focus>>

Stop ==
  /\ pc = "stop"
  /\ Cancel
  /\ pc' = "join"
  /\ UNCHANGED <<terminal, m_events, descriptors, m_thread, label, m_running, m_last_event, focus>>

JoinHandler ==
  /\ pc = "join"
  /\ Join
  /\ pc' = "done"
  /\ UNCHANGED <<terminal, m_events, interrupted, m_cancelled, label, m_running, m_last_event, focus>>

AppStep == Run \/ Loop \/ Draw \/ GetEvent \/ Handle \/ Interrupt \/ Stop \/ JoinHandler

Next ==
  \/ AppStep
  \/ (HandlerStep \/ HandlerAccident) /\ UNCHANGED application
  \/ Press /\ UNCHANGED application

Spec == Init /\ [][Next]_vars
FairSpec == Spec /\ WF_vars(AppStep) /\ WF_vars(HandlerStep /\ UNCHANGED application)

-------------------------------------------------------------------------------
(* Properties. *)

\* Every variable keeps its type.
UiTypeOK ==
  /\ typed \in Seq(Input)
  /\ typedCount \in 0 .. MaxTyped
  /\ m_events \in Seq(Input \cup {Unknown}) /\ Len(m_events) <= Capacity
  /\ m_epoll_fd \in Descriptor /\ m_eint_fd \in Descriptor
  /\ {interrupted, m_cancelled, m_running} \subseteq BOOLEAN
  /\ m_thread \in {"none", "running", "ended", "joined"}
  /\ label \in Labels
  /\ m_last_event \in Input \cup {Unknown}
  /\ m_focused_widget \in Widget \cup {NoWidget}
  /\ m_has_focus \in [Widget -> BOOLEAN]
  /\ pc \in AppLabels

\* The handler's descriptors outlive its run(), whichever system call failed
\* and whatever ended the loop, and none is left open when run() returns.
DescriptorsOutliveHandler ==
  /\ "closed" \in {m_epoll_fd, m_eint_fd} => label = "end"
  /\ pc = "done" => "open" \notin {m_epoll_fd, m_eint_fd}

\* One widget at most has the focus, and it is the one the application gives
\* the keys to: a click elsewhere, or the end of a drag, takes it back.
OneFocus == \A w \in Widget : m_has_focus[w] => w = m_focused_widget

\* An interrupt that reached its descriptor ends the application: the handler
\* ends, and the loop does not wait for an event that nobody would put.
InterruptEnds == interrupted ~> pc = "done"

\* A control-C put in the ring while the loop runs ends the application, unless
\* the ring fills up.
CtrlCEnds ==
  (pc \in {"loop", "draw", "getEvent", "handle"} /\ \E i \in DOMAIN m_events : m_events[i] = CtrlC)
    ~> (pc = "done" \/ Len(m_events) = Capacity)

\* What the user does to end the application ends it: control-C, or the click
\* that calls quit(), which sends an interrupt.
EndsWhenAsked == InterruptEnds /\ CtrlCEnds
==============================================================================
