------------------------- MODULE UIApplicationProofs -------------------------
(****************************************************************************)
(* Proofs about UIApplication, for any inputs, widgets and bounds: its      *)
(* types, the lifetime of the handler's descriptors, and the focus.         *)
(****************************************************************************)
EXTENDS UIApplication, TLAPS

\* The application's thread and the handler's agree on its life.
LifeInv ==
  /\ pc = "idle" => m_thread = "none"
  /\ pc = "done" => m_thread = "joined"
  /\ m_thread \in {"ended", "joined"} <=> label = "end"

DescInv == LifeInv /\ DescriptorsOutliveHandler

USE DEF Labels, AppLabels, Descriptor, handlerVars, terminal, descriptors, application, focus

\* What a full ring keeps when an event is put.
LEMMA Overwriting ==
  ASSUME NEW S, NEW q \in Seq(S), NEW n \in Nat \ {0}, Len(q) <= n, NEW e \in S,
         NEW r, r = Append(IF Len(q) = n THEN Tail(q) ELSE q, e)
  PROVE  r \in Seq(S) /\ Len(r) <= n
<1>1. CASE Len(q) = n
  <2>1. Tail(q) \in Seq(S) /\ Len(Tail(q)) = n - 1
    BY <1>1
  <2> QED BY <1>1, <2>1
<1>2. CASE Len(q) # n
  BY <1>2
<1> QED BY <1>1, <1>2

\* The event of what the terminal held.
LEMMA FromType ==
  ASSUME NEW s \in Seq(Input) PROVE From(s) \in Input \cup {Unknown}
BY DEF From

LEMMA InitTypes == Init => UiTypeOK
<1> SUFFICES ASSUME Init PROVE UiTypeOK
  OBVIOUS
<1>1. typed \in Seq(Input) /\ m_events \in Seq(Input \cup {Unknown}) /\ Len(m_events) <= Capacity
  BY HandlerAssumption DEF Init, HandlerInit
<1>2. m_has_focus \in [Widget -> BOOLEAN]
  BY DEF Init
<1>3. typedCount \in 0 .. MaxTyped
  BY HandlerAssumption DEF Init, HandlerInit
<1> QED BY <1>1, <1>2, <1>3 DEF Init, HandlerInit, UiTypeOK

\* The handler's steps, and the user's.
LEMMA HandlerTypes ==
  ASSUME UiTypeOK, UNCHANGED application, HandlerStep \/ HandlerAccident \/ Press
  PROVE  UiTypeOK'
<1> USE HandlerAssumption DEF UiTypeOK, Goto, Finish, Fail
<1>1. CASE Press
  BY <1>1 DEF Press
<1>2. CASE HandlerAccident
  BY <1>2 DEF HandlerAccident, Signal, WaitFails, ReadFails
<1>3. CASE HandlerStep
  <2>1. CASE CreateEpoll
    BY <2>1 DEF CreateEpoll
  <2>2. CASE AddStdin
    BY <2>2 DEF AddStdin
  <2>3. CASE CreateInterrupt
    BY <2>3 DEF CreateInterrupt
  <2>4. CASE AddInterrupt
    BY <2>4 DEF AddInterrupt
  <2>5. CASE Check
    BY <2>5 DEF Check
  <2>6. CASE Wait
    BY <2>6 DEF Wait
  <2>7. CASE Read
    <3>1. m_events' \in Seq(Input \cup {Unknown}) /\ Len(m_events') <= Capacity
      BY <2>7, FromType, Overwriting DEF Read
    <3> QED BY <2>7, <3>1 DEF Read
  <2> QED BY <1>3, <2>1, <2>2, <2>3, <2>4, <2>5, <2>6, <2>7 DEF HandlerStep
<1> QED BY <1>1, <1>2, <1>3

LEMMA AppTypes == ASSUME UiTypeOK, AppStep PROVE UiTypeOK'
<1> USE HandlerAssumption, ApplicationAssumption DEF UiTypeOK
<1>1. CASE Run
  BY <1>1 DEF Run, Start
<1>2. CASE Loop
  BY <1>2 DEF Loop
<1>3. CASE Draw
  BY <1>3 DEF Draw
<1>4. CASE GetEvent
  BY <1>4 DEF GetEvent
<1>5. CASE Handle
  <2>1. CASE HandleCtrlC
    BY <1>5, <2>1 DEF HandleCtrlC
  <2>2. CASE HandleKey
    BY <1>5, <2>2 DEF HandleKey
  <2>3. CASE HandleMouse
    <3>1. m_last_event \in Input /\ m_last_event.type = "mouse"
      BY <2>3 DEF HandleMouse
    <3>2. m_last_event.place \in Widget \cup {NoWidget} /\ m_last_event.press \in BOOLEAN
      BY <3>1
    <3>3. m_focused_widget' \in Widget \cup {NoWidget}
      BY <2>3, <3>2 DEF HandleMouse, Target
    <3>4. m_has_focus' \in [Widget -> BOOLEAN]
      BY <2>3, <3>2 DEF HandleMouse, SetFocus
    <3> QED BY <2>3, <3>3, <3>4 DEF HandleMouse, Quit, SendInterrupt
  <2> QED BY <1>5, <2>1, <2>2, <2>3 DEF Handle
<1>6. CASE Interrupt
  BY <1>6 DEF Interrupt, SendInterrupt
<1>7. CASE Stop
  BY <1>7 DEF Stop, Cancel
<1>8. CASE JoinHandler
  BY <1>8 DEF JoinHandler, Join, TearDown, Close
<1> QED BY <1>1, <1>2, <1>3, <1>4, <1>5, <1>6, <1>7, <1>8 DEF AppStep

LEMMA StepTypes == UiTypeOK /\ [Next]_vars => UiTypeOK'
<1> SUFFICES ASSUME UiTypeOK, [Next]_vars PROVE UiTypeOK'
  OBVIOUS
<1>1. CASE AppStep
  BY <1>1, AppTypes
<1>2. CASE UNCHANGED vars
  BY <1>2 DEF vars, UiTypeOK
<1> QED BY <1>1, <1>2, HandlerTypes DEF Next

\* The application's state keeps its type, and the ring of events its bound.
THEOREM UiTypeCorrect == Spec => []UiTypeOK
<1> QED BY InitTypes, StepTypes, PTL DEF Spec

-------------------------------------------------------------------------------

\* A running handler only opens descriptors; join, which waits for its end,
\* closes them.
LEMMA StepDescriptors == UiTypeOK /\ DescInv /\ [Next]_vars => DescInv'
<1> SUFFICES ASSUME UiTypeOK, DescInv, [Next]_vars PROVE DescInv'
  OBVIOUS
<1> USE DEF UiTypeOK, DescInv, LifeInv, DescriptorsOutliveHandler
<1>1. CASE AppStep
  <2>1. CASE Run
    BY <2>1 DEF Run, Start
  <2>2. CASE Loop \/ Draw \/ GetEvent \/ Interrupt \/ Stop
    BY <2>2 DEF Loop, Draw, GetEvent, Interrupt, Stop
  <2>3. CASE Handle
    BY <2>3 DEF Handle, HandleCtrlC, HandleKey, HandleMouse
  <2>4. CASE JoinHandler
    BY <2>4 DEF JoinHandler, Join, TearDown, Close
  <2> QED BY <1>1, <2>1, <2>2, <2>3, <2>4 DEF AppStep
<1>2. CASE (HandlerStep \/ HandlerAccident) /\ UNCHANGED application
  <2>1. /\ m_thread = "running" /\ m_thread' \in {"running", "ended"}
        /\ m_thread' = "ended" <=> label' = "end"
    BY <1>2 DEF HandlerStep, HandlerAccident, CreateEpoll, AddStdin, CreateInterrupt, AddInterrupt,
                Check, Wait, Read, Signal, WaitFails, ReadFails, Goto, Finish, Fail
  <2>2. m_epoll_fd' \in {m_epoll_fd, "open"} /\ m_eint_fd' \in {m_eint_fd, "open"}
    BY <1>2 DEF HandlerStep, HandlerAccident, CreateEpoll, AddStdin, CreateInterrupt, AddInterrupt,
                Check, Wait, Read, Signal, WaitFails, ReadFails
  <2> QED BY <1>2, <2>1, <2>2
<1>3. CASE Press /\ UNCHANGED application
  BY <1>3 DEF Press
<1>4. CASE UNCHANGED vars
  BY <1>4 DEF vars
<1> QED BY <1>1, <1>2, <1>3, <1>4 DEF Next

\* The handler's descriptors are closed after its thread has ended, and all are.
THEOREM DescriptorsCorrect == Spec => []DescriptorsOutliveHandler
<1>1. Init => DescInv
  BY DEF Init, HandlerInit, DescInv, LifeInv, DescriptorsOutliveHandler
<1>2. DescInv => DescriptorsOutliveHandler
  BY DEF DescInv
<1> QED BY <1>1, <1>2, InitTypes, StepTypes, StepDescriptors, PTL DEF Spec

-------------------------------------------------------------------------------

\* Only a mouse event moves the focus: the widget it leaves loses it.
LEMMA StepFocus == UiTypeOK /\ OneFocus /\ [Next]_vars => OneFocus'
<1> SUFFICES ASSUME UiTypeOK, OneFocus, [Next]_vars PROVE OneFocus'
  OBVIOUS
<1>1. CASE HandleMouse
  <2> SUFFICES ASSUME NEW w \in Widget, m_has_focus'[w] PROVE w = m_focused_widget'
    BY DEF OneFocus
  <2> DEFINE target == Target(m_last_event.place)
  <2>1. m_focused_widget' = target
    BY <1>1 DEF HandleMouse
  <2>2. m_has_focus' = SetFocus(m_last_event.place, m_last_event.press)
    BY <1>1 DEF HandleMouse
  <2>3. w = target \/ (m_has_focus[w] /\ ~(w = m_focused_widget /\ w # target))
    BY <2>2 DEF SetFocus
  <2> QED BY <2>1, <2>3 DEF OneFocus
<1>2. CASE UNCHANGED focus
  BY <1>2 DEF OneFocus
<1>3. HandleMouse \/ UNCHANGED focus
  BY DEF Next, vars, AppStep, Run, Loop, Draw, GetEvent, Handle, HandleCtrlC, HandleKey, Interrupt, Stop, JoinHandler
<1> QED BY <1>1, <1>2, <1>3

\* Only the widget the application focuses has the focus.
THEOREM FocusCorrect == Spec => []OneFocus
<1>1. Init => OneFocus
  BY DEF Init, OneFocus
<1> QED BY <1>1, InitTypes, StepTypes, StepFocus, PTL DEF Spec
==============================================================================
