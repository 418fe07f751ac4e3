------------------------------ MODULE MCLibrary ------------------------------
(****************************************************************************)
(* The parts of the library that keep their state to themselves, as one     *)
(* instance for TLC: a behaviour chooses one part and takes its steps only. *)
(****************************************************************************)
EXTENDS LibraryParts, InterfaceParts, FiniteSets, TLC

VARIABLE part

\* A screen with a panel, another panel, and two labels of one name: at a size
\* with room to spare, complete, and at one where the children have to shrink,
\* with a label still to be added.
SomeIds == [w \in Panels \cup Leaves \cup {Root} |-> IF w = "b" THEN "a" ELSE w]
SomeAxes == (Root :> 1) @@ ("p" :> 2) @@ ("q" :> 1)
Label(w, g, s, kept) ==
  LET o == SetContentSize(SetContentSize(NewWidget(w, 1), 1, w), 2, 1)
  IN  [o EXCEPT !.min = IF kept THEN o.size ELSE <<0, 0>>, !.grow = g, !.shrink = s]
Wide14 == (Root :> NewWidget(14, 10)) @@ ("p" :> [NewWidget(6, 6) EXCEPT !.grow = 1, !.shrink = 1])
          @@ ("q" :> [NewWidget(4, 3) EXCEPT !.shrink = 1])
          @@ ("a" :> Label(2, 0, 1, TRUE)) @@ ("b" :> Label(3, 2, 1, FALSE))
Wide11 == (Root :> NewWidget(11, 9)) @@ ("p" :> [NewWidget(7, 5) EXCEPT !.shrink = 1])
          @@ ("q" :> [NewWidget(5, 4) EXCEPT !.grow = 1, !.shrink = 2])
          @@ ("a" :> Label(3, 1, 2, FALSE)) @@ ("b" :> Label(2, 0, 1, TRUE))
Inside(w, x, y) == (Root :> w) @@ ("p" :> x) @@ ("q" :> y)
SomeStarts == {[objs |-> Wide14, children |-> Inside(<<"p">>, <<"a", "q">>, <<"b">>)],
               [objs |-> Wide11, children |-> Inside(<<"a", "p">>, <<"q">>, <<>>)]}
SomePoints == {1, 2, 4, 6, 8, 9} \X {1, 3}

\* The placeholder of the box.
SomeHint == <<"h">>

\* The dimensions of the grids, and what is written on the screen.
SomeShapes == {<<1, 2>>, <<2, 2>>, <<2, 3>>}
SomeStrings == {<<"a">>, <<"W">>, <<"a", "z", "W">>, <<"W", "b">>}

\* Two texts, of which <<"n">> is also the flag of the argument n, and a number.
SomeTexts == {<<"n">>, <<"w">>}
SomeNumbers == {<<"7">>}
NoWord == <<>>

\* What is put in a byte buffer: shorts beside bytes, since an int or a long
\* differs in its length only.
SomeValues == {<<"a">>, <<"a", "b">>}

\* Thread t may create four collectors, and u among the first two.
FourAndTwo == [tid \in Tid |-> IF tid = "t" THEN 4 ELSE 2]

Init ==
  /\ part \in {"tree", "box", "queues", "arrays", "screen", "signal", "parser", "bytes", "thread", "metrics"}
  /\ Tree!Init /\ (part # "tree" => objs = Wide14)
  /\ Box!Init
  /\ Queues!Init /\ (part # "queues" => m_capacity = 0 /\ m_policy = "ERROR" /\ ring = Queues!NewRing(<<>>, 1))
  /\ Arrays!Init /\ (part # "arrays" => grid = Arrays!NewGrid(1, 2, FALSE))
  /\ Screen!Init
  /\ Slots!Init
  /\ Parser!Init
  /\ Bytes!Init
  /\ Threads!Init /\ (part # "thread" => m_policy_ = "DEFERRED" /\ ~m_daemon /\ wanted = Threads!NotWanted /\ at = "idle")
  /\ Calls!Init

\* A step of one part leaves the variables of every other part alone.
Next ==
  /\ UNCHANGED part
  /\ IF part = "tree" THEN Tree!Next
     ELSE UNCHANGED <<objs, parent, children, childIds, needs, align, running, grown, outdated, odd, fresh, changes>>
  /\ IF part = "box" THEN Box!Next
     ELSE UNCHANGED <<m_content, m_curr_length, m_is_placeholder, m_insert_toggle, cursor, focused, text, caret, onText, keys>>
  /\ IF part = "queues" THEN Queues!Next
     ELSE UNCHANGED <<ring, m_policy, deque, limited, m_capacity, queued, answer, expected>>
  /\ IF part = "arrays" THEN Arrays!Next
     ELSE UNCHANGED <<grid, matrix, fit>>
  /\ IF part = "screen" THEN Screen!Next
     ELSE UNCHANGED <<cells, updated, shown, flushed>>
  /\ IF part = "signal" THEN Slots!Next
     ELSE UNCHANGED <<m_connections, kind, expired, calling, slots, asked, called, before, due, cut, wrong, calls>>
  /\ IF part = "parser" THEN Parser!Next
     ELSE UNCHANGED <<m_optional_args, m_required_args, values, given, plain, threw, parses>>
  /\ IF part = "bytes" THEN Bytes!Next
     ELSE UNCHANGED <<bufs, fields, appended, heap, wronglyDeleted, tame, ops>>
  /\ IF part = "thread" THEN Threads!Next
     ELSE UNCHANGED <<m_thread, m_policy_, m_daemon, m_cancelled, m_started, wanted, body, killed, object, at, after,
                      aiming, joined, tornDown, crashed>>
  /\ IF part = "metrics" THEN Calls!Next
     ELSE UNCHANGED <<m_metrics_map, collectors, reading>>

vars == <<part, Tree!treeVars, Box!inputVars, Queues!queueVars, Arrays!gridVars, Screen!screenVars,
          Slots!signalVars, Parser!parserVars, Bytes!byteVars, Threads!threadVars, Calls!metricsVars>>
Spec == Init /\ [][Next]_vars
==============================================================================
