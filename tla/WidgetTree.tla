------------------------------ MODULE WidgetTree ------------------------------
(****************************************************************************)
(* The tree of widgets below a Screen's main panel: Widget, PanelBase,      *)
(* PanelWidget and its Container.  The program builds the tree, changes     *)
(* widgets between two frames and calls Screen::draw, which packs the main  *)
(* panel when it needs repacking.  Drawing itself changes no state here:    *)
(* what a frame shows of a widget is its visibility, position and size.     *)
(****************************************************************************)
EXTENDS FlowLayout, FiniteSets

CONSTANTS
  Root, Panels, Leaves,  \* the main panel, the other panels, the content widgets
  Id,                    \* Id[w]: the name of a widget
  Axis,                  \* Axis[p]: 1 for an HBoxPanel, 2 for a VBoxPanel
  Starts,                \* what the program has built: the objects, and the children of the panels
  Widths, Spaces, Sides, \* contents' widths, paddings and margins it sets, and where
  Aligns,                \* the alignments it sets
  Points,                \* where the mouse is pressed
  Nobody,                \* a null Widget*
  MaxChanges             \* bound on the changes the program makes

AllPanels == Panels \cup {Root}
Widgets == AllPanels \cup Leaves

VARIABLES
  objs,       \* the fields of each Widget object
  parent,     \* m_parent
  children,   \* m_children of each panel's container
  childIds,   \* m_childIds of each panel: the widgets ever added to it
  needs,      \* m_needs_repacking
  align,      \* the panel's alignment across its axis
  running,    \* "building" until the first frame, "shown", then "thrown" when a draw has thrown
  grown,      \* a child was added after the first frame, removed or moved
  outdated,   \* children that asked for a repack since their panel was packed
  odd,        \* the last frame met a case that layout does not handle
  fresh,      \* nothing has changed since the main panel was last packed
  changes     \* the changes made so far

treeVars == <<objs, parent, children, childIds, needs, align, running, grown, outdated, odd, fresh, changes>>

TypeOK ==
  /\ parent \in [Widgets -> AllPanels \cup {Nobody}]
  /\ needs \in [AllPanels -> BOOLEAN]
  /\ \A p \in AllPanels : ToSet(children[p]) \subseteq childIds[p] /\ childIds[p] \subseteq Widgets

Init ==
  /\ \E start \in Starts : objs = start.objs /\ children = start.children
  /\ parent = [w \in Widgets |-> IF \E p \in AllPanels : w \in ToSet(children[p])
                               THEN CHOOSE p \in AllPanels : w \in ToSet(children[p]) ELSE Nobody]
  /\ childIds = [p \in AllPanels |-> ToSet(children[p])]
  /\ needs = [p \in AllPanels |-> TRUE]
  /\ align = [p \in AllPanels |-> "Start"]
  /\ running = "building" /\ grown = FALSE /\ outdated = {} /\ odd = FALSE
  /\ fresh = FALSE /\ changes = 0

-----------------------------------------------------------------------------
RepackingMutant(flags, p) == [flags EXCEPT ![p] = TRUE]

\* PanelBase::setRepacking(true): upwards while the parent does not know.
\* The panels told are those in every set that has p and each such parent.
Told(flags, p) ==
  LET closed == {s \in SUBSET AllPanels :
                   p \in s /\ \A x \in s : parent[x] = Nobody \/ flags[parent[x]] \/ parent[x] \in s}
  IN  {q \in AllPanels : \A s \in closed : q \in s}
Repacking(flags, p) == [q \in AllPanels |-> flags[q] \/ q \in Told(flags, p)]

\* Widget::forceParentRepack
forceParentRepack(w) ==
  /\ needs' = IF parent[w] = Nobody THEN needs ELSE Repacking(needs, parent[w])
  /\ outdated' = outdated \cup {w}

\* What hangs below p, with p: the panels in every set that has p and, with
\* each panel, the panels among its children; and the children of these panels.
PanelsBelow(p) ==
  LET closed == {s \in SUBSET AllPanels : p \in s /\ \A x \in s : ToSet(children[x]) \cap AllPanels \subseteq s}
  IN  {q \in AllPanels : \A s \in closed : q \in s}
Below(p) == PanelsBelow(p) \cup UNION {ToSet(children[q]) : q \in PanelsBelow(p)}
Above(w) == {p \in AllPanels : w \in Below(p)}

Change == running # "thrown" /\ changes < MaxChanges /\ changes' = changes + 1 /\ fresh' = FALSE
Quiet == UNCHANGED <<parent, children, childIds, align, running, grown, odd>>

\* Container::removeChildById: the first child of that name leaves the vector.
WithoutName(cs, name) == RemoveFirstMatch(cs, LAMBDA c : Id[c] = name)

\* PanelWidget::addChild: throws on a duplicate name before it changes anything.
\* Widget::setParent first takes the widget from the panel it was in, whose
\* removeChild never sees a removal: removeChildById returns 0 in every case.
\* The repack flags are left as they are.
AddChild(p, w) ==
  /\ Change
  /\ \A c \in childIds[p] : Id[c] # Id[w]
  /\ w \in Panels => p \notin Below(w)
  /\ LET taken == IF parent[w] = Nobody THEN children
                  ELSE [children EXCEPT ![parent[w]] = WithoutName(@, Id[w])]
     IN  children' = [taken EXCEPT ![p] = Append(@, w)]
  /\ parent' = [parent EXCEPT ![w] = p]
  /\ childIds' = [childIds EXCEPT ![p] = @ \cup {w}]
  /\ grown' = (grown \/ running # "building" \/ parent[w] # Nobody)
  /\ UNCHANGED <<objs, needs, align, running, outdated, odd>>

\* PanelWidget::removeChild: neither m_childIds nor the child's m_parent change.
RemoveChild(p, w) ==
  /\ Change
  /\ w \in ToSet(children[p])
  /\ children' = [children EXCEPT ![p] = WithoutName(@, Id[w])]
  /\ grown' = TRUE
  /\ UNCHANGED <<objs, parent, childIds, needs, align, running, outdated, odd>>

\* Widget::setVisibility
SetVisibility(w) ==
  /\ Change
  /\ objs' = [objs EXCEPT ![w].hidden = ~@]
  /\ forceParentRepack(w)
  /\ Quiet

\* Widget::setMargin
SetMargin(w, side, n) ==
  /\ Change
  /\ objs' = [objs EXCEPT ![w].margin[side] = n]
  /\ forceParentRepack(w)
  /\ Quiet

\* Widget::setPadding: only Left and Rigth reach forceParentRepack.
SetPadding(w, side, n) ==
  /\ Change
  /\ objs' = [objs EXCEPT ![w] = SetPaddingOf(@, side, n)]
  /\ IF side \in {2, 3} THEN forceParentRepack(w) ELSE UNCHANGED <<needs, outdated>>
  /\ Quiet

\* StringContentWidget::setContent of a label or a button: a content of that width and one row.
SetContent(w, width) ==
  /\ Change
  /\ w \in Leaves
  /\ LET fitted == SetContentSize(SetContentSize(objs[w], 1, width), 2, 1)
     IN  objs' = [objs EXCEPT ![w] = [fitted EXCEPT !.min = fitted.size]]
  /\ forceParentRepack(w)
  /\ Quiet

\* PanelBase::setVerticalAlignment of an HBoxPanel, setHorizontalAlignment of a VBoxPanel.
SetAlignment(p, a) ==
  /\ Change
  /\ align' = [align EXCEPT ![p] = a]
  /\ UNCHANGED <<objs, parent, children, childIds, needs, running, grown, outdated, odd>>

-----------------------------------------------------------------------------
\* The panels of the tree of p, in the order in which pack reaches them, and
\* in the order in which prepack leaves them.
Downwards[p \in AllPanels] ==
  FoldLeft(LAMBDA before, c : IF c \in AllPanels THEN before \o Downwards[c] ELSE before, <<p>>, children[p])
Upwards[p \in AllPanels] ==
  Append(FoldLeft(LAMBDA before, c : IF c \in AllPanels THEN before \o Upwards[c] ELSE before, <<>>, children[p]), p)

\* prepack: the sub-panels first, then the size of the panel itself.
Prepack(os, p) == FoldLeft(LAMBDA o, q : PrepackSize(o, q, children[q], Axis[q]), os, Upwards[p])

\* PanelWidget::pack of a panel whose flag is up; pack puts up the flag of
\* each sub-panel before it packs it, so that the whole subtree is packed,
\* unless layout throws.
\* Three cases layout does not handle are noted in odd: a sub-panel that grows
\* after it was placed, a child that is to give up more than it has, and a size
\* below the minimum, which only one that has wrapped is.
PackOne(acc, p) ==
  LET prepacked == Prepack(acc.objs, p)
      l == Layout(prepacked, p, children[p], Axis[p], align[p])
      grew == p # Root /\ l.objs[p].size # acc.objs[p].size
      wrapped == \E c \in ToSet(children[p]) \cup {p} : prepacked[c].size[Axis[p]] < prepacked[c].min[Axis[p]]
  IN  IF acc.threw THEN acc
      ELSE [objs |-> l.objs, odd |-> acc.odd \/ grew \/ l.short \/ wrapped, threw |-> l.threw]
Pack(p) == FoldLeft(PackOne, [objs |-> objs, odd |-> FALSE, threw |-> FALSE], Downwards[p])

\* Screen::draw: pack, draw every visible widget, flush.  What layout throws
\* ends the main loop.
Draw ==
  /\ running # "thrown"
  /\ running = "building" \/ needs[Root]
  /\ \E packed \in {Pack(Root)} :
         IF needs[Root]
         THEN /\ objs' = packed.objs
              /\ odd' = packed.odd
              /\ running' = IF packed.threw THEN "thrown" ELSE "shown"
              /\ fresh' = ~packed.threw
              /\ needs' = IF packed.threw THEN needs
                          ELSE [p \in AllPanels |-> needs[p] /\ p \notin Below(Root)]
              /\ outdated' = IF packed.threw THEN outdated ELSE outdated \ Below(Root)
         ELSE running' = "shown" /\ UNCHANGED <<objs, odd, needs, outdated, fresh>>
  /\ UNCHANGED <<parent, children, childIds, align, grown, changes>>

Next ==
  \/ \E p \in AllPanels, w \in Widgets \ {Root} : AddChild(p, w) \/ RemoveChild(p, w)
  \/ \E w \in Widgets \ {Root} :
       \/ SetVisibility(w)
       \/ \E side \in Sides, n \in Spaces : SetMargin(w, side, n) \/ SetPadding(w, side, n)
       \/ \E n \in Widths : SetContent(w, n)
  \/ \E p \in AllPanels, a \in Aligns : SetAlignment(p, a)
  \/ Draw

Spec == Init /\ [][Next]_treeVars
-----------------------------------------------------------------------------
\* PanelBase::getCollidingWidget: the widgets it may return; it walks the
\* map of every widget ever added, in no particular order.
Hits(p, point) ==
  LET hits[q \in AllPanels] ==
        IF ~IsColliding(objs[q], point) THEN {}
        ELSE UNION {IF c \in AllPanels /\ hits[c] # {} THEN hits[c]
                    ELSE IF IsColliding(objs[c], point) THEN {c} ELSE {} : c \in childIds[q]}
  IN  hits[p]

Settled == running = "shown" /\ ~grown

\* While a widget of the tree waits for a repack the main panel knows, however
\* deep the widget is and whichever flags were already up: no change of a tree
\* that was built before its first frame is lost.
RepackReachesRoot == Settled /\ outdated \cap (Below(Root) \ {Root}) # {} => needs[Root]

\* A frame that repacked: the visible children of every panel follow each
\* other along its axis and stay inside its content, unless a child is at its
\* minimum, may not shrink or has a margin before it (which layout does not
\* count when it cuts a child), or layout met a case it does not handle.
FollowEachOther(p, o(_), n) ==
  \A i \in 1..n - 1 : LastCell(o(i), Axis[p]) + o(i).margin[EndSide(Axis[p])] + 1
                        = o(i + 1).pos[Axis[p]] - o(i + 1).margin[StartSide(Axis[p])]
EndsInside(p, o, axis) ==
  LastCell(o, axis) + o.margin[EndSide(axis)] < ContentStart(objs[p], axis) + ContentSize(objs[p], axis)
FramesFit ==
  Settled /\ fresh /\ ~odd =>
    \A p \in Below(Root) \cap AllPanels :
      LET cs == Visible(objs, children[p])
          o(i) == objs[cs[i]]
      IN  /\ FollowEachOther(p, o, Len(cs))
          /\ \/ \A i \in 1..Len(cs) : EndsInside(p, o(i), Axis[p])
             \/ \E i \in 1..Len(cs) : \/ o(i).shrink = 0 \/ o(i).size[Axis[p]] = o(i).min[Axis[p]]
                                     \/ o(i).margin[StartSide(Axis[p])] > 0

\* In such a frame the order in which getCollidingWidget walks its hash map
\* does not matter: at most one widget answers a press, it is on the screen
\* and so is every panel above it.
HitIsShown ==
  Settled /\ fresh /\ ~odd =>
    \A point \in Points :
      /\ Cardinality(Hits(Root, point)) <= 1
      /\ \A w \in Hits(Root, point) : \A p \in Above(w) \cup {w} : ~objs[p].hidden
=============================================================================
