---------------------------- MODULE InterfaceParts ----------------------------
(****************************************************************************)
(* The parts of a program's user interface that keep their state to         *)
(* themselves, side by side: the parser of the command line, the tree of    *)
(* widgets, the ScreenBuffer with the Terminal it is flushed to, and the    *)
(* two-dimensional containers, one of which a screen is kept in.            *)
(* MCLibrary gives their constants values; InterfaceProofs proves what is   *)
(* said of them here for every value, WidgetTreeProofs what is said of      *)
(* frames.                                                                  *)
(****************************************************************************)
EXTENDS FlowLayout

CONSTANTS
  Names, Texts, Numbers, Unset, MaxArguments, MaxParses,     \* the command line
  Root, Panels, Leaves, Id, Axis, Starts, Widths, Spaces, Sides, Aligns, Points, Nobody, MaxChanges,  \* the tree
  Columns, Narrow, Wide, Zero, NoChar, Space, Strings, Half, \* the screen
  Cell, Blank, Shapes, Pads, MaxSize                         \* the grids

VARIABLES
  m_optional_args, m_required_args, values, given, plain, threw, parses,
  objs, parent, children, childIds, needs, align, running, grown, outdated, odd, fresh, changes,
  cells, updated, shown, flushed,
  grid, matrix, fit

Parser == INSTANCE ArgumentParser
Tree == INSTANCE WidgetTree
Screen == INSTANCE ScreenBuffer WITH Nul <- NoChar
Arrays == INSTANCE Grid

\* What stands for a value that was not given is no word of a command line.
ASSUME UnsetIsNoWord ==
  Unset \notin Texts \cup Numbers \cup {Parser!Flipped} \cup {Parser!Flag(n) : n \in Names}

\* The fields of a Widget object, and those of all widgets.  The sizes of a
\* winsize are unsigned shorts.
Sizes16 == {n \in Nat : n < Short}
Obj == [pos : [1 .. 2 -> Int], size : [1 .. 2 -> Sizes16], padding : [1 .. 4 -> Nat], margin : [1 .. 4 -> Nat],
        min : [1 .. 2 -> Sizes16], grow : Nat, shrink : Nat, hidden : BOOLEAN]
Objs == [Tree!Widgets -> Obj]

\* Nobody is not a panel, and the program builds trees of widgets: a widget is
\* at most once a child, and of one panel, the main panel of none, and every
\* way down ends.
ASSUME BuildsTrees ==
  /\ Nobody \notin Tree!AllPanels
  /\ \A start \in Starts :
       /\ start.children \in [Tree!AllPanels -> Seq(Tree!Widgets)]
       /\ \A p, q \in Tree!AllPanels : Tree!ToSet(start.children[p]) \cap Tree!ToSet(start.children[q]) # {} => p = q
       /\ \A p \in Tree!AllPanels :
            /\ Root \notin Tree!ToSet(start.children[p])
            /\ \A i, j \in 1 .. Len(start.children[p]) : start.children[p][i] = start.children[p][j] => i = j
       /\ \A s \in SUBSET Tree!AllPanels : s # {} => \E p \in s : Tree!ToSet(start.children[p]) \cap s = {}
       /\ start.objs \in Objs

\* A panel lays its children out along one axis, in one of four ways across
\* it; a widget has four sides, what is set there and as a content counts cells,
\* and the mouse is pressed at one.
ASSUME SetsCounts ==
  /\ Axis \in [Tree!AllPanels -> 1 .. 2]
  /\ Aligns \subseteq {"Start", "Center", "End", "Streatch"}
  /\ Sides \subseteq 1 .. 4 /\ Spaces \subseteq Nat /\ Widths \subseteq Nat
  /\ Points \subseteq Int \X Int

\* What is written are characters; none is what the buffer keeps behind a wide
\* one, or what the terminal has there.
ASSUME WritesCharacters ==
  /\ Columns \in Nat
  /\ Strings \subseteq Seq(Narrow \cup Wide \cup Zero)
  /\ Wide \cap Zero = {} /\ NoChar \notin Narrow \cup Wide /\ Half \notin Narrow \cup Wide \cup {Space}

\* The dimensions of containers and the amounts they grow by are counts.
ASSUME GrowsByCounts == Shapes \subseteq Nat \X Nat /\ Pads \subseteq Nat

\* Every argument holds the value that the command lines gave it.
GetsWhatWasGiven == Parser!GetsWhatWasGiven

\* A widget that waits for a repack is known to wait at the main panel.
RepackReachesRoot == Tree!RepackReachesRoot

\* A repacked frame has the children of every panel one after another inside it.
FramesFit == Tree!FramesFit

\* At most one widget answers a press, and it is on the screen.
HitIsShown == Tree!HitIsShown

\* After a flush the terminal displays what the buffer holds.
FlushShowsTheBuffer == Screen!FlushShowsTheBuffer

\* Every row and column of a container gives back what was last written there.
ReadsWhatWasWritten == Arrays!ReadsWhatWasWritten
===============================================================================
