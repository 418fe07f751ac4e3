------------------------------ MODULE FlowLayout ------------------------------
(****************************************************************************)
(* The geometry of ccl::cli::ui: the Widget object's sizes and what the     *)
(* FlowContainer of an HBoxPanel or a VBoxPanel does to a panel's children. *)
(* Everything is an operator on objs, a function from widgets to the fields *)
(* of their objects.  Along an axis (1 horizontal, 2 vertical) the tuples   *)
(* pos and size hold (m_pos_x, m_pos_y) and (ws_col, ws_row); the padding   *)
(* and margin of a Direction are indexed 1 Top, 2 Left, 3 Rigth, 4 Bottom.  *)
(* A size_t that has wrapped below zero is kept as the negative integer: it *)
(* compares as larger than every other one, and storing it in the unsigned  *)
(* short of a winsize keeps its low 16 bits.                                *)
(****************************************************************************)
EXTENDS Integers, Sequences, SequencesExt

CONSTANTS BorderWidth   \* the columns of a border character

ASSUME BorderAssumption == BorderWidth \in {1, 2}

Short == 65536
SizeLess(a, b) == IF (a < 0) = (b < 0) THEN a < b ELSE b < 0
SizeMax(a, b) == IF SizeLess(a, b) THEN b ELSE a

Direction(name) == CASE name = "Top" -> 1 [] name = "Left" -> 2 [] name = "Rigth" -> 3 [] name = "Bottom" -> 4
StartSide(axis) == IF axis = 1 THEN 2 ELSE 1   \* the side where an axis starts
EndSide(axis) == IF axis = 1 THEN 3 ELSE 4     \* and where it ends
BorderSize(axis) == IF axis = 1 THEN 2 * BorderWidth ELSE 2

\* Widget::Widget, with no padding, margin, minimum or flex factor.
NewWidget(w, h) ==
  [pos |-> <<0, 0>>, size |-> <<IF w < 2 * BorderWidth THEN 2 * BorderWidth ELSE w, IF h < 2 THEN 2 ELSE h>>,
   padding |-> <<0, 0, 0, 0>>, margin |-> <<0, 0, 0, 0>>, min |-> <<0, 0>>,
   grow |-> 0, shrink |-> 0, hidden |-> FALSE]

\* Widget::setWinsize, setWidth and setHeight: the minimum is maintained.
SetWinsize(o, w, h) == [o EXCEPT !.size = <<SizeMax(w, o.min[1]) % Short, SizeMax(h, o.min[2]) % Short>>]
SetSize(o, axis, n) == IF axis = 1 THEN SetWinsize(o, n, o.size[2]) ELSE SetWinsize(o, o.size[1], n)

\* Widget::getContentWinsize, setContentWinsize, setContentMinimumSize.
Frame(o, axis) == BorderSize(axis) + o.padding[StartSide(axis)] + o.padding[EndSide(axis)]
ContentSize(o, axis) == o.size[axis] - Frame(o, axis)
SetContentSize(o, axis, n) == SetSize(o, axis, n + Frame(o, axis))

\* Widget::setPadding adds the value to the size each time it is called.
SetPaddingOf(o, side, n) ==
  [o EXCEPT !.padding[side] = n,
            !.size[IF side \in {1, 4} THEN 2 ELSE 1] = (@ + n) % Short]

\* Widget::getWinsizeWithMargin; getX and getY; getVertexCoord and isColliding.
SizeWithMarginMutant(o, axis) == o.size[axis] + o.margin[StartSide(axis)]
SizeWithMargin(o, axis) == o.size[axis] + o.margin[StartSide(axis)] + o.margin[EndSide(axis)]
ContentStart(o, axis) == o.pos[axis] + o.padding[StartSide(axis)] + BorderWidth
LastCell(o, axis) == o.pos[axis] + o.size[axis] - 1
IsCollidingMutant(o, point) ==
  \A axis \in 1..2 : o.pos[axis] <= point[axis] /\ point[axis] <= LastCell(o, axis)

IsColliding(o, point) ==
  /\ ~o.hidden
  /\ \A axis \in 1..2 : o.pos[axis] <= point[axis] /\ point[axis] <= LastCell(o, axis)

-----------------------------------------------------------------------------
\* FlowContainer::computeSize: the conversion of the amount drops its fraction.
Truncate(n, d) == IF n >= 0 THEN n \div d ELSE -((-n) \div d)
ComputeSize(factor, total, size, space) == size + Truncate(space * factor, total)

Visible(objs, children) == FoldLeft(LAMBDA cs, c : IF objs[c].hidden THEN cs ELSE Append(cs, c), <<>>, children)
Total(sizes, children) == FoldLeft(LAMBDA sum, c : sum + sizes[c], 0, children)
Largest(sizes, children) == FoldLeft(LAMBDA max, c : IF sizes[c] > max THEN sizes[c] ELSE max, 0, children)

\* One child of the resizing loop of FlowContainer::layout: acc holds the
\* objects, the space the children before it occupy, and whether a child was to
\* give up more than it has.  A child that is cut loses its end margin twice.
ResizeChild(acc, c, axis, space, factor, total, available) ==
  LET o == acc.objs[c]
      wanted == ComputeSize(factor[c], total, o.size[axis], space)
      end == o.margin[EndSide(axis)]
      overflow == acc.occupied + wanted + end - available
      cut == IF overflow >= 0 THEN wanted - overflow - end ELSE wanted
      new == IF factor[c] = 0 THEN o
             ELSE SetSize(o, axis, IF space < 0 THEN SizeMax(cut, o.min[axis]) ELSE cut)
  IN  [objs |-> [acc.objs EXCEPT ![c] = new], occupied |-> acc.occupied + SizeWithMargin(new, axis),
       short |-> acc.short \/ (factor[c] # 0 /\ cut < 0)]

\* One child of the placing loop: acc holds the objects and the main position.
PlaceChild(acc, c, axis, align, crossPos, crossSize) ==
  LET cross == 3 - axis
      o == acc.objs[c]
      free == crossSize - SizeWithMargin(o, cross)
      at == crossPos + CASE align = "Start"    -> o.margin[StartSide(cross)]
                         [] align = "Center"   -> free \div 2
                         [] align = "End"      -> free - o.margin[EndSide(cross)]
                         [] align = "Streatch" -> 0
      sized == IF align = "Streatch" THEN SetSize(o, cross, crossSize) ELSE o
      main == acc.main + o.margin[StartSide(axis)]
  IN  [objs |-> [acc.objs EXCEPT ![c] = [sized EXCEPT !.pos = IF axis = 1 THEN <<main, at>> ELSE <<at, main>>]],
       main |-> acc.main + SizeWithMargin(o, axis)]

\* FlowContainer::layout of panel p: the objects after it, whether it threw
\* because there is not enough space for the children, and whether a child was to give up
\* more than it has.
Layout(objs, p, children, axis, align) ==
  LET visible == Visible(objs, children)
      cross == 3 - axis
      sizes(a) == [c \in DOMAIN objs |-> SizeWithMargin(objs[c], a)]
      available == ContentSize(objs[p], axis)
      crossNeed == Largest(sizes(cross), visible)
      crossHas == ContentSize(objs[p], cross)
      crossSize == IF SizeLess(crossHas, crossNeed) THEN crossNeed ELSE crossHas
      widened == IF SizeLess(crossHas, crossNeed)
                 THEN [objs EXCEPT ![p] = SetContentSize(@, cross, crossNeed)] ELSE objs
      space == available - Total(sizes(axis), visible)
      factor == [c \in DOMAIN objs |-> IF space > 0 THEN objs[c].grow ELSE objs[c].shrink]
      total == Total(factor, visible)
      resized == IF space # 0 /\ total > 0
                 THEN FoldLeft(LAMBDA acc, c : ResizeChild(acc, c, axis, space, factor, total, available),
                               [objs |-> widened, occupied |-> 0, short |-> FALSE], visible)
                 ELSE [objs |-> widened, short |-> FALSE]
      placed == FoldLeft(LAMBDA acc, c : PlaceChild(acc, c, axis, align, ContentStart(objs[p], cross), crossSize),
                         [objs |-> resized.objs, main |-> ContentStart(objs[p], axis)], visible).objs
  IN  [threw |-> space < 0 /\ total = 0,
       short |-> resized.short,
       objs  |-> IF space < 0 /\ total = 0 THEN widened ELSE placed]

\* HBoxPanel::prepack and VBoxPanel::prepack, once the sub-panels are prepacked.
PrepackSize(objs, p, children, axis) ==
  LET cross == 3 - axis
      minMain == Total([c \in DOMAIN objs |-> objs[c].min[axis]], children)
      maxCross == Largest([c \in DOMAIN objs |-> SizeWithMargin(objs[c], cross)], children)
      mainSet == IF SizeLess(ContentSize(objs[p], axis), minMain) THEN SetContentSize(objs[p], axis, minMain) ELSE objs[p]
      crossSet == IF SizeLess(ContentSize(objs[p], cross), maxCross) THEN SetContentSize(mainSet, cross, maxCross) ELSE mainSet
  IN  [objs EXCEPT ![p] = crossSet]
=============================================================================
