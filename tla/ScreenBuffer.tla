----------------------------- MODULE ScreenBuffer -----------------------------
(****************************************************************************)
(* ccl::cli::ui::ScreenBuffer and the Terminal it is flushed to.  A cell    *)
(* holds a character with its style; one that is two columns wide is        *)
(* followed by a cell with U'\000'.  The screen has one row here: in a       *)
(* higher one the code carries on in the next row what does not fit in one. *)
(* Positions count from 0.  resize, which nothing calls, is left out.       *)
(****************************************************************************)
EXTENDS Integers, Sequences, SequencesExt

CONSTANTS
  Columns,             \* size() of the buffer
  Narrow, Wide, Zero,  \* styled characters of charwidth 1, 2 and 0
  Nul, Space,          \* U'\000', and a column the terminal shows nothing in
  Strings,             \* what widgets write
  Half                 \* what the terminal holds in the second column of a wide character

VARIABLES
  cells,     \* the characters and styles of m_grid
  updated,   \* m_lastUpdate[i] > m_updateCounter: set since the last flush
  shown,     \* what the terminal displays
  flushed    \* nothing was set since the last flush

screenVars == <<cells, updated, shown, flushed>>

Pos == 0..Columns - 1
charwidth(c) == CASE c \in Wide -> 2 [] c \in Zero -> 0 [] OTHER -> 1

Init ==
  /\ cells = [pos \in Pos |-> Nul]
  /\ updated = [pos \in Pos |-> FALSE]
  /\ shown = [pos \in Pos |-> Space]
  /\ flushed = FALSE

-----------------------------------------------------------------------------
\* set of one character: nothing when it does not fit in the buffer or is what
\* the cell already holds.  Only the first cell is marked as updated.
SetCharMutant(buf, c, redraw) ==
  IF charwidth(c) = 0 \/ buf.pos + charwidth(c) - 1 >= Columns THEN buf
  ELSE LET same == ~redraw /\ buf.cells[buf.pos] = c
       IN  [pos     |-> buf.pos + charwidth(c),
            updated |-> IF same THEN buf.updated ELSE [buf.updated EXCEPT ![buf.pos] = buf.cells[buf.pos] # c],
            cells   |-> IF same THEN buf.cells
                        ELSE [p \in Pos |-> IF p = buf.pos THEN c
                                            ELSE IF p = buf.pos + 1 /\ c \in Wide THEN Nul ELSE buf.cells[p]]]

SetChar(buf, c, redraw) ==
  IF charwidth(c) = 0 \/ buf.pos + charwidth(c) - 1 >= Columns THEN buf
  ELSE LET same == ~redraw /\ buf.cells[buf.pos] = c
       IN  [pos     |-> buf.pos + charwidth(c),
            updated |-> IF same THEN buf.updated ELSE [buf.updated EXCEPT ![buf.pos] = TRUE],
            cells   |-> IF same THEN buf.cells
                        ELSE [p \in Pos |-> IF p = buf.pos THEN c
                                            ELSE IF p = buf.pos + 1 /\ c \in Wide THEN Nul ELSE buf.cells[p]]]

\* set of a string: a character that does not fit in the buffer is skipped.
SetString(content, pos, redraw) ==
  LET after == FoldLeft(LAMBDA buf, c : SetChar(buf, c, redraw),
                        [pos |-> pos, cells |-> cells, updated |-> updated], content)
  IN  /\ cells' = after.cells
      /\ updated' = after.updated
      /\ flushed' = FALSE
      /\ UNCHANGED shown

\* Terminal::put: a character written over one half of a wide one takes the
\* other half away; the terminal ignores U'\000'.
Put(screen, pos) ==
  LET c == cells[pos]
      covered == pos .. pos + charwidth(c) - 1
      torn == {p \in Pos \ covered : \/ p + 1 \in covered /\ screen[p + 1] = Half
                                     \/ p - 1 \in covered /\ screen[p] = Half}
  IN  IF c = Nul THEN screen
      ELSE [p \in Pos |-> IF p = pos THEN c ELSE IF p \in covered THEN Half
                          ELSE IF p \in torn THEN Space ELSE screen[p]]

\* flush puts the updated cells, in order.
Flush ==
  /\ shown' = FoldLeft(LAMBDA screen, i : IF updated[i - 1] THEN Put(screen, i - 1) ELSE screen,
                       shown, [i \in 1..Columns |-> i])
  /\ updated' = [pos \in Pos |-> FALSE]
  /\ flushed' = TRUE
  /\ UNCHANGED cells

Next ==
  \/ \E s \in Strings, pos \in Pos, redraw \in BOOLEAN : SetString(s, pos, redraw)
  \/ Flush

Spec == Init /\ [][Next]_screenVars
-----------------------------------------------------------------------------
\* Every wide character is followed by its '\000': nothing was written over the
\* second half of one that stayed.
Tidy == \A pos \in Pos : cells[pos] \in Wide => cells[pos + 1] = Nul

\* "a 1:1 map of the low level terminal buffer" (screen_buffer.hpp:20): flush
\* writes only the cells set since the last one, and yet, whenever the buffer
\* is tidy, each character it holds is then what the terminal displays there,
\* whatever was half overwritten in the frames before.
FlushShowsTheBuffer ==
  flushed /\ Tidy => \A pos \in Pos : cells[pos] # Nul => shown[pos] = cells[pos]
=============================================================================
