------------------------------- MODULE InputBox -------------------------------
(****************************************************************************)
(* ccl::cli::ui::InputBox over InputContentWidget: a line of text that the  *)
(* focused widget edits as the UIApplication emits its key signals.  The    *)
(* string m_content has the maximum length; '\0' (Nul) marks a free place.  *)
(* The cursor is kept relative to getStartCursorPosition.  The box is used  *)
(* as its factories build it: setMaxLength has been called with more than   *)
(* the placeholder's length, and the content is one row high.               *)
(****************************************************************************)
EXTENDS Integers, Sequences, SequencesExt, FiniteSets

CONSTANTS
  Char,        \* what the keyboard enters
  Nul,         \* U'\0'
  Hint,        \* the placeholder, a sequence of characters of its own
  MaxLength,   \* m_max_length
  LabelWidth,  \* the columns between the widget's corner and the text
  MaxKeys      \* bound on the keys pressed

VARIABLES
  m_content, m_curr_length, m_is_placeholder, m_insert_toggle,
  cursor,      \* m_cursor_info.m_pos.m_x less the start of the text
  focused,     \* m_has_focus
  text, caret, \* what a line editor would hold: its characters, the place before its caret
  onText,      \* every Delete so far had a character under the cursor, and no layout moved the box
  keys         \* the keys pressed so far

inputVars == <<m_content, m_curr_length, m_is_placeholder, m_insert_toggle, cursor, focused, text, caret, onText, keys>>

Place == 0..MaxLength - 1
\* getStartCursorPosition puts the text behind the label and its border.
Corner == -LabelWidth
Padded(s) == s \o [i \in 1..MaxLength - Len(s) |-> Nul]

Init ==
  /\ m_content = Padded(Hint)
  /\ m_curr_length = 0
  /\ m_is_placeholder = TRUE
  /\ m_insert_toggle = FALSE
  /\ cursor = Corner /\ focused = FALSE
  /\ text = <<>> /\ caret = 0 /\ onText = TRUE /\ keys = 0

Key == focused /\ keys < MaxKeys /\ keys' = keys + 1
Focus(value) ==
  /\ focused = ~value /\ keys < MaxKeys /\ keys' = keys + 1
  /\ focused' = value

-----------------------------------------------------------------------------
\* onMouseEnterCallback: the placeholder gives way to an empty text.
MouseEnter ==
  /\ Focus(TRUE)
  /\ m_content' = IF m_is_placeholder THEN [i \in DOMAIN m_content |-> Nul] ELSE m_content
  /\ cursor' = IF m_is_placeholder THEN 0 ELSE cursor
  /\ UNCHANGED <<m_curr_length, m_is_placeholder, m_insert_toggle, text, caret, onText>>

\* onMouseExitCallback: setContent copies the placeholder over the content.
MouseExit ==
  /\ Focus(FALSE)
  /\ m_content' = IF m_is_placeholder
                  THEN [i \in DOMAIN m_content |-> IF i <= Len(Hint) THEN Hint[i] ELSE m_content[i]]
                  ELSE m_content
  /\ UNCHANGED <<m_curr_length, m_is_placeholder, m_insert_toggle, cursor, text, caret, onText>>

\* insert_shift drops the last character, into the string's terminator; a
\* position past the end does nothing.
insert_shift(s, pos, c) ==
  IF pos \notin Place THEN s ELSE SubSeq(InsertAt(s, pos + 1, c), 1, MaxLength)

remove_shiftMutant(s, pos, size) ==
  IF pos \notin Place \/ s[pos + 1] = Nul THEN s
  ELSE [i \in DOMAIN s |-> IF i = Len(s) THEN Nul ELSE IF pos < i /\ i < size - 1 THEN s[i + 1] ELSE s[i]]

\* remove_shift: nothing at a negative position or under a free place.
remove_shift(s, pos, size) ==
  IF pos \notin Place \/ s[pos + 1] = Nul THEN s
  ELSE [i \in DOMAIN s |-> IF i = size THEN Nul ELSE IF pos < i /\ i < size THEN s[i + 1] ELSE s[i]]

\* The reference: a line editor of the same maximum length.
Typed(c) ==
  LET over == m_insert_toggle /\ caret < Len(text)
  IN  text' = IF over THEN ReplaceAt(text, caret + 1, c) ELSE InsertAt(text, caret + 1, c)

\* InputBox::addChar.  A full box takes no character, nor does it overwrite
\* one.  Outside the string the overwriting write is undefined: any place of
\* it, or none, is hit.
AddChar(c) ==
  /\ Key
  /\ m_is_placeholder' = FALSE
  /\ IF m_curr_length >= MaxLength \/ m_curr_length < 0
     THEN UNCHANGED <<m_content, m_curr_length, cursor, text, caret>>
     ELSE /\ m_content' \in IF ~m_insert_toggle THEN {insert_shift(m_content, cursor, c)}
                            ELSE IF cursor \in Place THEN {[m_content EXCEPT ![cursor + 1] = c]}
                            ELSE {m_content} \cup {[m_content EXCEPT ![i + 1] = c] : i \in Place}
          /\ m_curr_length' = IF m_insert_toggle /\ cursor # m_curr_length THEN m_curr_length ELSE m_curr_length + 1
          /\ cursor' = cursor + 1
          /\ Typed(c) /\ caret' = caret + 1
  /\ UNCHANGED <<m_insert_toggle, focused, onText>>

\* handleCtrlPressed: CTRL+I.
ToggleInsert ==
  /\ Key
  /\ m_insert_toggle' = ~m_insert_toggle
  /\ UNCHANGED <<m_content, m_curr_length, m_is_placeholder, cursor, focused, text, caret, onText>>

\* A shift under a character of a text of no length runs off the string: the
\* program does not come back from it.
RunsOff(pos) == pos \in Place /\ m_content[pos + 1] # Nul /\ m_curr_length <= 0

\* deleteChar(-1).  Before the first character the row above is never inside.
Backspace ==
  /\ Key
  /\ ~RunsOff(cursor - 1)
  /\ IF cursor - 1 < 0 THEN UNCHANGED <<m_content, m_curr_length, cursor>>
     ELSE /\ m_content' = remove_shift(m_content, cursor - 1, m_curr_length)
          /\ m_curr_length' = m_curr_length - 1
          /\ cursor' = cursor - 1
  /\ text' = IF caret = 0 THEN text ELSE RemoveAt(text, caret)
  /\ caret' = IF caret = 0 THEN 0 ELSE caret - 1
  /\ UNCHANGED <<m_is_placeholder, m_insert_toggle, focused, onText>>

\* deleteChar(0): the length decreases whether or not a character was there.
Delete ==
  /\ Key
  /\ ~RunsOff(cursor)
  /\ m_content' = remove_shift(m_content, cursor, m_curr_length)
  /\ m_curr_length' = m_curr_length - 1
  /\ text' = IF caret = Len(text) THEN text ELSE RemoveAt(text, caret + 1)
  /\ onText' = (onText /\ caret < Len(text))
  /\ UNCHANGED <<m_is_placeholder, m_insert_toggle, cursor, focused, caret>>

\* isCursorColliding: getActualContentSize is one place more than the length.
isCursorColliding(x) == 0 <= x /\ x < m_curr_length + 1

\* handleArrow.  Up and down leave the only row, so the cursor stays.
Arrow(h) ==
  /\ Key
  /\ cursor' = IF isCursorColliding(cursor + h) THEN cursor + h ELSE cursor
  /\ caret' = IF caret + h \in 0..Len(text) THEN caret + h ELSE caret
  /\ UNCHANGED <<m_content, m_curr_length, m_is_placeholder, m_insert_toggle, focused, text, onText>>

\* Widget::setStartPosition, which the layout of the parent panel calls each
\* time another widget made it repack: the cursor goes to the widget's corner.
Relayout ==
  /\ keys < MaxKeys /\ keys' = keys + 1
  /\ cursor' = Corner
  /\ onText' = (onText /\ m_is_placeholder /\ ~focused)
  /\ UNCHANGED <<m_content, m_curr_length, m_is_placeholder, m_insert_toggle, focused, text, caret>>

Next ==
  \/ MouseEnter \/ MouseExit \/ ToggleInsert \/ Backspace \/ Delete \/ Relayout
  \/ \E c \in Char : AddChar(c)
  \/ \E h \in {-1, 1} : Arrow(h)

Spec == Init /\ [][Next]_inputVars
-----------------------------------------------------------------------------
\* While no Delete was pressed at the end of the text and no layout moved the
\* box under its cursor, the box is a line editor: through typing in both
\* modes, backspaces, deletions, moves and changes of focus, the content is the
\* text, the length counts it and the cursor is the caret.
EditsTheText ==
  onText /\ ~m_is_placeholder =>
    m_content = Padded(text) /\ m_curr_length = Len(text) /\ cursor = caret
=============================================================================
