------------------------------- MODULE ByteFile -------------------------------
(****************************************************************************)
(* What a stream promises the writer of a file: the bytes of the file are   *)
(* what was written, in the places it was written to.  Closing may pad the  *)
(* file with zeros, opening may empty it; a failing system call, or a close *)
(* that was not preceded by a flush, may lose a few bytes that were already *)
(* accepted, and only these.                                                *)
(****************************************************************************)
EXTENDS Integers, Sequences, FiniteSets

CONSTANTS
  Zero,    \* what a gap is filled with
  Chunk,   \* what a single step may write: nonempty sequences of bytes
  Window   \* how many accepted bytes a failure may lose

VARIABLES
  content,    \* the bytes written so far, those still buffered included
  place,      \* where the next write goes
  appending,  \* every write goes to the end
  isOpen,     \* whether a stream has the file open
  lost        \* whether the last step lost bytes

byteFileVars == <<content, place, appending, isOpen, lost>>

Init == ~isOpen /\ ~lost

Write(bytes) ==
  LET end == place + Len(bytes)
  IN /\ isOpen /\ isOpen' /\ ~lost'
     /\ place' = end
     /\ Len(content') = IF Len(content) > end THEN Len(content) ELSE end
     /\ \A i \in 1..Len(content') :
          content'[i] = IF place < i /\ i <= end THEN bytes[i - place]
                        ELSE IF i <= Len(content) THEN content[i] ELSE Zero
     /\ UNCHANGED appending

Seek ==
  /\ ~appending /\ isOpen /\ isOpen' /\ ~lost'
  /\ place' \in Nat
  /\ UNCHANGED <<content, appending>>

\* content, and perhaps zeros behind it.
Padded ==
  /\ SubSeq(content', 1, Len(content)) = content
  /\ \A i \in Len(content) + 1 .. Len(content') : content'[i] = Zero

\* An attempt that fails may leave the file padded, too.
Open ==
  /\ ~isOpen /\ ~lost'
  /\ IF isOpen' THEN content' \in {content, <<>>} ELSE content' = <<>> \/ Padded

Close == isOpen /\ ~isOpen' /\ ~lost' /\ Padded

Lose ==
  /\ isOpen /\ lost'
  /\ Cardinality({i \in DOMAIN content :
                    content[i] # Zero /\ (i > Len(content') \/ content'[i] # content[i])})
       <= Window

\* Nothing the writer can see, but that the loss is past.
Quiet == ~lost' /\ UNCHANGED <<content, place, appending, isOpen>>

Next == (\E bytes \in Chunk : Write(bytes)) \/ Seek \/ Open \/ Close \/ Lose \/ Quiet

Spec == Init /\ [][Next]_byteFileVars
==============================================================================
