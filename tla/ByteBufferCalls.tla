---------------------------- MODULE ByteBufferCalls ----------------------------
(****************************************************************************)
(* The ByteBuffer objects of a program: the typed puts and gets in both     *)
(* byte orders, and who owns the memory when buffers are copied, moved,     *)
(* enlarged or laid over the caller's memory.  An object is the record of   *)
(* ByteBuffer with two more fields.  A value is the sequence of its bytes,  *)
(* the most significant first; the machine is little-endian.                *)
(****************************************************************************)
EXTENDS ByteBuffer, SequencesExt, FiniteSets

CONSTANTS
  Buffers,      \* the objects
  Values,       \* what is put: sequences of one, two, four or eight bytes
  Sizes,        \* the capacities asked for, and the lengths of the caller's memories
  MaxCalls

VARIABLES
  bufs,     \* bufs[b]: the object, or Dead
  fields,   \* fields[b]: what was put and not put over: [at, value, order]
  appended, \* appended[b]: every put was at the end of what was put before
  heap,     \* the memories of new[] that were not deleted
  wrong,    \* delete[] was given something else
  tame,     \* no buffer over the caller's memory was enlarged, assigned to or moved
  ops

byteVars == <<bufs, fields, appended, heap, wrong, tame, ops>>

\* memory: Null, one of new[], or Foreign, the caller's.
Null == 0
Foreign == -1
Fresh(h) == CHOOSE i \in 1..Cardinality(h) + 1 : i \notin h
Object(b, order, memory, owns) ==
  [data |-> b.data, position |-> b.position, size |-> b.size, live |-> b.live,
   order |-> order, memory |-> memory, owns |-> owns]
Dead == Object([NoBuffer EXCEPT !.live = FALSE], "Little", Null, FALSE)
Alive(b) == bufs[b].live

Init ==
  /\ bufs = [b \in Buffers |-> Dead]
  /\ fields = [b \in Buffers |-> {}]
  /\ appended = [b \in Buffers |-> TRUE]
  /\ heap = {} /\ wrong = FALSE /\ tame = TRUE /\ ops = 0

\* A call that leaves buffer b as o, with these fields in it.
Becomes(b, o, fs, end) ==
  /\ ops < MaxCalls /\ ops' = ops + 1
  /\ bufs' = [bufs EXCEPT ![b] = o]
  /\ fields' = [fields EXCEPT ![b] = fs]
  /\ appended' = [appended EXCEPT ![b] = end]
Safe == UNCHANGED <<heap, wrong, tame>>

\* delete[] m_buffer of what was object o, if o thinks that it owns it.
Delete(o) ==
  /\ wrong' = (wrong \/ (o.owns /\ o.memory \notin heap \cup {Null}))
  /\ heap' = IF o.owns THEN heap \ {o.memory} ELSE heap
\* The same, before or after a new[] whose memory the new object has.
Replace(o, new) ==
  /\ wrong' = (wrong \/ (o.owns /\ o.memory \notin heap \cup {Null}))
  /\ heap' = (IF o.owns THEN heap \ {o.memory} ELSE heap) \cup {new}

-----------------------------------------------------------------------------
\* Field f has none of the n bytes at this place.
Apart(f, at, n) == f.at + Len(f.value) <= at \/ at + n <= f.at

\* ByteBuffer(), ByteBuffer(capacity) and ByteBuffer(buffer, size), which copies
\* the buffer but leaves the position in front of it.
Construct(b, bytes, n) ==
  /\ ~Alive(b)
  /\ LET o == [NoBuffer EXCEPT !.data = bytes \o Fill(Zero, n), !.size = Len(bytes)]
         memory == IF o.data = <<>> THEN Null ELSE Fresh(heap)
     IN  /\ Becomes(b, Object(o, "Little", memory, TRUE),
                    {[at |-> i - 1, value |-> <<bytes[i]>>, order |-> "Big"] : i \in DOMAIN bytes}, TRUE)
         /\ heap' = heap \cup ({memory} \ {Null})
  /\ UNCHANGED <<wrong, tame>>

\* ~ByteBuffer
Destroy(b) ==
  /\ Alive(b)
  /\ Becomes(b, Dead, {}, TRUE)
  /\ Delete(bufs[b])
  /\ UNCHANGED tame

\* The copy and the assignment copy every field but m_has_ownership.  The
\* assignment deletes the old memory first: one to itself, which then reads
\* what it has deleted, is left out.
Copy(b, from) ==
  /\ Alive(from) /\ b # from
  /\ LET owns == IF Alive(b) THEN bufs[b].owns ELSE TRUE
         memory == Fresh(heap)
     IN  /\ Becomes(b, [bufs[from] EXCEPT !.owns = owns, !.memory = memory], fields[from], appended[from])
         /\ Replace(bufs[b], memory)
  /\ tame' = (tame /\ bufs[b].memory # Foreign)

\* The move and the move assignment take the memory and leave an empty buffer.
MovedFromMutant(o) == [o EXCEPT !.position = 0, !.size = 0]
MovedFrom(o) == [o EXCEPT !.data = <<>>, !.memory = Null, !.position = 0, !.size = 0]

Move(b, from) ==
  /\ Alive(from) /\ b # from
  /\ ops < MaxCalls /\ ops' = ops + 1
  /\ LET owns == IF Alive(b) THEN bufs[b].owns ELSE TRUE
     IN  bufs' = [bufs EXCEPT ![b] = [bufs[from] EXCEPT !.owns = owns], ![from] = MovedFrom(@)]
  /\ fields' = [fields EXCEPT ![b] = fields[from], ![from] = {}]
  /\ appended' = [appended EXCEPT ![b] = appended[from], ![from] = TRUE]
  /\ Delete(bufs[b])
  /\ tame' = (tame /\ Foreign \notin {bufs[from].memory, bufs[b].memory})

\* allocate copies and deletes the old memory when it owns it; over the
\* caller's memory it starts from nothing, and does not own the new one.
Enlarged(o, n) ==
  LET old == IF o.owns THEN o ELSE [o EXCEPT !.data = <<>>]
  IN  IF Capacity(o) < n THEN [Allocated(old, n) EXCEPT !.memory = Fresh(heap)] ELSE o
Enlarges(o, n) ==
  IF Capacity(o) >= n THEN Safe
  ELSE Replace(o, Fresh(heap)) /\ tame' = (tame /\ o.memory # Foreign)

Allocate(b, n) ==
  /\ Alive(b) /\ Capacity(bufs[b]) < n
  /\ Becomes(b, Enlarged(bufs[b], n), fields[b], appended[b])
  /\ Enlarges(bufs[b], n)

\* StreamIO::read into a buffer of at most n bytes, behind an allocate: the
\* bytes lie in front and the position behind them, and the size stays what it
\* was.  One that fails is an allocate.
ReadInto(b, n, bytes) ==
  /\ Alive(b) /\ Len(bytes) <= n
  /\ LET o == Enlarged(bufs[b], n)
     IN  Becomes(b, [o EXCEPT !.data = Overlay(@, 0, bytes), !.position = Len(bytes)],
                 {f \in fields[b] : Apart(f, 0, Len(bytes))}, appended[b])
  /\ Enlarges(bufs[b], n)

\* setBuffer
SetBuffer(b, n, keepSize) ==
  /\ Alive(b)
  /\ Becomes(b, Object(OverMemory(bufs[b], Fill(Zero, n), keepSize), bufs[b].order, Foreign, FALSE), {}, FALSE)
  /\ Delete(bufs[b])
  /\ UNCHANGED tame

\* clear
Clear(b) == Alive(b) /\ Becomes(b, Cleared(bufs[b]), {}, TRUE) /\ Safe

\* position and setByteOrder
SetPosition(b, p) == Alive(b) /\ Becomes(b, PositionedAt(bufs[b], p), fields[b], appended[b]) /\ Safe
SetByteOrder(b, order) == Alive(b) /\ Becomes(b, [bufs[b] EXCEPT !.order = order], fields[b], appended[b]) /\ Safe

-----------------------------------------------------------------------------
\* htobe and htole, be16toh and the like: big-endian turns the bytes around.
InMemory(value, order) == IF order = "Big" THEN value ELSE Reverse(value)

WithField(b, at, value, order) ==
  {f \in fields[b] : Apart(f, at, Len(value))} \cup {[at |-> at, value |-> value, order |-> order]}

\* put of a byte counts it; the other puts leave the size at the position.
SizeAfter(o, n) == IF n = 1 THEN o.size + 1 ELSE o.position + n

\* put, putUnsignedShort, putUnsignedInt and putUnsignedLong; beyond the
\* capacity they throw.
Put(b, value) ==
  LET o == bufs[b]
      n == Len(value)
  IN  /\ Alive(b) /\ Fits(o, o.position, n)
      /\ Becomes(b, [WithPut(o, o.position, InMemory(value, o.order)) EXCEPT !.size = SizeAfter(o, n)],
                 WithField(b, o.position, value, o.order), appended[b] /\ o.position = o.size)
      /\ Safe

\* putBuffer moves to start before it throws.
PutBuffer(b, start, bytes) ==
  /\ Alive(b)
  /\ IF Fits(bufs[b], start, Len(bytes))
     THEN Becomes(b, WithPut(bufs[b], start, bytes), WithField(b, start, bytes, "Big"),
                  appended[b] /\ start = bufs[b].size)
     ELSE Becomes(b, PositionedAt(bufs[b], start), fields[b], appended[b])
  /\ Safe

\* What a get of n bytes at a position returns, <<>> when it throws: getShort,
\* getInt and getLong are the same bytes with a sign.
GetAt(b, at, n, order) ==
  IF bufs[b].size = 0 \/ ~Fits(bufs[b], at, n) THEN <<>>
  ELSE InMemory(SubSeq(bufs[b].data, at + 1, at + n), order)

\* get, getUnsignedShort and the others without a position, getBuffer(dst, n).
Get(b, n) ==
  /\ Alive(b) /\ GetAt(b, bufs[b].position, n, bufs[b].order) # <<>>
  /\ Becomes(b, PositionedAt(bufs[b], bufs[b].position + n), fields[b], appended[b])
  /\ Safe

Next ==
  \E b \in Buffers :
    \/ \E n \in Sizes \cup {0} : Construct(b, <<>>, n) \/ Allocate(b, n)
    \/ \E v \in Values : Construct(b, v, 0) \/ Put(b, v) \/ Get(b, Len(v))
    \/ \E v \in Values, start \in 0..1 : PutBuffer(b, start, v)
    \/ \E n \in Sizes, v \in Values \cup {<<>>} : ReadInto(b, n, v)
    \/ \E n \in Sizes, keepSize \in BOOLEAN : SetBuffer(b, n, keepSize)
    \/ \E from \in Buffers : Copy(b, from) \/ Move(b, from)
    \/ \E p \in 0..1 : SetPosition(b, p)
    \/ \E order \in {"Big", "Little"} : SetByteOrder(b, order)
    \/ Destroy(b) \/ Clear(b)

Spec == Init /\ [][Next]_byteVars
-----------------------------------------------------------------------------
\* Whatever buffers are copied, moved, enlarged or cleared, each value that was
\* put and not put over is got back, whole, at its place and in its order;
\* what was put one after another counts as the size; and the memories of
\* new[] are exactly those of the buffers that will delete them, each of one
\* buffer: as long as a buffer over the caller's memory is only written and
\* read.
GivesBack ==
  tame =>
    /\ ~wrong
    /\ heap = {bufs[b].memory : b \in {b \in Buffers : bufs[b].owns}} \ {Null}
    /\ \A b, c \in Buffers : b # c => bufs[b].memory \notin {bufs[c].memory} \ {Null, Foreign}
    /\ \A b \in Buffers : \A f \in fields[b] :
         /\ GetAt(b, f.at, Len(f.value), f.order) = f.value
         /\ appended[b] => f.at + Len(f.value) <= bufs[b].size
=============================================================================
