---------------------------- MODULE WidgetTreeProofs ----------------------------
(****************************************************************************)
(* What is proved of the frames of a tree of widgets, for every tree, size  *)
(* and setting: a frame that was laid out puts the visible children of      *)
(* every panel one after another inside it, whatever was changed before it, *)
(* and one widget at most answers a press of the mouse, one on the screen.  *)
(*                                                                          *)
(* It goes from the layout of one panel, its loops and its folds, to the    *)
(* two passes over the panels of a tree, in orders that recursive functions *)
(* give, and from there to the frames.                                      *)
(****************************************************************************)
EXTENDS InterfaceProofs

------------------------------------------------------------------------------
(* The layout of one panel.                                                   *)

\* What a chain of n steps of F makes of base.
Chain(f, S, n, base, F) == f \in [0 .. n -> S] /\ f[0] = base /\ \A k \in 1 .. n : f[k] = F[<<f[k - 1], k>>]

ChainTo(f, S, n, base, F, end) == Chain(f, S, n, base, F) /\ f[n] = end

\* A fold, as such a chain.
Iterates(iter, S, n, base, F, last) ==
  /\ iter[{}] = base
  /\ \A s \in SUBSET (1 .. n) : s # {} /\ iter[s \ {last[s]}] \in S => iter[s] = F[<<iter[s \ {last[s]}], last[s]>>]

LEMMA FoldSteps ==
  ASSUME NEW S, NEW n \in Nat, NEW base \in S, NEW F \in [S \X (1 .. n) -> S],
         NEW last, CutsLast(n, last), NEW iter, Iterates(iter, S, n, base, F, last)
  PROVE  \E f : ChainTo(f, S, n, base, F, iter[1 .. n])
  <1> DEFINE f == [k \in 0 .. n |-> iter[1 .. k]]
             T == {k \in Nat : k <= n => iter[1 .. k] \in S}
  <1>1. ASSUME NEW k \in 1 .. n, iter[1 .. k - 1] \in S
        PROVE  iter[1 .. k] = F[<<iter[1 .. k - 1], k>>] /\ iter[1 .. k] \in S
    <2>1. CutsFirst(n, last, k)
      BY FirstPlaces
    <2>2. iter[1 .. k] = F[<<iter[1 .. k - 1], k>>]
      BY <1>1, <2>1 DEF CutsFirst, Iterates
    <2> QED BY <1>1, <2>2
  <1>2. iter[1 .. 0] = base
    BY NoPlaces DEF Iterates
  <1>3. 0 \in T
    BY <1>2
  <1>4. ASSUME NEW k \in T PROVE k + 1 \in T
    <2> SUFFICES ASSUME k + 1 <= n PROVE iter[1 .. k + 1] \in S
      OBVIOUS
    <2>1. k + 1 \in 1 .. n /\ (k + 1) - 1 = k /\ iter[1 .. k] \in S
      OBVIOUS
    <2> HIDE DEF T
    <2> QED BY <1>1, <2>1
  <1>5. T = Nat
    <2> HIDE DEF T
    <2>1. T \subseteq Nat
      BY DEF T
    <2> QED BY <1>3, <1>4, <2>1, Induction
  <1>6. \A k \in 0 .. n : iter[1 .. k] \in S
    <2>1. \A k \in 0 .. n : k \in T
      <3> HIDE DEF T
      <3> QED BY <1>5
    <2> QED BY <2>1
  <1>7. \A k \in 1 .. n : k - 1 \in 0 .. n /\ k \in 0 .. n
    OBVIOUS
  <1>8. f \in [0 .. n -> S] /\ f[0] = base /\ f[n] = iter[1 .. n]
    BY <1>2, <1>6
  <1>9. \A k \in 1 .. n : f[k] = F[<<f[k - 1], k>>]
    BY <1>1, <1>6, <1>7
  <1> HIDE DEF f
  <1> QED BY <1>8, <1>9 DEF Chain, ChainTo

\* Only one chain is there.
LEMMA OneChain ==
  ASSUME NEW S, NEW n \in Nat, NEW base, NEW F, NEW f, NEW g, Chain(f, S, n, base, F), Chain(g, S, n, base, F)
  PROVE  f[n] = g[n]
  <1> DEFINE T == {k \in Nat : k <= n => f[k] = g[k]}
  <1>1. 0 \in T
    BY DEF Chain
  <1>2. ASSUME NEW k \in T PROVE k + 1 \in T
    <2> SUFFICES ASSUME k + 1 <= n PROVE f[k + 1] = g[k + 1]
      OBVIOUS
    <2>1. k + 1 \in 1 .. n /\ (k + 1) - 1 = k /\ f[k] = g[k]
      OBVIOUS
    <2> HIDE DEF T
    <2> QED BY <2>1 DEF Chain
  <1>3. T = Nat
    <2> HIDE DEF T
    <2>1. T \subseteq Nat
      BY DEF T
    <2> QED BY <1>1, <1>2, <2>1, Induction
  <1>4. n \in T
    <2> HIDE DEF T
    <2> QED BY <1>3
  <1> QED BY <1>4

LEMMA TreeLastOf ==
  ASSUME NEW n \in Nat, NEW last, last = [s \in SUBSET (1 .. n) |-> Tree!Max(s)]
  PROVE  CutsLast(n, last)
  <1> SUFFICES ASSUME NEW k \in 1 .. n, NEW s \in SUBSET (1 .. k), k \in s PROVE last[s] = k
    BY DEF CutsLast
  <1>1. s \in SUBSET (1 .. n) /\ s \subseteq Int
    OBVIOUS
  <1>2. \A y \in s : k >= y
    OBVIOUS
  <1>3. \A x \in s : (\A y \in s : x >= y) => x = k
    BY <1>1, <1>2
  <1>4. Tree!Max(s) = k
    BY <1>2, <1>3 DEF Tree!Max
  <1> QED BY <1>1, <1>4

\* A fold over a sequence with the steps F is some function, whatever it is
\* called: FoldExists gives one that the step function of the fold agrees with.
Folds(iter, S, n, base, F) ==
  /\ iter[{}] = base
  /\ \A s \in SUBSET (1 .. n) : s # {} => /\ Tree!Max(s) \in 1 .. n /\ s \ {Tree!Max(s)} \in SUBSET (1 .. n)
                                          /\ iter[s \ {Tree!Max(s)}] \in S
                                          /\ iter[s] = F[<<iter[s \ {Tree!Max(s)}], Tree!Max(s)>>]

LEMMA FoldsExist ==
  ASSUME NEW S, NEW n \in Nat, NEW base \in S, NEW F \in [S \X (1 .. n) -> S]
  PROVE  \E g : g \in [SUBSET (1 .. n) -> S] /\ Folds(g, S, n, base, F)
  <1> DEFINE last == [s \in SUBSET (1 .. n) |-> Tree!Max(s)]
  <1>1. CutsLast(n, last)
    <2> HIDE DEF last
    <2> QED BY TreeLastOf DEF last
  <1>2. \A s \in SUBSET (1 .. n) : last[s] = Tree!Max(s)
    OBVIOUS
  <1> HIDE DEF last
  <1>3. PICK g : IsFold(g, S, n, base, F, last)
    BY <1>1, FoldExists
  <1>4. ASSUME NEW s \in SUBSET (1 .. n), s # {}
        PROVE  last[s] \in 1 .. n /\ s \ {last[s]} \in SUBSET (1 .. n)
    BY <1>1, <1>4, LastIn
  <1>5. /\ g \in [SUBSET (1 .. n) -> S]
        /\ \A s \in SUBSET (1 .. n) : g[s] = IF s = {} THEN base ELSE F[<<g[s \ {last[s]}], last[s]>>]
    BY <1>3 DEF IsFold
  <1>6. {} \in SUBSET (1 .. n)
    OBVIOUS
  <1>7. g[{}] = base
    BY <1>5, <1>6
  <1>8. ASSUME NEW s \in SUBSET (1 .. n), s # {}
        PROVE  /\ Tree!Max(s) \in 1 .. n /\ s \ {Tree!Max(s)} \in SUBSET (1 .. n)
               /\ g[s \ {Tree!Max(s)}] \in S
               /\ g[s] = F[<<g[s \ {Tree!Max(s)}], Tree!Max(s)>>]
    <2>1. last[s] = Tree!Max(s)
      BY <1>2
    <2>2. last[s] \in 1 .. n /\ s \ {last[s]} \in SUBSET (1 .. n)
      BY <1>4, <1>8
    <2>3. g[s] = F[<<g[s \ {last[s]}], last[s]>>]
      BY <1>5, <1>8
    <2>4. g[s \ {last[s]}] \in S
      BY <1>5, <2>2
    <2> QED BY <2>1, <2>2, <2>3, <2>4
  <1>9. Folds(g, S, n, base, F)
    BY <1>7, <1>8 DEF Folds
  <1> QED BY <1>5, <1>9

LEMMA FoldChain ==
  ASSUME NEW S, NEW n \in Nat, NEW base \in S, NEW F \in [S \X (1 .. n) -> S], NEW iter,
         iter[{}] = base,
         \A s \in SUBSET (1 .. n) : s # {} /\ iter[s \ {Tree!Max(s)}] \in S /\ Tree!Max(s) \in 1 .. n
                                      => iter[s] = F[<<iter[s \ {Tree!Max(s)}], Tree!Max(s)>>]
  PROVE  \E f : ChainTo(f, S, n, base, F, iter[1 .. n])
  <1> DEFINE last == [s \in SUBSET (1 .. n) |-> Tree!Max(s)]
  <1>1. CutsLast(n, last)
    <2> HIDE DEF last
    <2> QED BY TreeLastOf DEF last
  <1>2. \A s \in SUBSET (1 .. n) : last[s] = Tree!Max(s)
    OBVIOUS
  <1> HIDE DEF last
  <1>3. \A s \in SUBSET (1 .. n) : s # {} => last[s] \in 1 .. n
    BY <1>1, LastIn
  <1>4. ASSUME NEW s \in SUBSET (1 .. n), s # {}, iter[s \ {last[s]}] \in S
        PROVE  iter[s] = F[<<iter[s \ {last[s]}], last[s]>>]
    BY <1>2, <1>3, <1>4
  <1>5. Iterates(iter, S, n, base, F, last)
    BY <1>4 DEF Iterates
  <1> QED BY <1>1, <1>5, FoldSteps
------------------------------------------------------------------------------
(* The objects of widgets.                                                    *)

\* The minimum is maintained along an axis.
Holds(o, axis) == o.min[axis] <= o.size[axis]

\* q is o with another size.
Resized(q, o) ==
  /\ q \in Obj /\ q.pos = o.pos /\ q.padding = o.padding /\ q.margin = o.margin /\ q.min = o.min
  /\ q.grow = o.grow /\ q.shrink = o.shrink /\ q.hidden = o.hidden

LEMMA SizeIs ==
  /\ \A x \in Sizes16 : x \in Nat /\ x \in Int /\ x <= 65535
  /\ \A x \in Int : x % Tree!Short \in Sizes16
  /\ \A x \in Int : 0 <= x /\ x <= 65535 => x % Tree!Short = x
  <1>1. \A x \in Sizes16 : x \in Nat /\ x \in Int /\ x <= 65535
    BY DEF Sizes16, Tree!Short, Short
  <1>2. \A x \in Int : x % Tree!Short \in Sizes16
    BY DEF Sizes16, Tree!Short, Short
  <1>3. \A x \in Int : 0 <= x /\ x <= 65535 => x % Tree!Short = x
    BY DEF Tree!Short
  <1> QED BY <1>1, <1>2, <1>3

LEMMA SidesOf ==
  ASSUME NEW axis \in 1 .. 2
  PROVE  /\ Tree!StartSide(axis) \in 1 .. 4 /\ Tree!EndSide(axis) \in 1 .. 4 /\ 3 - axis \in 1 .. 2 /\ 3 - axis # axis
         /\ Tree!BorderSize(axis) \in Nat /\ BorderWidth \in Nat
  BY BorderAssumption DEF Tree!StartSide, Tree!EndSide, Tree!BorderSize

LEMMA ObjHas ==
  ASSUME NEW o \in Obj, NEW axis \in 1 .. 2
  PROVE  /\ o.pos[axis] \in Int /\ o.size[axis] \in Sizes16 /\ o.min[axis] \in Sizes16 /\ o.hidden \in BOOLEAN
         /\ o.grow \in Nat /\ o.shrink \in Nat
         /\ o.padding[Tree!StartSide(axis)] \in Nat /\ o.padding[Tree!EndSide(axis)] \in Nat
         /\ o.margin[Tree!StartSide(axis)] \in Nat /\ o.margin[Tree!EndSide(axis)] \in Nat
         /\ Tree!Frame(o, axis) \in Nat
         /\ Tree!ContentSize(o, axis) \in Int /\ Tree!ContentSize(o, axis) <= 65535
         /\ Tree!ContentStart(o, axis) \in Int /\ Tree!SizeWithMargin(o, axis) \in Nat
  <1>1. /\ o.pos \in [1 .. 2 -> Int] /\ o.size \in [1 .. 2 -> Sizes16] /\ o.min \in [1 .. 2 -> Sizes16]
        /\ o.padding \in [1 .. 4 -> Nat] /\ o.margin \in [1 .. 4 -> Nat] /\ o.hidden \in BOOLEAN
        /\ o.grow \in Nat /\ o.shrink \in Nat
    BY DEF Obj
  <1>2. Tree!StartSide(axis) \in 1 .. 4 /\ Tree!EndSide(axis) \in 1 .. 4 /\ Tree!BorderSize(axis) \in Nat /\ BorderWidth \in Nat
    BY SidesOf
  <1>3. /\ o.pos[axis] \in Int /\ o.size[axis] \in Sizes16 /\ o.min[axis] \in Sizes16
        /\ o.padding[Tree!StartSide(axis)] \in Nat /\ o.padding[Tree!EndSide(axis)] \in Nat
        /\ o.margin[Tree!StartSide(axis)] \in Nat /\ o.margin[Tree!EndSide(axis)] \in Nat
    BY <1>1, <1>2
  <1>4. o.size[axis] \in Nat /\ o.size[axis] <= 65535
    BY <1>3, SizeIs
  <1>5. Tree!Frame(o, axis) \in Nat
    BY <1>2, <1>3 DEF Tree!Frame
  <1>6. Tree!ContentSize(o, axis) \in Int /\ Tree!ContentSize(o, axis) <= 65535
    BY <1>4, <1>5 DEF Tree!ContentSize
  <1>7. Tree!ContentStart(o, axis) \in Int /\ Tree!SizeWithMargin(o, axis) \in Nat
    BY <1>2, <1>3, <1>4 DEF Tree!ContentStart, Tree!SizeWithMargin
  <1> QED BY <1>1, <1>3, <1>5, <1>6, <1>7

\* A pair of sizes as a tuple.
LEMMA PairIs ==
  ASSUME NEW S, NEW a \in S, NEW b \in S
  PROVE  <<a, b>> \in [1 .. 2 -> S] /\ <<a, b>>[1] = a /\ <<a, b>>[2] = b
  OBVIOUS

LEMMA SizeMaxIs ==
  ASSUME NEW a \in Int, NEW m \in Sizes16
  PROVE  /\ Tree!SizeMax(a, m) \in Int
         /\ a >= m => Tree!SizeMax(a, m) = a
         /\ a >= 0 /\ a <= m => Tree!SizeMax(a, m) = m
  BY DEF Tree!SizeMax, Tree!SizeLess, Sizes16

\* setWinsize maintains the minimum.
LEMMA SetWinsizeIs ==
  ASSUME NEW o \in Obj, NEW w \in Int, NEW h \in Int, NEW q, q = Tree!SetWinsize(o, w, h)
  PROVE  /\ Resized(q, o)
         /\ o.min[1] <= w /\ w <= 65535 => q.size[1] = w
         /\ 0 <= w /\ w <= o.min[1] => q.size[1] = o.min[1]
         /\ o.min[2] <= h /\ h <= 65535 => q.size[2] = h
         /\ 0 <= h /\ h <= o.min[2] => q.size[2] = o.min[2]
  <1> DEFINE a == Tree!SizeMax(w, o.min[1]) % Tree!Short
             b == Tree!SizeMax(h, o.min[2]) % Tree!Short
             size == <<a, b>>
  <1>1. o.min \in [1 .. 2 -> Sizes16] /\ o.min[1] \in Sizes16 /\ o.min[2] \in Sizes16
    BY DEF Obj
  <1>2. a \in Sizes16 /\ b \in Sizes16
    <2>1. Tree!SizeMax(w, o.min[1]) \in Int /\ Tree!SizeMax(h, o.min[2]) \in Int
      BY <1>1, SizeMaxIs
    <2> QED BY <2>1, SizeIs
  <1>3. size \in [1 .. 2 -> Sizes16] /\ size[1] = a /\ size[2] = b
    BY <1>2, PairIs
  <1>4. q = [o EXCEPT !.size = size]
    BY DEF Tree!SetWinsize
  <1> HIDE DEF size
  <1>5. Resized(q, o) /\ q.size = size
    BY <1>3, <1>4 DEF Obj, Resized
  <1>6. /\ o.min[1] <= w /\ w <= 65535 => a = w
        /\ 0 <= w /\ w <= o.min[1] => a = o.min[1]
    <2> DEFINE most == o.min[1]
               top == Tree!SizeMax(w, most)
    <2>1. most \in Sizes16 /\ most \in Int /\ 0 <= most /\ most <= 65535
      BY <1>1, SizeIs
    <2>2. a = top % Tree!Short
      OBVIOUS
    <2>3. top \in Int /\ (w >= most => top = w) /\ (w >= 0 /\ w <= most => top = most)
      BY <2>1, SizeMaxIs
    <2> HIDE DEF most, top
    <2> QED BY <2>1, <2>2, <2>3, SizeIs DEF most
  <1>7. /\ o.min[2] <= h /\ h <= 65535 => b = h
        /\ 0 <= h /\ h <= o.min[2] => b = o.min[2]
    <2> DEFINE most == o.min[2]
               top == Tree!SizeMax(h, most)
    <2>1. most \in Sizes16 /\ most \in Int /\ 0 <= most /\ most <= 65535
      BY <1>1, SizeIs
    <2>2. b = top % Tree!Short
      OBVIOUS
    <2>3. top \in Int /\ (h >= most => top = h) /\ (h >= 0 /\ h <= most => top = most)
      BY <2>1, SizeMaxIs
    <2> HIDE DEF most, top
    <2> QED BY <2>1, <2>2, <2>3, SizeIs DEF most
  <1> HIDE DEF a, b
  <1> QED BY <1>3, <1>5, <1>6, <1>7

LEMMA SetSizeIs ==
  ASSUME NEW o \in Obj, NEW axis \in 1 .. 2, NEW n \in Int, NEW q, q = Tree!SetSize(o, axis, n)
  PROVE  /\ Resized(q, o)
         /\ o.min[axis] <= n /\ n <= 65535 => q.size[axis] = n
         /\ 0 <= n /\ n <= o.min[axis] => q.size[axis] = o.min[axis]
         /\ Holds(o, 3 - axis) => q.size[3 - axis] = o.size[3 - axis]
  <1>1. /\ o.size[1] \in Int /\ o.size[1] <= 65535 /\ o.size[2] \in Int /\ o.size[2] <= 65535
    <2>1. o.size \in [1 .. 2 -> Sizes16]
      BY DEF Obj
    <2>2. o.size[1] \in Sizes16 /\ o.size[2] \in Sizes16
      BY <2>1
    <2> QED BY <2>2, SizeIs
  <1>2. CASE axis = 1
    <2>1. q = Tree!SetWinsize(o, n, o.size[2]) /\ 3 - axis = 2
      BY <1>2 DEF Tree!SetSize
    <2> QED BY <1>1, <1>2, <2>1, SetWinsizeIs DEF Holds
  <1>3. CASE axis = 2
    <2>1. q = Tree!SetWinsize(o, o.size[1], n) /\ 3 - axis = 1
      BY <1>3 DEF Tree!SetSize
    <2> QED BY <1>1, <1>3, <2>1, SetWinsizeIs DEF Holds
  <1> QED BY <1>2, <1>3

LEMMA SetContentSizeIs ==
  ASSUME NEW o \in Obj, NEW axis \in 1 .. 2, NEW n \in Int, NEW q, q = Tree!SetContentSize(o, axis, n)
  PROVE  /\ Resized(q, o)
         /\ Holds(o, 3 - axis) => q.size[3 - axis] = o.size[3 - axis]
  <1>1. n + Tree!Frame(o, axis) \in Int
    BY ObjHas
  <1>2. q = Tree!SetSize(o, axis, n + Tree!Frame(o, axis))
    BY DEF Tree!SetContentSize
  <1> QED BY <1>1, <1>2, SetSizeIs

\* What one child gets of the space, and what all of them get.
LEMMA DivIs ==
  ASSUME NEW n \in Int, NEW t \in Int, t > 0
  PROVE  n \div t \in Int /\ t * (n \div t) <= n /\ n < t * ((n \div t) + 1)
  BY Z3T(20)

LEMMA ShareIs ==
  ASSUME NEW space \in Int, NEW factor \in Nat, NEW total \in Nat \ {0}, factor <= total, NEW share,
         share = Tree!Truncate(space * factor, total)
  PROVE  /\ share \in Int
         /\ space >= 0 => share >= 0 /\ share <= space /\ total * share <= space * factor
         /\ space < 0 => share <= 0
  <1> DEFINE n == space * factor
             m == -n
  <1>1. n \in Int /\ (space >= 0 => n >= 0 /\ n <= total * space) /\ (space < 0 => n <= 0)
    <2>1. n \in Int
      OBVIOUS
    <2>2. ASSUME space >= 0 PROVE n >= 0 /\ n <= total * space
      BY <2>2
    <2>3. ASSUME space < 0 PROVE n <= 0
      BY <2>3
    <2> QED BY <2>1, <2>2, <2>3
  <1>2. share = IF n >= 0 THEN n \div total ELSE -(m \div total)
    BY DEF Tree!Truncate
  <1>3. m \in Int
    BY <1>1
  <1>6. n >= 0 => m <= 0
    BY <1>1
  <1>7. n < 0 => m > 0
    BY <1>1
  <1> HIDE DEF n, m
  <1>4. n \div total \in Int /\ total * (n \div total) <= n /\ n < total * ((n \div total) + 1)
    BY <1>1, DivIs
  <1>5. m \div total \in Int /\ total * (m \div total) <= m /\ m < total * ((m \div total) + 1)
    BY <1>3, DivIs
  <1> DEFINE d == n \div total
             e == m \div total
  <1>8. n >= 0 => d >= 0
    <2> HIDE DEF d
    <2> QED BY <1>1, <1>4 DEF d
  <1>9. n < 0 => e >= 0
    BY <1>3, <1>5, <1>7
  <1>10. ASSUME space >= 0 PROVE share >= 0 /\ share <= space /\ total * share <= space * factor
    <2>1. share = d /\ d >= 0 /\ total * d <= n /\ n <= total * space
      BY <1>1, <1>2, <1>4, <1>8, <1>10
    <2>2. d <= space
      <3> HIDE DEF d
      <3>1. d \in Int
        BY <1>4 DEF d
      <3>2. total * d <= total * space
        BY <1>1, <2>1, <3>1
      <3> QED BY <3>1, <3>2
    <2> QED BY <2>1, <2>2 DEF n
  <1>11. ASSUME space < 0 PROVE share <= 0
    <2>1. n <= 0
      BY <1>1, <1>11
    <2>2. CASE n = 0
      <3>1. total * d <= 0
        BY <1>4, <2>2
      <3>2. share = d
        BY <1>2, <2>2
      <3> HIDE DEF d
      <3> QED BY <3>1, <3>2, <1>4 DEF d
    <2>3. CASE n < 0
      <3>1. share = -e /\ e >= 0 /\ e \in Int
        BY <1>1, <1>2, <1>5, <1>9, <2>3
      <3> HIDE DEF e
      <3> QED BY <3>1
    <2> QED BY <2>1, <2>2, <2>3, <1>1
  <1>12. share \in Int
    BY <1>2, <1>4, <1>5
  <1> QED BY <1>10, <1>11, <1>12
------------------------------------------------------------------------------
(* The two loops of layout, a child at a time.                                *)

Accs == [objs : Objs, occupied : Int, short : BOOLEAN]

\* What the resizing loop makes of a child, of which it has space to give, or
\* to take when space is below zero.
ChildResized(r, acc, c, axis, space, factor, total, available) ==
  LET o == acc.objs[c]
      new == r.objs[c]
  IN  /\ Holds(new, axis)
      /\ space < 0 => \/ factor[c] = 0 \/ new.size[axis] = new.min[axis]
                      \/ new.margin[Tree!StartSide(axis)] > 0 \/ r.occupied <= available
      /\ space > 0 => total * (new.size[axis] - o.size[axis]) <= space * factor[c]

AfterResizing(r, acc, c, axis, space, factor, total, available) ==
  /\ r \in Accs /\ r.objs = [acc.objs EXCEPT ![c] = r.objs[c]] /\ Resized(r.objs[c], acc.objs[c])
  /\ r.occupied = acc.occupied + Tree!SizeWithMargin(r.objs[c], axis)
  /\ acc.short => r.short
  /\ Holds(acc.objs[c], axis) /\ ~r.short /\ acc.objs[c].size[axis] + space <= 65535
       => ChildResized(r, acc, c, axis, space, factor, total, available)

LEMMA ResizeChildIs ==
  ASSUME NEW acc \in Accs, NEW c \in Tree!Widgets, NEW axis \in 1 .. 2, NEW space \in Int,
         NEW factor \in [Tree!Widgets -> Nat], NEW total \in Nat \ {0}, factor[c] <= total,
         NEW available \in Int
  PROVE  AfterResizing(Tree!ResizeChild(acc, c, axis, space, factor, total, available),
                       acc, c, axis, space, factor, total, available)
  <1> SUFFICES
        ASSUME NEW r, r = Tree!ResizeChild(acc, c, axis, space, factor, total, available)
        PROVE  AfterResizing(r, acc, c, axis, space, factor, total, available)
    OBVIOUS
  <1> DEFINE o == acc.objs[c]
             f == factor[c]
             share == Tree!Truncate(space * f, total)
             wanted == o.size[axis] + share
             start == o.margin[Tree!StartSide(axis)]
             end == o.margin[Tree!EndSide(axis)]
             overflow == acc.occupied + wanted + end - available
             cut == IF overflow >= 0 THEN wanted - overflow - end ELSE wanted
             goal == IF space < 0 THEN Tree!SizeMax(cut, o.min[axis]) ELSE cut
             new == IF f = 0 THEN o ELSE Tree!SetSize(o, axis, goal)
             objects == [acc.objs EXCEPT ![c] = new]
             occ == acc.occupied + Tree!SizeWithMargin(new, axis)
             shorter == acc.short \/ (f # 0 /\ cut < 0)
  <1>1. r = [objs |-> objects, occupied |-> occ, short |-> shorter]
    BY DEF Tree!ResizeChild, Tree!ComputeSize
  <1>2. acc.objs \in Objs /\ acc.occupied \in Int /\ acc.short \in BOOLEAN /\ o \in Obj /\ f \in Nat
    BY DEF Accs, Objs
  <1>3. o.size[axis] \in Int /\ o.min[axis] \in Sizes16 /\ o.min[axis] \in Nat /\ start \in Nat /\ end \in Nat /\ o.size[axis] >= 0
    <2> HIDE DEF o
    <2> QED BY <1>2, ObjHas, SizeIs
  <1>4. /\ share \in Int
        /\ space >= 0 => share >= 0 /\ share <= space /\ total * share <= space * f
        /\ space < 0 => share <= 0
    <2>1. f \in Nat /\ f <= total
      BY <1>2
    <2> HIDE DEF f
    <2> QED BY <2>1, ShareIs
  <1> HIDE DEF share
  <1>5. wanted \in Int /\ overflow \in Int /\ cut \in Int
    BY <1>2, <1>3, <1>4
  <1> DEFINE most == Tree!SizeMax(cut, o.min[axis])
  <1>6. most \in Int /\ (cut >= o.min[axis] => most = cut) /\ (cut >= 0 /\ cut <= o.min[axis] => most = o.min[axis])
    <2> HIDE DEF cut, o
    <2> QED BY <1>3, <1>5, SizeMaxIs
  <1>7. goal \in Int
    BY <1>5, <1>6
  <1> DEFINE changed == Tree!SetSize(o, axis, goal)
  <1>8. /\ Resized(changed, o)
        /\ o.min[axis] <= goal /\ goal <= 65535 => changed.size[axis] = goal
        /\ 0 <= goal /\ goal <= o.min[axis] => changed.size[axis] = o.min[axis]
    <2> HIDE DEF goal, o
    <2> QED BY <1>2, <1>7, SetSizeIs
  <1> HIDE DEF changed
  <1>9. new = IF f = 0 THEN o ELSE changed
    BY DEF changed
  <1> HIDE DEF new
  <1>10. Resized(new, o) /\ new \in Obj
    BY <1>2, <1>8, <1>9 DEF Resized
  <1>11. objects \in Objs /\ objects[c] = new
    BY <1>2, <1>10 DEF Objs
  <1>12. Tree!SizeWithMargin(new, axis) \in Nat
    BY <1>10, ObjHas
  <1>13. occ \in Int /\ shorter \in BOOLEAN
    BY <1>2, <1>12
  <1> HIDE DEF objects, occ, shorter
  <1>14. /\ r \in Accs /\ r.objs = objects /\ r.occupied = occ /\ r.short = shorter
    BY <1>1, <1>11, <1>13 DEF Accs
  <1>15. ASSUME Holds(o, axis), ~shorter, o.size[axis] + space <= 65535
         PROVE  ChildResized(r, acc, c, axis, space, factor, total, available)
    <2>1. new.min[axis] = o.min[axis] /\ new.margin[Tree!StartSide(axis)] = start /\ new.margin[Tree!EndSide(axis)] = end
      BY <1>10 DEF Resized
    <2>2. o.min[axis] <= o.size[axis] /\ (f # 0 => cut >= 0)
      BY <1>5, <1>15 DEF Holds, shorter
    <2>3. CASE f = 0
      <3>1. new = o
        BY <1>9, <2>3
      <3>2. total * (o.size[axis] - o.size[axis]) <= space * f
        BY <1>3, <2>3
      <3> QED BY <1>11, <1>14, <1>15, <2>3, <3>1, <3>2 DEF ChildResized
    <2>4. CASE f # 0
      <3>1. new = changed /\ cut >= 0 /\ cut <= wanted
        BY <1>3, <1>5, <1>9, <2>2, <2>4
      <3>2. CASE space < 0
        <4>1. goal = most /\ wanted <= o.size[axis]
          BY <1>3, <1>4, <3>2
        <4>2. goal >= o.min[axis] /\ goal <= 65535 /\ (goal = cut \/ goal = o.min[axis])
          <5>1. o.size[axis] <= 65535 /\ o.min[axis] <= 65535
            <6> HIDE DEF o
            <6> QED BY <1>2, ObjHas, SizeIs
          <5> HIDE DEF cut, wanted, most, goal
          <5> QED BY <1>3, <1>5, <1>6, <3>1, <4>1, <5>1
        <4>3. new.size[axis] = goal
          BY <1>8, <3>1, <4>2
        <4>4. occ = acc.occupied + goal + start + end
          <5>1. occ = acc.occupied + Tree!SizeWithMargin(new, axis)
            BY DEF occ
          <5> HIDE DEF goal
          <5> QED BY <1>2, <1>3, <1>7, <2>1, <4>3, <5>1 DEF Tree!SizeWithMargin
        <4>5. goal = o.min[axis] \/ start > 0 \/ occ <= available
          <5>1. SUFFICES ASSUME goal = cut, start = 0 PROVE occ <= available
            BY <1>3, <4>2
          <5> HIDE DEF goal, most
          <5>2. occ = acc.occupied + cut + end
            <6> HIDE DEF cut, start, end
            <6> QED BY <1>2, <1>3, <1>5, <4>4, <5>1
          <5>3. CASE overflow >= 0
            <6>1. cut = available - acc.occupied - end - end
              BY <1>2, <1>3, <1>4, <5>3
            <6> HIDE DEF cut
            <6> QED BY <1>2, <1>3, <5>2, <6>1
          <5>4. CASE overflow < 0
            BY <1>2, <1>3, <1>4, <5>2, <5>4
          <5> QED BY <1>5, <5>3, <5>4
        <4> HIDE DEF goal, o, start
        <4>6. Holds(new, axis)
          BY <2>1, <4>2, <4>3 DEF Holds
        <4>7. new.size[axis] = new.min[axis] \/ new.margin[Tree!StartSide(axis)] > 0 \/ occ <= available
          BY <2>1, <4>3, <4>5
        <4> QED BY <1>11, <1>14, <3>2, <4>6, <4>7 DEF ChildResized
      <3>3. CASE space >= 0
        <4>1. goal = cut
          BY <3>3
        <4>2. wanted <= o.size[axis] + space /\ wanted <= 65535 /\ o.size[axis] <= wanted
          BY <1>3, <1>4, <1>15, <3>3
        <4>3. new.size[axis] >= o.min[axis] /\ new.size[axis] <= wanted /\ new.size[axis] \in Int
          <5>1. goal <= 65535 /\ goal >= 0 /\ goal \in Int
            BY <1>5, <3>1, <4>1, <4>2
          <5>2. CASE o.min[axis] <= goal
            <6>1. new.size[axis] = goal
              BY <1>8, <3>1, <5>1, <5>2
            <6> QED BY <3>1, <4>1, <5>1, <5>2, <6>1
          <5>3. CASE ~(o.min[axis] <= goal)
            <6>1. goal <= o.min[axis]
              <7> HIDE DEF goal
              <7> QED BY <1>3, <5>1, <5>3
            <6>2. new.size[axis] = o.min[axis]
              BY <1>8, <3>1, <5>1, <6>1
            <6> QED BY <1>3, <1>5, <2>2, <4>2, <6>2
          <5> QED BY <5>2, <5>3
        <4>4. Holds(new, axis)
          BY <2>1, <4>3 DEF Holds
        <4>5. total * (new.size[axis] - o.size[axis]) <= space * f
          <5> DEFINE more == new.size[axis] - o.size[axis]
          <5>1. more \in Int /\ more <= share
            BY <1>3, <1>4, <4>3
          <5>2. total * share <= space * f
            BY <1>4, <3>3
          <5>3. total * more <= total * share
            <6> HIDE DEF more
            <6> QED BY <1>4, <5>1
          <5>4. total * more \in Int /\ total * share \in Int /\ space * f \in Int
            <6> HIDE DEF more, f
            <6> QED BY <1>2, <1>4, <5>1
          <5> HIDE DEF more
          <5>5. total * more <= space * f
            BY <5>2, <5>3, <5>4
          <5> QED BY <5>5 DEF more
        <4> HIDE DEF goal, o
        <4> QED BY <1>11, <1>14, <3>3, <4>4, <4>5 DEF ChildResized, o
      <3> QED BY <3>2, <3>3
    <2> QED BY <2>3, <2>4
  <1>16. r.objs = [acc.objs EXCEPT ![c] = r.objs[c]]
    BY <1>11, <1>14 DEF objects
  <1>17. Resized(r.objs[c], acc.objs[c])
    BY <1>10, <1>11, <1>14
  <1>18. r.occupied = acc.occupied + Tree!SizeWithMargin(r.objs[c], axis)
    BY <1>11, <1>14 DEF occ
  <1>19. acc.short => r.short
    BY <1>14 DEF shorter
  <1> QED BY <1>14, <1>15, <1>16, <1>17, <1>18, <1>19 DEF AfterResizing

\* Where the placing loop puts a child.
PlaceAccs == [objs : Objs, main : Int]
Alignments == {"Start", "Center", "End", "Streatch"}

\* q is o at another place, and of another size across the axis.
Placed(q, o) ==
  /\ q \in Obj /\ q.padding = o.padding /\ q.margin = o.margin /\ q.min = o.min
  /\ q.grow = o.grow /\ q.shrink = o.shrink /\ q.hidden = o.hidden

AfterPlacing(r, acc, c, axis) ==
  /\ r \in PlaceAccs /\ r.objs = [acc.objs EXCEPT ![c] = r.objs[c]] /\ Placed(r.objs[c], acc.objs[c])
  /\ r.main = acc.main + Tree!SizeWithMargin(acc.objs[c], axis)
  /\ r.objs[c].pos[axis] = acc.main + acc.objs[c].margin[Tree!StartSide(axis)]
  /\ Holds(acc.objs[c], axis) => r.objs[c].size[axis] = acc.objs[c].size[axis]

LEMMA PlaceChildIs ==
  ASSUME NEW acc \in PlaceAccs, NEW c \in Tree!Widgets, NEW axis \in 1 .. 2, NEW alignment \in Alignments,
         NEW crossPos \in Int, NEW crossSize \in Int
  PROVE  AfterPlacing(Tree!PlaceChild(acc, c, axis, alignment, crossPos, crossSize), acc, c, axis)
  <1> SUFFICES
        ASSUME NEW r, r = Tree!PlaceChild(acc, c, axis, alignment, crossPos, crossSize)
        PROVE  AfterPlacing(r, acc, c, axis)
    OBVIOUS
  <1> DEFINE cross == 3 - axis
             o == acc.objs[c]
             free == crossSize - Tree!SizeWithMargin(o, cross)
             inside == CASE alignment = "Start"    -> o.margin[Tree!StartSide(cross)]
                         [] alignment = "Center"   -> free \div 2
                         [] alignment = "End"      -> free - o.margin[Tree!EndSide(cross)]
                         [] alignment = "Streatch" -> 0
             at == crossPos + inside
             stretched == Tree!SetSize(o, cross, crossSize)
             sized == IF alignment = "Streatch" THEN stretched ELSE o
             main == acc.main + o.margin[Tree!StartSide(axis)]
             pos == IF axis = 1 THEN <<main, at>> ELSE <<at, main>>
             new == [sized EXCEPT !.pos = pos]
             objects == [acc.objs EXCEPT ![c] = new]
             next == acc.main + Tree!SizeWithMargin(o, axis)
  <1>1. r = [objs |-> objects, main |-> next]
    BY DEF Tree!PlaceChild
  <1>2. acc.objs \in Objs /\ acc.main \in Int /\ o \in Obj
    BY DEF PlaceAccs, Objs
  <1>3. cross \in 1 .. 2 /\ 3 - cross = axis
    OBVIOUS
  <1> HIDE DEF cross, o
  <1>4. /\ Tree!SizeWithMargin(o, cross) \in Nat /\ Tree!SizeWithMargin(o, axis) \in Nat
        /\ o.margin[Tree!StartSide(cross)] \in Nat /\ o.margin[Tree!EndSide(cross)] \in Nat
        /\ o.margin[Tree!StartSide(axis)] \in Nat
    BY <1>2, <1>3, ObjHas
  <1>5. main \in Int /\ next \in Int
    BY <1>2, <1>4
  <1>6. at \in Int
    <2>1. free \in Int
      BY <1>4
    <2> HIDE DEF free
    <2>2. free \div 2 \in Int
      BY <2>1
    <2>3. inside \in Int
      BY <1>4, <2>1, <2>2 DEF Alignments
    <2> HIDE DEF inside
    <2> QED BY <2>3
  <1>7. Resized(stretched, o) /\ (Holds(o, axis) => stretched.size[axis] = o.size[axis])
    BY <1>2, <1>3, SetSizeIs
  <1> HIDE DEF stretched, main, at, next
  <1>8. sized \in Obj /\ (Holds(o, axis) => sized.size[axis] = o.size[axis]) /\ Placed(sized, o)
    BY <1>2, <1>7 DEF Resized, Placed
  <1> HIDE DEF sized
  <1>9. pos \in [1 .. 2 -> Int] /\ pos[axis] = main
    <2>1. CASE axis = 1
      BY <1>5, <1>6, <2>1, PairIs
    <2>2. CASE axis # 1
      BY <1>5, <1>6, <2>2, PairIs
    <2> QED BY <2>1, <2>2
  <1> HIDE DEF pos
  <1>10. new \in Obj /\ Placed(new, o) /\ new.pos = pos /\ new.size = sized.size
    BY <1>8, <1>9 DEF Obj, Placed
  <1> HIDE DEF new
  <1>11. objects \in Objs /\ objects[c] = new
    BY <1>2, <1>10 DEF Objs
  <1>12. r \in PlaceAccs /\ r.objs = objects /\ r.main = next
    <2> HIDE DEF objects
    <2> QED BY <1>1, <1>5, <1>11 DEF PlaceAccs
  <1>13. r.objs = [acc.objs EXCEPT ![c] = r.objs[c]]
    BY <1>11, <1>12
  <1> HIDE DEF objects
  <1>14. r.objs[c].pos[axis] = main /\ (Holds(o, axis) => r.objs[c].size[axis] = o.size[axis])
    BY <1>8, <1>9, <1>10, <1>11, <1>12
  <1> QED BY <1>10, <1>11, <1>12, <1>13, <1>14 DEF main, next, o, AfterPlacing
------------------------------------------------------------------------------
(* The folds of layout, a child at a time.                                    *)

\* The sum of some sizes.
LEMMA TotalIs ==
  ASSUME NEW seq \in Seq(Tree!Widgets), NEW sizes \in [Tree!Widgets -> Int]
  PROVE  \E f : /\ f \in [0 .. Len(seq) -> Int] /\ f[0] = 0
                /\ \A k \in 1 .. Len(seq) : f[k] = f[k - 1] + sizes[seq[k]]
                /\ Tree!Total(sizes, seq) = f[Len(seq)]
  <1> DEFINE n == Len(seq)
             base == 0
             S == Int
             Step(acc, i) == acc + sizes[seq[i]]
             Eq(f) == f = [s \in SUBSET DOMAIN seq |->
                             IF s = {} THEN base ELSE f[s \ {Tree!Max(s)}] + sizes[seq[Tree!Max(s)]]]
             iter == CHOOSE f : Eq(f)
             F == [p \in S \X (1 .. n) |-> Step(p[1], p[2])]
  <1>1. Tree!Total(sizes, seq) = iter[DOMAIN seq]
    BY DEF Tree!Total, Tree!FoldLeft, Tree!MapThenFoldSet
  <1>2. n \in Nat /\ DOMAIN seq = 1 .. n /\ \A i \in 1 .. n : seq[i] \in Tree!Widgets
    OBVIOUS
  <1>3. base \in S
    OBVIOUS
  <1>4. \A acc \in S, i \in 1 .. n : Step(acc, i) \in S
    BY <1>2
  <1>5. \A s : Eq(s) <=> s = [t \in SUBSET (1 .. n) |-> IF t = {} THEN base ELSE Step(s[t \ {Tree!Max(t)}], Tree!Max(t))]
    BY <1>2
  <1> HIDE DEF iter, Eq, Step, S, base, n
  <1>6. F \in [S \X (1 .. n) -> S] /\ \A acc \in S, i \in 1 .. n : F[<<acc, i>>] = Step(acc, i)
    BY <1>4
  <1> HIDE DEF F
  <1>7. \E f : Eq(f)
    <2>1. PICK g : g \in [SUBSET (1 .. n) -> S] /\ Folds(g, S, n, base, F)
      BY <1>2, <1>3, <1>6, FoldsExist
    <2>2. ASSUME NEW t \in SUBSET (1 .. n)
          PROVE  g[t] = IF t = {} THEN base ELSE Step(g[t \ {Tree!Max(t)}], Tree!Max(t))
      BY <1>6, <2>1 DEF Folds
    <2>3. g = [t \in SUBSET (1 .. n) |-> IF t = {} THEN base ELSE Step(g[t \ {Tree!Max(t)}], Tree!Max(t))]
      BY <2>1, <2>2
    <2> QED BY <1>5, <2>3
  <1>8. Eq(iter)
    BY <1>7 DEF iter
  <1>9. iter[{}] = base
    BY <1>5, <1>8
  <1>10. ASSUME NEW s \in SUBSET (1 .. n), s # {}, iter[s \ {Tree!Max(s)}] \in S, Tree!Max(s) \in 1 .. n
         PROVE  iter[s] = F[<<iter[s \ {Tree!Max(s)}], Tree!Max(s)>>]
    <2>1. iter[s] = Step(iter[s \ {Tree!Max(s)}], Tree!Max(s))
      BY <1>5, <1>8, <1>10
    <2> QED BY <1>6, <1>10, <2>1
  <1>11. PICK f : ChainTo(f, S, n, base, F, iter[1 .. n])
    BY <1>2, <1>3, <1>6, <1>9, <1>10, FoldChain
  <1>12. /\ f \in [0 .. n -> S] /\ f[0] = base /\ f[n] = iter[1 .. n]
         /\ \A k \in 1 .. n : f[k] = F[<<f[k - 1], k>>]
    BY <1>11 DEF Chain, ChainTo
  <1>13. ASSUME NEW k \in 1 .. n PROVE f[k] = Step(f[k - 1], k)
    <2>1. k - 1 \in 0 .. n
      BY <1>2
    <2> QED BY <1>6, <1>12, <2>1
  <1>14. Tree!Total(sizes, seq) = f[n]
    BY <1>1, <1>2, <1>12
  <1> QED BY <1>12, <1>13, <1>14 DEF S, base, Step, n

\* The largest of some sizes.
LEMMA LargestIs ==
  ASSUME NEW seq \in Seq(Tree!Widgets), NEW sizes \in [Tree!Widgets -> Int]
  PROVE  \E f : /\ f \in [0 .. Len(seq) -> Int] /\ f[0] = 0
                /\ \A k \in 1 .. Len(seq) : f[k] = (IF sizes[seq[k]] > f[k - 1] THEN sizes[seq[k]] ELSE f[k - 1])
                /\ Tree!Largest(sizes, seq) = f[Len(seq)]
  <1> DEFINE n == Len(seq)
             base == 0
             S == Int
             Step(acc, i) == (IF sizes[seq[i]] > acc THEN sizes[seq[i]] ELSE acc)
             Eq(f) == f = [s \in SUBSET DOMAIN seq |->
                             IF s = {} THEN base ELSE (IF sizes[seq[Tree!Max(s)]] > f[s \ {Tree!Max(s)}] THEN sizes[seq[Tree!Max(s)]] ELSE f[s \ {Tree!Max(s)}])]
             iter == CHOOSE f : Eq(f)
             F == [p \in S \X (1 .. n) |-> Step(p[1], p[2])]
  <1>1. Tree!Largest(sizes, seq) = iter[DOMAIN seq]
    BY DEF Tree!Largest, Tree!FoldLeft, Tree!MapThenFoldSet
  <1>2. n \in Nat /\ DOMAIN seq = 1 .. n /\ \A i \in 1 .. n : seq[i] \in Tree!Widgets
    OBVIOUS
  <1>3. base \in S
    OBVIOUS
  <1>4. \A acc \in S, i \in 1 .. n : Step(acc, i) \in S
    BY <1>2
  <1>5. \A s : Eq(s) <=> s = [t \in SUBSET (1 .. n) |-> IF t = {} THEN base ELSE Step(s[t \ {Tree!Max(t)}], Tree!Max(t))]
    BY <1>2
  <1> HIDE DEF iter, Eq, Step, S, base, n
  <1>6. F \in [S \X (1 .. n) -> S] /\ \A acc \in S, i \in 1 .. n : F[<<acc, i>>] = Step(acc, i)
    BY <1>4
  <1> HIDE DEF F
  <1>7. \E f : Eq(f)
    <2>1. PICK g : g \in [SUBSET (1 .. n) -> S] /\ Folds(g, S, n, base, F)
      BY <1>2, <1>3, <1>6, FoldsExist
    <2>2. ASSUME NEW t \in SUBSET (1 .. n)
          PROVE  g[t] = IF t = {} THEN base ELSE Step(g[t \ {Tree!Max(t)}], Tree!Max(t))
      BY <1>6, <2>1 DEF Folds
    <2>3. g = [t \in SUBSET (1 .. n) |-> IF t = {} THEN base ELSE Step(g[t \ {Tree!Max(t)}], Tree!Max(t))]
      BY <2>1, <2>2
    <2> QED BY <1>5, <2>3
  <1>8. Eq(iter)
    BY <1>7 DEF iter
  <1>9. iter[{}] = base
    BY <1>5, <1>8
  <1>10. ASSUME NEW s \in SUBSET (1 .. n), s # {}, iter[s \ {Tree!Max(s)}] \in S, Tree!Max(s) \in 1 .. n
         PROVE  iter[s] = F[<<iter[s \ {Tree!Max(s)}], Tree!Max(s)>>]
    <2>1. iter[s] = Step(iter[s \ {Tree!Max(s)}], Tree!Max(s))
      BY <1>5, <1>8, <1>10
    <2> QED BY <1>6, <1>10, <2>1
  <1>11. PICK f : ChainTo(f, S, n, base, F, iter[1 .. n])
    BY <1>2, <1>3, <1>6, <1>9, <1>10, FoldChain
  <1>12. /\ f \in [0 .. n -> S] /\ f[0] = base /\ f[n] = iter[1 .. n]
         /\ \A k \in 1 .. n : f[k] = F[<<f[k - 1], k>>]
    BY <1>11 DEF Chain, ChainTo
  <1>13. ASSUME NEW k \in 1 .. n PROVE f[k] = Step(f[k - 1], k)
    <2>1. k - 1 \in 0 .. n
      BY <1>2
    <2> QED BY <1>6, <1>12, <2>1
  <1>14. Tree!Largest(sizes, seq) = f[n]
    BY <1>1, <1>2, <1>12
  <1> QED BY <1>12, <1>13, <1>14 DEF S, base, Step, n

\* The children that are not hidden.
LEMMA VisibleSteps ==
  ASSUME NEW seq \in Seq(Tree!Widgets), NEW os
  PROVE  \E f : /\ f \in [0 .. Len(seq) -> Seq(Tree!Widgets)] /\ f[0] = <<>>
                /\ \A k \in 1 .. Len(seq) : f[k] = (IF os[seq[k]].hidden THEN f[k - 1] ELSE Append(f[k - 1], seq[k]))
                /\ Tree!Visible(os, seq) = f[Len(seq)]
  <1> DEFINE n == Len(seq)
             base == <<>>
             S == Seq(Tree!Widgets)
             Step(acc, i) == (IF os[seq[i]].hidden THEN acc ELSE Append(acc, seq[i]))
             Eq(f) == f = [s \in SUBSET DOMAIN seq |->
                             IF s = {} THEN base ELSE (IF os[seq[Tree!Max(s)]].hidden THEN f[s \ {Tree!Max(s)}] ELSE Append(f[s \ {Tree!Max(s)}], seq[Tree!Max(s)]))]
             iter == CHOOSE f : Eq(f)
             F == [p \in S \X (1 .. n) |-> Step(p[1], p[2])]
  <1>1. Tree!Visible(os, seq) = iter[DOMAIN seq]
    BY DEF Tree!Visible, Tree!FoldLeft, Tree!MapThenFoldSet
  <1>2. n \in Nat /\ DOMAIN seq = 1 .. n /\ \A i \in 1 .. n : seq[i] \in Tree!Widgets
    OBVIOUS
  <1>3. base \in S
    OBVIOUS
  <1>4. \A acc \in S, i \in 1 .. n : Step(acc, i) \in S
    BY <1>2
  <1>5. \A s : Eq(s) <=> s = [t \in SUBSET (1 .. n) |-> IF t = {} THEN base ELSE Step(s[t \ {Tree!Max(t)}], Tree!Max(t))]
    BY <1>2
  <1> HIDE DEF iter, Eq, Step, S, base, n
  <1>6. F \in [S \X (1 .. n) -> S] /\ \A acc \in S, i \in 1 .. n : F[<<acc, i>>] = Step(acc, i)
    BY <1>4
  <1> HIDE DEF F
  <1>7. \E f : Eq(f)
    <2>1. PICK g : g \in [SUBSET (1 .. n) -> S] /\ Folds(g, S, n, base, F)
      BY <1>2, <1>3, <1>6, FoldsExist
    <2>2. ASSUME NEW t \in SUBSET (1 .. n)
          PROVE  g[t] = IF t = {} THEN base ELSE Step(g[t \ {Tree!Max(t)}], Tree!Max(t))
      BY <1>6, <2>1 DEF Folds
    <2>3. g = [t \in SUBSET (1 .. n) |-> IF t = {} THEN base ELSE Step(g[t \ {Tree!Max(t)}], Tree!Max(t))]
      BY <2>1, <2>2
    <2> QED BY <1>5, <2>3
  <1>8. Eq(iter)
    BY <1>7 DEF iter
  <1>9. iter[{}] = base
    BY <1>5, <1>8
  <1>10. ASSUME NEW s \in SUBSET (1 .. n), s # {}, iter[s \ {Tree!Max(s)}] \in S, Tree!Max(s) \in 1 .. n
         PROVE  iter[s] = F[<<iter[s \ {Tree!Max(s)}], Tree!Max(s)>>]
    <2>1. iter[s] = Step(iter[s \ {Tree!Max(s)}], Tree!Max(s))
      BY <1>5, <1>8, <1>10
    <2> QED BY <1>6, <1>10, <2>1
  <1>11. PICK f : ChainTo(f, S, n, base, F, iter[1 .. n])
    BY <1>2, <1>3, <1>6, <1>9, <1>10, FoldChain
  <1>12. /\ f \in [0 .. n -> S] /\ f[0] = base /\ f[n] = iter[1 .. n]
         /\ \A k \in 1 .. n : f[k] = F[<<f[k - 1], k>>]
    BY <1>11 DEF Chain, ChainTo
  <1>13. ASSUME NEW k \in 1 .. n PROVE f[k] = Step(f[k - 1], k)
    <2>1. k - 1 \in 0 .. n
      BY <1>2
    <2> QED BY <1>6, <1>12, <2>1
  <1>14. Tree!Visible(os, seq) = f[n]
    BY <1>1, <1>2, <1>12
  <1> QED BY <1>12, <1>13, <1>14 DEF S, base, Step, n

\* f is what the resizing loop makes of acc0, step by step.
ResizeRun(f, seq, acc0, axis, space, factor, total, available) ==
  /\ f \in [0 .. Len(seq) -> Accs] /\ f[0] = acc0
  /\ \A k \in 1 .. Len(seq) : f[k] = Tree!ResizeChild(f[k - 1], seq[k], axis, space, factor, total, available)
  /\ Tree!FoldLeft(LAMBDA acc, c : Tree!ResizeChild(acc, c, axis, space, factor, total, available), acc0, seq) = f[Len(seq)]

\* The resizing loop.
LEMMA ResizeSteps ==
  ASSUME NEW seq \in Seq(Tree!Widgets), NEW acc0 \in Accs, NEW axis \in 1 .. 2, NEW space \in Int,
         NEW factor \in [Tree!Widgets -> Nat], NEW total \in Nat \ {0}, NEW available \in Int,
         \A i \in 1 .. Len(seq) : factor[seq[i]] <= total
  PROVE  \E f : ResizeRun(f, seq, acc0, axis, space, factor, total, available)
  <1> DEFINE n == Len(seq)
             base == acc0
             S == Accs
             Step(acc, i) == Tree!ResizeChild(acc, seq[i], axis, space, factor, total, available)
             Eq(f) == f = [s \in SUBSET DOMAIN seq |->
                             IF s = {} THEN base ELSE Tree!ResizeChild(f[s \ {Tree!Max(s)}], seq[Tree!Max(s)], axis, space, factor, total, available)]
             iter == CHOOSE f : Eq(f)
             F == [p \in S \X (1 .. n) |-> Step(p[1], p[2])]
  <1>1. Tree!FoldLeft(LAMBDA acc, c : Tree!ResizeChild(acc, c, axis, space, factor, total, available), acc0, seq) = iter[DOMAIN seq]
    BY DEF Tree!FoldLeft, Tree!MapThenFoldSet
  <1>2. n \in Nat /\ DOMAIN seq = 1 .. n /\ \A i \in 1 .. n : seq[i] \in Tree!Widgets
    OBVIOUS
  <1>3. base \in S
    OBVIOUS
  <1>4. \A acc \in S, i \in 1 .. n : Step(acc, i) \in S
    <2> SUFFICES ASSUME NEW acc \in Accs, NEW i \in 1 .. n PROVE Step(acc, i) \in Accs
      OBVIOUS
    <2> DEFINE c == seq[i]
    <2>1. c \in Tree!Widgets /\ factor[c] <= total
      BY <1>2
    <2> HIDE DEF n, c, S, Step, F, iter, Eq, base
    <2>2. AfterResizing(Tree!ResizeChild(acc, c, axis, space, factor, total, available),
                      acc, c, axis, space, factor, total, available)
      BY <2>1, ResizeChildIs
    <2>3. Tree!ResizeChild(acc, c, axis, space, factor, total, available) \in Accs
      BY <2>2 DEF AfterResizing
    <2> QED BY <2>3 DEF c, Step
  <1>5. \A s : Eq(s) <=> s = [t \in SUBSET (1 .. n) |-> IF t = {} THEN base ELSE Step(s[t \ {Tree!Max(t)}], Tree!Max(t))]
    BY <1>2
  <1> HIDE DEF iter, Eq, Step, S, base, n
  <1>6. F \in [S \X (1 .. n) -> S] /\ \A acc \in S, i \in 1 .. n : F[<<acc, i>>] = Step(acc, i)
    BY <1>4
  <1> HIDE DEF F
  <1>7. \E f : Eq(f)
    <2>1. PICK g : g \in [SUBSET (1 .. n) -> S] /\ Folds(g, S, n, base, F)
      BY <1>2, <1>3, <1>6, FoldsExist
    <2>2. ASSUME NEW t \in SUBSET (1 .. n)
          PROVE  g[t] = IF t = {} THEN base ELSE Step(g[t \ {Tree!Max(t)}], Tree!Max(t))
      BY <1>6, <2>1 DEF Folds
    <2>3. g = [t \in SUBSET (1 .. n) |-> IF t = {} THEN base ELSE Step(g[t \ {Tree!Max(t)}], Tree!Max(t))]
      BY <2>1, <2>2
    <2> QED BY <1>5, <2>3
  <1>8. Eq(iter)
    BY <1>7 DEF iter
  <1>9. iter[{}] = base
    BY <1>5, <1>8
  <1>10. ASSUME NEW s \in SUBSET (1 .. n), s # {}, iter[s \ {Tree!Max(s)}] \in S, Tree!Max(s) \in 1 .. n
         PROVE  iter[s] = F[<<iter[s \ {Tree!Max(s)}], Tree!Max(s)>>]
    <2>1. iter[s] = Step(iter[s \ {Tree!Max(s)}], Tree!Max(s))
      BY <1>5, <1>8, <1>10
    <2> QED BY <1>6, <1>10, <2>1
  <1>11. PICK f : ChainTo(f, S, n, base, F, iter[1 .. n])
    BY <1>2, <1>3, <1>6, <1>9, <1>10, FoldChain
  <1>12. /\ f \in [0 .. n -> S] /\ f[0] = base /\ f[n] = iter[1 .. n]
         /\ \A k \in 1 .. n : f[k] = F[<<f[k - 1], k>>]
    BY <1>11 DEF Chain, ChainTo
  <1>13. ASSUME NEW k \in 1 .. n PROVE f[k] = Step(f[k - 1], k)
    <2>1. k - 1 \in 0 .. n
      BY <1>2
    <2> QED BY <1>6, <1>12, <2>1
  <1>14. Tree!FoldLeft(LAMBDA acc, c : Tree!ResizeChild(acc, c, axis, space, factor, total, available), acc0, seq) = f[n]
    BY <1>1, <1>2, <1>12
  <1> QED BY <1>12, <1>13, <1>14 DEF S, base, Step, n, ResizeRun

\* f is what the placing loop makes of acc0, step by step.
PlaceRun(f, seq, acc0, axis, alignment, crossPos, crossSize) ==
  /\ f \in [0 .. Len(seq) -> PlaceAccs] /\ f[0] = acc0
  /\ \A k \in 1 .. Len(seq) : f[k] = Tree!PlaceChild(f[k - 1], seq[k], axis, alignment, crossPos, crossSize)
  /\ Tree!FoldLeft(LAMBDA acc, c : Tree!PlaceChild(acc, c, axis, alignment, crossPos, crossSize), acc0, seq) = f[Len(seq)]

\* The placing loop.
LEMMA PlaceSteps ==
  ASSUME NEW seq \in Seq(Tree!Widgets), NEW acc0 \in PlaceAccs, NEW axis \in 1 .. 2, NEW alignment \in Alignments,
         NEW crossPos \in Int, NEW crossSize \in Int
  PROVE  \E f : PlaceRun(f, seq, acc0, axis, alignment, crossPos, crossSize)
  <1> DEFINE n == Len(seq)
             base == acc0
             S == PlaceAccs
             Step(acc, i) == Tree!PlaceChild(acc, seq[i], axis, alignment, crossPos, crossSize)
             Eq(f) == f = [s \in SUBSET DOMAIN seq |->
                             IF s = {} THEN base ELSE Tree!PlaceChild(f[s \ {Tree!Max(s)}], seq[Tree!Max(s)], axis, alignment, crossPos, crossSize)]
             iter == CHOOSE f : Eq(f)
             F == [p \in S \X (1 .. n) |-> Step(p[1], p[2])]
  <1>1. Tree!FoldLeft(LAMBDA acc, c : Tree!PlaceChild(acc, c, axis, alignment, crossPos, crossSize), acc0, seq) = iter[DOMAIN seq]
    BY DEF Tree!FoldLeft, Tree!MapThenFoldSet
  <1>2. n \in Nat /\ DOMAIN seq = 1 .. n /\ \A i \in 1 .. n : seq[i] \in Tree!Widgets
    OBVIOUS
  <1>3. base \in S
    OBVIOUS
  <1>4. \A acc \in S, i \in 1 .. n : Step(acc, i) \in S
    <2> SUFFICES ASSUME NEW acc \in PlaceAccs, NEW i \in 1 .. n PROVE Step(acc, i) \in PlaceAccs
      OBVIOUS
    <2> DEFINE c == seq[i]
    <2>1. c \in Tree!Widgets
      BY <1>2
    <2> HIDE DEF n, c, S, Step, F, iter, Eq, base
    <2>2. AfterPlacing(Tree!PlaceChild(acc, c, axis, alignment, crossPos, crossSize), acc, c, axis)
      BY <2>1, PlaceChildIs
    <2>3. Tree!PlaceChild(acc, c, axis, alignment, crossPos, crossSize) \in PlaceAccs
      BY <2>2 DEF AfterPlacing
    <2> QED BY <2>3 DEF c, Step
  <1>5. \A s : Eq(s) <=> s = [t \in SUBSET (1 .. n) |-> IF t = {} THEN base ELSE Step(s[t \ {Tree!Max(t)}], Tree!Max(t))]
    BY <1>2
  <1> HIDE DEF iter, Eq, Step, S, base, n
  <1>6. F \in [S \X (1 .. n) -> S] /\ \A acc \in S, i \in 1 .. n : F[<<acc, i>>] = Step(acc, i)
    BY <1>4
  <1> HIDE DEF F
  <1>7. \E f : Eq(f)
    <2>1. PICK g : g \in [SUBSET (1 .. n) -> S] /\ Folds(g, S, n, base, F)
      BY <1>2, <1>3, <1>6, FoldsExist
    <2>2. ASSUME NEW t \in SUBSET (1 .. n)
          PROVE  g[t] = IF t = {} THEN base ELSE Step(g[t \ {Tree!Max(t)}], Tree!Max(t))
      BY <1>6, <2>1 DEF Folds
    <2>3. g = [t \in SUBSET (1 .. n) |-> IF t = {} THEN base ELSE Step(g[t \ {Tree!Max(t)}], Tree!Max(t))]
      BY <2>1, <2>2
    <2> QED BY <1>5, <2>3
  <1>8. Eq(iter)
    BY <1>7 DEF iter
  <1>9. iter[{}] = base
    BY <1>5, <1>8
  <1>10. ASSUME NEW s \in SUBSET (1 .. n), s # {}, iter[s \ {Tree!Max(s)}] \in S, Tree!Max(s) \in 1 .. n
         PROVE  iter[s] = F[<<iter[s \ {Tree!Max(s)}], Tree!Max(s)>>]
    <2>1. iter[s] = Step(iter[s \ {Tree!Max(s)}], Tree!Max(s))
      BY <1>5, <1>8, <1>10
    <2> QED BY <1>6, <1>10, <2>1
  <1>11. PICK f : ChainTo(f, S, n, base, F, iter[1 .. n])
    BY <1>2, <1>3, <1>6, <1>9, <1>10, FoldChain
  <1>12. /\ f \in [0 .. n -> S] /\ f[0] = base /\ f[n] = iter[1 .. n]
         /\ \A k \in 1 .. n : f[k] = F[<<f[k - 1], k>>]
    BY <1>11 DEF Chain, ChainTo
  <1>13. ASSUME NEW k \in 1 .. n PROVE f[k] = Step(f[k - 1], k)
    <2>1. k - 1 \in 0 .. n
      BY <1>2
    <2> QED BY <1>6, <1>12, <2>1
  <1>14. Tree!FoldLeft(LAMBDA acc, c : Tree!PlaceChild(acc, c, axis, alignment, crossPos, crossSize), acc0, seq) = f[n]
    BY <1>1, <1>2, <1>12
  <1> QED BY <1>12, <1>13, <1>14 DEF S, base, Step, n, PlaceRun
------------------------------------------------------------------------------
(* The visible children, and loops that change one widget at a time.          *)

Distinct(seq) == \A i, j \in 1 .. Len(seq) : seq[i] = seq[j] => i = j

\* vis shows the widgets of seq that are not hidden, each as often as it is in seq.
ShownOf(vis, os, seq) ==
  /\ vis \in Seq(Tree!Widgets)
  /\ \A i \in 1 .. Len(vis) : ~os[vis[i]].hidden /\ \E k \in 1 .. Len(seq) : vis[i] = seq[k]
  /\ \A k \in 1 .. Len(seq) : ~os[seq[k]].hidden => \E i \in 1 .. Len(vis) : vis[i] = seq[k]
  /\ Distinct(seq) => Distinct(vis)

LEMMA AppendIs ==
  ASSUME NEW S, NEW s \in Seq(S), NEW e \in S
  PROVE  /\ Append(s, e) \in Seq(S) /\ Len(s) \in Nat /\ Len(Append(s, e)) = Len(s) + 1
         /\ Append(s, e)[Len(s) + 1] = e
         /\ \A i \in 1 .. Len(s) : Append(s, e)[i] = s[i]
  OBVIOUS

LEMMA VisibleIs ==
  ASSUME NEW seq \in Seq(Tree!Widgets), NEW os
  PROVE  ShownOf(Tree!Visible(os, seq), os, seq)
  <1> DEFINE n == Len(seq)
             So(s, k) == /\ s \in Seq(Tree!Widgets)
                         /\ \A i \in 1 .. Len(s) : ~os[s[i]].hidden /\ \E j \in 1 .. k : s[i] = seq[j]
                         /\ \A j \in 1 .. k : ~os[seq[j]].hidden => \E i \in 1 .. Len(s) : s[i] = seq[j]
                         /\ Distinct(seq) => Distinct(s)
  <1>1. PICK f : /\ f \in [0 .. n -> Seq(Tree!Widgets)] /\ f[0] = <<>>
                 /\ \A k \in 1 .. n : f[k] = (IF os[seq[k]].hidden THEN f[k - 1] ELSE Append(f[k - 1], seq[k]))
                 /\ Tree!Visible(os, seq) = f[n]
    BY VisibleSteps
  <1> DEFINE T == {k \in Nat : k <= n => So(f[k], k)}
  <1>2. n \in Nat /\ \A k \in 1 .. n : seq[k] \in Tree!Widgets
    OBVIOUS
  <1>3. 0 \in T
    BY <1>1 DEF Distinct
  <1>4. ASSUME NEW k \in T PROVE k + 1 \in T
    <2> SUFFICES ASSUME k + 1 <= n PROVE So(f[k + 1], k + 1)
      OBVIOUS
    <2>1. k \in Nat /\ k + 1 \in 1 .. n /\ (k + 1) - 1 = k /\ k \in 0 .. n /\ So(f[k], k)
      BY <1>2
    <2> DEFINE e == seq[k + 1]
               s == f[k]
    <2>2. e \in Tree!Widgets /\ s \in Seq(Tree!Widgets)
      BY <1>1, <1>2, <2>1
    <2>3. f[k + 1] = (IF os[e].hidden THEN s ELSE Append(s, e))
      BY <1>1, <2>1
    <2>4. CASE os[e].hidden
      <3>1. \A j \in 1 .. k + 1 : j \in 1 .. k \/ j = k + 1
        BY <2>1
      <3>2. \A j \in 1 .. k : j \in 1 .. k + 1
        BY <2>1
      <3> HIDE DEF n, T
      <3> QED BY <2>1, <2>2, <2>3, <2>4, <3>1, <3>2
    <2>5. CASE ~os[e].hidden
      <3> DEFINE t == Append(s, e)
                 m == Len(s)
      <3>1. /\ t \in Seq(Tree!Widgets) /\ m \in Nat /\ Len(t) = m + 1 /\ t[m + 1] = e
            /\ \A i \in 1 .. m : t[i] = s[i]
        <4> HIDE DEF s, e
        <4> QED BY <2>2, AppendIs
      <3>2. f[k + 1] = t
        BY <2>3, <2>5
      <3>3. \A i \in 1 .. m : ~os[s[i]].hidden /\ \E j \in 1 .. k : s[i] = seq[j]
        BY <2>1
      <3>4. \A j \in 1 .. k : ~os[seq[j]].hidden => \E i \in 1 .. m : s[i] = seq[j]
        BY <2>1
      <3>5. Distinct(seq) => Distinct(s)
        BY <2>1
      <3> HIDE DEF t, n, T
      <3>6. \A i \in 1 .. m + 1 : i \in 1 .. m \/ i = m + 1
        BY <3>1
      <3>7. \A i \in 1 .. m : i \in 1 .. m + 1
        BY <3>1
      <3>8. k + 1 \in 1 .. k + 1 /\ m + 1 \in 1 .. m + 1 /\ \A j \in 1 .. k : j \in 1 .. k + 1
        BY <2>1, <3>1
      <3>9. \A i \in 1 .. Len(t) : ~os[t[i]].hidden /\ \E j \in 1 .. k + 1 : t[i] = seq[j]
        <4> TAKE i \in 1 .. Len(t)
        <4>1. CASE i = m + 1
          BY <2>5, <3>1, <3>8, <4>1
        <4>2. CASE i \in 1 .. m
          BY <3>1, <3>3, <3>8, <4>2
        <4> HIDE DEF m
        <4> QED BY <3>1, <3>6, <4>1, <4>2
      <3>10. \A j \in 1 .. k + 1 : ~os[seq[j]].hidden => \E i \in 1 .. Len(t) : t[i] = seq[j]
        <4> TAKE j \in 1 .. k + 1
        <4>1. CASE j = k + 1
          BY <3>1, <3>8, <4>1
        <4>2. CASE j \in 1 .. k
          <5> HIDE DEF m, s
          <5> QED BY <3>1, <3>4, <3>7, <4>2
        <4> QED BY <2>1, <4>1, <4>2
      <3>11. ASSUME Distinct(seq) PROVE Distinct(t)
        <4>1. \A i \in 1 .. m : s[i] # e
          <5> TAKE i \in 1 .. m
          <5>1. PICK j \in 1 .. k : s[i] = seq[j]
            BY <3>3
          <5>2. j \in 1 .. Len(seq) /\ k + 1 \in 1 .. Len(seq) /\ j # k + 1
            BY <2>1 DEF n
          <5> QED BY <3>11, <5>1, <5>2 DEF Distinct
        <4>2. \A i, j \in 1 .. m : s[i] = s[j] => i = j
          BY <3>5, <3>11 DEF Distinct
        <4> HIDE DEF m, s, e
        <4> QED BY <3>1, <3>6, <4>1, <4>2 DEF Distinct
      <3> QED BY <3>1, <3>2, <3>9, <3>10, <3>11
    <2> QED BY <2>4, <2>5
  <1>5. T = Nat
    <2> HIDE DEF T
    <2>1. T \subseteq Nat
      BY DEF T
    <2> QED BY <1>3, <1>4, <2>1, Induction
  <1>6. So(f[n], n)
    <2>1. n \in T
      <3> HIDE DEF T, n
      <3> QED BY <1>2, <1>5
    <2> HIDE DEF So
    <2> QED BY <1>2, <2>1
  <1> QED BY <1>1, <1>6 DEF ShownOf

\* They depend on what is hidden alone.
LEMMA VisibleSame ==
  ASSUME NEW seq \in Seq(Tree!Widgets), NEW os, NEW qs,
         \A k \in 1 .. Len(seq) : os[seq[k]].hidden = qs[seq[k]].hidden
  PROVE  Tree!Visible(os, seq) = Tree!Visible(qs, seq)
  <1> DEFINE n == Len(seq)
  <1>1. PICK f : /\ f \in [0 .. n -> Seq(Tree!Widgets)] /\ f[0] = <<>>
                 /\ \A k \in 1 .. n : f[k] = (IF os[seq[k]].hidden THEN f[k - 1] ELSE Append(f[k - 1], seq[k]))
                 /\ Tree!Visible(os, seq) = f[n]
    BY VisibleSteps
  <1>2. PICK g : /\ g \in [0 .. n -> Seq(Tree!Widgets)] /\ g[0] = <<>>
                 /\ \A k \in 1 .. n : g[k] = (IF qs[seq[k]].hidden THEN g[k - 1] ELSE Append(g[k - 1], seq[k]))
                 /\ Tree!Visible(qs, seq) = g[n]
    BY VisibleSteps
  <1> DEFINE T == {k \in Nat : k <= n => f[k] = g[k]}
  <1>3. n \in Nat
    OBVIOUS
  <1>4. 0 \in T
    BY <1>1, <1>2
  <1>5. ASSUME NEW k \in T PROVE k + 1 \in T
    <2> SUFFICES ASSUME k + 1 <= n PROVE f[k + 1] = g[k + 1]
      OBVIOUS
    <2>1. k + 1 \in 1 .. n /\ (k + 1) - 1 = k /\ f[k] = g[k]
      BY <1>3
    <2>2. f[k + 1] = (IF os[seq[k + 1]].hidden THEN f[k] ELSE Append(f[k], seq[k + 1]))
      BY <1>1, <2>1
    <2>3. g[k + 1] = (IF qs[seq[k + 1]].hidden THEN g[k] ELSE Append(g[k], seq[k + 1]))
      BY <1>2, <2>1
    <2> HIDE DEF T
    <2> QED BY <2>1, <2>2, <2>3
  <1>6. T = Nat
    <2> HIDE DEF T
    <2>1. T \subseteq Nat
      BY DEF T
    <2> QED BY <1>4, <1>5, <2>1, Induction
  <1>7. n \in T
    <2> HIDE DEF T, n
    <2> QED BY <1>3, <1>6
  <1> QED BY <1>1, <1>2, <1>3, <1>7

\* A loop over the widgets of vis that changes one of them at a time.
Loops(g, vis) ==
  /\ g \in [0 .. Len(vis) -> Objs]
  /\ \A k \in 1 .. Len(vis) : g[k] = [g[k - 1] EXCEPT ![vis[k]] = g[k][vis[k]]]

LEMMA LoopKeeps ==
  ASSUME NEW vis \in Seq(Tree!Widgets), NEW g, Loops(g, vis), NEW c \in Tree!Widgets,
         NEW a \in 0 .. Len(vis), NEW b \in 0 .. Len(vis), a <= b, \A k \in 1 .. Len(vis) : a < k /\ k <= b => vis[k] # c
  PROVE  g[a][c] = g[b][c]
  <1> DEFINE n == Len(vis)
             T == {d \in Nat : a + d <= b => g[a][c] = g[a + d][c]}
  <1>1. n \in Nat /\ a \in Nat /\ b \in Nat /\ b <= n
    OBVIOUS
  <1>2. 0 \in T
    BY <1>1
  <1>3. ASSUME NEW d \in T PROVE d + 1 \in T
    <2> SUFFICES ASSUME a + (d + 1) <= b PROVE g[a][c] = g[a + (d + 1)][c]
      OBVIOUS
    <2>1. d \in Nat /\ g[a][c] = g[a + d][c]
      BY <1>1
    <2> DEFINE k == a + (d + 1)
    <2>2. k \in 1 .. n /\ k - 1 = a + d /\ a < k /\ k <= b /\ k - 1 \in 0 .. n
      BY <1>1, <2>1
    <2> HIDE DEF k, T
    <2>3. g[k] = [g[k - 1] EXCEPT ![vis[k]] = g[k][vis[k]]] /\ g[k - 1] \in Objs /\ vis[k] # c
      BY <2>2 DEF Loops
    <2>4. g[k][c] = g[k - 1][c]
      BY <2>3 DEF Objs
    <2> QED BY <2>1, <2>2, <2>4 DEF k
  <1>4. T = Nat
    <2> HIDE DEF T
    <2>1. T \subseteq Nat
      BY DEF T
    <2> QED BY <1>2, <1>3, <2>1, Induction
  <1>5. b - a \in T /\ a + (b - a) = b
    <2>1. b - a \in Nat /\ a + (b - a) = b
      BY <1>1
    <2> HIDE DEF T
    <2> QED BY <1>4, <2>1
  <1> QED BY <1>1, <1>5

\* Each is as it was before its step, and stays as it is after it.
LEMMA LoopChanges ==
  ASSUME NEW vis \in Seq(Tree!Widgets), Distinct(vis), NEW g, Loops(g, vis), NEW k \in 1 .. Len(vis)
  PROVE  g[k - 1][vis[k]] = g[0][vis[k]] /\ g[Len(vis)][vis[k]] = g[k][vis[k]]
  <1> DEFINE n == Len(vis)
  <1>1. n \in Nat /\ k \in Nat /\ k >= 1 /\ k <= n /\ vis[k] \in Tree!Widgets /\ n \in 0 .. n /\ k - 1 \in 0 .. n /\ 0 \in 0 .. n /\ k \in 0 .. n
    OBVIOUS
  <1>2. \A j \in 1 .. n : j # k => vis[j] # vis[k]
    BY DEF Distinct
  <1>3. \A j \in 1 .. n : 0 < j /\ j <= k - 1 => vis[j] # vis[k]
    BY <1>1, <1>2
  <1>4. \A j \in 1 .. n : k < j /\ j <= n => vis[j] # vis[k]
    BY <1>1, <1>2
  <1>5. g[0][vis[k]] = g[k - 1][vis[k]]
    <2> DEFINE b == k - 1
               c == vis[k]
    <2>1. c \in Tree!Widgets /\ b \in 0 .. Len(vis) /\ 0 \in 0 .. Len(vis) /\ 0 <= b
      BY <1>1
    <2>2. \A j \in 1 .. Len(vis) : 0 < j /\ j <= b => vis[j] # c
      BY <1>3
    <2> HIDE DEF b, c, n
    <2>3. g[0][c] = g[b][c]
      BY <2>1, <2>2, LoopKeeps
    <2> QED BY <2>3 DEF b, c
  <1>6. g[k][vis[k]] = g[n][vis[k]]
    <2> DEFINE c == vis[k]
    <2>1. c \in Tree!Widgets /\ k \in 0 .. Len(vis) /\ n \in 0 .. Len(vis) /\ k <= n
      BY <1>1
    <2>2. \A j \in 1 .. Len(vis) : k < j /\ j <= n => vis[j] # c
      BY <1>4
    <2> HIDE DEF c, n
    <2>3. g[k][c] = g[n][c]
      BY <2>1, <2>2, LoopKeeps
    <2> QED BY <2>3 DEF c
  <1> QED BY <1>5, <1>6
------------------------------------------------------------------------------
(* What the two loops of layout do to the visible children.                   *)

\* f sums what g has at each place.
Sums(f, n, g) == f \in [0 .. n -> Int] /\ f[0] = 0 /\ \A k \in 1 .. n : f[k] = f[k - 1] + g[k]

LEMMA Rising ==
  ASSUME NEW n \in Nat, NEW f \in [0 .. n -> Int], \A k \in 1 .. n : f[k - 1] <= f[k],
         NEW i \in 0 .. n, NEW j \in 0 .. n, i <= j
  PROVE  f[i] <= f[j]
  <1> DEFINE T == {d \in Nat : i + d <= n => f[i] <= f[i + d]}
  <1>1. 0 \in T
    OBVIOUS
  <1>2. ASSUME NEW d \in T PROVE d + 1 \in T
    <2> SUFFICES ASSUME i + (d + 1) <= n PROVE f[i] <= f[i + (d + 1)]
      OBVIOUS
    <2> DEFINE k == i + (d + 1)
    <2>1. k \in 1 .. n /\ k - 1 = i + d /\ k - 1 \in 0 .. n /\ k \in 0 .. n /\ f[i] <= f[i + d]
      OBVIOUS
    <2> HIDE DEF k, T
    <2>2. f[k - 1] <= f[k] /\ f[k] \in Int /\ f[k - 1] \in Int /\ f[i] \in Int
      BY <2>1
    <2>3. f[i] <= f[k]
      BY <2>1, <2>2
    <2> QED BY <2>3 DEF k
  <1>3. T = Nat
    <2> HIDE DEF T
    <2>1. T \subseteq Nat
      BY DEF T
    <2> QED BY <1>1, <1>2, <2>1, Induction
  <1>4. j - i \in T /\ i + (j - i) = j
    <2>1. j - i \in Nat /\ i + (j - i) = j
      OBVIOUS
    <2> HIDE DEF T
    <2> QED BY <1>3, <2>1
  <1> QED BY <1>4

\* No part of a sum of counts is larger than the sum.
LEMMA PartOfSum ==
  ASSUME NEW n \in Nat, NEW g, \A k \in 1 .. n : g[k] \in Nat, NEW f, Sums(f, n, g), NEW k \in 1 .. n
  PROVE  g[k] <= f[n] /\ f[n] \in Nat /\ 0 <= f[k - 1] /\ f[k] <= f[n]
  <1>1. f \in [0 .. n -> Int] /\ f[0] = 0 /\ \A i \in 1 .. n : f[i] = f[i - 1] + g[i]
    BY DEF Sums
  <1>2. \A i \in 1 .. n : i - 1 \in 0 .. n /\ i \in 0 .. n
    OBVIOUS
  <1>3. \A i \in 1 .. n : f[i - 1] <= f[i]
    <2> TAKE i \in 1 .. n
    <2>1. f[i - 1] \in Int /\ f[i] = f[i - 1] + g[i] /\ g[i] \in Nat
      BY <1>1, <1>2
    <2> QED BY <2>1
  <1>4. 0 \in 0 .. n /\ n \in 0 .. n /\ k - 1 \in 0 .. n /\ k \in 0 .. n /\ 0 <= k - 1 /\ k <= n
    OBVIOUS
  <1>5. f[k] <= f[n]
    BY <1>1, <1>3, <1>4, Rising
  <1>6. f[0] <= f[k - 1]
    <2> DEFINE j == k - 1
    <2>1. j \in 0 .. n /\ 0 <= j
      BY <1>4
    <2> HIDE DEF j
    <2>2. f[0] <= f[j]
      BY <1>1, <1>3, <1>4, <2>1, Rising
    <2> QED BY <2>2 DEF j
  <1>7. f[k] = f[k - 1] + g[k] /\ f[k - 1] \in Int /\ f[k] \in Int /\ f[n] \in Int /\ g[k] \in Nat
    BY <1>1, <1>4
  <1> QED BY <1>1, <1>5, <1>6, <1>7

\* The sizes along an axis, with the margins, and the factors of the widgets of vis.
Extents(os, vis, axis) == [k \in 1 .. Len(vis) |-> Tree!SizeWithMargin(os[vis[k]], axis)]
Shares(factor, vis) == [k \in 1 .. Len(vis) |-> factor[vis[k]]]

\* q is os with other sizes of the widgets of vis, whose minimum is maintained.
Resizes(q, os, vis, axis) ==
  /\ q \in Objs
  /\ \A c \in Tree!Widgets : /\ Resized(q[c], os[c])
                             /\ (\A k \in 1 .. Len(vis) : vis[k] # c) => q[c] = os[c]
  /\ \A k \in 1 .. Len(vis) : Holds(q[vis[k]], axis)

\* Something allows the widgets of vis not to fit.
Excused(q, vis, axis) ==
  \E k \in 1 .. Len(vis) : \/ q[vis[k]].shrink = 0 \/ q[vis[k]].size[axis] = q[vis[k]].min[axis]
                           \/ q[vis[k]].margin[Tree!StartSide(axis)] > 0

\* The steps of the resizing loop, over the objects os.
ResizingLoop(f, vis, os, axis, space, factor, total, available) ==
  /\ f \in [0 .. Len(vis) -> Accs] /\ f[0] = [objs |-> os, occupied |-> 0, short |-> FALSE]
  /\ \A k \in 1 .. Len(vis) :
       f[k] = Tree!ResizeChild(f[k - 1], vis[k], axis, space, factor, total, available)

\* One step of it: how the child is afterwards, and was before the loop.
ChildStep(f, k, vis, os, axis, space, factor, total, available) ==
  LET new == f[k].objs[vis[k]]
  IN  /\ f[k].objs = [f[k - 1].objs EXCEPT ![vis[k]] = new]
      /\ Resized(new, f[k - 1].objs[vis[k]])
      /\ f[k].occupied = f[k - 1].occupied + Tree!SizeWithMargin(new, axis)
      /\ f[k - 1].short => f[k].short
      /\ Holds(f[k - 1].objs[vis[k]], axis) /\ ~f[k].short /\ f[k - 1].objs[vis[k]].size[axis] + space <= 65535
           => ChildResized(f[k], f[k - 1], vis[k], axis, space, factor, total, available)

LEMMA ChildSteps ==
  ASSUME NEW vis \in Seq(Tree!Widgets), NEW os \in Objs, NEW axis \in 1 .. 2, NEW space \in Int,
         NEW factor \in [Tree!Widgets -> Nat], NEW total \in Nat \ {0}, NEW available \in Int,
         \A i \in 1 .. Len(vis) : factor[vis[i]] <= total,
         NEW f, ResizingLoop(f, vis, os, axis, space, factor, total, available), NEW k \in 1 .. Len(vis)
  PROVE  ChildStep(f, k, vis, os, axis, space, factor, total, available)
  <1>1. Len(vis) \in Nat /\ k - 1 \in 0 .. Len(vis) /\ k \in 0 .. Len(vis) /\ vis[k] \in Tree!Widgets
    OBVIOUS
  <1>2. f[k - 1] \in Accs /\ f[k] = Tree!ResizeChild(f[k - 1], vis[k], axis, space, factor, total, available)
    BY <1>1 DEF ResizingLoop
  <1> DEFINE c == vis[k]
             acc == f[k - 1]
  <1>3. c \in Tree!Widgets /\ factor[c] <= total /\ acc \in Accs
    BY <1>1, <1>2
  <1> HIDE DEF c, acc
  <1>4. AfterResizing(Tree!ResizeChild(acc, c, axis, space, factor, total, available),
                      acc, c, axis, space, factor, total, available)
    BY <1>3, ResizeChildIs
  <1>5. AfterResizing(f[k], f[k - 1], vis[k], axis, space, factor, total, available)
    BY <1>2, <1>4 DEF c, acc
  <1> QED BY <1>5 DEF AfterResizing, ChildStep

LEMMA SignOf ==
  ASSUME NEW total \in Nat \ {0}, NEW a \in Int, NEW b \in Int, total * b <= a * total
  PROVE  b <= a
  <1> SUFFICES ASSUME b > a PROVE FALSE
    OBVIOUS
  <1>1. total * b >= total * (a + 1)
    OBVIOUS
  <1>2. total * (a + 1) = a * total + total
    OBVIOUS
  <1> QED BY <1>1, <1>2

\* No child is given more of the space than its share.
Allows(total, space, g, new, old, n) == \A k \in 1 .. n : total * (new[k] - old[k]) <= space * g[k]

LEMMA AllowedSpace ==
  ASSUME NEW n \in Nat, NEW space \in Int, NEW total \in Nat \ {0},
         NEW g \in [1 .. n -> Int], NEW new \in [1 .. n -> Int], NEW old \in [1 .. n -> Int],
         NEW s, Sums(s, n, g), total = s[n], NEW o, Sums(o, n, new), NEW t, Sums(t, n, old),
         Allows(total, space, g, new, old, n)
  PROVE  o[n] - t[n] <= space
  <1> DEFINE h == [k \in 0 .. n |-> space * s[k] - total * (o[k] - t[k])]
             more == o[n] - t[n]
  <1>1. \A k \in 0 .. n : s[k] \in Int /\ o[k] \in Int /\ t[k] \in Int
    BY DEF Sums
  <1>2. \A k \in 1 .. n : k - 1 \in 0 .. n /\ k \in 0 .. n
    OBVIOUS
  <1>3. h \in [0 .. n -> Int] /\ \A k \in 0 .. n : h[k] = space * s[k] - total * (o[k] - t[k])
    <2>1. ASSUME NEW k \in 0 .. n PROVE space * s[k] - total * (o[k] - t[k]) \in Int
      <3> DEFINE a == s[k]
                 b == o[k] - t[k]
      <3>1. a \in Int /\ b \in Int
        BY <1>1
      <3> HIDE DEF a, b
      <3>2. space * a - total * b \in Int
        BY <3>1
      <3> QED BY <3>2 DEF a, b
    <2> QED BY <2>1
  <1> HIDE DEF h
  <1>4. ASSUME NEW k \in 1 .. n PROVE h[k - 1] <= h[k]
    <2> DEFINE s0 == s[k - 1]
               s1 == s[k]
               o0 == o[k - 1]
               o1 == o[k]
               t0 == t[k - 1]
               t1 == t[k]
               a == g[k]
               b == new[k]
               c == old[k]
    <2>1. /\ s0 \in Int /\ o0 \in Int /\ t0 \in Int /\ a \in Int /\ b \in Int /\ c \in Int
          /\ s1 = s0 + a /\ o1 = o0 + b /\ t1 = t0 + c
      BY <1>1, <1>2 DEF Sums
    <2>2. total * (b - c) <= space * a
      BY DEF Allows
    <2>3. h[k - 1] = space * s0 - total * (o0 - t0) /\ h[k] = space * s1 - total * (o1 - t1)
      BY <1>2, <1>3
    <2> HIDE DEF s0, s1, o0, o1, t0, t1, a, b, c
    <2> DEFINE d == o0 - t0
               e == b - c
               u == space * s0
               v == space * a
               w == total * d
               x == total * e
    <2>4. o1 - t1 = d + e /\ d \in Int /\ e \in Int
      BY <2>1
    <2>5. x <= v
      BY <2>2
    <2> HIDE DEF d, e
    <2>6. u \in Int /\ v \in Int /\ w \in Int /\ x \in Int
      BY <2>1, <2>4
    <2>7. space * s1 = u + v
      <3>1. space * (s0 + a) = space * s0 + space * a
        BY <2>1
      <3> QED BY <2>1, <3>1
    <2>8. total * (o1 - t1) = w + x
      <3>1. total * (d + e) = total * d + total * e
        BY <2>4
      <3> QED BY <2>4, <3>1
    <2> HIDE DEF u, v, w, x
    <2>9. h[k - 1] = u - w /\ h[k] = (u + v) - (w + x)
      BY <2>3, <2>7, <2>8 DEF d, u, w
    <2> QED BY <2>5, <2>6, <2>9
  <1>5. h[0] <= h[n]
    <2>1. 0 \in 0 .. n /\ n \in 0 .. n /\ 0 <= n
      OBVIOUS
    <2> QED BY <1>3, <1>4, <2>1, Rising
  <1>6. h[0] = 0
    <2>1. s[0] = 0 /\ o[0] = 0 /\ t[0] = 0 /\ 0 \in 0 .. n
      BY DEF Sums
    <2>2. h[0] = space * 0 - total * (0 - 0)
      BY <1>3, <2>1
    <2> QED BY <2>2
  <1>7. more \in Int /\ h[n] = space * total - total * more
    <2>1. n \in 0 .. n
      OBVIOUS
    <2> QED BY <1>1, <1>3, <2>1
  <1> HIDE DEF more
  <1>8. total * more <= space * total
    <2> DEFINE a == total * more
               b == space * total
    <2>1. a \in Int /\ b \in Int
      BY <1>7
    <2> HIDE DEF a, b
    <2>2. h[n] = b - a
      BY <1>7 DEF a, b
    <2>3. a <= b
      BY <1>5, <1>6, <2>1, <2>2
    <2> QED BY <2>3 DEF a, b
  <1>9. more <= space
    BY <1>7, <1>8, SignOf
  <1> QED BY <1>9 DEF more

\* What a sum and its parts have along an axis.
LEMMA ExtentIs ==
  ASSUME NEW o \in Obj, NEW axis \in 1 .. 2
  PROVE  /\ Tree!SizeWithMargin(o, axis) \in Nat /\ o.size[axis] \in Int
         /\ o.size[axis] <= Tree!SizeWithMargin(o, axis)
         /\ \A q : Resized(q, o) => Tree!SizeWithMargin(q, axis) - Tree!SizeWithMargin(o, axis) = q.size[axis] - o.size[axis]
  <1>1. /\ o.size[axis] \in Nat /\ o.margin[Tree!StartSide(axis)] \in Nat /\ o.margin[Tree!EndSide(axis)] \in Nat
    BY ObjHas, SizeIs
  <1>2. ASSUME NEW q, Resized(q, o) PROVE q.size[axis] \in Nat /\ q.margin = o.margin
    <2>1. q \in Obj /\ q.margin = o.margin
      BY <1>2 DEF Resized
    <2> QED BY <2>1, ObjHas, SizeIs
  <1> QED BY <1>1, <1>2 DEF Tree!SizeWithMargin

\* What the resizing loop is run with: vis are the visible children, t and s
\* the sums of their sizes and of their factors.
ToResize(vis, os, axis, space, factor, total, available, t, s) ==
  /\ vis \in Seq(Tree!Widgets) /\ Distinct(vis) /\ os \in Objs /\ axis \in 1 .. 2
  /\ \A k \in 1 .. Len(vis) : Holds(os[vis[k]], axis)
  /\ space \in Int /\ factor \in [Tree!Widgets -> Nat] /\ total \in Nat \ {0}
  /\ available \in Int /\ available <= 65535
  /\ Sums(t, Len(vis), Extents(os, vis, axis)) /\ space = available - t[Len(vis)]
  /\ Sums(s, Len(vis), Shares(factor, vis)) /\ total = s[Len(vis)]

LEMMA PlacesOf ==
  ASSUME NEW S, NEW vis \in Seq(S), NEW n, n = Len(vis)
  PROVE  /\ n \in Nat /\ n \in 0 .. n /\ 0 \in 0 .. n
         /\ \A k \in 1 .. n : vis[k] \in S /\ k - 1 \in 0 .. n /\ k \in 0 .. n /\ k <= n
  OBVIOUS

LEMMA ExtentsAre ==
  ASSUME NEW vis \in Seq(Tree!Widgets), NEW os \in Objs, NEW axis \in 1 .. 2, NEW n, n = Len(vis),
         NEW ext, ext = Extents(os, vis, axis)
  PROVE  /\ ext \in [1 .. n -> Int]
         /\ \A k \in 1 .. n : ext[k] \in Nat /\ os[vis[k]].size[axis] <= ext[k] /\ ext[k] = Tree!SizeWithMargin(os[vis[k]], axis)
                              /\ os[vis[k]].size[axis] \in Int /\ os[vis[k]] \in Obj
  <1>1. ext = [k \in 1 .. n |-> Tree!SizeWithMargin(os[vis[k]], axis)]
    BY DEF Extents
  <1>2. ASSUME NEW k \in 1 .. n
        PROVE  /\ os[vis[k]].size[axis] <= Tree!SizeWithMargin(os[vis[k]], axis) /\ os[vis[k]] \in Obj
               /\ Tree!SizeWithMargin(os[vis[k]], axis) \in Nat /\ os[vis[k]].size[axis] \in Int
    <2>1. os[vis[k]] \in Obj
      BY PlacesOf DEF Objs
    <2> QED BY <2>1, ExtentIs
  <1> QED BY <1>1, <1>2

\* The hypotheses of a step of the loop.
LEMMA StepsFit ==
  ASSUME NEW vis, NEW os, NEW axis, NEW space, NEW factor, NEW total, NEW available, NEW t, NEW s,
         ToResize(vis, os, axis, space, factor, total, available, t, s), NEW n, n = Len(vis)
  PROVE  \A k \in 1 .. n : factor[vis[k]] <= total /\ os[vis[k]].size[axis] + space <= 65535
  <1> DEFINE ext == Extents(os, vis, axis)
             sh == Shares(factor, vis)
  <1>1. vis \in Seq(Tree!Widgets) /\ os \in Objs /\ axis \in 1 .. 2 /\ factor \in [Tree!Widgets -> Nat]
    BY DEF ToResize
  <1>2. Sums(t, n, ext) /\ Sums(s, n, sh) /\ total = s[n]
    BY DEF ToResize
  <1>3. space \in Int /\ available \in Int /\ available <= 65535 /\ space = available - t[n]
    BY DEF ToResize
  <1>4. n \in Nat /\ \A k \in 1 .. n : vis[k] \in Tree!Widgets
    BY <1>1, PlacesOf
  <1>5. \A k \in 1 .. n : ext[k] \in Nat /\ os[vis[k]].size[axis] <= ext[k] /\ os[vis[k]].size[axis] \in Int
    BY <1>1, ExtentsAre
  <1>6. \A k \in 1 .. n : sh[k] = factor[vis[k]] /\ sh[k] \in Nat
    BY <1>1, <1>4 DEF Shares
  <1> HIDE DEF ext, sh
  <1>7. ASSUME NEW k \in 1 .. n PROVE sh[k] <= s[n]
    BY <1>2, <1>4, <1>6, PartOfSum
  <1>8. ASSUME NEW k \in 1 .. n PROVE ext[k] <= t[n] /\ t[n] \in Nat
    BY <1>2, <1>4, <1>5, PartOfSum
  <1>9. ASSUME NEW k \in 1 .. n PROVE factor[vis[k]] <= total
    BY <1>2, <1>6, <1>7
  <1>10. ASSUME NEW k \in 1 .. n PROVE os[vis[k]].size[axis] + space <= 65535
    <2> DEFINE a == os[vis[k]].size[axis]
               b == ext[k]
               c == t[n]
    <2>1. a \in Int /\ b \in Nat /\ c \in Nat /\ a <= b /\ b <= c /\ space = available - c
      BY <1>3, <1>5, <1>8
    <2> HIDE DEF a, b, c
    <2>2. a + space <= 65535
      BY <1>3, <2>1
    <2> QED BY <2>2 DEF a
  <1> QED BY <1>9, <1>10

\* The steps of the loop, one after another.
Stepped(f, vis, os, axis, space, factor, total, available) ==
  /\ \A k \in 0 .. Len(vis) : f[k].objs \in Objs /\ f[k].occupied \in Int
  /\ f[0].objs = os /\ f[0].occupied = 0
  /\ \A k \in 1 .. Len(vis) : ChildStep(f, k, vis, os, axis, space, factor, total, available)

LEMMA LoopSteps ==
  ASSUME NEW vis, NEW os, NEW axis, NEW space, NEW factor, NEW total, NEW available, NEW t, NEW s,
         ToResize(vis, os, axis, space, factor, total, available, t, s),
         NEW f, ResizingLoop(f, vis, os, axis, space, factor, total, available)
  PROVE  Stepped(f, vis, os, axis, space, factor, total, available)
  <1>1. \A k \in 0 .. Len(vis) : f[k].objs \in Objs /\ f[k].occupied \in Int
    <2>1. \A k \in 0 .. Len(vis) : f[k] \in Accs
      BY DEF ResizingLoop
    <2>2. \A a \in Accs : a.objs \in Objs /\ a.occupied \in Int
      BY DEF Accs
    <2> QED BY <2>1, <2>2
  <1>2. f[0].objs = os /\ f[0].occupied = 0
    <2>1. f[0] = [objs |-> os, occupied |-> 0, short |-> FALSE]
      BY DEF ResizingLoop
    <2> QED BY <2>1
  <1>3. /\ vis \in Seq(Tree!Widgets) /\ os \in Objs /\ axis \in 1 .. 2 /\ factor \in [Tree!Widgets -> Nat]
        /\ space \in Int /\ total \in Nat \ {0} /\ available \in Int
    BY DEF ToResize
  <1>4. \A k \in 1 .. Len(vis) : factor[vis[k]] <= total
    BY StepsFit
  <1>5. ASSUME NEW k \in 1 .. Len(vis) PROVE ChildStep(f, k, vis, os, axis, space, factor, total, available)
    BY <1>3, <1>4, ChildSteps
  <1> QED BY <1>1, <1>2, <1>5 DEF Stepped

\* Each child keeps what its step makes of it, and no step is short unless the loop is.
LEMMA StepsLast ==
  ASSUME NEW vis \in Seq(Tree!Widgets), Distinct(vis), NEW os, NEW axis, NEW space, NEW factor, NEW total, NEW available,
         NEW f, Stepped(f, vis, os, axis, space, factor, total, available), NEW n, n = Len(vis)
  PROVE  /\ \A k \in 1 .. n : f[k - 1].objs[vis[k]] = os[vis[k]] /\ f[n].objs[vis[k]] = f[k].objs[vis[k]]
         /\ \A c \in Tree!Widgets : (\A k \in 1 .. n : vis[k] # c) => f[n].objs[c] = os[c]
         /\ ~f[n].short => \A k \in 1 .. n : ~f[k].short
  <1> DEFINE g == [k \in 0 .. n |-> f[k].objs]
             h == [k \in 0 .. n |-> IF f[k].short THEN 1 ELSE 0]
  <1>1. n \in Nat /\ n \in 0 .. n /\ 0 \in 0 .. n /\ \A k \in 1 .. n : k - 1 \in 0 .. n /\ k \in 0 .. n /\ k <= n
    BY PlacesOf
  <1>2. /\ \A k \in 0 .. n : f[k].objs \in Objs
        /\ \A k \in 1 .. n : f[k].objs = [f[k - 1].objs EXCEPT ![vis[k]] = f[k].objs[vis[k]]]
        /\ \A k \in 1 .. n : f[k - 1].short => f[k].short
        /\ f[0].objs = os
    <2>1. f[0].objs = os /\ \A k \in 0 .. n : f[k].objs \in Objs
      BY DEF Stepped
    <2>2. ASSUME NEW k \in 1 .. n
          PROVE  /\ f[k].objs = [f[k - 1].objs EXCEPT ![vis[k]] = f[k].objs[vis[k]]]
                 /\ f[k - 1].short => f[k].short
      <3>1. ChildStep(f, k, vis, os, axis, space, factor, total, available)
        BY DEF Stepped
      <3> HIDE DEF g, h
      <3> QED BY <3>1 DEF ChildStep
    <2> HIDE DEF g, h
    <2> QED BY <2>1, <2>2
  <1>3. g \in [0 .. n -> Objs] /\ \A k \in 0 .. n : g[k] = f[k].objs
    BY <1>2
  <1>4. h \in [0 .. n -> Int] /\ \A k \in 0 .. n : h[k] = IF f[k].short THEN 1 ELSE 0
    OBVIOUS
  <1> HIDE DEF g, h
  <1>5. Loops(g, vis)
    <2>1. ASSUME NEW k \in 1 .. n PROVE g[k] = [g[k - 1] EXCEPT ![vis[k]] = g[k][vis[k]]]
      <3>1. g[k] = f[k].objs /\ g[k - 1] = f[k - 1].objs
        BY <1>1, <1>3
      <3> QED BY <1>2, <3>1
    <2> QED BY <1>3, <2>1 DEF Loops
  <1>6. ASSUME NEW k \in 1 .. n PROVE f[k - 1].objs[vis[k]] = os[vis[k]] /\ f[n].objs[vis[k]] = f[k].objs[vis[k]]
    <2>1. g[k - 1][vis[k]] = g[0][vis[k]] /\ g[n][vis[k]] = g[k][vis[k]]
      BY <1>5, LoopChanges
    <2>2. g[k - 1] = f[k - 1].objs /\ g[0] = os /\ g[n] = f[n].objs /\ g[k] = f[k].objs
      BY <1>1, <1>2, <1>3
    <2> QED BY <2>1, <2>2
  <1>7. ASSUME NEW c \in Tree!Widgets, \A k \in 1 .. n : vis[k] # c PROVE f[n].objs[c] = os[c]
    <2>1. \A k \in 1 .. Len(vis) : 0 < k /\ k <= n => vis[k] # c
      BY <1>7
    <2>2. 0 \in 0 .. Len(vis) /\ n \in 0 .. Len(vis) /\ 0 <= n
      BY <1>1
    <2>3. g[0][c] = g[n][c]
      BY <1>5, <2>1, <2>2, LoopKeeps
    <2> QED BY <1>1, <1>2, <1>3, <2>3
  <1>8. ASSUME ~f[n].short, NEW k \in 1 .. n PROVE ~f[k].short
    <2>1. \A i \in 1 .. n : h[i - 1] <= h[i]
      <3> TAKE i \in 1 .. n
      <3>1. h[i - 1] = (IF f[i - 1].short THEN 1 ELSE 0) /\ h[i] = (IF f[i].short THEN 1 ELSE 0)
        BY <1>1, <1>4
      <3> QED BY <1>2, <3>1
    <2>2. k \in 0 .. n /\ k <= n
      BY <1>1
    <2>3. h[k] <= h[n]
      BY <1>1, <1>4, <2>1, <2>2, Rising
    <2> QED BY <1>1, <1>4, <1>8, <2>2, <2>3
  <1> QED BY <1>6, <1>7, <1>8

\* How the loop leaves each of the children.
ChildLeft(q, f, k, vis, os, axis, space, factor, total, available) ==
  /\ Resized(q[vis[k]], os[vis[k]]) /\ Holds(q[vis[k]], axis)
  /\ f[k].occupied = f[k - 1].occupied + Tree!SizeWithMargin(q[vis[k]], axis)
  /\ space < 0 => \/ factor[vis[k]] = 0 \/ q[vis[k]].size[axis] = q[vis[k]].min[axis]
                  \/ q[vis[k]].margin[Tree!StartSide(axis)] > 0 \/ f[k].occupied <= available
  /\ space > 0 => total * (q[vis[k]].size[axis] - os[vis[k]].size[axis]) <= space * factor[vis[k]]

LEMMA ChildrenLeft ==
  ASSUME NEW vis, NEW os, NEW axis, NEW space, NEW factor, NEW total, NEW available, NEW t, NEW s,
         ToResize(vis, os, axis, space, factor, total, available, t, s),
         NEW f, Stepped(f, vis, os, axis, space, factor, total, available),
         NEW n, n = Len(vis), ~f[n].short, NEW q, q = f[n].objs, NEW k \in 1 .. n
  PROVE  ChildLeft(q, f, k, vis, os, axis, space, factor, total, available)
  <1>1. vis \in Seq(Tree!Widgets) /\ Distinct(vis) /\ Holds(os[vis[k]], axis)
    BY DEF ToResize
  <1>2. f[k - 1].objs[vis[k]] = os[vis[k]] /\ q[vis[k]] = f[k].objs[vis[k]] /\ ~f[k].short
    BY <1>1, StepsLast
  <1>3. os[vis[k]].size[axis] + space <= 65535
    BY StepsFit
  <1>4. ChildStep(f, k, vis, os, axis, space, factor, total, available)
    BY DEF Stepped
  <1> DEFINE c == vis[k]
             new == f[k].objs[c]
             old == f[k - 1].objs[c]
  <1>5. Resized(new, old) /\ f[k].occupied = f[k - 1].occupied + Tree!SizeWithMargin(new, axis)
    BY <1>4 DEF ChildStep
  <1>6. Holds(old, axis) /\ old.size[axis] + space <= 65535
    BY <1>1, <1>2, <1>3
  <1>7. ChildResized(f[k], f[k - 1], c, axis, space, factor, total, available)
    BY <1>2, <1>4, <1>6 DEF ChildStep
  <1> HIDE DEF c
  <1>8. Holds(new, axis)
    BY <1>7 DEF ChildResized
  <1>9. space < 0 => \/ factor[c] = 0 \/ new.size[axis] = new.min[axis]
                     \/ new.margin[Tree!StartSide(axis)] > 0 \/ f[k].occupied <= available
    BY <1>7 DEF ChildResized
  <1>10. space > 0 => total * (new.size[axis] - old.size[axis]) <= space * factor[c]
    BY <1>7 DEF ChildResized
  <1>11. new = q[c] /\ old = os[c]
    BY <1>2 DEF c
  <1> HIDE DEF new, old
  <1>12. /\ Resized(q[c], os[c]) /\ Holds(q[c], axis)
         /\ f[k].occupied = f[k - 1].occupied + Tree!SizeWithMargin(q[c], axis)
    BY <1>5, <1>8, <1>11
  <1>13. space < 0 => \/ factor[c] = 0 \/ q[c].size[axis] = q[c].min[axis]
                      \/ q[c].margin[Tree!StartSide(axis)] > 0 \/ f[k].occupied <= available
    BY <1>9, <1>11
  <1>14. space > 0 => total * (q[c].size[axis] - os[c].size[axis]) <= space * factor[c]
    BY <1>10, <1>11
  <1> QED BY <1>12, <1>13, <1>14 DEF c, ChildLeft

\* The children end inside what is available, or have a reason not to.
Occupies(occ, q, vis, axis, space, factor, available) ==
  /\ Sums(occ, Len(vis), Extents(q, vis, axis))
  /\ space > 0 => occ[Len(vis)] <= available
  /\ space < 0 => \/ occ[Len(vis)] <= available \/ Excused(q, vis, axis)
                  \/ \E k \in 1 .. Len(vis) : factor[vis[k]] = 0

LEMMA ResizingIs ==
  ASSUME NEW vis, NEW os, NEW axis, NEW space, NEW factor, NEW total, NEW available, NEW t, NEW s,
         ToResize(vis, os, axis, space, factor, total, available, t, s),
         NEW f, ResizingLoop(f, vis, os, axis, space, factor, total, available),
         NEW n, n = Len(vis), ~f[n].short, NEW q, q = f[n].objs
  PROVE  Resizes(q, os, vis, axis) /\ \E occ : Occupies(occ, q, vis, axis, space, factor, available)
  <1>1. Stepped(f, vis, os, axis, space, factor, total, available)
    BY LoopSteps
  <1>2. \A k \in 1 .. n : ChildLeft(q, f, k, vis, os, axis, space, factor, total, available)
    BY <1>1, ChildrenLeft
  <1>3. vis \in Seq(Tree!Widgets) /\ Distinct(vis) /\ os \in Objs /\ axis \in 1 .. 2 /\ factor \in [Tree!Widgets -> Nat]
    BY DEF ToResize
  <1>4. n \in Nat /\ n \in 0 .. n /\ 0 \in 0 .. n /\ \A k \in 1 .. n : vis[k] \in Tree!Widgets /\ k - 1 \in 0 .. n /\ k \in 0 .. n
    BY <1>3, PlacesOf
  <1>5. \A k \in 0 .. n : f[k].objs \in Objs /\ f[k].occupied \in Int
    BY <1>1 DEF Stepped
  <1>6. \A k \in 1 .. n : Resized(q[vis[k]], os[vis[k]]) /\ Holds(q[vis[k]], axis)
    BY <1>2 DEF ChildLeft
  <1>7. Resizes(q, os, vis, axis)
    <2>1. \A c \in Tree!Widgets : (\A k \in 1 .. n : vis[k] # c) => q[c] = os[c]
      BY <1>1, <1>3, StepsLast
    <2>2. \A c \in Tree!Widgets : Resized(os[c], os[c])
      BY <1>3 DEF Objs, Resized
    <2>3. ASSUME NEW c \in Tree!Widgets PROVE Resized(q[c], os[c])
      BY <1>6, <2>1, <2>2
    <2>4. q \in Objs
      BY <1>4, <1>5
    <2> QED BY <1>6, <2>1, <2>3, <2>4 DEF Resizes
  <1> DEFINE occ == [k \in 0 .. n |-> f[k].occupied]
             new == Extents(q, vis, axis)
             ext == Extents(os, vis, axis)
             sh == Shares(factor, vis)
  <1>8. occ \in [0 .. n -> Int] /\ \A k \in 0 .. n : occ[k] = f[k].occupied
    BY <1>5
  <1> HIDE DEF occ
  <1>9. /\ new \in [1 .. n -> Int]
        /\ \A k \in 1 .. n : new[k] = Tree!SizeWithMargin(q[vis[k]], axis)
    <2>1. q \in Objs
      BY <1>7 DEF Resizes
    <2> QED BY <1>3, <2>1, ExtentsAre
  <1>10. /\ ext \in [1 .. n -> Int]
         /\ \A k \in 1 .. n : ext[k] = Tree!SizeWithMargin(os[vis[k]], axis) /\ os[vis[k]] \in Obj
    BY <1>3, ExtentsAre
  <1>11. sh \in [1 .. n -> Int] /\ \A k \in 1 .. n : sh[k] = factor[vis[k]]
    BY <1>3, <1>4 DEF Shares
  <1>12. Sums(t, n, ext) /\ Sums(s, n, sh) /\ total = s[n] /\ total \in Nat \ {0}
    BY DEF ToResize
  <1>13. space \in Int /\ available \in Int /\ space = available - t[n]
    BY DEF ToResize
  <1> HIDE DEF new, ext, sh
  <1>14. Sums(occ, n, new)
    <2>1. occ[0] = 0
      BY <1>1, <1>4, <1>8 DEF Stepped
    <2>2. ASSUME NEW k \in 1 .. n PROVE occ[k] = occ[k - 1] + new[k]
      <3>1. f[k].occupied = f[k - 1].occupied + Tree!SizeWithMargin(q[vis[k]], axis)
        BY <1>2 DEF ChildLeft
      <3>2. occ[k] = f[k].occupied /\ occ[k - 1] = f[k - 1].occupied /\ new[k] = Tree!SizeWithMargin(q[vis[k]], axis)
        BY <1>4, <1>8, <1>9
      <3> QED BY <3>1, <3>2
    <2> QED BY <1>8, <2>1, <2>2 DEF Sums
  <1>15. ASSUME space > 0 PROVE occ[n] <= available
    <2>1. ASSUME NEW k \in 1 .. n PROVE total * (new[k] - ext[k]) <= space * sh[k]
      <3> DEFINE a == new[k] - ext[k]
                 b == q[vis[k]].size[axis] - os[vis[k]].size[axis]
      <3>1. total * b <= space * factor[vis[k]]
        BY <1>2, <1>15 DEF ChildLeft
      <3>2. os[vis[k]] \in Obj /\ Resized(q[vis[k]], os[vis[k]])
        BY <1>6, <1>10
      <3>3. Tree!SizeWithMargin(q[vis[k]], axis) - Tree!SizeWithMargin(os[vis[k]], axis) = b
        BY <1>3, <3>2, ExtentIs
      <3>4. a = b
        BY <1>9, <1>10, <3>3
      <3>5. sh[k] = factor[vis[k]]
        BY <1>11
      <3> HIDE DEF a, b
      <3>6. total * a <= space * sh[k]
        BY <3>1, <3>4, <3>5
      <3> QED BY <3>6 DEF a
    <2>2. Allows(total, space, sh, new, ext, n)
      BY <2>1 DEF Allows
    <2>3. occ[n] - t[n] <= space
      BY <1>4, <1>9, <1>10, <1>11, <1>12, <1>13, <1>14, <2>2, AllowedSpace
    <2>4. occ[n] \in Int /\ t[n] \in Int
      BY <1>4, <1>12, <1>14 DEF Sums
    <2> QED BY <1>13, <2>3, <2>4
  <1>16. ASSUME space < 0
         PROVE  occ[n] <= available \/ Excused(q, vis, axis) \/ \E k \in 1 .. n : factor[vis[k]] = 0
    <2>1. n \in 1 .. n
      <3>1. s[0] = 0
        BY <1>12 DEF Sums
      <3> QED BY <1>4, <1>12, <3>1
    <2>2. \/ factor[vis[n]] = 0 \/ q[vis[n]].size[axis] = q[vis[n]].min[axis]
          \/ q[vis[n]].margin[Tree!StartSide(axis)] > 0 \/ f[n].occupied <= available
      <3>1. ChildLeft(q, f, n, vis, os, axis, space, factor, total, available)
        BY <1>2, <2>1
      <3> QED BY <1>16, <3>1 DEF ChildLeft
    <2>3. occ[n] = f[n].occupied
      BY <1>4, <1>8
    <2>4. Excused(q, vis, axis) <=> \E k \in 1 .. n : \/ q[vis[k]].shrink = 0 \/ q[vis[k]].size[axis] = q[vis[k]].min[axis]
                                                      \/ q[vis[k]].margin[Tree!StartSide(axis)] > 0
      BY DEF Excused
    <2> QED BY <2>1, <2>2, <2>3, <2>4
  <1>17. Occupies(occ, q, vis, axis, space, factor, available)
    BY <1>14, <1>15, <1>16 DEF Occupies, new
  <1> QED BY <1>7, <1>17

\* The steps of the placing loop, over the objects os.
PlacingLoop(f, vis, os, axis, alignment, start, crossPos, crossSize) ==
  /\ f \in [0 .. Len(vis) -> PlaceAccs] /\ f[0] = [objs |-> os, main |-> start]
  /\ \A k \in 1 .. Len(vis) : f[k] = Tree!PlaceChild(f[k - 1], vis[k], axis, alignment, crossPos, crossSize)

ToPlace(vis, os, axis, alignment, start, crossPos, crossSize) ==
  /\ vis \in Seq(Tree!Widgets) /\ Distinct(vis) /\ os \in Objs /\ axis \in 1 .. 2 /\ alignment \in Alignments
  /\ \A k \in 1 .. Len(vis) : Holds(os[vis[k]], axis)
  /\ start \in Int /\ crossPos \in Int /\ crossSize \in Int

\* q is os with the widgets of vis placed; each starts where those before it end.
PlacedAlong(q, os, vis, axis, start, occ) ==
  /\ q \in Objs
  /\ \A c \in Tree!Widgets : /\ Placed(q[c], os[c])
                             /\ (\A k \in 1 .. Len(vis) : vis[k] # c) => q[c] = os[c]
  /\ \A k \in 1 .. Len(vis) : /\ q[vis[k]].size[axis] = os[vis[k]].size[axis]
                              /\ q[vis[k]].pos[axis] = start + occ[k - 1] + os[vis[k]].margin[Tree!StartSide(axis)]

LEMMA PlaceSteps1 ==
  ASSUME NEW vis, NEW os, NEW axis, NEW alignment, NEW start, NEW crossPos, NEW crossSize,
         ToPlace(vis, os, axis, alignment, start, crossPos, crossSize),
         NEW f, PlacingLoop(f, vis, os, axis, alignment, start, crossPos, crossSize), NEW k \in 1 .. Len(vis)
  PROVE  AfterPlacing(f[k], f[k - 1], vis[k], axis)
  <1>1. vis \in Seq(Tree!Widgets) /\ axis \in 1 .. 2 /\ alignment \in Alignments /\ crossPos \in Int /\ crossSize \in Int
    BY DEF ToPlace
  <1>2. k - 1 \in 0 .. Len(vis) /\ vis[k] \in Tree!Widgets
    BY <1>1, PlacesOf
  <1> DEFINE c == vis[k]
             acc == f[k - 1]
  <1>3. acc \in PlaceAccs /\ c \in Tree!Widgets /\ f[k] = Tree!PlaceChild(acc, c, axis, alignment, crossPos, crossSize)
    BY <1>2 DEF PlacingLoop
  <1> HIDE DEF acc, c
  <1>4. AfterPlacing(Tree!PlaceChild(acc, c, axis, alignment, crossPos, crossSize), acc, c, axis)
    BY <1>1, <1>3, PlaceChildIs
  <1> QED BY <1>3, <1>4 DEF acc, c

LEMMA PlacingIs ==
  ASSUME NEW vis, NEW os, NEW axis, NEW alignment, NEW start, NEW crossPos, NEW crossSize,
         ToPlace(vis, os, axis, alignment, start, crossPos, crossSize),
         NEW f, PlacingLoop(f, vis, os, axis, alignment, start, crossPos, crossSize),
         NEW occ, Sums(occ, Len(vis), Extents(os, vis, axis)), NEW n, n = Len(vis)
  PROVE  PlacedAlong(f[n].objs, os, vis, axis, start, occ)
  <1> DEFINE g == [k \in 0 .. n |-> f[k].objs]
             q == f[n].objs
             ext == Extents(os, vis, axis)
  <1>1. vis \in Seq(Tree!Widgets) /\ Distinct(vis) /\ os \in Objs /\ axis \in 1 .. 2 /\ start \in Int
    BY DEF ToPlace
  <1>2. n \in Nat /\ n \in 0 .. n /\ 0 \in 0 .. n /\ \A k \in 1 .. n : vis[k] \in Tree!Widgets /\ k - 1 \in 0 .. n /\ k \in 0 .. n /\ k <= n
    BY <1>1, PlacesOf
  <1>3. \A k \in 1 .. n : AfterPlacing(f[k], f[k - 1], vis[k], axis)
    BY PlaceSteps1
  <1>4. \A k \in 0 .. n : f[k].objs \in Objs /\ f[k].main \in Int
    <2>1. \A k \in 0 .. n : f[k] \in PlaceAccs
      BY DEF PlacingLoop
    <2>2. \A a \in PlaceAccs : a.objs \in Objs /\ a.main \in Int
      BY DEF PlaceAccs
    <2> QED BY <2>1, <2>2
  <1>5. f[0].objs = os /\ f[0].main = start
    <2>1. f[0] = [objs |-> os, main |-> start]
      BY DEF PlacingLoop
    <2> QED BY <2>1
  <1>6. g \in [0 .. n -> Objs] /\ \A k \in 0 .. n : g[k] = f[k].objs
    BY <1>4
  <1> HIDE DEF g
  <1>7. Loops(g, vis)
    <2>1. ASSUME NEW k \in 1 .. n PROVE g[k] = [g[k - 1] EXCEPT ![vis[k]] = g[k][vis[k]]]
      <3>1. g[k] = f[k].objs /\ g[k - 1] = f[k - 1].objs
        BY <1>2, <1>6
      <3>2. AfterPlacing(f[k], f[k - 1], vis[k], axis)
        BY <1>3
      <3>3. f[k].objs = [f[k - 1].objs EXCEPT ![vis[k]] = f[k].objs[vis[k]]]
        BY <3>2 DEF AfterPlacing
      <3> QED BY <3>1, <3>3
    <2> QED BY <1>6, <2>1 DEF Loops
  <1>8. \A k \in 1 .. n : f[k - 1].objs[vis[k]] = os[vis[k]] /\ q[vis[k]] = f[k].objs[vis[k]]
    <2> TAKE k \in 1 .. n
    <2>1. g[k - 1][vis[k]] = g[0][vis[k]] /\ g[n][vis[k]] = g[k][vis[k]]
      BY <1>1, <1>7, LoopChanges
    <2>2. g[k - 1] = f[k - 1].objs /\ g[0] = os /\ g[n] = f[n].objs /\ g[k] = f[k].objs
      BY <1>2, <1>5, <1>6
    <2> QED BY <2>1, <2>2
  <1>9. \A c \in Tree!Widgets : (\A k \in 1 .. n : vis[k] # c) => q[c] = os[c]
    <2> SUFFICES ASSUME NEW c \in Tree!Widgets, \A k \in 1 .. n : vis[k] # c PROVE q[c] = os[c]
      OBVIOUS
    <2>1. \A k \in 1 .. Len(vis) : 0 < k /\ k <= n => vis[k] # c
      OBVIOUS
    <2>2. 0 \in 0 .. Len(vis) /\ n \in 0 .. Len(vis) /\ 0 <= n
      BY <1>2
    <2>3. g[0][c] = g[n][c]
      BY <1>1, <1>7, <2>1, <2>2, LoopKeeps
    <2> QED BY <1>2, <1>5, <1>6, <2>3
  <1>10. \A k \in 1 .. n : /\ Placed(q[vis[k]], os[vis[k]])
                           /\ f[k].main = f[k - 1].main + Tree!SizeWithMargin(os[vis[k]], axis)
                           /\ q[vis[k]].pos[axis] = f[k - 1].main + os[vis[k]].margin[Tree!StartSide(axis)]
                           /\ q[vis[k]].size[axis] = os[vis[k]].size[axis]
    <2> TAKE k \in 1 .. n
    <2>1. AfterPlacing(f[k], f[k - 1], vis[k], axis)
      BY <1>3
    <2>2. f[k - 1].objs[vis[k]] = os[vis[k]] /\ f[k].objs[vis[k]] = q[vis[k]] /\ Holds(os[vis[k]], axis)
      BY <1>8 DEF ToPlace
    <2> HIDE DEF q
    <2>3. /\ Placed(f[k].objs[vis[k]], f[k - 1].objs[vis[k]])
          /\ f[k].main = f[k - 1].main + Tree!SizeWithMargin(f[k - 1].objs[vis[k]], axis)
          /\ f[k].objs[vis[k]].pos[axis] = f[k - 1].main + f[k - 1].objs[vis[k]].margin[Tree!StartSide(axis)]
      BY <2>1 DEF AfterPlacing
    <2>4. Holds(f[k - 1].objs[vis[k]], axis) => f[k].objs[vis[k]].size[axis] = f[k - 1].objs[vis[k]].size[axis]
      BY <2>1 DEF AfterPlacing
    <2> QED BY <2>2, <2>3, <2>4
  <1>11. occ \in [0 .. n -> Int] /\ occ[0] = 0 /\ \A k \in 1 .. n : occ[k] = occ[k - 1] + ext[k]
    BY DEF Sums
  <1>12. \A k \in 1 .. n : ext[k] = Tree!SizeWithMargin(os[vis[k]], axis) /\ ext[k] \in Nat
    BY <1>1, ExtentsAre
  <1> HIDE DEF ext, q
  <1> DEFINE T == {k \in Nat : k <= n => f[k].main = start + occ[k]}
  <1>13. 0 \in T
    BY <1>1, <1>5, <1>11
  <1>14. ASSUME NEW k \in T PROVE k + 1 \in T
    <2> SUFFICES ASSUME k + 1 <= n PROVE f[k + 1].main = start + occ[k + 1]
      OBVIOUS
    <2> DEFINE j == k + 1
    <2>1. j \in 1 .. n /\ j - 1 = k /\ k \in 0 .. n /\ f[k].main = start + occ[k]
      BY <1>2
    <2> HIDE DEF j, T
    <2>2. f[j].main = f[k].main + ext[j] /\ occ[j] = occ[k] + ext[j]
      BY <1>10, <1>11, <1>12, <2>1
    <2>3. f[k].main \in Int /\ occ[k] \in Int /\ ext[j] \in Int
      BY <1>4, <1>11, <1>12, <2>1
    <2>4. f[j].main = start + occ[j]
      BY <1>1, <2>1, <2>2, <2>3
    <2> QED BY <2>4 DEF j
  <1>15. T = Nat
    <2> HIDE DEF T
    <2>1. T \subseteq Nat
      BY DEF T
    <2> QED BY <1>13, <1>14, <2>1, Induction
  <1>16. \A k \in 0 .. n : f[k].main = start + occ[k]
    <2>1. \A k \in 0 .. n : k \in T
      <3> HIDE DEF T
      <3> QED BY <1>2, <1>15
    <2> QED BY <2>1
  <1> HIDE DEF T
  <1>17. q \in Objs
    BY <1>2, <1>4 DEF q
  <1>18. \A c \in Tree!Widgets : Placed(q[c], os[c])
    <2>1. \A c \in Tree!Widgets : Placed(os[c], os[c])
      BY <1>1 DEF Objs, Placed
    <2> QED BY <1>9, <1>10, <2>1
  <1>19. ASSUME NEW k \in 1 .. n
         PROVE  /\ q[vis[k]].size[axis] = os[vis[k]].size[axis]
                /\ q[vis[k]].pos[axis] = start + occ[k - 1] + os[vis[k]].margin[Tree!StartSide(axis)]
    BY <1>2, <1>10, <1>16
  <1> QED BY <1>9, <1>17, <1>18, <1>19 DEF PlacedAlong, q

\* The widgets of vis follow one another along an axis, from their margin to their margin.
InARow(os, vis, axis) ==
  \A k \in 1 .. Len(vis) - 1 :
    Tree!LastCell(os[vis[k]], axis) + os[vis[k]].margin[Tree!EndSide(axis)] + 1
      = os[vis[k + 1]].pos[axis] - os[vis[k + 1]].margin[Tree!StartSide(axis)]

\* They end before a position.
EndBefore(os, vis, axis, bound) ==
  \A k \in 1 .. Len(vis) : Tree!LastCell(os[vis[k]], axis) + os[vis[k]].margin[Tree!EndSide(axis)] < bound

LEMMA SpanOf ==
  ASSUME NEW o \in Obj, NEW axis \in 1 .. 2
  PROVE  o.size[axis] \in Nat /\ o.margin[Tree!StartSide(axis)] \in Nat /\ o.margin[Tree!EndSide(axis)] \in Nat
  BY ObjHas, SizeIs

LEMMA PlacesInARow ==
  ASSUME NEW vis \in Seq(Tree!Widgets), NEW os \in Objs, NEW axis \in 1 .. 2, NEW start \in Int, NEW q, NEW occ,
         Sums(occ, Len(vis), Extents(os, vis, axis)), PlacedAlong(q, os, vis, axis, start, occ),
         NEW available \in Int
  PROVE  /\ InARow(q, vis, axis)
         /\ occ[Len(vis)] <= available => EndBefore(q, vis, axis, start + available)
  <1> DEFINE n == Len(vis)
             ext == Extents(os, vis, axis)
  <1>1. n \in Nat /\ n \in 0 .. n /\ \A k \in 1 .. n : vis[k] \in Tree!Widgets /\ k - 1 \in 0 .. n /\ k \in 0 .. n
    BY PlacesOf
  <1>2. occ \in [0 .. n -> Int] /\ \A k \in 1 .. n : occ[k] = occ[k - 1] + ext[k]
    BY DEF Sums
  <1>3. \A k \in 1 .. n : ext[k] = Tree!SizeWithMargin(os[vis[k]], axis) /\ ext[k] \in Nat /\ os[vis[k]] \in Obj
    BY ExtentsAre
  <1>4. \A k \in 1 .. n : occ[k] <= occ[n]
    <2> HIDE DEF ext, n
    <2>1. Sums(occ, n, ext)
      BY DEF ext, n
    <2>2. ASSUME NEW k \in 1 .. n PROVE occ[k] <= occ[n]
      BY <1>1, <1>3, <2>1, PartOfSum
    <2> QED BY <2>2
  <1>5. \A k \in 1 .. n : /\ q[vis[k]].size[axis] = os[vis[k]].size[axis]
                          /\ q[vis[k]].pos[axis] = start + occ[k - 1] + os[vis[k]].margin[Tree!StartSide(axis)]
                          /\ q[vis[k]].margin = os[vis[k]].margin
    BY <1>1 DEF PlacedAlong, Placed
  <1> HIDE DEF n, ext
  <1>6. ASSUME NEW k \in 1 .. n
        PROVE  /\ Tree!LastCell(q[vis[k]], axis) + q[vis[k]].margin[Tree!EndSide(axis)] + 1 = start + occ[k]
               /\ Tree!LastCell(q[vis[k]], axis) + q[vis[k]].margin[Tree!EndSide(axis)] \in Int
               /\ q[vis[k]].pos[axis] - q[vis[k]].margin[Tree!StartSide(axis)] = start + occ[k - 1]
    <2> DEFINE o == os[vis[k]]
    <2>1. o \in Obj
      BY <1>3
    <2> HIDE DEF o
    <2>2. o.size[axis] \in Nat /\ o.margin[Tree!StartSide(axis)] \in Nat /\ o.margin[Tree!EndSide(axis)] \in Nat
      BY <2>1, SpanOf
    <2>3. occ[k] = occ[k - 1] + (o.size[axis] + o.margin[Tree!StartSide(axis)] + o.margin[Tree!EndSide(axis)])
      BY <1>2, <1>3 DEF Tree!SizeWithMargin, o
    <2>4. occ[k] \in Int /\ occ[k - 1] \in Int
      BY <1>1, <1>2
    <2>5. /\ q[vis[k]].size[axis] = o.size[axis] /\ q[vis[k]].margin = o.margin
          /\ q[vis[k]].pos[axis] = start + occ[k - 1] + o.margin[Tree!StartSide(axis)]
      BY <1>5 DEF o
    <2> DEFINE p0 == occ[k - 1]
               p1 == occ[k]
               size == o.size[axis]
               before == o.margin[Tree!StartSide(axis)]
               after == o.margin[Tree!EndSide(axis)]
               r == q[vis[k]]
    <2>6. /\ p0 \in Int /\ p1 \in Int /\ size \in Int /\ before \in Int /\ after \in Int
          /\ p1 = p0 + (size + before + after)
      BY <2>2, <2>3, <2>4
    <2>7. /\ r.size[axis] = size /\ r.margin[Tree!StartSide(axis)] = before /\ r.margin[Tree!EndSide(axis)] = after
          /\ r.pos[axis] = start + p0 + before
      BY <2>5
    <2> HIDE DEF p0, p1, size, before, after, r
    <2>8. Tree!LastCell(r, axis) = start + p0 + before + size - 1
      BY <2>7 DEF Tree!LastCell
    <2>9. /\ Tree!LastCell(r, axis) + after + 1 = start + p1 /\ Tree!LastCell(r, axis) + after \in Int
          /\ (start + p0 + before) - before = start + p0
      BY <2>6, <2>8
    <2>10. /\ Tree!LastCell(r, axis) + r.margin[Tree!EndSide(axis)] + 1 = start + p1
           /\ Tree!LastCell(r, axis) + r.margin[Tree!EndSide(axis)] \in Int
           /\ r.pos[axis] - r.margin[Tree!StartSide(axis)] = start + p0
      BY <2>7, <2>9
    <2> QED BY <2>10 DEF p0, p1, r
  <1>7. ASSUME NEW k \in 1 .. n - 1
        PROVE  Tree!LastCell(q[vis[k]], axis) + q[vis[k]].margin[Tree!EndSide(axis)] + 1
                 = q[vis[k + 1]].pos[axis] - q[vis[k + 1]].margin[Tree!StartSide(axis)]
    <2> DEFINE j == k + 1
    <2>1. k \in 1 .. n /\ j \in 1 .. n /\ j - 1 = k
      BY <1>1
    <2> HIDE DEF j
    <2>2. Tree!LastCell(q[vis[k]], axis) + q[vis[k]].margin[Tree!EndSide(axis)] + 1
            = q[vis[j]].pos[axis] - q[vis[j]].margin[Tree!StartSide(axis)]
      BY <1>6, <2>1
    <2> QED BY <2>2 DEF j
  <1>8. ASSUME occ[n] <= available, NEW k \in 1 .. n
        PROVE  Tree!LastCell(q[vis[k]], axis) + q[vis[k]].margin[Tree!EndSide(axis)] < start + available
    <2> DEFINE a == Tree!LastCell(q[vis[k]], axis) + q[vis[k]].margin[Tree!EndSide(axis)]
    <2>1. a + 1 = start + occ[k] /\ a \in Int
      BY <1>6
    <2>2. occ[k] \in Int /\ occ[n] \in Int /\ occ[k] <= occ[n]
      BY <1>1, <1>2, <1>4
    <2> HIDE DEF a
    <2>3. a < start + available
      BY <1>8, <2>1, <2>2
    <2> QED BY <2>3 DEF a
  <1> QED BY <1>7, <1>8 DEF InARow, EndBefore, n
------------------------------------------------------------------------------
(* The layout of a panel.                                                     *)

\* q is os after panel p has laid out its visible children vis.
LaidOut(q, os, p, vis, axis) ==
  /\ q \in Objs
  /\ \A c \in Tree!Widgets : /\ Placed(q[c], os[c])
                             /\ c # p /\ (\A k \in 1 .. Len(vis) : vis[k] # c) => q[c] = os[c]
  /\ q[p].pos = os[p].pos /\ q[p].size[axis] = os[p].size[axis]
  /\ \A k \in 1 .. Len(vis) : Holds(q[vis[k]], axis)

\* They are one after another, inside p or for a reason not.
Fit(q, p, vis, axis) ==
  /\ InARow(q, vis, axis)
  /\ \/ EndBefore(q, vis, axis, Tree!ContentStart(q[p], axis) + Tree!ContentSize(q[p], axis))
     \/ Excused(q, vis, axis)

\* What a layout needs: the children are distinct, not the panel itself, and
\* none of the sizes along the axis is below its minimum.
ToLayOut(os, p, cs, axis, alignment) ==
  /\ os \in Objs /\ p \in Tree!Widgets /\ cs \in Seq(Tree!Widgets) /\ axis \in 1 .. 2 /\ alignment \in Alignments
  /\ Distinct(cs) /\ Holds(os[p], axis) /\ \A k \in 1 .. Len(cs) : cs[k] # p /\ Holds(os[cs[k]], axis)

\* The panel as wide as it needs to be across its axis.
Widened(w, os, p, axis) ==
  /\ w \in Objs /\ Resized(w[p], os[p]) /\ w[p].size[axis] = os[p].size[axis]
  /\ \A c \in Tree!Widgets : c # p => w[c] = os[c]

LEMMA WidenedIs ==
  ASSUME NEW os \in Objs, NEW p \in Tree!Widgets, NEW axis \in 1 .. 2, Holds(os[p], axis), NEW need \in Int, NEW b,
         NEW w, w = IF b THEN [os EXCEPT ![p] = Tree!SetContentSize(os[p], 3 - axis, need)] ELSE os
  PROVE  Widened(w, os, p, axis)
  <1>1. os[p] \in Obj /\ 3 - axis \in 1 .. 2 /\ 3 - (3 - axis) = axis
    BY DEF Objs
  <1>2. CASE b
    <2> DEFINE q == Tree!SetContentSize(os[p], 3 - axis, need)
    <2>1. Resized(q, os[p]) /\ (Holds(os[p], 3 - (3 - axis)) => q.size[3 - (3 - axis)] = os[p].size[3 - (3 - axis)])
      <3> DEFINE cross == 3 - axis
      <3>1. cross \in 1 .. 2 /\ os[p] \in Obj
        BY <1>1
      <3> HIDE DEF cross, q
      <3>2. q = Tree!SetContentSize(os[p], cross, need)
        BY DEF q, cross
      <3>3. Resized(q, os[p]) /\ (Holds(os[p], 3 - cross) => q.size[3 - cross] = os[p].size[3 - cross])
        BY <3>1, <3>2, SetContentSizeIs
      <3> QED BY <3>3 DEF cross
    <2> HIDE DEF q
    <2>2. w = [os EXCEPT ![p] = q]
      BY <1>2 DEF q
    <2>3. w[p] = q /\ \A c \in Tree!Widgets : c # p => w[c] = os[c]
      BY <2>2 DEF Objs
    <2>4. q \in Obj
      BY <2>1 DEF Resized
    <2>5. w \in Objs
      BY <2>2, <2>4 DEF Objs
    <2> QED BY <1>1, <2>1, <2>3, <2>5 DEF Widened
  <1>3. CASE ~b
    <2>1. Resized(os[p], os[p])
      BY <1>1 DEF Resized
    <2> QED BY <1>3, <2>1 DEF Widened
  <1> QED BY <1>2, <1>3

\* The sums layout makes of sizes and of factors.
LEMMA SumsOf ==
  ASSUME NEW vis \in Seq(Tree!Widgets), NEW sizes \in [Tree!Widgets -> Int]
  PROVE  \E t : Sums(t, Len(vis), Shares(sizes, vis)) /\ Tree!Total(sizes, vis) = t[Len(vis)]
  <1> DEFINE n == Len(vis)
  <1>1. PICK t : /\ t \in [0 .. n -> Int] /\ t[0] = 0
                 /\ \A k \in 1 .. n : t[k] = t[k - 1] + sizes[vis[k]]
                 /\ Tree!Total(sizes, vis) = t[n]
    BY TotalIs
  <1>2. \A k \in 1 .. n : Shares(sizes, vis)[k] = sizes[vis[k]]
    BY DEF Shares
  <1>3. Sums(t, n, Shares(sizes, vis))
    BY <1>1, <1>2 DEF Sums
  <1> QED BY <1>1, <1>3

\* What is shared out: the same, but there may be no factors at all.
ToShare(vis, os, axis, space, factor, total, available, t, s) ==
  /\ vis \in Seq(Tree!Widgets) /\ Distinct(vis) /\ os \in Objs /\ axis \in 1 .. 2
  /\ \A k \in 1 .. Len(vis) : Holds(os[vis[k]], axis)
  /\ factor \in [Tree!Widgets -> Nat] /\ total \in Nat
  /\ available \in Int /\ available <= 65535
  /\ Sums(t, Len(vis), Extents(os, vis, axis)) /\ space = available - t[Len(vis)]
  /\ Sums(s, Len(vis), Shares(factor, vis)) /\ total = s[Len(vis)]

LEMMA SpaceIs ==
  ASSUME NEW vis, NEW os, NEW axis, NEW space, NEW factor, NEW available, NEW t, NEW s, NEW total,
         ToShare(vis, os, axis, space, factor, total, available, t, s)
  PROVE  /\ space \in Int /\ t[Len(vis)] \in Int /\ available \in Int /\ total \in Nat
         /\ total > 0 => ToResize(vis, os, axis, space, factor, total, available, t, s)
  <1>1. vis \in Seq(Tree!Widgets) /\ available \in Int /\ space = available - t[Len(vis)] /\ total \in Nat
        /\ t \in [0 .. Len(vis) -> Int]
    BY DEF ToShare, Sums
  <1>2. t[Len(vis)] \in Int
    BY <1>1, PlacesOf
  <1>3. space \in Int
    BY <1>1, <1>2
  <1>4. ASSUME total > 0 PROVE total \in Nat \ {0}
    BY <1>1, <1>4
  <1>5. total > 0 => ToResize(vis, os, axis, space, factor, total, available, t, s)
    BY <1>3, <1>4 DEF ToShare, ToResize
  <1> QED BY <1>1, <1>2, <1>3, <1>5

\* What the resizing loop ends with, whether it has run or there was nothing to share out.
SharedOut(r, vis, os, axis, space, factor, total, available) ==
  r = IF space # 0 /\ total > 0
      THEN Tree!FoldLeft(LAMBDA acc, c : Tree!ResizeChild(acc, c, axis, space, factor, total, available),
                         [objs |-> os, occupied |-> 0, short |-> FALSE], vis)
      ELSE [objs |-> os, short |-> FALSE]

LEMMA LoopRuns ==
  ASSUME NEW vis, NEW os, NEW axis, NEW space, NEW factor, NEW total, NEW available, NEW t, NEW s,
         ToResize(vis, os, axis, space, factor, total, available, t, s)
  PROVE  \E f : ResizeRun(f, vis, [objs |-> os, occupied |-> 0, short |-> FALSE], axis, space, factor, total, available)
  <1> DEFINE acc0 == [objs |-> os, occupied |-> 0, short |-> FALSE]
  <1>1. /\ vis \in Seq(Tree!Widgets) /\ os \in Objs /\ axis \in 1 .. 2 /\ space \in Int
        /\ factor \in [Tree!Widgets -> Nat] /\ total \in Nat \ {0} /\ available \in Int
    BY DEF ToResize
  <1>2. acc0 \in Accs
    BY <1>1 DEF Accs
  <1>3. \A i \in 1 .. Len(vis) : factor[vis[i]] <= total
    BY StepsFit
  <1> HIDE DEF acc0
  <1>4. \E f : ResizeRun(f, vis, acc0, axis, space, factor, total, available)
    BY <1>1, <1>2, <1>3, ResizeSteps
  <1> QED BY <1>4 DEF acc0

LEMMA AfterSharing ==
  ASSUME NEW vis, NEW os, NEW axis, NEW space, NEW factor, NEW available, NEW t, NEW s, NEW total,
         ToShare(vis, os, axis, space, factor, total, available, t, s), ~(space < 0 /\ total = 0),
         NEW r, SharedOut(r, vis, os, axis, space, factor, total, available), ~r.short
  PROVE  /\ Resizes(r.objs, os, vis, axis)
         /\ \E occ : Occupies(occ, r.objs, vis, axis, space, factor, available) /\ (space = 0 => occ[Len(vis)] <= available)
  <1>1. CASE space # 0 /\ total > 0
    <2>1. ToResize(vis, os, axis, space, factor, total, available, t, s)
      BY <1>1, SpaceIs
    <2>2. PICK f : ResizeRun(f, vis, [objs |-> os, occupied |-> 0, short |-> FALSE], axis, space, factor, total, available)
      BY <2>1, LoopRuns
    <2>a. ResizingLoop(f, vis, os, axis, space, factor, total, available)
      BY <2>2 DEF ResizeRun, ResizingLoop
    <2>3. r = f[Len(vis)]
      BY <1>1, <2>2 DEF SharedOut, ResizeRun
    <2>4. Resizes(f[Len(vis)].objs, os, vis, axis) /\ \E occ : Occupies(occ, f[Len(vis)].objs, vis, axis, space, factor, available)
      BY <2>1, <2>a, <2>3, ResizingIs
    <2> QED BY <1>1, <2>3, <2>4
  <1>2. CASE ~(space # 0 /\ total > 0)
    <2>1. r.objs = os
      BY <1>2 DEF SharedOut
    <2>2. os \in Objs /\ \A k \in 1 .. Len(vis) : Holds(os[vis[k]], axis)
      BY DEF ToShare
    <2>3. \A c \in Tree!Widgets : Resized(os[c], os[c])
      BY <2>2 DEF Objs, Resized
    <2>4. Resizes(os, os, vis, axis)
      BY <2>2, <2>3 DEF Resizes
    <2>5. space \in Int /\ t[Len(vis)] \in Int /\ available \in Int /\ total \in Nat /\ space = available - t[Len(vis)]
      <3>1. space = available - t[Len(vis)]
        BY DEF ToShare
      <3> QED BY <3>1, SpaceIs
    <2>6. ~(space < 0) /\ t[Len(vis)] <= available
      <3> DEFINE b == t[Len(vis)]
      <3>1. b \in Int /\ space = available - b
        BY <2>5
      <3> HIDE DEF b
      <3>2. space >= 0 /\ b <= available
        BY <1>2, <2>5, <3>1
      <3> QED BY <2>5, <3>2 DEF b
    <2>7. Occupies(t, os, vis, axis, space, factor, available)
      BY <2>6 DEF Occupies, ToShare
    <2> QED BY <2>1, <2>4, <2>6, <2>7
  <1> QED BY <1>1, <1>2

\* The steps of a layout together.
LEMMA LaidOutIs ==
  ASSUME NEW os \in Objs, NEW p \in Tree!Widgets, NEW axis \in 1 .. 2, NEW vis \in Seq(Tree!Widgets),
         \A k \in 1 .. Len(vis) : vis[k] # p, NEW w, Widened(w, os, p, axis), NEW mid, Resizes(mid, w, vis, axis),
         NEW start, NEW occ, NEW q, PlacedAlong(q, mid, vis, axis, start, occ)
  PROVE  LaidOut(q, os, p, vis, axis)
  <1>1. /\ w \in Objs /\ Resized(w[p], os[p]) /\ w[p].size[axis] = os[p].size[axis]
        /\ \A c \in Tree!Widgets : c # p => w[c] = os[c]
    BY DEF Widened
  <1>2. /\ mid \in Objs /\ \A k \in 1 .. Len(vis) : Holds(mid[vis[k]], axis)
        /\ \A c \in Tree!Widgets : Resized(mid[c], w[c]) /\ ((\A k \in 1 .. Len(vis) : vis[k] # c) => mid[c] = w[c])
    BY DEF Resizes
  <1>3. /\ q \in Objs
        /\ \A c \in Tree!Widgets : Placed(q[c], mid[c]) /\ ((\A k \in 1 .. Len(vis) : vis[k] # c) => q[c] = mid[c])
        /\ \A k \in 1 .. Len(vis) : q[vis[k]].size[axis] = mid[vis[k]].size[axis]
    BY DEF PlacedAlong
  <1>4. ASSUME NEW c \in Tree!Widgets PROVE Placed(q[c], os[c])
    <2>1. Placed(q[c], mid[c]) /\ Resized(mid[c], w[c])
      BY <1>2, <1>3
    <2>2. c = p \/ w[c] = os[c]
      BY <1>1
    <2>3. CASE w[c] = os[c]
      BY <2>1, <2>3 DEF Placed, Resized
    <2>4. CASE c = p
      BY <1>1, <2>1, <2>4 DEF Placed, Resized
    <2> QED BY <2>2, <2>3, <2>4
  <1>5. ASSUME NEW c \in Tree!Widgets, c # p, \A k \in 1 .. Len(vis) : vis[k] # c PROVE q[c] = os[c]
    BY <1>1, <1>2, <1>3, <1>5
  <1>6. q[p].pos = os[p].pos /\ q[p].size[axis] = os[p].size[axis]
    <2>1. q[p] = w[p]
      BY <1>2, <1>3
    <2> QED BY <1>1, <2>1 DEF Resized
  <1>7. ASSUME NEW k \in 1 .. Len(vis) PROVE Holds(q[vis[k]], axis)
    <2>1. vis[k] \in Tree!Widgets
      BY PlacesOf
    <2>2. q[vis[k]].min = mid[vis[k]].min
      BY <1>3, <2>1 DEF Placed
    <2> QED BY <1>2, <1>3, <2>2 DEF Holds
  <1> QED BY <1>3, <1>4, <1>5, <1>6, <1>7 DEF LaidOut

\* Children give up what they shrink by, and none is left when there is nothing to share.
Shrinks(factor, os, space) == \A c \in Tree!Widgets : space < 0 => factor[c] = os[c].shrink
Fills(occ, vis, space, available) == space = 0 => occ[Len(vis)] <= available

LEMMA FitIs ==
  ASSUME NEW os \in Objs, NEW p \in Tree!Widgets, NEW axis \in 1 .. 2, NEW vis \in Seq(Tree!Widgets),
         NEW w, Widened(w, os, p, axis), NEW mid, Resizes(mid, w, vis, axis), \A k \in 1 .. Len(vis) : vis[k] # p,
         NEW start, start = Tree!ContentStart(os[p], axis), NEW available, available = Tree!ContentSize(os[p], axis),
         NEW occ, NEW q, PlacedAlong(q, mid, vis, axis, start, occ), LaidOut(q, os, p, vis, axis),
         NEW space \in Int, NEW factor, Shrinks(factor, os, space),
         Occupies(occ, mid, vis, axis, space, factor, available), Fills(occ, vis, space, available)
  PROVE  Fit(q, p, vis, axis)
  <1>1. start \in Int /\ available \in Int
    BY ObjHas DEF Objs
  <1>2. mid \in Objs /\ q \in Objs
    BY DEF Resizes, PlacedAlong
  <1>3. Sums(occ, Len(vis), Extents(mid, vis, axis))
    BY DEF Occupies
  <1>4. InARow(q, vis, axis) /\ (occ[Len(vis)] <= available => EndBefore(q, vis, axis, start + available))
    BY <1>1, <1>2, <1>3, PlacesInARow
  <1>5. Tree!ContentStart(q[p], axis) = start /\ Tree!ContentSize(q[p], axis) = available
    <2>1. q[p].pos = os[p].pos /\ q[p].size[axis] = os[p].size[axis] /\ q[p].padding = os[p].padding
      BY DEF LaidOut, Placed
    <2> QED BY <2>1 DEF Tree!ContentStart, Tree!ContentSize, Tree!Frame
  <1>6. ASSUME NEW k \in 1 .. Len(vis)
        PROVE  /\ q[vis[k]].shrink = mid[vis[k]].shrink /\ q[vis[k]].min = mid[vis[k]].min /\ q[vis[k]].margin = mid[vis[k]].margin
               /\ q[vis[k]].size[axis] = mid[vis[k]].size[axis]
               /\ space < 0 => factor[vis[k]] = q[vis[k]].shrink
    <2>1. vis[k] \in Tree!Widgets
      BY PlacesOf
    <2>2. Placed(q[vis[k]], mid[vis[k]]) /\ q[vis[k]].size[axis] = mid[vis[k]].size[axis]
      BY <2>1 DEF PlacedAlong
    <2>3. Placed(q[vis[k]], os[vis[k]])
      BY <2>1 DEF LaidOut
    <2> QED BY <2>1, <2>2, <2>3 DEF Placed, Shrinks
  <1>7. ASSUME Excused(mid, vis, axis) PROVE Excused(q, vis, axis)
    BY <1>6, <1>7 DEF Excused
  <1>8. ASSUME space < 0, NEW k \in 1 .. Len(vis), factor[vis[k]] = 0 PROVE Excused(q, vis, axis)
    BY <1>6, <1>8 DEF Excused
  <1>9. occ[Len(vis)] <= available \/ Excused(q, vis, axis)
    BY <1>7, <1>8 DEF Occupies, Fills
  <1> QED BY <1>4, <1>5, <1>9 DEF Fit

\* Unless it throws or asks a child for more than it has, the layout of a panel
\* puts its visible children one after another along its axis, within its
\* content unless one may not shrink, is at its minimum or has a margin before it.
LEMMA LayoutIs ==
  ASSUME NEW os, NEW p, NEW cs, NEW axis, NEW alignment, ToLayOut(os, p, cs, axis, alignment),
         NEW l, l = Tree!Layout(os, p, cs, axis, alignment), ~l.threw, ~l.short
  PROVE  /\ LaidOut(l.objs, os, p, Tree!Visible(os, cs), axis)
         /\ Fit(l.objs, p, Tree!Visible(os, cs), axis)
  <1> DEFINE vis == Tree!Visible(os, cs)
             n == Len(vis)
             cross == 3 - axis
             sizes(a) == [c \in DOMAIN os |-> Tree!SizeWithMargin(os[c], a)]
             available == Tree!ContentSize(os[p], axis)
             crossNeed == Tree!Largest(sizes(cross), vis)
             crossHas == Tree!ContentSize(os[p], cross)
             widens == Tree!SizeLess(crossHas, crossNeed)
             crossSize == IF widens THEN crossNeed ELSE crossHas
             widened == IF widens THEN [os EXCEPT ![p] = Tree!SetContentSize(os[p], cross, crossNeed)] ELSE os
             space == available - Tree!Total(sizes(axis), vis)
             factor == [c \in DOMAIN os |-> IF space > 0 THEN os[c].grow ELSE os[c].shrink]
             total == Tree!Total(factor, vis)
             resized == IF space # 0 /\ total > 0
                        THEN Tree!FoldLeft(LAMBDA acc, c : Tree!ResizeChild(acc, c, axis, space, factor, total, available),
                                           [objs |-> widened, occupied |-> 0, short |-> FALSE], vis)
                        ELSE [objs |-> widened, short |-> FALSE]
             start == Tree!ContentStart(os[p], axis)
             crossPos == Tree!ContentStart(os[p], cross)
             placed == Tree!FoldLeft(LAMBDA acc, c : Tree!PlaceChild(acc, c, axis, alignment, crossPos, crossSize),
                                     [objs |-> resized.objs, main |-> start], vis).objs
  <1>1. l = [threw |-> space < 0 /\ total = 0, short |-> resized.short,
             objs |-> IF space < 0 /\ total = 0 THEN widened ELSE placed]
    BY DEF Tree!Layout
  <1>2. ~(space < 0 /\ total = 0) /\ ~resized.short /\ l.objs = placed
    <2> DEFINE throws == space < 0 /\ total = 0
    <2>1. l = [threw |-> throws, short |-> resized.short, objs |-> IF throws THEN widened ELSE placed]
      BY <1>1
    <2> HIDE DEF space, total, resized, placed, widened, throws
    <2>2. l.threw = throws /\ l.short = resized.short /\ l.objs = IF throws THEN widened ELSE placed
      BY <2>1
    <2>3. ~throws /\ ~resized.short /\ l.objs = placed
      BY <2>2
    <2> QED BY <2>3 DEF throws
  <1>3. /\ os \in Objs /\ p \in Tree!Widgets /\ cs \in Seq(Tree!Widgets) /\ axis \in 1 .. 2 /\ alignment \in Alignments
        /\ Distinct(cs) /\ Holds(os[p], axis) /\ \A k \in 1 .. Len(cs) : cs[k] # p /\ Holds(os[cs[k]], axis)
    BY DEF ToLayOut
  <1>4. DOMAIN os = Tree!Widgets /\ \A c \in Tree!Widgets : os[c] \in Obj
    BY <1>3 DEF Objs
  <1> HIDE DEF vis
  <1>5. ShownOf(vis, os, cs)
    BY <1>3, VisibleIs DEF vis
  <1>6. /\ vis \in Seq(Tree!Widgets) /\ Distinct(vis)
        /\ \A k \in 1 .. n : vis[k] # p /\ Holds(os[vis[k]], axis)
    BY <1>3, <1>5 DEF ShownOf
  <1>7. n \in Nat /\ n \in 0 .. n /\ \A k \in 1 .. n : vis[k] \in Tree!Widgets
    BY <1>6, PlacesOf
  <1> HIDE DEF n
  <1>8. /\ cross \in 1 .. 2 /\ available \in Int /\ available <= 65535 /\ crossHas \in Int /\ start \in Int /\ crossPos \in Int
    <2>1. cross \in 1 .. 2 /\ os[p] \in Obj
      BY <1>3, <1>4
    <2> HIDE DEF cross
    <2> QED BY <1>3, <2>1, ObjHas
  <1>9. \A a \in 1 .. 2 : sizes(a) \in [Tree!Widgets -> Int] /\ \A c \in Tree!Widgets : sizes(a)[c] = Tree!SizeWithMargin(os[c], a)
    <2> TAKE a \in 1 .. 2
    <2>1. \A c \in Tree!Widgets : Tree!SizeWithMargin(os[c], a) \in Int
      BY <1>4, ExtentIs
    <2> QED BY <1>4, <2>1
  <1> HIDE DEF sizes
  <1>10. crossNeed \in Int /\ crossSize \in Int
    <2> DEFINE z == sizes(cross)
    <2>1. z \in [Tree!Widgets -> Int]
      BY <1>8, <1>9
    <2> HIDE DEF z
    <2>2. Tree!Largest(z, vis) \in Int
      <3>1. PICK f : f \in [0 .. Len(vis) -> Int] /\ Tree!Largest(z, vis) = f[Len(vis)]
        BY <1>6, <2>1, LargestIs
      <3> QED BY <1>7, <3>1 DEF n
    <2> HIDE DEF crossHas
    <2> QED BY <1>8, <2>2 DEF z
  <1> HIDE DEF cross, available, crossNeed, crossHas, start, crossPos
  <1> HIDE DEF widens, crossSize
  <1>12. Widened(widened, os, p, axis)
    <2>1. widened = IF widens THEN [os EXCEPT ![p] = Tree!SetContentSize(os[p], 3 - axis, crossNeed)] ELSE os
      BY DEF cross
    <2> HIDE DEF widened
    <2> QED BY <1>3, <1>10, <2>1, WidenedIs
  <1> HIDE DEF widened
  <1>13. widened \in Objs /\ \A k \in 1 .. n : widened[vis[k]] = os[vis[k]]
    BY <1>6, <1>7, <1>12 DEF Widened
  <1>14. \E t : Sums(t, n, Extents(widened, vis, axis)) /\ Tree!Total(sizes(axis), vis) = t[n]
    <2> DEFINE z == sizes(axis)
    <2>1. z \in [Tree!Widgets -> Int] /\ \A c \in Tree!Widgets : z[c] = Tree!SizeWithMargin(os[c], axis)
      BY <1>3, <1>9
    <2> HIDE DEF z
    <2>2. PICK t : Sums(t, n, Shares(z, vis)) /\ Tree!Total(z, vis) = t[n]
      BY <1>6, <2>1, SumsOf DEF n
    <2>3. Shares(z, vis) = Extents(widened, vis, axis)
      BY <1>7, <1>13, <2>1 DEF Shares, Extents, n
    <2> QED BY <2>2, <2>3 DEF z
  <1>15. PICK t : Sums(t, n, Extents(widened, vis, axis)) /\ space = available - t[n]
    BY <1>14
  <1>16. t[n] \in Int /\ space \in Int
    BY <1>7, <1>8, <1>15 DEF Sums
  <1> HIDE DEF space
  <1>17. /\ factor \in [Tree!Widgets -> Nat]
         /\ \A c \in Tree!Widgets : space < 0 => factor[c] = os[c].shrink
    <2>1. \A c \in Tree!Widgets : os[c].grow \in Nat /\ os[c].shrink \in Nat
      BY <1>3, <1>4, ObjHas
    <2> QED BY <1>4, <1>16, <2>1
  <1> HIDE DEF factor
  <1>18. PICK s : Sums(s, n, Shares(factor, vis)) /\ total = s[n]
    <2>1. factor \in [Tree!Widgets -> Int]
      BY <1>17
    <2> QED BY <1>6, <2>1, SumsOf DEF n
  <1> HIDE DEF total
  <1>19. total \in Nat
    <2> DEFINE sh == Shares(factor, vis)
    <2>1. \A k \in 1 .. n : sh[k] \in Nat
      BY <1>7, <1>17 DEF Shares, n
    <2>2. Sums(s, n, sh)
      BY <1>18
    <2> HIDE DEF sh
    <2>3. CASE n = 0
      BY <1>18, <2>2, <2>3 DEF Sums
    <2>4. CASE n # 0
      <3>1. n \in 1 .. n
        BY <1>7, <2>4
      <3> QED BY <1>7, <1>18, <2>1, <2>2, <3>1, PartOfSum
    <2> QED BY <2>3, <2>4
  <1>20. ToShare(vis, widened, axis, space, factor, total, available, t, s)
    <2>1. \A k \in 1 .. n : Holds(widened[vis[k]], axis)
      BY <1>6, <1>13
    <2> QED BY <1>3, <1>6, <1>8, <1>13, <1>15, <1>17, <1>18, <1>19, <2>1 DEF ToShare, n
  <1>21. SharedOut(resized, vis, widened, axis, space, factor, total, available)
    BY DEF SharedOut
  <1> HIDE DEF resized
  <1>22. PICK occ : /\ Resizes(resized.objs, widened, vis, axis)
                    /\ Occupies(occ, resized.objs, vis, axis, space, factor, available)
                    /\ space = 0 => occ[n] <= available
    BY <1>2, <1>20, <1>21, AfterSharing DEF n
  <1> DEFINE mid == resized.objs
  <1>a. /\ Resizes(mid, widened, vis, axis) /\ Occupies(occ, mid, vis, axis, space, factor, available)
        /\ space = 0 => occ[Len(vis)] <= available
    BY <1>22 DEF n
  <1>b. \A k \in 1 .. Len(vis) : vis[k] # p
    BY <1>6 DEF n
  <1>c. start = Tree!ContentStart(os[p], axis) /\ available = Tree!ContentSize(os[p], axis)
    BY DEF start, available
  <1>d. Shrinks(factor, os, space) /\ Fills(occ, vis, space, available)
    BY <1>17, <1>a DEF Shrinks, Fills
  <1>23. ToPlace(vis, mid, axis, alignment, start, crossPos, crossSize)
    BY <1>3, <1>6, <1>8, <1>10, <1>22 DEF ToPlace, Resizes
  <1> HIDE DEF mid
  <1>24. PlacedAlong(placed, mid, vis, axis, start, occ)
    <2> DEFINE acc0 == [objs |-> mid, main |-> start]
    <2>1. acc0 \in PlaceAccs
      BY <1>8, <1>22 DEF PlaceAccs, Resizes, mid
    <2> HIDE DEF acc0
    <2>2. PICK f : PlaceRun(f, vis, acc0, axis, alignment, crossPos, crossSize)
      BY <1>3, <1>6, <1>8, <1>10, <2>1, PlaceSteps
    <2>3. PlacingLoop(f, vis, mid, axis, alignment, start, crossPos, crossSize)
      BY <2>2 DEF PlaceRun, PlacingLoop, acc0
    <2>4. placed = f[n].objs
      BY <2>2 DEF PlaceRun, acc0, mid, n
    <2>5. Sums(occ, Len(vis), Extents(mid, vis, axis))
      BY <1>22 DEF Occupies, mid
    <2> HIDE DEF placed
    <2>6. PlacedAlong(f[n].objs, mid, vis, axis, start, occ)
      BY <1>23, <2>3, <2>5, PlacingIs DEF n
    <2> QED BY <2>4, <2>6
  <1> HIDE DEF placed
  <1> DEFINE q == l.objs
  <1>25. PlacedAlong(q, mid, vis, axis, start, occ)
    BY <1>2, <1>24
  <1> HIDE DEF q
  <1>26. LaidOut(q, os, p, vis, axis)
    BY <1>3, <1>6, <1>12, <1>25, <1>a, <1>b, LaidOutIs
  <1>27. Fit(q, p, vis, axis)
    BY <1>3, <1>6, <1>12, <1>16, <1>25, <1>26, <1>a, <1>b, <1>c, <1>d, FitIs
  <1> QED BY <1>26, <1>27 DEF vis, q
------------------------------------------------------------------------------
(* Trees.  kids[p] are the members of P below p; going down ends everywhere.  *)

Ends(P, kids) == \A s \in SUBSET P : s # {} => \E p \in s : kids[p] \cap s = {}

\* What F makes of p depends on the kids of p alone.
Local(P, S, kids, F) ==
  /\ F \in [P \X [P -> S] -> S]
  /\ \A p \in P : \A g, h \in [P -> S] : (\A c \in kids[p] \cap P : g[c] = h[c]) => F[<<p, g>>] = F[<<p, h>>]

\* g computes F on a set closed under kids.
Computes(g, s, P, S, kids, F) ==
  /\ s \in SUBSET P /\ \A p \in s : kids[p] \cap P \subseteq s
  /\ g \in [P -> S] /\ \A p \in s : g[p] = F[<<p, g>>]

LEMMA ComputesOnce ==
  ASSUME NEW P, NEW S, NEW kids, NEW F, Ends(P, kids), Local(P, S, kids, F),
         NEW g, NEW s, Computes(g, s, P, S, kids, F), NEW h, NEW t, Computes(h, t, P, S, kids, F)
  PROVE  \A p \in s \cap t : g[p] = h[p]
  <1> DEFINE d == {p \in s \cap t : g[p] # h[p]}
  <1> SUFFICES ASSUME d # {} PROVE FALSE
    OBVIOUS
  <1>1. d \in SUBSET P
    BY DEF Computes
  <1>2. PICK p \in d : kids[p] \cap d = {}
    BY <1>1 DEF Ends
  <1>3. \A c \in kids[p] \cap P : g[c] = h[c]
    BY <1>2 DEF Computes
  <1>4. F[<<p, g>>] = F[<<p, h>>]
    BY <1>1, <1>3 DEF Local, Computes
  <1> QED BY <1>4 DEF Computes

\* So there is a function that computes F everywhere.
LEMMA RecursionExists ==
  ASSUME NEW P, NEW S, NEW kids, NEW F, Ends(P, kids), Local(P, S, kids, F), S # {}
  PROVE  \E g \in [P -> S] : \A p \in P : g[p] = F[<<p, g>>]
  <1> DEFINE C(g, s) == Computes(g, s, P, S, kids, F)
             Has(g, p) == \E s : p \in s /\ C(g, s)
             good == {p \in P : \E g : Has(g, p)}
             of(p) == CHOOSE g : Has(g, p)
             any == CHOOSE x : x \in S
             h == [p \in P |-> IF p \in good THEN of(p)[p] ELSE any]
  <1>1. \A p \in good : Has(of(p), p)
    OBVIOUS
  <1>2. ASSUME NEW p \in good, NEW g, NEW s, p \in s, C(g, s) PROVE h[p] = g[p]
    <2>1. PICK t : p \in t /\ C(of(p), t)
      BY <1>1
    <2> HIDE DEF of
    <2>2. of(p)[p] = g[p]
      BY <1>2, <2>1, ComputesOnce
    <2> QED BY <2>2
  <1>3. h \in [P -> S]
    <2>1. any \in S
      OBVIOUS
    <2>2. \A p \in good : of(p) \in [P -> S]
      BY <1>1 DEF Computes
    <2> HIDE DEF of, any, good
    <2> QED BY <2>1, <2>2
  <1>4. ASSUME NEW p \in good PROVE kids[p] \cap P \subseteq good /\ h[p] = F[<<p, h>>]
    <2>1. PICK g, s : p \in s /\ C(g, s)
      OBVIOUS
    <2>2. /\ s \in SUBSET P /\ \A x \in s : kids[x] \cap P \subseteq s
          /\ g \in [P -> S] /\ \A x \in s : g[x] = F[<<x, g>>]
      BY <2>1 DEF Computes
    <2>3. s \subseteq good
      BY <2>1, <2>2
    <2>4. \A x \in s : h[x] = g[x]
      BY <1>2, <2>1, <2>3
    <2> HIDE DEF h, good, C
    <2>5. F[<<p, g>>] = F[<<p, h>>]
      BY <1>3, <2>1, <2>2, <2>4 DEF Local
    <2> QED BY <2>1, <2>2, <2>3, <2>4, <2>5
  <1>5. good = P
    <2> SUFFICES ASSUME P \ good # {} PROVE FALSE
      OBVIOUS
    <2>1. PICK p \in P \ good : kids[p] \cap (P \ good) = {}
      <3> HIDE DEF good
      <3> QED BY DEF Ends
    <2> DEFINE g == [h EXCEPT ![p] = F[<<p, h>>]]
               s == good \cup {p}
    <2>2. F[<<p, h>>] \in S
      <3> HIDE DEF h
      <3> QED BY <1>3 DEF Local
    <2>3. g \in [P -> S] /\ g[p] = F[<<p, h>>] /\ \A x \in P \ {p} : g[x] = h[x]
      <3> HIDE DEF h
      <3> QED BY <1>3, <2>2
    <2>a. good \subseteq P
      OBVIOUS
    <2> HIDE DEF g, h, good
    <2>4. \A x \in s : kids[x] \cap P \subseteq good
      BY <1>4, <2>1
    <2>5. \A x \in s : x \in P /\ F[<<x, g>>] = F[<<x, h>>]
      <3> SUFFICES ASSUME NEW x \in s PROVE x \in P /\ F[<<x, g>>] = F[<<x, h>>]
        OBVIOUS
      <3>1. x \in P /\ \A c \in kids[x] \cap P : g[c] = h[c]
        BY <2>1, <2>3, <2>4, <2>a
      <3> QED BY <1>3, <2>3, <3>1 DEF Local
    <2>6. \A x \in s : g[x] = F[<<x, g>>]
      BY <1>4, <2>1, <2>3, <2>5, <2>a
    <2>7. C(g, s)
      BY <2>3, <2>4, <2>5, <2>6, <2>a DEF Computes
    <2>8. p \in s
      OBVIOUS
    <2> HIDE DEF s, C
    <2>9. p \in good
      BY <2>7, <2>8 DEF good
    <2> QED BY <2>1, <2>9
  <1> HIDE DEF good
  <1> QED BY <1>3, <1>4, <1>5
------------------------------------------------------------------------------
(* The panels below a panel.                                                  *)

KidsOf(ch) == [p \in Tree!AllPanels |-> Tree!ToSet(ch[p])]

\* Every widget is at most once a child, of one panel, and Root is none.
IsTree(ch) ==
  /\ ch \in [Tree!AllPanels -> Seq(Tree!Widgets)]
  /\ \A p \in Tree!AllPanels : Distinct(ch[p]) /\ Root \notin Tree!ToSet(ch[p])
  /\ \A p, q \in Tree!AllPanels : Tree!ToSet(ch[p]) \cap Tree!ToSet(ch[q]) # {} => p = q
  /\ Ends(Tree!AllPanels, KidsOf(ch))

\* A set of panels with p and every panel in one of them.
ClosedFrom(s, p) ==
  s \in SUBSET Tree!AllPanels /\ p \in s /\ \A x \in s : Tree!ToSet(children[x]) \cap Tree!AllPanels \subseteq s

LEMMA BelowIs ==
  ASSUME NEW p, NEW q
  PROVE  q \in Tree!PanelsBelow(p) <=> q \in Tree!AllPanels /\ \A s : ClosedFrom(s, p) => q \in s
  BY DEF Tree!PanelsBelow, ClosedFrom

\* The panels below p are p and those below a panel in p.
LEMMA BelowPanel ==
  ASSUME NEW p \in Tree!AllPanels
  PROVE  /\ p \in Tree!PanelsBelow(p) /\ Tree!PanelsBelow(p) \subseteq Tree!AllPanels
         /\ \A x \in Tree!PanelsBelow(p) : Tree!ToSet(children[x]) \cap Tree!AllPanels \subseteq Tree!PanelsBelow(p)
         /\ ClosedFrom(Tree!PanelsBelow(p), p)
  <1>1. p \in Tree!PanelsBelow(p) /\ Tree!PanelsBelow(p) \subseteq Tree!AllPanels
    BY BelowIs DEF ClosedFrom
  <1>2. ASSUME NEW x \in Tree!PanelsBelow(p), NEW c \in Tree!ToSet(children[x]) \cap Tree!AllPanels
        PROVE  c \in Tree!PanelsBelow(p)
    <2> SUFFICES ASSUME NEW s, ClosedFrom(s, p) PROVE c \in s
      BY BelowIs
    <2>1. x \in s
      BY BelowIs
    <2> QED BY <2>1 DEF ClosedFrom
  <1> QED BY <1>1, <1>2 DEF ClosedFrom

LEMMA BelowMore ==
  ASSUME NEW p \in Tree!AllPanels, NEW x \in Tree!PanelsBelow(p)
  PROVE  Tree!PanelsBelow(x) \subseteq Tree!PanelsBelow(p)
  <1>1. ClosedFrom(Tree!PanelsBelow(p), x)
    BY BelowPanel DEF ClosedFrom
  <1> QED BY <1>1, BelowIs

LEMMA AboveOne ==
  ASSUME NEW p \in Tree!AllPanels, NEW x \in Tree!PanelsBelow(p), x # p
  PROVE  \E r \in Tree!PanelsBelow(p) : x \in Tree!ToSet(children[r])
  <1> DEFINE panels == Tree!PanelsBelow(p)
             s == {p} \cup {y \in panels : \E r \in panels : y \in Tree!ToSet(children[r])}
  <1>1. p \in panels /\ panels \subseteq Tree!AllPanels
        /\ \A y \in panels : Tree!ToSet(children[y]) \cap Tree!AllPanels \subseteq panels
    BY BelowPanel
  <1>2. x \in panels
    OBVIOUS
  <1>3. ClosedFrom(s, p) => x \in s
    <2> HIDE DEF s
    <2> QED BY BelowIs
  <1> HIDE DEF panels
  <1>4. s \subseteq panels
    BY <1>1
  <1>5. \A y \in s : Tree!ToSet(children[y]) \cap Tree!AllPanels \subseteq s
    BY <1>1, <1>4
  <1>6. ClosedFrom(s, p)
    BY <1>1, <1>4, <1>5 DEF ClosedFrom
  <1> QED BY <1>3, <1>6 DEF panels

LEMMA BelowOne ==
  ASSUME NEW p \in Tree!AllPanels, NEW x \in Tree!PanelsBelow(p), x # p
  PROVE  \E c \in Tree!ToSet(children[p]) \cap Tree!AllPanels : x \in Tree!PanelsBelow(c)
  <1> DEFINE kids == Tree!ToSet(children[p]) \cap Tree!AllPanels
             s == {p} \cup {y \in Tree!AllPanels : \E c \in kids : y \in Tree!PanelsBelow(c)}
  <1>1. \A c \in kids : c \in Tree!PanelsBelow(c) /\ Tree!PanelsBelow(c) \subseteq Tree!AllPanels
    BY BelowPanel
  <1>2. ASSUME NEW y \in s PROVE Tree!ToSet(children[y]) \cap Tree!AllPanels \subseteq s
    <2>1. CASE y = p
      BY <1>1, <2>1
    <2>2. CASE y # p
      <3>1. PICK c \in kids : y \in Tree!PanelsBelow(c)
        BY <2>2
      <3>2. Tree!ToSet(children[y]) \cap Tree!AllPanels \subseteq Tree!PanelsBelow(c)
        BY <3>1, BelowPanel
      <3> QED BY <1>1, <3>2
    <2> QED BY <2>1, <2>2
  <1>3. ClosedFrom(s, p)
    BY <1>2 DEF ClosedFrom
  <1>4. x \in s
    <2> HIDE DEF s
    <2> QED BY <1>3, BelowIs
  <1> QED BY <1>4

\* Nothing below a panel in p has p below it, and two panels in p have nothing in common.
LEMMA NoneAbove ==
  ASSUME IsTree(children), NEW p \in Tree!AllPanels, NEW c \in Tree!ToSet(children[p]) \cap Tree!AllPanels
  PROVE  p \notin Tree!PanelsBelow(c)
  <1> SUFFICES ASSUME p \in Tree!PanelsBelow(c) PROVE FALSE
    OBVIOUS
  <1> DEFINE s == {x \in Tree!AllPanels : p \in Tree!PanelsBelow(x)}
  <1>1. c \in s
    OBVIOUS
  <1>2. PICK x \in s : KidsOf(children)[x] \cap s = {}
    <2>1. s \in SUBSET Tree!AllPanels /\ s # {}
      BY <1>1
    <2> HIDE DEF s
    <2> QED BY <2>1 DEF IsTree, Ends
  <1>3. Tree!ToSet(children[x]) \cap s = {}
    BY <1>2 DEF KidsOf
  <1>4. x # p
    BY <1>1, <1>3
  <1>5. PICK y \in Tree!ToSet(children[x]) \cap Tree!AllPanels : p \in Tree!PanelsBelow(y)
    BY <1>4, BelowOne
  <1> QED BY <1>3, <1>5

LEMMA Apart ==
  ASSUME IsTree(children), NEW p \in Tree!AllPanels, NEW a \in Tree!ToSet(children[p]) \cap Tree!AllPanels,
         NEW b \in Tree!ToSet(children[p]) \cap Tree!AllPanels, a # b
  PROVE  Tree!PanelsBelow(a) \cap Tree!PanelsBelow(b) = {}
  <1> DEFINE A == Tree!PanelsBelow(a)
             B == Tree!PanelsBelow(b)
             T == B \ A
  <1>1. a \in A /\ b \in B /\ ClosedFrom(B, b) /\ B \subseteq Tree!AllPanels
    BY BelowPanel
  <1>2. p \notin A /\ p \notin B
    BY NoneAbove
  <1>3. \A q, r \in Tree!AllPanels : \A x : x \in Tree!ToSet(children[q]) /\ x \in Tree!ToSet(children[r]) => q = r
    BY DEF IsTree
  <1>4. \A x \in A : x # a => \E r \in A : x \in Tree!ToSet(children[r])
    BY AboveOne
  <1>5. A \subseteq Tree!AllPanels
    BY BelowPanel
  <1>6. (\A s : ClosedFrom(s, b) => B \subseteq s)
    BY BelowIs
  <1> HIDE DEF A, B
  <1>7. b \in T
    BY <1>1, <1>2, <1>3, <1>4, <1>5
  <1>8. ASSUME NEW x \in T, NEW y \in Tree!ToSet(children[x]) \cap Tree!AllPanels PROVE y \in T
    <2>1. y \in B
      BY <1>1, <1>8 DEF ClosedFrom
    <2>2. y # a
      BY <1>1, <1>2, <1>3, <1>8
    <2>3. y \notin A
      BY <1>1, <1>3, <1>4, <1>5, <1>8, <2>2
    <2> QED BY <2>1, <2>3
  <1>9. ClosedFrom(T, b)
    BY <1>1, <1>7, <1>8 DEF ClosedFrom
  <1> QED BY <1>6, <1>9 DEF A, B

\* What is below p: its panels, with p, and their children.
LEMMA BelowParts ==
  ASSUME NEW p \in Tree!AllPanels
  PROVE  /\ Tree!Below(p) \cap Tree!AllPanels = Tree!PanelsBelow(p)
         /\ \A w : w \in Tree!Below(p) <=>
                     w \in Tree!PanelsBelow(p) \/ \E q \in Tree!PanelsBelow(p) : w \in Tree!ToSet(children[q])
  BY BelowPanel DEF Tree!Below
------------------------------------------------------------------------------
(* The orders in which the panels of a tree are packed and prepacked.         *)

\* The sequences g of the panels among cs, after base0.
Gathered(g, cs, base0) ==
  Tree!FoldLeft(LAMBDA before, c : IF c \in Tree!AllPanels THEN before \o g[c] ELSE before, base0, cs)

\* f joins the sequences g of the panels among cs to base0, child by child.
JoinRun(f, cs, g, base0) ==
  /\ f \in [0 .. Len(cs) -> Seq(Tree!AllPanels)] /\ f[0] = base0
  /\ \A k \in 1 .. Len(cs) : f[k] = (IF cs[k] \in Tree!AllPanels THEN f[k - 1] \o g[cs[k]] ELSE f[k - 1])
  /\ Gathered(g, cs, base0) = f[Len(cs)]

\* The sequences of the panels among some children, joined.
LEMMA JoinSteps ==
  ASSUME NEW cs \in Seq(Tree!Widgets), NEW g \in [Tree!AllPanels -> Seq(Tree!AllPanels)],
         NEW base0 \in Seq(Tree!AllPanels)
  PROVE  \E f : JoinRun(f, cs, g, base0)
  <1> DEFINE n == Len(cs)
             base == base0
             S == Seq(Tree!AllPanels)
             Step(acc, i) == (IF cs[i] \in Tree!AllPanels THEN acc \o g[cs[i]] ELSE acc)
             Eq(f) == f = [s \in SUBSET DOMAIN cs |->
                             IF s = {} THEN base ELSE (IF cs[Tree!Max(s)] \in Tree!AllPanels THEN f[s \ {Tree!Max(s)}] \o g[cs[Tree!Max(s)]] ELSE f[s \ {Tree!Max(s)}])]
             iter == CHOOSE f : Eq(f)
             F == [p \in S \X (1 .. n) |-> Step(p[1], p[2])]
  <1>1. Gathered(g, cs, base0) = iter[DOMAIN cs]
    BY DEF Gathered, Tree!FoldLeft, Tree!MapThenFoldSet
  <1>2. n \in Nat /\ DOMAIN cs = 1 .. n /\ \A i \in 1 .. n : cs[i] \in Tree!Widgets
    OBVIOUS
  <1>3. base \in S
    OBVIOUS
  <1>4. \A acc \in S, i \in 1 .. n : Step(acc, i) \in S
    <2> SUFFICES ASSUME NEW acc \in Seq(Tree!AllPanels), NEW i \in 1 .. n PROVE Step(acc, i) \in Seq(Tree!AllPanels)
      OBVIOUS
    <2>1. cs[i] \in Tree!AllPanels => g[cs[i]] \in Seq(Tree!AllPanels)
      OBVIOUS
    <2>2. cs[i] \in Tree!AllPanels => acc \o g[cs[i]] \in Seq(Tree!AllPanels)
      BY <2>1
    <2> QED BY <2>2
  <1>5. \A s : Eq(s) <=> s = [t \in SUBSET (1 .. n) |-> IF t = {} THEN base ELSE Step(s[t \ {Tree!Max(t)}], Tree!Max(t))]
    BY <1>2
  <1> HIDE DEF iter, Eq, Step, S, base, n
  <1>6. F \in [S \X (1 .. n) -> S] /\ \A acc \in S, i \in 1 .. n : F[<<acc, i>>] = Step(acc, i)
    BY <1>4
  <1> HIDE DEF F
  <1>7. \E f : Eq(f)
    <2>1. PICK h : h \in [SUBSET (1 .. n) -> S] /\ Folds(h, S, n, base, F)
      BY <1>2, <1>3, <1>6, FoldsExist
    <2>2. ASSUME NEW t \in SUBSET (1 .. n)
          PROVE  h[t] = IF t = {} THEN base ELSE Step(h[t \ {Tree!Max(t)}], Tree!Max(t))
      BY <1>6, <2>1 DEF Folds
    <2>3. h = [t \in SUBSET (1 .. n) |-> IF t = {} THEN base ELSE Step(h[t \ {Tree!Max(t)}], Tree!Max(t))]
      BY <2>1, <2>2
    <2> QED BY <1>5, <2>3
  <1>8. Eq(iter)
    BY <1>7 DEF iter
  <1>9. iter[{}] = base
    BY <1>5, <1>8
  <1>10. ASSUME NEW s \in SUBSET (1 .. n), s # {}, iter[s \ {Tree!Max(s)}] \in S, Tree!Max(s) \in 1 .. n
         PROVE  iter[s] = F[<<iter[s \ {Tree!Max(s)}], Tree!Max(s)>>]
    <2>1. iter[s] = Step(iter[s \ {Tree!Max(s)}], Tree!Max(s))
      BY <1>5, <1>8, <1>10
    <2> QED BY <1>6, <1>10, <2>1
  <1>11. PICK f : ChainTo(f, S, n, base, F, iter[1 .. n])
    BY <1>2, <1>3, <1>6, <1>9, <1>10, FoldChain
  <1>12. /\ f \in [0 .. n -> S] /\ f[0] = base /\ f[n] = iter[1 .. n]
         /\ \A k \in 1 .. n : f[k] = F[<<f[k - 1], k>>]
    BY <1>11 DEF Chain, ChainTo
  <1>13. ASSUME NEW k \in 1 .. n PROVE f[k] = Step(f[k - 1], k)
    <2>1. k - 1 \in 0 .. n
      BY <1>2
    <2> QED BY <1>6, <1>12, <2>1
  <1>14. Gathered(g, cs, base0) = f[n]
    BY <1>1, <1>2, <1>12
  <1> QED BY <1>12, <1>13, <1>14 DEF S, base, Step, n, JoinRun

LEMMA JoinSame ==
  ASSUME NEW cs \in Seq(Tree!Widgets), NEW base0, NEW g, NEW f, JoinRun(f, cs, g, base0), NEW h, NEW e, JoinRun(e, cs, h, base0),
         \A k \in 1 .. Len(cs) : cs[k] \in Tree!AllPanels => g[cs[k]] = h[cs[k]]
  PROVE  f[Len(cs)] = e[Len(cs)]
  <1> DEFINE n == Len(cs)
             T == {k \in Nat : k <= n => f[k] = e[k]}
  <1>1. n \in Nat
    OBVIOUS
  <1>2. 0 \in T
    BY DEF JoinRun
  <1>3. ASSUME NEW k \in T PROVE k + 1 \in T
    <2> SUFFICES ASSUME k + 1 <= n PROVE f[k + 1] = e[k + 1]
      OBVIOUS
    <2>1. k + 1 \in 1 .. n /\ (k + 1) - 1 = k /\ f[k] = e[k]
      BY <1>1
    <2> HIDE DEF T
    <2>2. f[k + 1] = (IF cs[k + 1] \in Tree!AllPanels THEN f[k] \o g[cs[k + 1]] ELSE f[k])
      BY <2>1 DEF JoinRun
    <2>3. e[k + 1] = (IF cs[k + 1] \in Tree!AllPanels THEN e[k] \o h[cs[k + 1]] ELSE e[k])
      BY <2>1 DEF JoinRun
    <2> QED BY <2>1, <2>2, <2>3
  <1>4. T = Nat
    <2> HIDE DEF T
    <2>1. T \subseteq Nat
      BY DEF T
    <2> QED BY <1>2, <1>3, <2>1, Induction
  <1>5. n \in T
    <2> HIDE DEF T, n
    <2> QED BY <1>1, <1>4
  <1> QED BY <1>1, <1>5

LEMMA ToSetHas ==
  ASSUME NEW S, NEW s \in Seq(S)
  PROVE  /\ \A k \in 1 .. Len(s) : s[k] \in Tree!ToSet(s)
         /\ \A x \in Tree!ToSet(s) : x \in S /\ \E k \in 1 .. Len(s) : s[k] = x
  BY DEF Tree!ToSet

\* A join depends on the sequences of the children alone.
LEMMA JoinAlike ==
  ASSUME NEW cs \in Seq(Tree!Widgets), NEW base0, NEW g, NEW h,
         \A k \in 1 .. Len(cs) : cs[k] \in Tree!AllPanels => g[cs[k]] = h[cs[k]]
  PROVE  Gathered(g, cs, base0)
           = Gathered(h, cs, base0)
  <1> DEFINE D == DOMAIN cs
             After(f, s, x) == IF s = {} THEN base0
                               ELSE IF cs[Tree!Max(s)] \in Tree!AllPanels
                                    THEN f[s \ {Tree!Max(s)}] \o x[cs[Tree!Max(s)]] ELSE f[s \ {Tree!Max(s)}]
             Eq(f, x) == f = [s \in SUBSET D |-> After(f, s, x)]
  <1>1. Gathered(g, cs, base0)
          = (CHOOSE f : Eq(f, g))[D]
    BY DEF Gathered, Tree!FoldLeft, Tree!MapThenFoldSet
  <1>2. Gathered(h, cs, base0)
          = (CHOOSE f : Eq(f, h))[D]
    BY DEF Gathered, Tree!FoldLeft, Tree!MapThenFoldSet
  <1>3. Len(cs) \in Nat /\ D = 1 .. Len(cs)
    OBVIOUS
  <1>4. \A s \in SUBSET D : s # {} => Tree!Max(s) \in 1 .. Len(cs)
    <2> DEFINE n == Len(cs)
               last == [s \in SUBSET (1 .. n) |-> Tree!Max(s)]
    <2>1. n \in Nat
      OBVIOUS
    <2>2. \A s \in SUBSET (1 .. n) : last[s] = Tree!Max(s)
      OBVIOUS
    <2>3. last = [s \in SUBSET (1 .. n) |-> Tree!Max(s)]
      OBVIOUS
    <2> HIDE DEF n, last, D
    <2>4. CutsLast(n, last)
      BY <2>1, <2>3, TreeLastOf
    <2>5. \A s \in SUBSET (1 .. n) : s # {} => last[s] \in s
      BY <2>1, <2>4, LastIn
    <2>6. D = 1 .. n
      BY <1>3 DEF n
    <2>7. \A s \in SUBSET (1 .. n) : s # {} => Tree!Max(s) \in 1 .. n
      BY <2>2, <2>5
    <2> QED BY <2>6, <2>7 DEF n
  <1>5. ASSUME NEW f, NEW s \in SUBSET D PROVE After(f, s, g) = After(f, s, h)
    BY <1>4
  <1> HIDE DEF After
  <1>6. \A f : Eq(f, g) <=> Eq(f, h)
    BY <1>5
  <1> HIDE DEF Eq
  <1>7. (CHOOSE f : Eq(f, g)) = (CHOOSE f : Eq(f, h))
    BY <1>6
  <1> QED BY <1>1, <1>2, <1>7

\* The order in which the panels of a tree are packed.
LEMMA DownwardsIs ==
  ASSUME IsTree(children)
  PROVE  /\ Tree!Downwards \in [Tree!AllPanels -> Seq(Tree!AllPanels)]
         /\ \A p \in Tree!AllPanels :
              \E f : JoinRun(f, children[p], Tree!Downwards, <<p>>) /\ Tree!Downwards[p] = f[Len(children[p])]
  <1> DEFINE P == Tree!AllPanels
             S == Seq(P)
             J(p, g) == Gathered(g, children[p], <<p>>)
             Made(p, g) == J(p, g)
             Eq(g) == g = [p \in P |-> Made(p, g)]
             it == CHOOSE g : Eq(g)
             F == [x \in P \X [P -> S] |-> Made(x[1], x[2])]
             kids == KidsOf(children)
  <1>1. Tree!Downwards = it
    BY DEF Tree!Downwards, Gathered
  <1>2. \A p \in P : children[p] \in Seq(Tree!Widgets) /\ <<p>> \in S /\ kids[p] = Tree!ToSet(children[p])
    BY DEF IsTree, KidsOf
  <1>3. ASSUME NEW p \in P, NEW g \in [P -> S]
        PROVE  \E f : JoinRun(f, children[p], g, <<p>>) /\ J(p, g) = f[Len(children[p])]
    <2>1. PICK f : JoinRun(f, children[p], g, <<p>>)
      BY <1>2, <1>3, JoinSteps
    <2>2. J(p, g) = f[Len(children[p])]
      BY <2>1 DEF JoinRun
    <2> QED BY <2>1, <2>2
  <1> HIDE DEF J, kids, it
  <1>4. ASSUME NEW p \in P, NEW g \in [P -> S] PROVE J(p, g) \in S
    <2>1. PICK f : JoinRun(f, children[p], g, <<p>>) /\ J(p, g) = f[Len(children[p])]
      BY <1>3
    <2>2. Len(children[p]) \in 0 .. Len(children[p])
      BY <1>2
    <2> QED BY <2>1, <2>2 DEF JoinRun
  <1>5. ASSUME NEW p \in P, NEW g \in [P -> S], NEW h \in [P -> S], \A c \in kids[p] \cap P : g[c] = h[c]
        PROVE  J(p, g) = J(p, h)
    <2>1. PICK f : JoinRun(f, children[p], g, <<p>>) /\ J(p, g) = f[Len(children[p])]
      BY <1>3
    <2>2. PICK e : JoinRun(e, children[p], h, <<p>>) /\ J(p, h) = e[Len(children[p])]
      BY <1>3
    <2> DEFINE cs == children[p]
               b == <<p>>
    <2>3. cs \in Seq(Tree!Widgets) /\ kids[p] = Tree!ToSet(cs)
      BY <1>2
    <2>4. JoinRun(f, cs, g, b) /\ JoinRun(e, cs, h, b) /\ J(p, g) = f[Len(cs)] /\ J(p, h) = e[Len(cs)]
      BY <2>1, <2>2
    <2> HIDE DEF cs, b
    <2>5. \A k \in 1 .. Len(cs) : cs[k] \in Tree!AllPanels => g[cs[k]] = h[cs[k]]
      BY <1>5, <2>3, ToSetHas
    <2>6. f[Len(cs)] = e[Len(cs)]
      BY <2>3, <2>4, <2>5, JoinSame
    <2> QED BY <2>4, <2>6
  <1>6. \A p \in P, g \in [P -> S] : Made(p, g) \in S
    BY <1>4
  <1>7. \A p \in P : \A g, h \in [P -> S] : (\A c \in kids[p] \cap P : g[c] = h[c]) => Made(p, g) = Made(p, h)
    BY <1>5
  <1> HIDE DEF Made
  <1>8. F \in [P \X [P -> S] -> S] /\ \A p \in P, g \in [P -> S] : F[<<p, g>>] = Made(p, g)
    BY <1>6
  <1> HIDE DEF F
  <1>9. Local(P, S, kids, F)
    <2>1. ASSUME NEW p \in P, NEW g \in [P -> S], NEW h \in [P -> S], \A c \in kids[p] \cap P : g[c] = h[c]
          PROVE  F[<<p, g>>] = F[<<p, h>>]
      <3>1. Made(p, g) = Made(p, h)
        BY <1>7, <2>1
      <3>2. F[<<p, g>>] = Made(p, g) /\ F[<<p, h>>] = Made(p, h)
        BY <1>8
      <3> QED BY <3>1, <3>2
    <2> HIDE DEF P, S
    <2> QED BY <1>8, <2>1 DEF Local
  <1>10. Ends(P, kids) /\ S # {}
    <2>1. <<>> \in S
      OBVIOUS
    <2> QED BY <2>1 DEF IsTree, kids
  <1> HIDE DEF P, S
  <1>11. PICK g \in [P -> S] : \A p \in P : g[p] = F[<<p, g>>]
    BY <1>9, <1>10, RecursionExists
  <1>12. Eq(g)
    BY <1>8, <1>11
  <1>13. Eq(it)
    <2> HIDE DEF Eq
    <2> QED BY <1>12 DEF it
  <1>14. it = g
    <2>1. it = [p \in P |-> Made(p, it)]
      BY <1>13
    <2>2. g = [p \in P |-> Made(p, g)]
      BY <1>12
    <2> DEFINE s == {p \in P : it[p] # g[p]}
    <2>3. s = {}
      <3> SUFFICES ASSUME s # {} PROVE FALSE
        OBVIOUS
      <3>1. s \in SUBSET P
        OBVIOUS
      <3>2. PICK p \in s : kids[p] \cap s = {}
        <4> HIDE DEF s
        <4> QED BY <1>10, <3>1 DEF Ends
      <3>3. p \in P /\ it[p] # g[p] /\ \A c \in kids[p] \cap P : it[c] = g[c]
        BY <3>2
      <3> HIDE DEF s
      <3>4. J(p, it) = J(p, g)
        <4> DEFINE cs == children[p]
                   b == <<p>>
        <4>1. cs \in Seq(Tree!Widgets) /\ kids[p] = Tree!ToSet(cs)
          BY <1>2, <3>3
        <4>2. J(p, it) = Gathered(it, cs, b)
          BY DEF J
        <4>3. J(p, g) = Gathered(g, cs, b)
          BY DEF J
        <4> HIDE DEF cs, b
        <4>4. \A k \in 1 .. Len(cs) : cs[k] \in Tree!AllPanels => it[cs[k]] = g[cs[k]]
          BY <3>3, <4>1, ToSetHas DEF P
        <4>5. Gathered(it, cs, b)
                = Gathered(g, cs, b)
          BY <4>1, <4>4, JoinAlike
        <4> QED BY <4>2, <4>3, <4>5
      <3>6. Made(p, it) = Made(p, g)
        BY <3>4 DEF Made
      <3>7. it[p] = Made(p, it) /\ g[p] = Made(p, g)
        BY <2>1, <2>2, <3>3
      <3> QED BY <3>3, <3>6, <3>7
    <2>4. \A p \in P : it[p] = g[p]
      BY <2>3
    <2>5. DOMAIN it = P /\ it = [p \in P |-> it[p]]
      BY <2>1
    <2> QED BY <2>4, <2>5
  <1>15. ASSUME NEW p \in P
         PROVE  \E f : JoinRun(f, children[p], g, <<p>>) /\ g[p] = f[Len(children[p])]
    <2>1. PICK f : JoinRun(f, children[p], g, <<p>>) /\ J(p, g) = f[Len(children[p])]
      BY <1>3, <1>15
    <2>2. g[p] = Made(p, g)
      BY <1>12, <1>15
    <2> QED BY <2>1, <2>2 DEF Made
  <1> QED BY <1>1, <1>11, <1>14, <1>15 DEF P, S

\* The order in which they are prepacked.
LEMMA UpwardsIs ==
  ASSUME IsTree(children)
  PROVE  /\ Tree!Upwards \in [Tree!AllPanels -> Seq(Tree!AllPanels)]
         /\ \A p \in Tree!AllPanels :
              \E f : JoinRun(f, children[p], Tree!Upwards, <<>>) /\ Tree!Upwards[p] = Append(f[Len(children[p])], p)
  <1> DEFINE P == Tree!AllPanels
             S == Seq(P)
             J(p, g) == Gathered(g, children[p], <<>>)
             Made(p, g) == Append(J(p, g), p)
             Eq(g) == g = [p \in P |-> Made(p, g)]
             it == CHOOSE g : Eq(g)
             F == [x \in P \X [P -> S] |-> Made(x[1], x[2])]
             kids == KidsOf(children)
  <1>1. Tree!Upwards = it
    BY DEF Tree!Upwards, Gathered
  <1>2. \A p \in P : children[p] \in Seq(Tree!Widgets) /\ <<>> \in S /\ kids[p] = Tree!ToSet(children[p])
    BY DEF IsTree, KidsOf
  <1>3. ASSUME NEW p \in P, NEW g \in [P -> S]
        PROVE  \E f : JoinRun(f, children[p], g, <<>>) /\ J(p, g) = f[Len(children[p])]
    <2>1. PICK f : JoinRun(f, children[p], g, <<>>)
      BY <1>2, <1>3, JoinSteps
    <2>2. J(p, g) = f[Len(children[p])]
      BY <2>1 DEF JoinRun
    <2> QED BY <2>1, <2>2
  <1> HIDE DEF J, kids, it
  <1>4. ASSUME NEW p \in P, NEW g \in [P -> S] PROVE J(p, g) \in S
    <2>1. PICK f : JoinRun(f, children[p], g, <<>>) /\ J(p, g) = f[Len(children[p])]
      BY <1>3
    <2>2. Len(children[p]) \in 0 .. Len(children[p])
      BY <1>2
    <2> QED BY <2>1, <2>2 DEF JoinRun
  <1>5. ASSUME NEW p \in P, NEW g \in [P -> S], NEW h \in [P -> S], \A c \in kids[p] \cap P : g[c] = h[c]
        PROVE  J(p, g) = J(p, h)
    <2>1. PICK f : JoinRun(f, children[p], g, <<>>) /\ J(p, g) = f[Len(children[p])]
      BY <1>3
    <2>2. PICK e : JoinRun(e, children[p], h, <<>>) /\ J(p, h) = e[Len(children[p])]
      BY <1>3
    <2> DEFINE cs == children[p]
               b == <<>>
    <2>3. cs \in Seq(Tree!Widgets) /\ kids[p] = Tree!ToSet(cs)
      BY <1>2
    <2>4. JoinRun(f, cs, g, b) /\ JoinRun(e, cs, h, b) /\ J(p, g) = f[Len(cs)] /\ J(p, h) = e[Len(cs)]
      BY <2>1, <2>2
    <2> HIDE DEF cs, b
    <2>5. \A k \in 1 .. Len(cs) : cs[k] \in Tree!AllPanels => g[cs[k]] = h[cs[k]]
      BY <1>5, <2>3, ToSetHas
    <2>6. f[Len(cs)] = e[Len(cs)]
      BY <2>3, <2>4, <2>5, JoinSame
    <2> QED BY <2>4, <2>6
  <1>6. \A p \in P, g \in [P -> S] : Made(p, g) \in S
    BY <1>4
  <1>7. \A p \in P : \A g, h \in [P -> S] : (\A c \in kids[p] \cap P : g[c] = h[c]) => Made(p, g) = Made(p, h)
    BY <1>5
  <1> HIDE DEF Made
  <1>8. F \in [P \X [P -> S] -> S] /\ \A p \in P, g \in [P -> S] : F[<<p, g>>] = Made(p, g)
    BY <1>6
  <1> HIDE DEF F
  <1>9. Local(P, S, kids, F)
    <2>1. ASSUME NEW p \in P, NEW g \in [P -> S], NEW h \in [P -> S], \A c \in kids[p] \cap P : g[c] = h[c]
          PROVE  F[<<p, g>>] = F[<<p, h>>]
      <3>1. Made(p, g) = Made(p, h)
        BY <1>7, <2>1
      <3>2. F[<<p, g>>] = Made(p, g) /\ F[<<p, h>>] = Made(p, h)
        BY <1>8
      <3> QED BY <3>1, <3>2
    <2> HIDE DEF P, S
    <2> QED BY <1>8, <2>1 DEF Local
  <1>10. Ends(P, kids) /\ S # {}
    <2>1. <<>> \in S
      OBVIOUS
    <2> QED BY <2>1 DEF IsTree, kids
  <1> HIDE DEF P, S
  <1>11. PICK g \in [P -> S] : \A p \in P : g[p] = F[<<p, g>>]
    BY <1>9, <1>10, RecursionExists
  <1>12. Eq(g)
    BY <1>8, <1>11
  <1>13. Eq(it)
    <2> HIDE DEF Eq
    <2> QED BY <1>12 DEF it
  <1>14. it = g
    <2>1. it = [p \in P |-> Made(p, it)]
      BY <1>13
    <2>2. g = [p \in P |-> Made(p, g)]
      BY <1>12
    <2> DEFINE s == {p \in P : it[p] # g[p]}
    <2>3. s = {}
      <3> SUFFICES ASSUME s # {} PROVE FALSE
        OBVIOUS
      <3>1. s \in SUBSET P
        OBVIOUS
      <3>2. PICK p \in s : kids[p] \cap s = {}
        <4> HIDE DEF s
        <4> QED BY <1>10, <3>1 DEF Ends
      <3>3. p \in P /\ it[p] # g[p] /\ \A c \in kids[p] \cap P : it[c] = g[c]
        BY <3>2
      <3> HIDE DEF s
      <3>4. J(p, it) = J(p, g)
        <4> DEFINE cs == children[p]
                   b == <<>>
        <4>1. cs \in Seq(Tree!Widgets) /\ kids[p] = Tree!ToSet(cs)
          BY <1>2, <3>3
        <4>2. J(p, it) = Gathered(it, cs, b)
          BY DEF J
        <4>3. J(p, g) = Gathered(g, cs, b)
          BY DEF J
        <4> HIDE DEF cs, b
        <4>4. \A k \in 1 .. Len(cs) : cs[k] \in Tree!AllPanels => it[cs[k]] = g[cs[k]]
          BY <3>3, <4>1, ToSetHas DEF P
        <4>5. Gathered(it, cs, b)
                = Gathered(g, cs, b)
          BY <4>1, <4>4, JoinAlike
        <4> QED BY <4>2, <4>3, <4>5
      <3>6. Made(p, it) = Made(p, g)
        BY <3>4 DEF Made
      <3>7. it[p] = Made(p, it) /\ g[p] = Made(p, g)
        BY <2>1, <2>2, <3>3
      <3> QED BY <3>3, <3>6, <3>7
    <2>4. \A p \in P : it[p] = g[p]
      BY <2>3
    <2>5. DOMAIN it = P /\ it = [p \in P |-> it[p]]
      BY <2>1
    <2> QED BY <2>4, <2>5
  <1>15. ASSUME NEW p \in P
         PROVE  \E f : JoinRun(f, children[p], g, <<>>) /\ g[p] = Append(f[Len(children[p])], p)
    <2>1. PICK f : JoinRun(f, children[p], g, <<>>) /\ J(p, g) = f[Len(children[p])]
      BY <1>3, <1>15
    <2>2. g[p] = Made(p, g)
      BY <1>12, <1>15
    <2> QED BY <2>1, <2>2 DEF Made
  <1> QED BY <1>1, <1>11, <1>14, <1>15 DEF P, S

\* No panel comes before one that it is below.
In(x, d) == \E k \in 1 .. Len(d) : d[k] = x
AboveFirst(d) == \A i, j \in 1 .. Len(d) : i < j => d[i] \notin Tree!PanelsBelow(d[j])

LEMMA InBoth ==
  ASSUME NEW S, NEW a \in Seq(S), NEW b \in Seq(S)
  PROVE  /\ a \o b \in Seq(S) /\ Len(a \o b) = Len(a) + Len(b)
         /\ \A k \in 1 .. Len(a \o b) : \/ k \in 1 .. Len(a) /\ (a \o b)[k] = a[k]
                                        \/ k - Len(a) \in 1 .. Len(b) /\ (a \o b)[k] = b[k - Len(a)]
         /\ \A x : In(x, a \o b) <=> In(x, a) \/ In(x, b)
  <1> DEFINE c == a \o b
  <1>1. c \in Seq(S) /\ Len(c) = Len(a) + Len(b) /\ Len(a) \in Nat /\ Len(b) \in Nat
    OBVIOUS
  <1>2. \A k \in 1 .. Len(c) : c[k] = IF k <= Len(a) THEN a[k] ELSE b[k - Len(a)]
    OBVIOUS
  <1> HIDE DEF c
  <1>3. \A k \in 1 .. Len(c) : \/ k \in 1 .. Len(a) /\ c[k] = a[k]
                               \/ k - Len(a) \in 1 .. Len(b) /\ c[k] = b[k - Len(a)]
    <2> TAKE k \in 1 .. Len(c)
    <2>1. CASE k <= Len(a)
      <3>1. k \in 1 .. Len(a)
        BY <1>1, <2>1
      <3>2. c[k] = a[k]
        BY <1>2, <2>1
      <3> QED BY <3>1, <3>2
    <2>2. CASE ~(k <= Len(a))
      <3>1. k - Len(a) \in 1 .. Len(b)
        BY <1>1, <2>2
      <3>2. c[k] = b[k - Len(a)]
        BY <1>2, <2>2
      <3> QED BY <3>1, <3>2
    <2> QED BY <2>1, <2>2
  <1>4. ASSUME NEW k \in 1 .. Len(a) PROVE k \in 1 .. Len(c) /\ c[k] = a[k]
    <2>1. k \in 1 .. Len(c) /\ k <= Len(a)
      BY <1>1
    <2> QED BY <1>2, <2>1
  <1>5. ASSUME NEW k \in 1 .. Len(b) PROVE k + Len(a) \in 1 .. Len(c) /\ c[k + Len(a)] = b[k]
    <2>1. /\ k + Len(a) \in 1 .. Len(c) /\ ~(k + Len(a) <= Len(a)) /\ (k + Len(a)) - Len(a) = k
      BY <1>1
    <2> QED BY <1>2, <2>1
  <1>6. \A x : In(x, c) <=> In(x, a) \/ In(x, b)
    <2> TAKE x
    <2>1. In(x, c) => In(x, a) \/ In(x, b)
      BY <1>3 DEF In
    <2>2. In(x, a) => In(x, c)
      BY <1>4 DEF In
    <2>3. In(x, b) => In(x, c)
      BY <1>5 DEF In
    <2> QED BY <2>1, <2>2, <2>3
  <1> QED BY <1>1, <1>3, <1>6 DEF c

LEMMA AboveFirstBoth ==
  ASSUME NEW a \in Seq(Tree!AllPanels), NEW b \in Seq(Tree!AllPanels), AboveFirst(a), AboveFirst(b),
         \A x, y : In(x, a) /\ In(y, b) => x \notin Tree!PanelsBelow(y)
  PROVE  AboveFirst(a \o b)
  <1> DEFINE c == a \o b
             n == Len(a)
  <1>1. /\ Len(a) \in Nat /\ Len(b) \in Nat /\ Len(c) = Len(a) + Len(b)
        /\ \A k \in 1 .. Len(c) : \/ k \in 1 .. Len(a) /\ c[k] = a[k]
                                  \/ k - Len(a) \in 1 .. Len(b) /\ c[k] = b[k - Len(a)]
    BY InBoth
  <1>2. \A k \in 1 .. Len(a) : In(a[k], a)
    BY DEF In
  <1>3. \A k \in 1 .. Len(b) : In(b[k], b)
    BY DEF In
  <1> HIDE DEF c
  <1> SUFFICES ASSUME NEW i \in 1 .. Len(c), NEW j \in 1 .. Len(c), i < j PROVE c[i] \notin Tree!PanelsBelow(c[j])
    BY DEF AboveFirst, c
  <1>4. CASE i \in 1 .. n /\ c[i] = a[i] /\ j \in 1 .. n /\ c[j] = a[j]
    BY <1>4 DEF AboveFirst
  <1>5. CASE i \in 1 .. n /\ c[i] = a[i] /\ j - n \in 1 .. Len(b) /\ c[j] = b[j - n]
    BY <1>2, <1>3, <1>5
  <1>6. CASE i - n \in 1 .. Len(b) /\ c[i] = b[i - n] /\ j - n \in 1 .. Len(b) /\ c[j] = b[j - n]
    <2>1. i - n < j - n
      BY <1>1
    <2> QED BY <1>6, <2>1 DEF AboveFirst
  <1>7. ~(i - n \in 1 .. Len(b) /\ j \in 1 .. n)
    BY <1>1
  <1> QED BY <1>1, <1>4, <1>5, <1>6, <1>7

\* d has the panels below p, none before one that it is below.
TopDown(d, p) ==
  /\ d \in Seq(Tree!AllPanels) /\ AboveFirst(d)
  /\ \A x : In(x, d) <=> x \in Tree!PanelsBelow(p)

LEMMA TopDownStep ==
  ASSUME IsTree(children), NEW p \in Tree!AllPanels, NEW cs, cs = children[p], NEW g, NEW f, JoinRun(f, cs, g, <<p>>),
         \A k \in 1 .. Len(cs) : cs[k] \in Tree!AllPanels => TopDown(g[cs[k]], cs[k])
  PROVE  TopDown(f[Len(cs)], p)
  <1> DEFINE n == Len(cs)
             Found(x, k) == x = p \/ \E j \in 1 .. k : cs[j] \in Tree!AllPanels /\ x \in Tree!PanelsBelow(cs[j])
             So(e, k) == e \in Seq(Tree!AllPanels) /\ AboveFirst(e) /\ \A x : In(x, e) <=> Found(x, k)
             T == {k \in Nat : k <= n => So(f[k], k)}
  <1>1. n \in Nat /\ cs \in Seq(Tree!Widgets) /\ Distinct(cs) /\ \A k \in 1 .. n : cs[k] \in Tree!ToSet(children[p])
    BY ToSetHas DEF IsTree
  <1>2. 0 \in T
    <2>1. f[0] = <<p>>
      BY DEF JoinRun
    <2>2. <<p>> \in Seq(Tree!AllPanels) /\ Len(<<p>>) = 1 /\ <<p>>[1] = p
      OBVIOUS
    <2>3. AboveFirst(<<p>>)
      BY <2>2 DEF AboveFirst
    <2>4. \A x : In(x, <<p>>) <=> Found(x, 0)
      BY <2>2 DEF In
    <2>5. So(f[0], 0)
      BY <2>1, <2>2, <2>3, <2>4
    <2> QED BY <2>5
  <1>3. ASSUME NEW k \in T PROVE k + 1 \in T
    <2> SUFFICES ASSUME k + 1 <= n PROVE So(f[k + 1], k + 1)
      OBVIOUS
    <2>0. k \in Nat /\ k + 1 \in 1 .. n /\ (k + 1) - 1 = k
      BY <1>1
    <2>1. So(f[k], k)
      BY <1>1
    <2> DEFINE c == cs[k + 1]
               e == f[k]
    <2>2. f[k + 1] = (IF c \in Tree!AllPanels THEN e \o g[c] ELSE e)
      BY <2>0 DEF JoinRun
    <2>3. \A x : Found(x, k + 1) <=> Found(x, k) \/ (c \in Tree!AllPanels /\ x \in Tree!PanelsBelow(c))
      <3>1. \A j : j \in 1 .. k + 1 <=> j \in 1 .. k \/ j = k + 1
        BY <2>0
      <3> QED BY <3>1
    <2>4. CASE c \notin Tree!AllPanels
      BY <2>1, <2>2, <2>3, <2>4
    <2>5. CASE c \in Tree!AllPanels
      <3>1. TopDown(g[c], c)
        BY <2>0, <2>5
      <3> DEFINE h == g[c]
      <3>2. h \in Seq(Tree!AllPanels) /\ AboveFirst(h) /\ \A x : In(x, h) <=> x \in Tree!PanelsBelow(c)
        BY <3>1 DEF TopDown
      <3>3. e \in Seq(Tree!AllPanels) /\ AboveFirst(e) /\ \A x : In(x, e) <=> Found(x, k)
        BY <2>1
      <3>4. c \in Tree!ToSet(children[p]) \cap Tree!AllPanels
        BY <1>1, <2>0, <2>5
      <3>5. p \notin Tree!PanelsBelow(c)
        BY <3>4, NoneAbove
      <3>6. \A j \in 1 .. k : cs[j] \in Tree!AllPanels => Tree!PanelsBelow(cs[j]) \cap Tree!PanelsBelow(c) = {}
        <4> TAKE j \in 1 .. k
        <4>1. j \in 1 .. n /\ cs[j] # c
          BY <1>1, <2>0 DEF Distinct
        <4> QED BY <1>1, <3>4, <4>1, Apart
      <3> HIDE DEF c, e, h, So, T
      <3>7. \A x, y : In(x, e) /\ In(y, h) => x \notin Tree!PanelsBelow(y)
        <4> SUFFICES ASSUME NEW x, NEW y, In(x, e), In(y, h) PROVE x \notin Tree!PanelsBelow(y)
          OBVIOUS
        <4>1. Found(x, k) /\ Tree!PanelsBelow(y) \subseteq Tree!PanelsBelow(c)
          BY <3>2, <3>3, <3>4, BelowMore
        <4> QED BY <3>5, <3>6, <4>1
      <3>8. AboveFirst(e \o h)
        BY <3>2, <3>3, <3>7, AboveFirstBoth
      <3>9. e \o h \in Seq(Tree!AllPanels) /\ \A x : In(x, e \o h) <=> In(x, e) \/ In(x, h)
        BY <3>2, <3>3, InBoth
      <3>10. f[k + 1] = e \o h
        BY <2>2, <2>5 DEF h
      <3>11. \A x : In(x, e \o h) <=> Found(x, k + 1)
        BY <2>3, <2>5, <3>2, <3>3, <3>9
      <3> QED BY <3>8, <3>9, <3>10, <3>11 DEF So
    <2> QED BY <2>4, <2>5
  <1>4. T = Nat
    <2> HIDE DEF T
    <2>1. T \subseteq Nat
      BY DEF T
    <2> QED BY <1>2, <1>3, <2>1, Induction
  <1>5. So(f[n], n)
    <2>1. n \in T
      <3> HIDE DEF T, n
      <3> QED BY <1>1, <1>4
    <2> HIDE DEF So
    <2> QED BY <1>1, <2>1
  <1>6. \A x : Found(x, n) <=> x \in Tree!PanelsBelow(p)
    <2>1. \A j \in 1 .. n : cs[j] \in Tree!AllPanels => Tree!PanelsBelow(cs[j]) \subseteq Tree!PanelsBelow(p)
      BY <1>1, BelowPanel, BelowMore
    <2>2. \A x \in Tree!PanelsBelow(p) : x # p => \E c \in Tree!ToSet(children[p]) \cap Tree!AllPanels : x \in Tree!PanelsBelow(c)
      BY BelowOne
    <2>3. \A c \in Tree!ToSet(children[p]) : \E j \in 1 .. n : cs[j] = c
      BY <1>1, ToSetHas
    <2>4. p \in Tree!PanelsBelow(p)
      BY BelowPanel
    <2> HIDE DEF n
    <2> QED BY <2>1, <2>2, <2>3, <2>4
  <1> HIDE DEF Found
  <1> QED BY <1>5, <1>6 DEF TopDown

LEMMA DownwardsTopDown ==
  ASSUME IsTree(children)
  PROVE  \A p \in Tree!AllPanels : TopDown(Tree!Downwards[p], p)
  <1> DEFINE s == {p \in Tree!AllPanels : ~TopDown(Tree!Downwards[p], p)}
  <1> SUFFICES ASSUME s # {} PROVE FALSE
    OBVIOUS
  <1>1. s \in SUBSET Tree!AllPanels
    OBVIOUS
  <1>2. PICK p \in s : KidsOf(children)[p] \cap s = {}
    <2> HIDE DEF s
    <2> QED BY <1>1 DEF IsTree, Ends
  <1>3. p \in Tree!AllPanels /\ Tree!ToSet(children[p]) \cap s = {}
    BY <1>2 DEF KidsOf
  <1> DEFINE cs == children[p]
             g == Tree!Downwards
  <1>4. PICK f : JoinRun(f, cs, g, <<p>>) /\ g[p] = f[Len(cs)]
    BY <1>3, DownwardsIs
  <1>5. \A k \in 1 .. Len(cs) : cs[k] \in Tree!AllPanels => TopDown(g[cs[k]], cs[k])
    <2>1. \A k \in 1 .. Len(cs) : cs[k] \in Tree!ToSet(children[p])
      BY <1>3, ToSetHas DEF IsTree
    <2> QED BY <1>3, <2>1
  <1> HIDE DEF g
  <1>6. TopDown(g[p], p)
    BY <1>3, <1>4, <1>5, TopDownStep
  <1> QED BY <1>2, <1>6 DEF g

\* What is prepacked is below the panel.
LEMMA UpwardsBelow ==
  ASSUME IsTree(children)
  PROVE  \A p \in Tree!AllPanels : \A x : In(x, Tree!Upwards[p]) => x \in Tree!PanelsBelow(p)
  <1> DEFINE g == Tree!Upwards
             Fine(p) == \A x : In(x, g[p]) => x \in Tree!PanelsBelow(p)
             s == {p \in Tree!AllPanels : ~Fine(p)}
  <1> SUFFICES ASSUME s # {} PROVE FALSE
    OBVIOUS
  <1>1. s \in SUBSET Tree!AllPanels
    OBVIOUS
  <1>2. PICK p \in s : KidsOf(children)[p] \cap s = {}
    <2> HIDE DEF s
    <2> QED BY <1>1 DEF IsTree, Ends
  <1>3. p \in Tree!AllPanels /\ Tree!ToSet(children[p]) \cap s = {}
    BY <1>2 DEF KidsOf
  <1>4. ~Fine(p)
    BY <1>2
  <1> DEFINE cs == children[p]
             n == Len(cs)
  <1>5. PICK f : JoinRun(f, cs, g, <<>>) /\ g[p] = Append(f[n], p)
    BY <1>3, UpwardsIs
  <1>6. n \in Nat /\ cs \in Seq(Tree!Widgets) /\ \A k \in 1 .. n : cs[k] \in Tree!ToSet(children[p])
    BY <1>3, ToSetHas DEF IsTree
  <1>7. \A k \in 1 .. n : cs[k] \in Tree!AllPanels => /\ Tree!PanelsBelow(cs[k]) \subseteq Tree!PanelsBelow(p) /\ Fine(cs[k])
    BY <1>3, <1>6, BelowPanel, BelowMore
  <1>8. g \in [Tree!AllPanels -> Seq(Tree!AllPanels)] /\ f \in [0 .. n -> Seq(Tree!AllPanels)]
    BY <1>5, UpwardsIs DEF JoinRun
  <1> DEFINE T == {k \in Nat : k <= n => \A x : In(x, f[k]) => x \in Tree!PanelsBelow(p)}
  <1>9. 0 \in T
    <2>1. f[0] = <<>> /\ Len(<<>>) = 0
      BY <1>5 DEF JoinRun
    <2> QED BY <2>1 DEF In
  <1>10. ASSUME NEW k \in T PROVE k + 1 \in T
    <2> SUFFICES ASSUME k + 1 <= n PROVE \A x : In(x, f[k + 1]) => x \in Tree!PanelsBelow(p)
      OBVIOUS
    <2>1. k \in Nat /\ k + 1 \in 1 .. n /\ (k + 1) - 1 = k /\ k \in 0 .. n
      BY <1>6
    <2>2. \A x : In(x, f[k]) => x \in Tree!PanelsBelow(p)
      BY <1>6
    <2> DEFINE c == cs[k + 1]
    <2>3. f[k + 1] = (IF c \in Tree!AllPanels THEN f[k] \o g[c] ELSE f[k])
      BY <1>5, <2>1 DEF JoinRun
    <2>4. f[k] \in Seq(Tree!AllPanels) /\ (c \in Tree!AllPanels => g[c] \in Seq(Tree!AllPanels))
      BY <1>8, <2>1
    <2>5. c \in Tree!AllPanels => Tree!PanelsBelow(c) \subseteq Tree!PanelsBelow(p) /\ \A x : In(x, g[c]) => x \in Tree!PanelsBelow(c)
      BY <1>7, <2>1
    <2> HIDE DEF c, g, T, n
    <2>6. c \in Tree!AllPanels => \A x : In(x, f[k] \o g[c]) => In(x, f[k]) \/ In(x, g[c])
      BY <2>4, InBoth
    <2> QED BY <2>2, <2>3, <2>5, <2>6
  <1>11. T = Nat
    <2> HIDE DEF T
    <2>1. T \subseteq Nat
      BY DEF T
    <2> QED BY <1>9, <1>10, <2>1, Induction
  <1>12. \A x : In(x, f[n]) => x \in Tree!PanelsBelow(p)
    <2>1. n \in T
      <3> HIDE DEF T, n
      <3> QED BY <1>6, <1>11
    <2> QED BY <1>6, <2>1
  <1>13. Fine(p)
    <2> DEFINE e == f[n]
    <2>1. e \in Seq(Tree!AllPanels)
      BY <1>6, <1>8
    <2> HIDE DEF e
    <2>2. \A x : In(x, Append(e, p)) => In(x, e) \/ x = p
      <3> SUFFICES ASSUME NEW x, In(x, Append(e, p)) PROVE In(x, e) \/ x = p
        OBVIOUS
      <3>1. PICK k \in 1 .. Len(Append(e, p)) : Append(e, p)[k] = x
        BY DEF In
      <3>2. Len(Append(e, p)) = Len(e) + 1 /\ Len(e) \in Nat
        BY <2>1
      <3>3. CASE k = Len(e) + 1
        BY <2>1, <3>1, <3>3
      <3>4. CASE k # Len(e) + 1
        <4>1. k \in 1 .. Len(e)
          BY <3>2, <3>4
        <4> QED BY <2>1, <3>1, <4>1 DEF In
      <3> QED BY <3>3, <3>4
    <2>3. p \in Tree!PanelsBelow(p)
      BY <1>3, BelowPanel
    <2> QED BY <1>5, <1>12, <2>2, <2>3 DEF e
  <1> QED BY <1>4, <1>13
------------------------------------------------------------------------------
(* Packing a tree of widgets.                                                 *)

\* q is os with other sizes of the widgets in some set.
ResizedIn(q, os, s) ==
  /\ q \in Objs
  /\ \A c \in Tree!Widgets : Resized(q[c], os[c]) /\ (c \notin s => q[c] = os[c])

LEMMA ResizedInSame ==
  ASSUME NEW os \in Objs, NEW s
  PROVE  ResizedIn(os, os, s)
  BY DEF ResizedIn, Resized, Objs

LEMMA ResizedInMore ==
  ASSUME NEW os \in Objs, NEW s, NEW q, ResizedIn(q, os, s), NEW r, ResizedIn(r, q, s)
  PROVE  ResizedIn(r, os, s)
  BY DEF ResizedIn, Resized

LEMMA PrepackSizeIs ==
  ASSUME NEW os \in Objs, NEW p \in Tree!AllPanels, NEW cs \in Seq(Tree!Widgets), NEW axis \in 1 .. 2,
         NEW q, q = Tree!PrepackSize(os, p, cs, axis)
  PROVE  ResizedIn(q, os, {p})
  <1> DEFINE cross == 3 - axis
             mins == [c \in DOMAIN os |-> os[c].min[axis]]
             sizes == [c \in DOMAIN os |-> Tree!SizeWithMargin(os[c], cross)]
             minMain == Tree!Total(mins, cs)
             maxCross == Tree!Largest(sizes, cs)
             mainSet == IF Tree!SizeLess(Tree!ContentSize(os[p], axis), minMain) THEN Tree!SetContentSize(os[p], axis, minMain) ELSE os[p]
             crossSet == IF Tree!SizeLess(Tree!ContentSize(os[p], cross), maxCross) THEN Tree!SetContentSize(mainSet, cross, maxCross) ELSE mainSet
  <1>1. q = [os EXCEPT ![p] = crossSet]
    BY DEF Tree!PrepackSize
  <1>2. DOMAIN os = Tree!Widgets /\ \A c \in Tree!Widgets : os[c] \in Obj
    BY DEF Objs
  <1>3. p \in Tree!Widgets /\ cross \in 1 .. 2
    BY DEF Tree!Widgets
  <1> HIDE DEF cross
  <1>4. mins \in [Tree!Widgets -> Int] /\ sizes \in [Tree!Widgets -> Int]
    <2>1. \A c \in Tree!Widgets : os[c].min[axis] \in Int /\ Tree!SizeWithMargin(os[c], cross) \in Int
      <3> TAKE c \in Tree!Widgets
      <3>0. os[c] \in Obj
        BY <1>2
      <3>1. os[c].min[axis] \in Sizes16
        BY <3>0, ObjHas
      <3>2. Tree!SizeWithMargin(os[c], cross) \in Nat
        BY <1>3, <3>0, ExtentIs
      <3> QED BY <3>1, <3>2, SizeIs
    <2> QED BY <1>2, <2>1
  <1> HIDE DEF mins, sizes
  <1>5. minMain \in Int /\ maxCross \in Int
    <2>1. PICK f : f \in [0 .. Len(cs) -> Int] /\ minMain = f[Len(cs)]
      BY <1>4, TotalIs
    <2>2. PICK g : g \in [0 .. Len(cs) -> Int] /\ maxCross = g[Len(cs)]
      BY <1>4, LargestIs
    <2>3. Len(cs) \in 0 .. Len(cs)
      OBVIOUS
    <2> QED BY <2>1, <2>2, <2>3
  <1> HIDE DEF minMain, maxCross
  <1>6. Resized(mainSet, os[p])
    <2>1. Resized(os[p], os[p])
      BY <1>2, <1>3 DEF Resized
    <2>2. Resized(Tree!SetContentSize(os[p], axis, minMain), os[p])
      BY <1>2, <1>3, <1>5, SetContentSizeIs
    <2> QED BY <2>1, <2>2
  <1> HIDE DEF mainSet
  <1>7. Resized(crossSet, os[p])
    <2>1. mainSet \in Obj
      BY <1>6 DEF Resized
    <2>2. Resized(Tree!SetContentSize(mainSet, cross, maxCross), mainSet)
      BY <1>3, <1>5, <2>1, SetContentSizeIs
    <2>3. Resized(Tree!SetContentSize(mainSet, cross, maxCross), os[p])
      BY <1>6, <2>2 DEF Resized
    <2> QED BY <1>6, <2>3
  <1> HIDE DEF crossSet
  <1>8. crossSet \in Obj
    BY <1>7 DEF Resized
  <1>9. q \in Objs /\ q[p] = crossSet /\ \A c \in Tree!Widgets : c # p => q[c] = os[c]
    BY <1>1, <1>3, <1>8 DEF Objs
  <1>10. \A c \in Tree!Widgets : Resized(os[c], os[c])
    BY <1>2 DEF Resized
  <1> QED BY <1>7, <1>9, <1>10 DEF ResizedIn

\* Prepack as a fold.
Prepacked(os, seq) == Tree!FoldLeft(LAMBDA o, q : Tree!PrepackSize(o, q, children[q], Axis[q]), os, seq)

\* f is what prepack makes of os, panel by panel.
PrepackRun(f, seq, os) ==
  /\ f \in [0 .. Len(seq) -> Objs] /\ f[0] = os
  /\ \A k \in 1 .. Len(seq) : f[k] = Tree!PrepackSize(f[k - 1], seq[k], children[seq[k]], Axis[seq[k]])
  /\ Prepacked(os, seq) = f[Len(seq)]

\* The sizes of the panels in seq, one after another.
LEMMA PrepackSteps ==
  ASSUME NEW seq \in Seq(Tree!AllPanels), NEW os \in Objs, children \in [Tree!AllPanels -> Seq(Tree!Widgets)]
  PROVE  \E f : PrepackRun(f, seq, os)
  <1> DEFINE n == Len(seq)
             base == os
             S == Objs
             Step(acc, i) == Tree!PrepackSize(acc, seq[i], children[seq[i]], Axis[seq[i]])
             Eq(f) == f = [s \in SUBSET DOMAIN seq |->
                             IF s = {} THEN base ELSE Tree!PrepackSize(f[s \ {Tree!Max(s)}], seq[Tree!Max(s)], children[seq[Tree!Max(s)]], Axis[seq[Tree!Max(s)]])]
             iter == CHOOSE f : Eq(f)
             F == [p \in S \X (1 .. n) |-> Step(p[1], p[2])]
  <1>1. Prepacked(os, seq) = iter[DOMAIN seq]
    BY DEF Prepacked, Tree!FoldLeft, Tree!MapThenFoldSet
  <1>2. n \in Nat /\ DOMAIN seq = 1 .. n /\ \A i \in 1 .. n : seq[i] \in Tree!AllPanels
    OBVIOUS
  <1>3. base \in S
    OBVIOUS
  <1>4. \A acc \in S, i \in 1 .. n : Step(acc, i) \in S
    <2> SUFFICES ASSUME NEW acc \in Objs, NEW i \in 1 .. n PROVE Step(acc, i) \in Objs
      OBVIOUS
    <2> DEFINE c == seq[i]
    <2>1. c \in Tree!AllPanels /\ children[c] \in Seq(Tree!Widgets) /\ Axis[c] \in 1 .. 2
      BY <1>2, SetsCounts
    <2> HIDE DEF n, c, S, Step, F, iter, Eq, base
    <2>2. ResizedIn(Tree!PrepackSize(acc, c, children[c], Axis[c]), acc, {c})
      BY <2>1, PrepackSizeIs
    <2> QED BY <2>2 DEF c, Step, ResizedIn
  <1>5. \A s : Eq(s) <=> s = [t \in SUBSET (1 .. n) |-> IF t = {} THEN base ELSE Step(s[t \ {Tree!Max(t)}], Tree!Max(t))]
    BY <1>2
  <1> HIDE DEF iter, Eq, Step, S, base, n
  <1>6. F \in [S \X (1 .. n) -> S] /\ \A acc \in S, i \in 1 .. n : F[<<acc, i>>] = Step(acc, i)
    BY <1>4
  <1> HIDE DEF F
  <1>7. \E f : Eq(f)
    <2>1. PICK g : g \in [SUBSET (1 .. n) -> S] /\ Folds(g, S, n, base, F)
      BY <1>2, <1>3, <1>6, FoldsExist
    <2>2. ASSUME NEW t \in SUBSET (1 .. n)
          PROVE  g[t] = IF t = {} THEN base ELSE Step(g[t \ {Tree!Max(t)}], Tree!Max(t))
      BY <1>6, <2>1 DEF Folds
    <2>3. g = [t \in SUBSET (1 .. n) |-> IF t = {} THEN base ELSE Step(g[t \ {Tree!Max(t)}], Tree!Max(t))]
      BY <2>1, <2>2
    <2> QED BY <1>5, <2>3
  <1>8. Eq(iter)
    BY <1>7 DEF iter
  <1>9. iter[{}] = base
    BY <1>5, <1>8
  <1>10. ASSUME NEW s \in SUBSET (1 .. n), s # {}, iter[s \ {Tree!Max(s)}] \in S, Tree!Max(s) \in 1 .. n
         PROVE  iter[s] = F[<<iter[s \ {Tree!Max(s)}], Tree!Max(s)>>]
    <2>1. iter[s] = Step(iter[s \ {Tree!Max(s)}], Tree!Max(s))
      BY <1>5, <1>8, <1>10
    <2> QED BY <1>6, <1>10, <2>1
  <1>11. PICK f : ChainTo(f, S, n, base, F, iter[1 .. n])
    BY <1>2, <1>3, <1>6, <1>9, <1>10, FoldChain
  <1>12. /\ f \in [0 .. n -> S] /\ f[0] = base /\ f[n] = iter[1 .. n]
         /\ \A k \in 1 .. n : f[k] = F[<<f[k - 1], k>>]
    BY <1>11 DEF Chain, ChainTo
  <1>13. ASSUME NEW k \in 1 .. n PROVE f[k] = Step(f[k - 1], k)
    <2>1. k - 1 \in 0 .. n
      BY <1>2
    <2> QED BY <1>6, <1>12, <2>1
  <1>14. Prepacked(os, seq) = f[n]
    BY <1>1, <1>2, <1>12
  <1> QED BY <1>12, <1>13, <1>14 DEF S, base, Step, n, PrepackRun

LEMMA PrepackIs ==
  ASSUME IsTree(children), NEW p \in Tree!AllPanels, NEW os \in Objs, NEW q, q = Tree!Prepack(os, p)
  PROVE  ResizedIn(q, os, Tree!PanelsBelow(p))
  <1> DEFINE seq == Tree!Upwards[p]
             n == Len(seq)
             below == Tree!PanelsBelow(p)
  <1>1. seq \in Seq(Tree!AllPanels) /\ \A k \in 1 .. n : seq[k] \in below /\ seq[k] \in Tree!AllPanels
    <2>1. seq \in Seq(Tree!AllPanels)
      BY UpwardsIs
    <2>2. \A k \in 1 .. n : In(seq[k], seq)
      BY DEF In
    <2>3. \A x : In(x, seq) => x \in below
      BY UpwardsBelow
    <2> HIDE DEF seq
    <2> QED BY <2>1, <2>2, <2>3
  <1>2. q = Prepacked(os, seq)
    BY DEF Tree!Prepack, Prepacked
  <1>3. children \in [Tree!AllPanels -> Seq(Tree!Widgets)]
    BY DEF IsTree
  <1> HIDE DEF seq, below
  <1>4. PICK f : PrepackRun(f, seq, os)
    BY <1>1, <1>3, PrepackSteps
  <1> DEFINE T == {k \in Nat : k <= n => ResizedIn(f[k], os, below)}
  <1>5. n \in Nat /\ 0 \in 0 .. n
    BY <1>1
  <1>6. 0 \in T
    <2>1. f[0] = os
      BY <1>4 DEF PrepackRun
    <2> QED BY <2>1, ResizedInSame
  <1>7. ASSUME NEW k \in T PROVE k + 1 \in T
    <2> SUFFICES ASSUME k + 1 <= n PROVE ResizedIn(f[k + 1], os, below)
      OBVIOUS
    <2>1. k + 1 \in 1 .. n /\ (k + 1) - 1 = k /\ k \in 0 .. n
      BY <1>5
    <2>2. ResizedIn(f[k], os, below)
      BY <1>5
    <2> DEFINE c == seq[k + 1]
    <2>3. c \in below /\ c \in Tree!AllPanels /\ children[c] \in Seq(Tree!Widgets) /\ Axis[c] \in 1 .. 2
      BY <1>1, <1>3, <2>1, SetsCounts
    <2>4. f[k + 1] = Tree!PrepackSize(f[k], c, children[c], Axis[c])
      BY <1>4, <2>1 DEF PrepackRun
    <2>5. f[k] \in Objs
      BY <2>2 DEF ResizedIn
    <2> HIDE DEF c, T
    <2>6. ResizedIn(f[k + 1], f[k], {c})
      BY <2>3, <2>4, <2>5, PrepackSizeIs
    <2>7. ResizedIn(f[k + 1], f[k], below)
      BY <2>3, <2>6 DEF ResizedIn
    <2> QED BY <2>2, <2>7, ResizedInMore
  <1>8. T = Nat
    <2> HIDE DEF T
    <2>1. T \subseteq Nat
      BY DEF T
    <2> QED BY <1>6, <1>7, <2>1, Induction
  <1>9. ResizedIn(f[n], os, below)
    <2>1. n \in T
      <3> HIDE DEF T, n
      <3> QED BY <1>5, <1>8
    <2> QED BY <1>5, <2>1
  <1>10. q = f[n]
    BY <1>2, <1>4 DEF PrepackRun
  <1> QED BY <1>9, <1>10 DEF below

\* Whatever there is to lay out, and whether it fits or not, the objects stay objects.
LEMMA SharesBounded ==
  ASSUME NEW vis \in Seq(Tree!Widgets), NEW factor \in [Tree!Widgets -> Nat], NEW total, total = Tree!Total(factor, vis)
  PROVE  total \in Nat /\ \A i \in 1 .. Len(vis) : factor[vis[i]] <= total
  <1> DEFINE n == Len(vis)
             sh == Shares(factor, vis)
  <1>1. factor \in [Tree!Widgets -> Int]
    OBVIOUS
  <1>2. PICK s : Sums(s, n, sh) /\ total = s[n]
    BY <1>1, SumsOf
  <1>3. n \in Nat
    OBVIOUS
  <1>4. \A k \in 1 .. n : sh[k] = factor[vis[k]] /\ sh[k] \in Nat
    BY PlacesOf DEF Shares
  <1> HIDE DEF n, sh
  <1>5. \A k \in 1 .. n : sh[k] <= s[n] /\ s[n] \in Nat
    BY <1>2, <1>3, <1>4, PartOfSum
  <1>6. s[n] \in Nat
    <2>1. CASE n = 0
      BY <1>2, <2>1 DEF Sums
    <2>2. CASE n # 0
      <3>1. n \in 1 .. n
        BY <1>3, <2>2
      <3> QED BY <1>5, <3>1
    <2> QED BY <2>1, <2>2
  <1> QED BY <1>2, <1>4, <1>5, <1>6 DEF n

LEMMA SharedObjects ==
  ASSUME NEW vis \in Seq(Tree!Widgets), NEW os \in Objs, NEW axis \in 1 .. 2, NEW space \in Int, NEW available \in Int,
         NEW factor \in [Tree!Widgets -> Nat], NEW total, total = Tree!Total(factor, vis),
         NEW r, SharedOut(r, vis, os, axis, space, factor, total, available)
  PROVE  r.objs \in Objs /\ r.short \in BOOLEAN
  <1>1. total \in Nat /\ \A i \in 1 .. Len(vis) : factor[vis[i]] <= total
    BY SharesBounded
  <1>2. CASE space # 0 /\ total > 0
    <2> DEFINE acc0 == [objs |-> os, occupied |-> 0, short |-> FALSE]
    <2>1. acc0 \in Accs
      BY DEF Accs
    <2>2. total \in Nat \ {0}
      BY <1>1, <1>2
    <2> HIDE DEF acc0
    <2>4. PICK f : ResizeRun(f, vis, acc0, axis, space, factor, total, available)
      BY <1>1, <2>1, <2>2, ResizeSteps
    <2>5. f \in [0 .. Len(vis) -> Accs]
      BY <2>4 DEF ResizeRun
    <2>6. Len(vis) \in 0 .. Len(vis)
      OBVIOUS
    <2>7. r = f[Len(vis)]
      BY <1>2, <2>4 DEF SharedOut, ResizeRun, acc0
    <2>8. r \in Accs
      BY <2>5, <2>6, <2>7
    <2> QED BY <2>8 DEF Accs
  <1>3. CASE ~(space # 0 /\ total > 0)
    <2>1. r = [objs |-> os, short |-> FALSE]
      BY <1>3 DEF SharedOut
    <2> QED BY <2>1
  <1> QED BY <1>2, <1>3

LEMMA LayoutObjects ==
  ASSUME NEW os \in Objs, NEW p \in Tree!Widgets, NEW cs \in Seq(Tree!Widgets), NEW axis \in 1 .. 2,
         NEW alignment \in Alignments, NEW l, l = Tree!Layout(os, p, cs, axis, alignment)
  PROVE  l.objs \in Objs /\ l.threw \in BOOLEAN /\ l.short \in BOOLEAN
  <1> DEFINE vis == Tree!Visible(os, cs)
             cross == 3 - axis
             sizes(a) == [c \in DOMAIN os |-> Tree!SizeWithMargin(os[c], a)]
             available == Tree!ContentSize(os[p], axis)
             crossNeed == Tree!Largest(sizes(cross), vis)
             crossHas == Tree!ContentSize(os[p], cross)
             widens == Tree!SizeLess(crossHas, crossNeed)
             crossSize == IF widens THEN crossNeed ELSE crossHas
             widened == IF widens THEN [os EXCEPT ![p] = Tree!SetContentSize(os[p], cross, crossNeed)] ELSE os
             space == available - Tree!Total(sizes(axis), vis)
             factor == [c \in DOMAIN os |-> IF space > 0 THEN os[c].grow ELSE os[c].shrink]
             total == Tree!Total(factor, vis)
             resized == IF space # 0 /\ total > 0
                        THEN Tree!FoldLeft(LAMBDA acc, c : Tree!ResizeChild(acc, c, axis, space, factor, total, available),
                                           [objs |-> widened, occupied |-> 0, short |-> FALSE], vis)
                        ELSE [objs |-> widened, short |-> FALSE]
             start == Tree!ContentStart(os[p], axis)
             crossPos == Tree!ContentStart(os[p], cross)
             placed == Tree!FoldLeft(LAMBDA acc, c : Tree!PlaceChild(acc, c, axis, alignment, crossPos, crossSize),
                                     [objs |-> resized.objs, main |-> start], vis).objs
             throws == space < 0 /\ total = 0
  <1>1. l = [threw |-> throws, short |-> resized.short, objs |-> IF throws THEN widened ELSE placed]
    BY DEF Tree!Layout
  <1>2. DOMAIN os = Tree!Widgets /\ (\A c \in Tree!Widgets : os[c] \in Obj) /\ cross \in 1 .. 2
    BY DEF Objs
  <1>3. throws \in BOOLEAN
    OBVIOUS
  <1> HIDE DEF throws, placed, vis
  <1>4. vis \in Seq(Tree!Widgets)
    <2>1. PICK f : f \in [0 .. Len(cs) -> Seq(Tree!Widgets)] /\ vis = f[Len(cs)]
      BY VisibleSteps DEF vis
    <2>2. Len(cs) \in 0 .. Len(cs)
      OBVIOUS
    <2> QED BY <2>1, <2>2
  <1> HIDE DEF cross
  <1>5. available \in Int /\ crossHas \in Int /\ start \in Int /\ crossPos \in Int
    BY <1>2, ObjHas
  <1>6. \A a \in 1 .. 2 : sizes(a) \in [Tree!Widgets -> Int]
    <2> TAKE a \in 1 .. 2
    <2>1. \A c \in Tree!Widgets : Tree!SizeWithMargin(os[c], a) \in Int
      BY <1>2, ExtentIs
    <2> QED BY <1>2, <2>1
  <1> HIDE DEF sizes
  <1>7. \A a \in 1 .. 2 : Tree!Largest(sizes(a), vis) \in Int /\ Tree!Total(sizes(a), vis) \in Int
    <2> TAKE a \in 1 .. 2
    <2> DEFINE z == sizes(a)
    <2>1. z \in [Tree!Widgets -> Int]
      BY <1>6
    <2> HIDE DEF z
    <2>2. PICK f : f \in [0 .. Len(vis) -> Int] /\ Tree!Largest(z, vis) = f[Len(vis)]
      BY <1>4, <2>1, LargestIs
    <2>3. PICK g : g \in [0 .. Len(vis) -> Int] /\ Tree!Total(z, vis) = g[Len(vis)]
      BY <1>4, <2>1, TotalIs
    <2>4. Len(vis) \in 0 .. Len(vis)
      BY <1>4
    <2>5. Tree!Largest(z, vis) \in Int /\ Tree!Total(z, vis) \in Int
      BY <2>2, <2>3, <2>4
    <2> QED BY <2>5 DEF z
  <1>8. crossNeed \in Int /\ crossSize \in Int
    <2>1. crossNeed \in Int
      BY <1>2, <1>7
    <2> HIDE DEF crossNeed, crossHas, widens
    <2> QED BY <1>5, <2>1
  <1>9. space \in Int
    <2>1. Tree!Total(sizes(axis), vis) \in Int
      BY <1>7
    <2> HIDE DEF available
    <2> QED BY <1>5, <2>1
  <1> HIDE DEF space, available, crossNeed, crossHas, start, crossPos, crossSize, widens
  <1>10. widened \in Objs
    <2> DEFINE o == Tree!SetContentSize(os[p], cross, crossNeed)
    <2>1. Resized(o, os[p])
      BY <1>2, <1>8, SetContentSizeIs
    <2> HIDE DEF o
    <2>2. o \in Obj
      BY <2>1 DEF Resized
    <2>3. widened = IF widens THEN [os EXCEPT ![p] = o] ELSE os
      BY DEF o
    <2> HIDE DEF widened
    <2> QED BY <2>2, <2>3 DEF Objs
  <1> HIDE DEF widened
  <1>11. factor \in [Tree!Widgets -> Nat]
    <2>1. \A c \in Tree!Widgets : os[c].grow \in Nat /\ os[c].shrink \in Nat
      BY <1>2, ObjHas
    <2> QED BY <1>2, <2>1
  <1> HIDE DEF factor
  <1>12. SharedOut(resized, vis, widened, axis, space, factor, total, available)
    BY DEF SharedOut
  <1>13. total = Tree!Total(factor, vis)
    OBVIOUS
  <1> HIDE DEF resized, total
  <1>14. resized.objs \in Objs /\ resized.short \in BOOLEAN
    BY <1>4, <1>5, <1>9, <1>10, <1>11, <1>12, <1>13, SharedObjects
  <1>15. placed \in Objs
    <2> DEFINE acc0 == [objs |-> resized.objs, main |-> start]
    <2>1. acc0 \in PlaceAccs
      BY <1>5, <1>14 DEF PlaceAccs
    <2> HIDE DEF acc0
    <2>3. PICK f : PlaceRun(f, vis, acc0, axis, alignment, crossPos, crossSize)
      BY <1>4, <1>5, <1>8, <2>1, PlaceSteps
    <2>2. f \in [0 .. Len(vis) -> PlaceAccs]
      BY <2>3 DEF PlaceRun
    <2>4. Len(vis) \in 0 .. Len(vis)
      BY <1>4
    <2>5. placed = f[Len(vis)].objs
      BY <2>3 DEF PlaceRun, acc0, placed
    <2>6. f[Len(vis)] \in PlaceAccs
      BY <2>2, <2>4
    <2> QED BY <2>5, <2>6 DEF PlaceAccs
  <1> QED BY <1>1, <1>3, <1>10, <1>14, <1>15

\* In the frame of os the visible children of p are laid out in it.
PanelFits(os, p) == Fit(os, p, Tree!Visible(os, children[p]), Axis[p])

\* What packing p does to the objects, unless layout throws or meets a case it
\* does not handle.
Packs(q, os, p) ==
  /\ q \in Objs /\ q[p].pos = os[p].pos /\ (p # Root => q[p].size = os[p].size)
  /\ \A c \in Tree!Widgets : Placed(q[c], os[c]) /\ (c \notin Tree!Below(p) => q[c] = os[c])
  /\ PanelFits(q, p)

PackAccs == [objs : Objs, odd : BOOLEAN, threw : BOOLEAN]
Aligned == align \in [Tree!AllPanels -> Alignments]

\* r is what packing p makes of acc by way of the layout l of pre.
PackedBy(r, l, pre, acc, p) ==
  /\ ~acc.threw /\ ResizedIn(pre, acc.objs, Tree!PanelsBelow(p))
  /\ l = Tree!Layout(pre, p, children[p], Axis[p], align[p])
  /\ l.objs \in Objs /\ l.threw \in BOOLEAN /\ l.short \in BOOLEAN
  /\ r.objs = l.objs /\ r.threw = l.threw /\ r.odd \in BOOLEAN /\ r \in PackAccs
  /\ ~r.odd => /\ ~acc.odd /\ ~l.short /\ (p # Root => l.objs[p].size = acc.objs[p].size)
               /\ \A c \in Tree!ToSet(children[p]) \cup {p} : ~(pre[c].size[Axis[p]] < pre[c].min[Axis[p]])

LEMMA PackOneParts ==
  ASSUME IsTree(children), Aligned, NEW acc \in PackAccs, NEW p \in Tree!AllPanels, NEW r, r = Tree!PackOne(acc, p)
  PROVE  \/ acc.threw /\ r = acc
         \/ \E pre, l : PackedBy(r, l, pre, acc, p)
  <1> DEFINE pre == Tree!Prepack(acc.objs, p)
             l == Tree!Layout(pre, p, children[p], Axis[p], align[p])
             grew == p # Root /\ l.objs[p].size # acc.objs[p].size
             wrapped == \E c \in Tree!ToSet(children[p]) \cup {p} : pre[c].size[Axis[p]] < pre[c].min[Axis[p]]
             odder == acc.odd \/ grew \/ l.short \/ wrapped
  <1>1. r = IF acc.threw THEN acc ELSE [objs |-> l.objs, odd |-> odder, threw |-> l.threw]
    BY DEF Tree!PackOne
  <1>2. acc.objs \in Objs /\ acc.odd \in BOOLEAN /\ acc.threw \in BOOLEAN
    BY DEF PackAccs
  <1>3. p \in Tree!Widgets /\ children[p] \in Seq(Tree!Widgets) /\ Axis[p] \in 1 .. 2 /\ align[p] \in Alignments
    BY SetsCounts DEF IsTree, Aligned, Tree!Widgets
  <1>4. ResizedIn(pre, acc.objs, Tree!PanelsBelow(p))
    BY <1>2, PrepackIs
  <1> HIDE DEF pre
  <1>5. l.objs \in Objs /\ l.threw \in BOOLEAN /\ l.short \in BOOLEAN
    <2> DEFINE cs == children[p]
    <2>1. pre \in Objs
      BY <1>4 DEF ResizedIn
    <2>2. cs \in Seq(Tree!Widgets) /\ l = Tree!Layout(pre, p, cs, Axis[p], align[p])
      BY <1>3
    <2> HIDE DEF cs, l
    <2> QED BY <1>3, <2>1, <2>2, LayoutObjects
  <1>6. l = Tree!Layout(pre, p, children[p], Axis[p], align[p])
    OBVIOUS
  <1> HIDE DEF l
  <1>7. odder \in BOOLEAN /\ (~odder => ~acc.odd /\ ~grew /\ ~l.short /\ ~wrapped)
    BY <1>2, <1>5
  <1>8. CASE acc.threw
    BY <1>1, <1>8
  <1>9. CASE ~acc.threw
    <2> HIDE DEF odder
    <2>1. r = [objs |-> l.objs, odd |-> odder, threw |-> l.threw]
      BY <1>1, <1>9
    <2>2. r.objs = l.objs /\ r.threw = l.threw /\ r.odd = odder
      BY <2>1
    <2>3. r \in PackAccs
      BY <1>5, <1>7, <2>1 DEF PackAccs
    <2>4. ~r.odd => /\ ~acc.odd /\ ~l.short /\ (p # Root => l.objs[p].size = acc.objs[p].size)
                    /\ \A c \in Tree!ToSet(children[p]) \cup {p} : ~(pre[c].size[Axis[p]] < pre[c].min[Axis[p]])
      BY <1>7, <2>2
    <2>5. PackedBy(r, l, pre, acc, p)
      BY <1>4, <1>5, <1>6, <1>7, <1>9, <2>2, <2>3, <2>4 DEF PackedBy
    <2> QED BY <2>5
  <1> QED BY <1>8, <1>9

LEMMA PackOneObjects ==
  ASSUME IsTree(children), Aligned, NEW acc \in PackAccs, NEW p \in Tree!AllPanels
  PROVE  Tree!PackOne(acc, p) \in PackAccs
  BY PackOneParts DEF PackedBy

LEMMA PackOneIs ==
  ASSUME IsTree(children), Aligned, NEW acc \in PackAccs, NEW p \in Tree!AllPanels, NEW r, r = Tree!PackOne(acc, p),
         ~r.odd, ~r.threw
  PROVE  ~acc.odd /\ ~acc.threw /\ Packs(r.objs, acc.objs, p)
  <1>0. PICK pre, l : PackedBy(r, l, pre, acc, p)
    BY PackOneParts
  <1>1. /\ ~acc.threw /\ ResizedIn(pre, acc.objs, Tree!PanelsBelow(p))
        /\ l = Tree!Layout(pre, p, children[p], Axis[p], align[p])
        /\ l.objs \in Objs /\ r.objs = l.objs /\ r.threw = l.threw
        /\ ~acc.odd /\ ~l.short /\ (p # Root => l.objs[p].size = acc.objs[p].size)
        /\ \A c \in Tree!ToSet(children[p]) \cup {p} : ~(pre[c].size[Axis[p]] < pre[c].min[Axis[p]])
    BY <1>0 DEF PackedBy
  <1> DEFINE cs == children[p]
             axis == Axis[p]
             os == acc.objs
  <1>2. p \in Tree!Widgets /\ cs \in Seq(Tree!Widgets) /\ axis \in 1 .. 2 /\ align[p] \in Alignments
    BY SetsCounts DEF IsTree, Aligned, Tree!Widgets
  <1>3. pre \in Objs /\ os \in Objs
    BY <1>1 DEF ResizedIn, PackAccs
  <1>4. \A k \in 1 .. Len(cs) : cs[k] \in Tree!ToSet(cs) /\ cs[k] \in Tree!Widgets
    BY <1>2, ToSetHas
  <1>5. \A k \in 1 .. Len(cs) : cs[k] # p
    <2> SUFFICES ASSUME NEW k \in 1 .. Len(cs), cs[k] = p PROVE FALSE
      OBVIOUS
    <2>1. p \in Tree!ToSet(children[p]) \cap Tree!AllPanels
      BY <1>4
    <2> QED BY <2>1, NoneAbove, BelowPanel
  <1>6. \A c \in Tree!ToSet(cs) \cup {p} : c \in Tree!Widgets => Holds(pre[c], axis)
    <2> SUFFICES ASSUME NEW c \in Tree!ToSet(cs) \cup {p}, c \in Tree!Widgets PROVE Holds(pre[c], axis)
      OBVIOUS
    <2>1. ~(pre[c].size[axis] < pre[c].min[axis])
      BY <1>1
    <2>2. pre[c] \in Obj
      BY <1>3 DEF Objs
    <2> HIDE DEF axis
    <2>a. pre[c].size[axis] \in Sizes16 /\ pre[c].min[axis] \in Sizes16
      BY <1>2, <2>2, ObjHas
    <2>3. pre[c].size[axis] \in Nat /\ pre[c].min[axis] \in Nat
      BY <2>a, SizeIs
    <2> QED BY <2>1, <2>3 DEF Holds
  <1>7. Distinct(cs)
    BY DEF IsTree
  <1>8. l = Tree!Layout(pre, p, cs, axis, align[p]) /\ ~l.threw /\ ~l.short
    BY <1>1
  <1> HIDE DEF cs, axis
  <1>9. ToLayOut(pre, p, cs, axis, align[p])
    BY <1>2, <1>3, <1>4, <1>5, <1>6, <1>7 DEF ToLayOut
  <1> DEFINE vis == Tree!Visible(pre, cs)
             q == l.objs
  <1>10. LaidOut(q, pre, p, vis, axis) /\ Fit(q, p, vis, axis)
    BY <1>8, <1>9, LayoutIs
  <1>11. \A c \in Tree!Widgets : Placed(q[c], pre[c])
    BY <1>10 DEF LaidOut
  <1>12. Tree!Visible(q, cs) = vis
    <2>1. \A k \in 1 .. Len(cs) : q[cs[k]].hidden = pre[cs[k]].hidden
      BY <1>4, <1>11 DEF Placed
    <2> HIDE DEF q
    <2> QED BY <1>2, <2>1, VisibleSame
  <1>13. ShownOf(vis, pre, cs)
    BY <1>2, VisibleIs
  <1> HIDE DEF vis, q
  <1>14. \A i \in 1 .. Len(vis) : vis[i] \in Tree!ToSet(cs)
    BY <1>4, <1>13 DEF ShownOf
  <1>15. \A c \in Tree!Widgets : c \notin Tree!Below(p) => q[c] = os[c]
    <2> SUFFICES ASSUME NEW c \in Tree!Widgets, c \notin Tree!Below(p) PROVE q[c] = os[c]
      OBVIOUS
    <2>1. c \notin Tree!PanelsBelow(p) /\ c \notin Tree!ToSet(cs) /\ c # p
      BY BelowParts, BelowPanel DEF cs
    <2>2. pre[c] = os[c]
      BY <1>1, <2>1 DEF ResizedIn
    <2>3. q[c] = pre[c]
      BY <1>10, <1>14, <2>1 DEF LaidOut
    <2> QED BY <2>2, <2>3
  <1>16. \A c \in Tree!Widgets : Placed(q[c], os[c])
    BY <1>1, <1>11 DEF ResizedIn, Resized, Placed
  <1>17. q[p].pos = os[p].pos
    BY <1>1, <1>2, <1>10 DEF LaidOut, ResizedIn, Resized
  <1>18. p # Root => q[p].size = os[p].size
    BY <1>1 DEF q
  <1> QED BY <1>1, <1>10, <1>12, <1>15, <1>16, <1>17, <1>18 DEF Packs, PanelFits, cs, axis, q

\* Packing q leaves alone how a panel that is not below it was laid out.
LEMMA PackKeeps ==
  ASSUME IsTree(children), NEW p \in Tree!AllPanels, NEW q \in Tree!AllPanels, p \notin Tree!PanelsBelow(q),
         NEW os \in Objs, NEW r, Packs(r, os, q), PanelFits(os, p)
  PROVE  PanelFits(r, p)
  <1> DEFINE cs == children[p]
             vis == Tree!Visible(os, cs)
  <1>1. cs \in Seq(Tree!Widgets) /\ \A k \in 1 .. Len(cs) : cs[k] \in Tree!ToSet(cs) /\ cs[k] \in Tree!Widgets
    <2>1. cs \in Seq(Tree!Widgets)
      BY DEF IsTree
    <2> QED BY <2>1, ToSetHas
  <1>2. r[p] = os[p]
    <2>1. p \in Tree!Widgets /\ p \notin Tree!Below(q)
      BY BelowParts DEF Tree!Widgets
    <2> QED BY <2>1 DEF Packs
  <1>3. ASSUME NEW c \in Tree!ToSet(cs), c \in Tree!Widgets PROVE r[c] = os[c]
    <2>1. CASE c \notin Tree!Below(q)
      BY <1>3, <2>1 DEF Packs
    <2>2. CASE c \in Tree!Below(q)
      <3>1. \A x \in Tree!AllPanels : c \in Tree!ToSet(children[x]) => x = p
        BY DEF IsTree
      <3>2. c = q
        BY <2>2, <3>1, BelowParts, AboveOne, BelowPanel
      <3>3. q # Root
        BY <3>2 DEF IsTree
      <3>4. Placed(r[c], os[c]) /\ r[c].pos = os[c].pos /\ r[c].size = os[c].size
        BY <1>3, <3>2, <3>3 DEF Packs
      <3>5. os[c] \in Obj
        BY <1>3 DEF Objs
      <3> QED BY <3>4, <3>5 DEF Placed, Obj
    <2> QED BY <2>1, <2>2
  <1>4. Tree!Visible(r, cs) = vis
    <2>1. \A k \in 1 .. Len(cs) : r[cs[k]].hidden = os[cs[k]].hidden
      BY <1>1, <1>3
    <2> HIDE DEF cs
    <2> QED BY <1>1, <2>1, VisibleSame
  <1>5. ShownOf(vis, os, cs)
    <2> HIDE DEF cs
    <2> QED BY <1>1, VisibleIs
  <1> HIDE DEF vis
  <1>6. vis \in Seq(Tree!Widgets) /\ \A i \in 1 .. Len(vis) : vis[i] \in Tree!ToSet(cs) /\ vis[i] \in Tree!Widgets
    BY <1>1, <1>5 DEF ShownOf
  <1>7. \A i \in 1 .. Len(vis) : r[vis[i]] = os[vis[i]]
    BY <1>3, <1>6
  <1>8. Fit(os, p, vis, Axis[p])
    BY DEF PanelFits, vis
  <1> HIDE DEF cs
  <1>9. Fit(r, p, vis, Axis[p])
    <2>1. \A i \in 1 .. Len(vis) - 1 : i \in 1 .. Len(vis) /\ i + 1 \in 1 .. Len(vis)
      BY <1>6
    <2>2. InARow(r, vis, Axis[p])
      BY <1>7, <1>8, <2>1 DEF Fit, InARow
    <2>3. \A bound : EndBefore(os, vis, Axis[p], bound) => EndBefore(r, vis, Axis[p], bound)
      BY <1>7 DEF EndBefore
    <2>4. Excused(os, vis, Axis[p]) => Excused(r, vis, Axis[p])
      BY <1>7 DEF Excused
    <2> QED BY <1>2, <1>8, <2>2, <2>3, <2>4 DEF Fit
  <1> QED BY <1>4, <1>9 DEF PanelFits, cs

\* Pack as a fold.
Packed(acc0, seq) == Tree!FoldLeft(Tree!PackOne, acc0, seq)

\* f is what pack makes of acc0, panel by panel.
PackRun(f, seq, acc0) ==
  /\ f \in [0 .. Len(seq) -> PackAccs] /\ f[0] = acc0
  /\ \A k \in 1 .. Len(seq) : f[k] = Tree!PackOne(f[k - 1], seq[k])
  /\ Packed(acc0, seq) = f[Len(seq)]

\* The panels in seq are packed one after another.
LEMMA PackSteps ==
  ASSUME NEW seq \in Seq(Tree!AllPanels), NEW acc0 \in PackAccs, IsTree(children), Aligned
  PROVE  \E f : PackRun(f, seq, acc0)
  <1> DEFINE n == Len(seq)
             base == acc0
             S == PackAccs
             Step(acc, i) == Tree!PackOne(acc, seq[i])
             Eq(f) == f = [s \in SUBSET DOMAIN seq |->
                             IF s = {} THEN base ELSE Tree!PackOne(f[s \ {Tree!Max(s)}], seq[Tree!Max(s)])]
             iter == CHOOSE f : Eq(f)
             F == [p \in S \X (1 .. n) |-> Step(p[1], p[2])]
  <1>1. Packed(acc0, seq) = iter[DOMAIN seq]
    BY DEF Packed, Tree!FoldLeft, Tree!MapThenFoldSet
  <1>2. n \in Nat /\ DOMAIN seq = 1 .. n /\ \A i \in 1 .. n : seq[i] \in Tree!AllPanels
    OBVIOUS
  <1>3. base \in S
    OBVIOUS
  <1>4. \A acc \in S, i \in 1 .. n : Step(acc, i) \in S
    BY <1>2, PackOneObjects
  <1>5. \A s : Eq(s) <=> s = [t \in SUBSET (1 .. n) |-> IF t = {} THEN base ELSE Step(s[t \ {Tree!Max(t)}], Tree!Max(t))]
    BY <1>2
  <1> HIDE DEF iter, Eq, Step, S, base, n
  <1>6. F \in [S \X (1 .. n) -> S] /\ \A acc \in S, i \in 1 .. n : F[<<acc, i>>] = Step(acc, i)
    BY <1>4
  <1> HIDE DEF F
  <1>7. \E f : Eq(f)
    <2>1. PICK g : g \in [SUBSET (1 .. n) -> S] /\ Folds(g, S, n, base, F)
      BY <1>2, <1>3, <1>6, FoldsExist
    <2>2. ASSUME NEW t \in SUBSET (1 .. n)
          PROVE  g[t] = IF t = {} THEN base ELSE Step(g[t \ {Tree!Max(t)}], Tree!Max(t))
      BY <1>6, <2>1 DEF Folds
    <2>3. g = [t \in SUBSET (1 .. n) |-> IF t = {} THEN base ELSE Step(g[t \ {Tree!Max(t)}], Tree!Max(t))]
      BY <2>1, <2>2
    <2> QED BY <1>5, <2>3
  <1>8. Eq(iter)
    BY <1>7 DEF iter
  <1>9. iter[{}] = base
    BY <1>5, <1>8
  <1>10. ASSUME NEW s \in SUBSET (1 .. n), s # {}, iter[s \ {Tree!Max(s)}] \in S, Tree!Max(s) \in 1 .. n
         PROVE  iter[s] = F[<<iter[s \ {Tree!Max(s)}], Tree!Max(s)>>]
    <2>1. iter[s] = Step(iter[s \ {Tree!Max(s)}], Tree!Max(s))
      BY <1>5, <1>8, <1>10
    <2> QED BY <1>6, <1>10, <2>1
  <1>11. PICK f : ChainTo(f, S, n, base, F, iter[1 .. n])
    BY <1>2, <1>3, <1>6, <1>9, <1>10, FoldChain
  <1>12. /\ f \in [0 .. n -> S] /\ f[0] = base /\ f[n] = iter[1 .. n]
         /\ \A k \in 1 .. n : f[k] = F[<<f[k - 1], k>>]
    BY <1>11 DEF Chain, ChainTo
  <1>13. ASSUME NEW k \in 1 .. n PROVE f[k] = Step(f[k - 1], k)
    <2>1. k - 1 \in 0 .. n
      BY <1>2
    <2> QED BY <1>6, <1>12, <2>1
  <1>14. Packed(acc0, seq) = f[n]
    BY <1>1, <1>2, <1>12
  <1> QED BY <1>12, <1>13, <1>14 DEF S, base, Step, n, PackRun

\* A frame that packed a panel without throwing or meeting a case that layout
\* does not handle lays out every panel below it.
LEMMA PackIs ==
  ASSUME IsTree(children), Aligned, NEW p \in Tree!AllPanels, NEW os \in Objs,
         NEW r, r = Packed([objs |-> os, odd |-> FALSE, threw |-> FALSE], Tree!Downwards[p])
  PROVE  /\ r \in PackAccs
         /\ ~r.odd /\ ~r.threw => \A q \in Tree!PanelsBelow(p) : PanelFits(r.objs, q)
  <1> DEFINE seq == Tree!Downwards[p]
             n == Len(seq)
             acc0 == [objs |-> os, odd |-> FALSE, threw |-> FALSE]
  <1>1. TopDown(seq, p)
    BY DownwardsTopDown
  <1>2. acc0 \in PackAccs
    BY DEF PackAccs
  <1>3. r = Packed(acc0, seq)
    OBVIOUS
  <1> HIDE DEF seq, acc0
  <1>4. seq \in Seq(Tree!AllPanels) /\ AboveFirst(seq) /\ \A x : In(x, seq) <=> x \in Tree!PanelsBelow(p)
    BY <1>1 DEF TopDown
  <1>5. PICK f : PackRun(f, seq, acc0)
    BY <1>2, <1>4, PackSteps
  <1>6. /\ f \in [0 .. n -> PackAccs] /\ \A k \in 1 .. n : f[k] = Tree!PackOne(f[k - 1], seq[k])
    BY <1>5 DEF PackRun
  <1>7. r = f[n]
    BY <1>3, <1>5 DEF PackRun
  <1>8. n \in Nat /\ 0 \in 0 .. n /\ n \in 0 .. n /\ \A k \in 1 .. n : seq[k] \in Tree!AllPanels
    BY <1>4
  <1> DEFINE Fine(a, k) == ~a.odd /\ ~a.threw => \A i \in 1 .. k : PanelFits(a.objs, seq[i])
             T == {k \in Nat : k <= n => Fine(f[k], k)}
  <1>9. 0 \in T
    <2>1. 1 .. 0 = {}
      OBVIOUS
    <2>2. Fine(f[0], 0)
      BY <2>1
    <2> QED BY <2>2
  <1>10. ASSUME NEW k \in T PROVE k + 1 \in T
    <2> SUFFICES ASSUME k + 1 <= n PROVE Fine(f[k + 1], k + 1)
      OBVIOUS
    <2>1. k + 1 \in 1 .. n /\ (k + 1) - 1 = k /\ k \in 0 .. n /\ \A i \in 1 .. k + 1 : i \in 1 .. n /\ (i = k + 1 \/ (i \in 1 .. k /\ i < k + 1))
      BY <1>8
    <2> DEFINE a == f[k]
               b == f[k + 1]
               c == seq[k + 1]
    <2>2. Fine(a, k)
      BY <2>1
    <2>3. a \in PackAccs /\ c \in Tree!AllPanels /\ b = Tree!PackOne(a, c)
      BY <1>6, <1>8, <2>1
    <2> HIDE DEF a, b, c, T
    <2> SUFFICES ASSUME ~b.odd, ~b.threw PROVE \A i \in 1 .. k + 1 : PanelFits(b.objs, seq[i])
      BY DEF b
    <2>4. ~a.odd /\ ~a.threw /\ Packs(b.objs, a.objs, c)
      BY <2>3, PackOneIs
    <2>5. a.objs \in Objs
      BY <2>3 DEF PackAccs
    <2>6. \A i \in 1 .. k : PanelFits(a.objs, seq[i])
      BY <2>2, <2>4
    <2>7. ASSUME NEW i \in 1 .. k + 1 PROVE PanelFits(b.objs, seq[i])
      <3>1. CASE i = k + 1
        BY <2>4, <3>1 DEF Packs, c
      <3>2. CASE i \in 1 .. k /\ i < k + 1
        <4>1. seq[i] \in Tree!AllPanels /\ seq[i] \notin Tree!PanelsBelow(c)
          BY <1>4, <1>8, <2>1, <3>2 DEF AboveFirst, c
        <4>2. PanelFits(a.objs, seq[i])
          BY <2>6, <3>2
        <4> QED BY <2>3, <2>4, <2>5, <4>1, <4>2, PackKeeps
      <3> QED BY <2>1, <3>1, <3>2
    <2> QED BY <2>7
  <1>11. T = Nat
    <2> HIDE DEF T
    <2>1. T \subseteq Nat
      BY DEF T
    <2> QED BY <1>9, <1>10, <2>1, Induction
  <1>12. Fine(f[n], n)
    <2>1. n \in T
      <3> HIDE DEF T, n
      <3> QED BY <1>8, <1>11
    <2> QED BY <1>8, <2>1
  <1>13. f[n] \in PackAccs
    BY <1>6, <1>8
  <1>14. ASSUME ~r.odd, ~r.threw, NEW q \in Tree!PanelsBelow(p) PROVE PanelFits(r.objs, q)
    <2>1. In(q, seq)
      BY <1>4
    <2>2. PICK i \in 1 .. n : seq[i] = q
      BY <2>1 DEF In
    <2> HIDE DEF n
    <2> QED BY <1>7, <1>12, <1>14, <2>2
  <1> QED BY <1>7, <1>13, <1>14
------------------------------------------------------------------------------
(* The changes of the tree and the frames.                                    *)

\* Every panel below Root is laid out.
AllFit == \A p \in Tree!PanelsBelow(Root) : PanelFits(objs, p)

\* The widgets are a tree of objects, and a frame that repacked has laid it out.
FrameInv ==
  /\ running = "building" => ~fresh
  /\ ~grown => /\ IsTree(children) /\ childIds = KidsOf(children)
               /\ parent \in [Tree!Widgets -> Tree!AllPanels \cup {Nobody}]
               /\ \A p \in Tree!AllPanels : \A c \in Tree!ToSet(children[p]) : parent[c] = p
               /\ objs \in Objs /\ Aligned
               /\ running = "shown" /\ fresh /\ ~odd => AllFit

LEMMA GrowsIntoTree ==
  ASSUME IsTree(children), NEW p \in Tree!AllPanels, NEW w \in Tree!Widgets \ {Root},
         \A q \in Tree!AllPanels : w \notin Tree!ToSet(children[q]), w \in Tree!AllPanels => p \notin Tree!Below(w),
         NEW ch, ch = [children EXCEPT ![p] = Append(@, w)]
  PROVE  IsTree(ch) /\ KidsOf(ch) = [KidsOf(children) EXCEPT ![p] = @ \cup {w}]
  <1>1. /\ children \in [Tree!AllPanels -> Seq(Tree!Widgets)]
        /\ \A q \in Tree!AllPanels : Distinct(children[q]) /\ Root \notin Tree!ToSet(children[q])
        /\ \A q, r \in Tree!AllPanels : Tree!ToSet(children[q]) \cap Tree!ToSet(children[r]) # {} => q = r
        /\ Ends(Tree!AllPanels, KidsOf(children))
    BY DEF IsTree
  <1> DEFINE cs == children[p]
             ds == Append(cs, w)
  <1>2. cs \in Seq(Tree!Widgets) /\ ch[p] = ds /\ ch \in [Tree!AllPanels -> Seq(Tree!Widgets)]
        /\ \A q \in Tree!AllPanels : q # p => ch[q] = children[q]
    BY <1>1
  <1>3. /\ ds \in Seq(Tree!Widgets) /\ Len(ds) = Len(cs) + 1 /\ Len(cs) \in Nat /\ ds[Len(cs) + 1] = w
        /\ \A k \in 1 .. Len(cs) : ds[k] = cs[k]
    BY <1>2
  <1>4. \A k \in 1 .. Len(cs) : cs[k] # w
    BY <1>2 DEF Tree!ToSet
  <1>5. Tree!ToSet(cs) = {cs[k] : k \in 1 .. Len(cs)} /\ Tree!ToSet(ds) = {ds[k] : k \in 1 .. Len(ds)}
    BY <1>2, <1>3 DEF Tree!ToSet
  <1>6. Distinct(cs)
    BY <1>1
  <1> HIDE DEF ds, cs
  <1>7. \A k \in 1 .. Len(ds) : k \in 1 .. Len(cs) \/ k = Len(cs) + 1
    BY <1>3
  <1>8. Distinct(ds)
    BY <1>3, <1>4, <1>6, <1>7 DEF Distinct
  <1>9. Tree!ToSet(ds) = Tree!ToSet(cs) \cup {w}
    <2>1. \A k \in 1 .. Len(cs) : k \in 1 .. Len(ds)
      BY <1>3
    <2>2. Len(cs) + 1 \in 1 .. Len(ds)
      BY <1>3
    <2> QED BY <1>3, <1>5, <1>7, <2>1, <2>2
  <1>10. \A q \in Tree!AllPanels : Tree!ToSet(ch[q]) = Tree!ToSet(children[q]) \cup (IF q = p THEN {w} ELSE {})
    BY <1>2, <1>9 DEF cs
  <1>11. \A q \in Tree!AllPanels : Distinct(ch[q]) /\ Root \notin Tree!ToSet(ch[q])
    <2> TAKE q \in Tree!AllPanels
    <2>1. Root \notin Tree!ToSet(ch[q])
      BY <1>1, <1>10
    <2>2. Distinct(ch[q])
      BY <1>1, <1>2, <1>8
    <2> QED BY <2>1, <2>2
  <1>12. \A q, r \in Tree!AllPanels : Tree!ToSet(ch[q]) \cap Tree!ToSet(ch[r]) # {} => q = r
    <2> SUFFICES ASSUME NEW q \in Tree!AllPanels, NEW r \in Tree!AllPanels, NEW x,
                        x \in Tree!ToSet(ch[q]), x \in Tree!ToSet(ch[r])
                 PROVE  q = r
      OBVIOUS
    <2>1. CASE x = w
      BY <1>10, <2>1
    <2>2. CASE x # w
      BY <1>1, <1>10, <2>2
    <2> QED BY <2>1, <2>2
  <1>13. ASSUME NEW s \in SUBSET Tree!AllPanels, s # {} PROVE \E x \in s : KidsOf(ch)[x] \cap s = {}
    <2>1. \A x \in Tree!AllPanels : KidsOf(ch)[x] = Tree!ToSet(ch[x]) /\ KidsOf(children)[x] = Tree!ToSet(children[x])
      BY DEF KidsOf
    <2>2. \A t \in SUBSET Tree!AllPanels : t # {} => \E x \in t : Tree!ToSet(children[x]) \cap t = {}
      <3> SUFFICES ASSUME NEW t \in SUBSET Tree!AllPanels, t # {} PROVE \E x \in t : Tree!ToSet(children[x]) \cap t = {}
        OBVIOUS
      <3>1. PICK x \in t : KidsOf(children)[x] \cap t = {}
        BY <1>1 DEF Ends
      <3> QED BY <2>1, <3>1
    <2>3. CASE p \in s /\ w \in s
      <3> DEFINE below == Tree!PanelsBelow(w)
                 t == s \cap below
      <3>1. w \in below /\ \A x \in below : Tree!ToSet(children[x]) \cap Tree!AllPanels \subseteq below
        BY <2>3, BelowPanel
      <3>2. p \notin below
        BY <2>3, BelowParts
      <3> HIDE DEF below
      <3>3. PICK x \in t : Tree!ToSet(children[x]) \cap t = {}
        BY <2>2, <2>3, <3>1
      <3>4. Tree!ToSet(ch[x]) \cap s = {}
        BY <1>10, <3>1, <3>2, <3>3
      <3> QED BY <2>1, <3>4
    <2>4. CASE ~(p \in s /\ w \in s)
      <3>1. PICK x \in s : Tree!ToSet(children[x]) \cap s = {}
        BY <2>2, <1>13
      <3>2. Tree!ToSet(ch[x]) \cap s = {}
        BY <1>10, <2>4, <3>1
      <3> QED BY <2>1, <3>2
    <2> QED BY <2>3, <2>4
  <1>14. IsTree(ch)
    BY <1>2, <1>11, <1>12, <1>13 DEF IsTree, Ends
  <1>15. KidsOf(ch) = [KidsOf(children) EXCEPT ![p] = @ \cup {w}]
    BY <1>10 DEF KidsOf
  <1> QED BY <1>14, <1>15

LEMMA AddChildFrames ==
  ASSUME FrameInv, NEW p \in Tree!AllPanels, NEW w \in Tree!Widgets \ {Root}, Tree!AddChild(p, w), Nobody \notin Tree!AllPanels
  PROVE  FrameInv'
  <1>1. ~fresh' /\ objs' = objs /\ align' = align /\ running' = running
    BY DEF Tree!AddChild, Tree!Change
  <1> SUFFICES ASSUME ~grown'
               PROVE  /\ IsTree(children)' /\ (childIds = KidsOf(children))'
                      /\ parent' \in [Tree!Widgets -> Tree!AllPanels \cup {Nobody}]
                      /\ \A q \in Tree!AllPanels : \A c \in Tree!ToSet(children'[q]) : parent'[c] = q
                      /\ objs' \in Objs /\ Aligned'
    BY <1>1 DEF FrameInv
  <1>2. ~grown /\ running = "building" /\ parent[w] = Nobody
    BY DEF Tree!AddChild
  <1>3. /\ IsTree(children) /\ childIds = KidsOf(children)
        /\ parent \in [Tree!Widgets -> Tree!AllPanels \cup {Nobody}]
        /\ \A q \in Tree!AllPanels : \A c \in Tree!ToSet(children[q]) : parent[c] = q
        /\ objs \in Objs /\ Aligned
    BY <1>2 DEF FrameInv
  <1>4. /\ children' = [children EXCEPT ![p] = Append(@, w)]
        /\ parent' = [parent EXCEPT ![w] = p]
        /\ childIds' = [childIds EXCEPT ![p] = @ \cup {w}]
        /\ w \in Panels => p \notin Tree!Below(w)
    BY <1>2 DEF Tree!AddChild
  <1>5. \A q \in Tree!AllPanels : w \notin Tree!ToSet(children[q])
    BY <1>2, <1>3
  <1>6. w \in Tree!AllPanels => p \notin Tree!Below(w)
    BY <1>4 DEF Tree!AllPanels
  <1> DEFINE ch == children'
  <1>7. ch = [children EXCEPT ![p] = Append(@, w)]
    BY <1>4
  <1> HIDE DEF ch
  <1>8. IsTree(ch) /\ KidsOf(ch) = [KidsOf(children) EXCEPT ![p] = @ \cup {w}]
    BY <1>3, <1>5, <1>6, <1>7, GrowsIntoTree
  <1>9. IsTree(children') /\ childIds' = KidsOf(children')
    BY <1>3, <1>4, <1>8 DEF ch
  <1>10. ASSUME NEW q \in Tree!AllPanels, NEW c \in Tree!ToSet(ch[q]) PROVE parent'[c] = q
    <2>1. Tree!ToSet(ch[q]) = KidsOf(ch)[q] /\ Tree!ToSet(children[q]) = KidsOf(children)[q]
      BY DEF KidsOf
    <2>2. c \in Tree!ToSet(children[q]) \/ (c = w /\ q = p)
      BY <1>8, <2>1 DEF KidsOf
    <2>3. CASE c = w /\ q = p
      BY <1>3, <1>4, <2>3
    <2>4. CASE c \in Tree!ToSet(children[q])
      <3>1. c # w /\ parent[c] = q
        BY <1>3, <1>5, <2>4
      <3> QED BY <1>3, <1>4, <3>1
    <2> QED BY <2>2, <2>3, <2>4
  <1>11. parent' \in [Tree!Widgets -> Tree!AllPanels \cup {Nobody}]
    BY <1>3, <1>4
  <1>12. Aligned'
    BY <1>1, <1>3 DEF Aligned
  <1> QED BY <1>1, <1>3, <1>9, <1>10, <1>11, <1>12 DEF ch

\* What changes a widget leaves it an object.
LEMMA ObjChanges ==
  ASSUME NEW o \in Obj, NEW side \in 1 .. 4, NEW n \in Nat
  PROVE  /\ [o EXCEPT !.hidden = ~@] \in Obj /\ [o EXCEPT !.margin[side] = n] \in Obj
         /\ Tree!SetPaddingOf(o, side, n) \in Obj
  <1>1. /\ o.pos \in [1 .. 2 -> Int] /\ o.size \in [1 .. 2 -> Sizes16] /\ o.min \in [1 .. 2 -> Sizes16]
        /\ o.padding \in [1 .. 4 -> Nat] /\ o.margin \in [1 .. 4 -> Nat] /\ o.hidden \in BOOLEAN
        /\ o.grow \in Nat /\ o.shrink \in Nat
    BY DEF Obj
  <1>2. [o EXCEPT !.hidden = ~@] \in Obj
    BY <1>1 DEF Obj
  <1>3. [o EXCEPT !.margin[side] = n] \in Obj
    <2>1. [o.margin EXCEPT ![side] = n] \in [1 .. 4 -> Nat]
      BY <1>1
    <2> QED BY <1>1, <2>1 DEF Obj
  <1>4. Tree!SetPaddingOf(o, side, n) \in Obj
    <2> DEFINE axis == IF side \in {1, 4} THEN 2 ELSE 1
               grew == (o.size[axis] + n) % Tree!Short
    <2>1. axis \in 1 .. 2
      OBVIOUS
    <2> HIDE DEF axis
    <2>2. grew \in Sizes16
      <3>1. o.size[axis] \in Sizes16
        BY <1>1, <2>1
      <3>2. o.size[axis] \in Int
        BY <3>1, SizeIs
      <3>3. o.size[axis] + n \in Int
        BY <3>2
      <3> QED BY <3>3, SizeIs
    <2> HIDE DEF grew
    <2>3. [o.padding EXCEPT ![side] = n] \in [1 .. 4 -> Nat] /\ [o.size EXCEPT ![axis] = grew] \in [1 .. 2 -> Sizes16]
      BY <1>1, <2>1, <2>2
    <2>4. Tree!SetPaddingOf(o, side, n) = [[o EXCEPT !.padding = [o.padding EXCEPT ![side] = n]] EXCEPT !.size = [o.size EXCEPT ![axis] = grew]]
      BY DEF Tree!SetPaddingOf, axis, grew
    <2> QED BY <1>1, <2>3, <2>4 DEF Obj
  <1> QED BY <1>2, <1>3, <1>4

LEMMA HiddenChanges ==
  ASSUME NEW o \in Obj
  PROVE  [o EXCEPT !.hidden = ~@] \in Obj
  <1>1. 1 \in 1 .. 4 /\ 0 \in Nat
    OBVIOUS
  <1> QED BY <1>1, ObjChanges

LEMMA ChangeFrames ==
  ASSUME FrameInv, UNCHANGED <<parent, children, childIds, running, grown>>, ~fresh',
         ~grown => objs' \in Objs /\ Aligned'
  PROVE  FrameInv'
  BY DEF FrameInv, IsTree

LEMMA SetFrames ==
  ASSUME FrameInv, NEW w \in Tree!Widgets, Tree!Change, Tree!Quiet, NEW o,
         objs' = [objs EXCEPT ![w] = o], ~grown => o \in Obj
  PROVE  FrameInv'
  <1>1. ~fresh' /\ UNCHANGED <<parent, children, childIds, running, grown, align>>
    BY DEF Tree!Change, Tree!Quiet
  <1>2. ~grown => objs \in Objs /\ Aligned
    BY DEF FrameInv
  <1>3. ~grown => objs' \in Objs /\ Aligned'
    BY <1>1, <1>2 DEF Objs, Aligned
  <1> QED BY <1>1, <1>3, ChangeFrames

LEMMA DrawFrames ==
  ASSUME FrameInv, Tree!Draw
  PROVE  FrameInv'
  <1>1. UNCHANGED <<parent, children, childIds, align, grown>>
    BY DEF Tree!Draw
  <1>2. PICK packed : /\ packed = Tree!Pack(Root)
                      /\ IF needs[Root]
                         THEN /\ objs' = packed.objs /\ odd' = packed.odd
                              /\ running' = IF packed.threw THEN "thrown" ELSE "shown"
                              /\ fresh' = ~packed.threw
                         ELSE running' = "shown" /\ UNCHANGED <<objs, odd, fresh>>
    BY DEF Tree!Draw
  <1>3. running = "building" \/ needs[Root]
    BY DEF Tree!Draw
  <1>4. running' # "building"
    BY <1>2
  <1> SUFFICES ASSUME ~grown
               PROVE  /\ IsTree(children)' /\ (childIds = KidsOf(children))'
                      /\ parent' \in [Tree!Widgets -> Tree!AllPanels \cup {Nobody}]
                      /\ \A q \in Tree!AllPanels : \A c \in Tree!ToSet(children'[q]) : parent'[c] = q
                      /\ objs' \in Objs /\ Aligned'
                      /\ running' = "shown" /\ fresh' /\ ~odd' => AllFit'
    BY <1>1, <1>4 DEF FrameInv
  <1>5. /\ IsTree(children) /\ childIds = KidsOf(children)
        /\ parent \in [Tree!Widgets -> Tree!AllPanels \cup {Nobody}]
        /\ \A q \in Tree!AllPanels : \A c \in Tree!ToSet(children[q]) : parent[c] = q
        /\ objs \in Objs /\ Aligned
        /\ running = "building" => ~fresh
    BY DEF FrameInv
  <1>6. Root \in Tree!AllPanels
    BY DEF Tree!AllPanels
  <1>7. /\ packed \in PackAccs
        /\ ~packed.odd /\ ~packed.threw => \A q \in Tree!PanelsBelow(Root) : PanelFits(packed.objs, q)
    <2>1. packed = Packed([objs |-> objs, odd |-> FALSE, threw |-> FALSE], Tree!Downwards[Root])
      BY <1>2 DEF Tree!Pack, Packed
    <2> QED BY <1>5, <1>6, <2>1, PackIs
  <1>8. objs' \in Objs
    BY <1>2, <1>5, <1>7 DEF PackAccs
  <1>9. ASSUME running' = "shown", fresh', ~odd' PROVE AllFit'
    <2>1. needs[Root] /\ ~packed.threw /\ ~packed.odd /\ objs' = packed.objs
      BY <1>2, <1>3, <1>5, <1>9
    <2>2. \A q \in Tree!PanelsBelow(Root) : PanelFits(packed.objs, q)
      BY <1>7, <2>1
    <2> QED BY <1>1, <2>1, <2>2 DEF AllFit, PanelFits, Tree!PanelsBelow
  <1>10. IsTree(children)' /\ (childIds = KidsOf(children))' /\ Aligned'
    BY <1>1, <1>5 DEF IsTree, KidsOf, Aligned
  <1> QED BY <1>1, <1>5, <1>8, <1>9, <1>10

\* FrameInv, of any tree that the program builds before its first frame and
\* whatever it sets in it.
LEMMA FrameInvHolds ==
  Tree!Spec => []FrameInv
  <1>1. Tree!Init => FrameInv
    <2> SUFFICES ASSUME Tree!Init PROVE FrameInv
      OBVIOUS
    <2>1. PICK start \in Starts : objs = start.objs /\ children = start.children
      BY DEF Tree!Init
    <2>2. /\ children \in [Tree!AllPanels -> Seq(Tree!Widgets)]
          /\ \A p, q \in Tree!AllPanels : Tree!ToSet(children[p]) \cap Tree!ToSet(children[q]) # {} => p = q
          /\ \A p \in Tree!AllPanels :
               /\ Root \notin Tree!ToSet(children[p])
               /\ \A i, j \in 1 .. Len(children[p]) : children[p][i] = children[p][j] => i = j
          /\ \A s \in SUBSET Tree!AllPanels : s # {} => \E p \in s : Tree!ToSet(children[p]) \cap s = {}
          /\ objs \in Objs
      BY <2>1, BuildsTrees
    <2>3. IsTree(children)
      <3>1. \A s \in SUBSET Tree!AllPanels : \A p \in s : KidsOf(children)[p] = Tree!ToSet(children[p])
        BY DEF KidsOf
      <3>2. Ends(Tree!AllPanels, KidsOf(children))
        BY <2>2, <3>1 DEF Ends
      <3> QED BY <2>2, <3>2 DEF IsTree, Distinct
    <2>4. parent = [w \in Tree!Widgets |-> IF \E p \in Tree!AllPanels : w \in Tree!ToSet(children[p])
                                           THEN CHOOSE p \in Tree!AllPanels : w \in Tree!ToSet(children[p]) ELSE Nobody]
          /\ childIds = [p \in Tree!AllPanels |-> Tree!ToSet(children[p])]
          /\ align = [p \in Tree!AllPanels |-> "Start"] /\ running = "building" /\ fresh = FALSE
      BY DEF Tree!Init
    <2>5. parent \in [Tree!Widgets -> Tree!AllPanels \cup {Nobody}]
      BY <2>4
    <2>6. ASSUME NEW p \in Tree!AllPanels, NEW c \in Tree!ToSet(children[p]) PROVE parent[c] = p
      <3>1. c \in Tree!Widgets
        BY <2>2 DEF Tree!ToSet
      <3>2. parent[c] \in Tree!AllPanels /\ c \in Tree!ToSet(children[parent[c]])
        BY <2>4, <3>1
      <3> QED BY <2>2, <3>2
    <2>7. Aligned /\ childIds = KidsOf(children)
      BY <2>4 DEF Aligned, Alignments, KidsOf
    <2> QED BY <2>2, <2>3, <2>4, <2>5, <2>6, <2>7 DEF FrameInv
  <1>2. FrameInv /\ [Tree!Next]_(Tree!treeVars) => FrameInv'
    <2> SUFFICES ASSUME FrameInv, [Tree!Next]_(Tree!treeVars) PROVE FrameInv'
      OBVIOUS
    <2>0. Nobody \notin Tree!AllPanels
      BY BuildsTrees
    <2>1. ASSUME NEW p \in Tree!AllPanels, NEW w \in Tree!Widgets \ {Root}, Tree!AddChild(p, w) PROVE FrameInv'
      BY <2>0, <2>1, AddChildFrames
    <2>2. ASSUME NEW p \in Tree!AllPanels, NEW w \in Tree!Widgets \ {Root}, Tree!RemoveChild(p, w) PROVE FrameInv'
      BY <2>2 DEF Tree!RemoveChild, Tree!Change, FrameInv
    <2>a. ASSUME NEW w \in Tree!Widgets PROVE ~grown => objs[w] \in Obj
      BY DEF FrameInv, Objs
    <2>3. ASSUME NEW w \in Tree!Widgets \ {Root}, Tree!SetVisibility(w) PROVE FrameInv'
      <3>1. objs' = [objs EXCEPT ![w] = [objs[w] EXCEPT !.hidden = ~@]] /\ Tree!Change /\ Tree!Quiet
        BY <2>3 DEF Tree!SetVisibility
      <3>2. ~grown => [objs[w] EXCEPT !.hidden = ~@] \in Obj
        BY <2>a, HiddenChanges
      <3> QED BY <3>1, <3>2, SetFrames
    <2>4. ASSUME NEW w \in Tree!Widgets \ {Root}, NEW side \in Sides, NEW n \in Spaces, Tree!SetMargin(w, side, n)
          PROVE  FrameInv'
      <3>1. objs' = [objs EXCEPT ![w] = [objs[w] EXCEPT !.margin[side] = n]] /\ Tree!Change /\ Tree!Quiet
        BY <2>4 DEF Tree!SetMargin
      <3>2. side \in 1 .. 4 /\ n \in Nat
        BY SetsCounts
      <3>3. ~grown => [objs[w] EXCEPT !.margin[side] = n] \in Obj
        BY <2>a, <3>2, ObjChanges
      <3> QED BY <3>1, <3>3, SetFrames
    <2>5. ASSUME NEW w \in Tree!Widgets \ {Root}, NEW side \in Sides, NEW n \in Spaces, Tree!SetPadding(w, side, n)
          PROVE  FrameInv'
      <3>1. objs' = [objs EXCEPT ![w] = Tree!SetPaddingOf(objs[w], side, n)] /\ Tree!Change /\ Tree!Quiet
        BY <2>5 DEF Tree!SetPadding
      <3>2. side \in 1 .. 4 /\ n \in Nat
        BY SetsCounts
      <3>3. ~grown => Tree!SetPaddingOf(objs[w], side, n) \in Obj
        BY <2>a, <3>2, ObjChanges
      <3> QED BY <3>1, <3>3, SetFrames
    <2>6. ASSUME NEW w \in Tree!Widgets \ {Root}, NEW n \in Widths, Tree!SetContent(w, n) PROVE FrameInv'
      <3> DEFINE o == objs[w]
                 once == Tree!SetContentSize(o, 1, n)
                 fitted == Tree!SetContentSize(once, 2, 1)
                 new == [fitted EXCEPT !.min = fitted.size]
      <3>1. objs' = [objs EXCEPT ![w] = new] /\ Tree!Change /\ Tree!Quiet
        BY <2>6 DEF Tree!SetContent
      <3>2. ASSUME ~grown PROVE new \in Obj
        <4>1. o \in Obj
          BY <2>a, <3>2
        <4>2. n \in Int /\ 1 \in Int /\ 1 \in 1 .. 2 /\ 2 \in 1 .. 2
          BY SetsCounts
        <4> HIDE DEF o
        <4>3. Resized(once, o)
          BY <4>1, <4>2, SetContentSizeIs
        <4>4. once \in Obj
          BY <4>3 DEF Resized
        <4> HIDE DEF once
        <4>5. Resized(fitted, once)
          BY <4>2, <4>4, SetContentSizeIs
        <4>6. fitted \in Obj
          BY <4>5 DEF Resized
        <4> HIDE DEF fitted
        <4> QED BY <4>6 DEF Obj
      <3> HIDE DEF new
      <3> QED BY <3>1, <3>2, SetFrames
    <2>7. ASSUME NEW p \in Tree!AllPanels, NEW a \in Aligns, Tree!SetAlignment(p, a) PROVE FrameInv'
      <3>1. /\ UNCHANGED <<parent, children, childIds, running, grown, objs>> /\ ~fresh'
            /\ align' = [align EXCEPT ![p] = a]
        BY <2>7 DEF Tree!SetAlignment, Tree!Change
      <3>2. a \in Alignments
        BY SetsCounts DEF Alignments
      <3>3. ~grown => objs' \in Objs /\ Aligned'
        BY <3>1, <3>2 DEF FrameInv, Aligned
      <3> QED BY <3>1, <3>3, ChangeFrames
    <2>8. ASSUME Tree!Draw PROVE FrameInv'
      BY <2>8, DrawFrames
    <2>9. ASSUME UNCHANGED Tree!treeVars PROVE FrameInv'
      BY <2>9 DEF Tree!treeVars, FrameInv, IsTree, KidsOf, Aligned, AllFit, PanelFits, Tree!PanelsBelow
    <2> QED BY <2>1, <2>2, <2>3, <2>4, <2>5, <2>6, <2>7, <2>8, <2>9 DEF Tree!Next
  <1> QED BY <1>1, <1>2, PTL DEF Tree!Spec

\* FramesFit, of any tree that the program builds before its first frame and
\* whatever it sets in it: a frame that repacked, and met no case that layout
\* does not handle, has the children of every panel in a row inside it.
THEOREM FramesFitHolds ==
  Tree!Spec => []FramesFit
  <1>1. FrameInv => FramesFit
    <2> SUFFICES ASSUME FrameInv, running = "shown", ~grown, fresh, ~odd PROVE Tree!FramesFit
      BY DEF FramesFit, Tree!FramesFit, Tree!Settled
    <2> SUFFICES ASSUME NEW p \in Tree!Below(Root) \cap Tree!AllPanels, NEW cs, cs = Tree!Visible(objs, children[p])
                 PROVE  /\ \A i \in 1 .. Len(cs) - 1 :
                             Tree!LastCell(objs[cs[i]], Axis[p]) + objs[cs[i]].margin[Tree!EndSide(Axis[p])] + 1
                               = objs[cs[i + 1]].pos[Axis[p]] - objs[cs[i + 1]].margin[Tree!StartSide(Axis[p])]
                        /\ \/ \A i \in 1 .. Len(cs) : Tree!EndsInside(p, objs[cs[i]], Axis[p])
                           \/ \E i \in 1 .. Len(cs) : \/ objs[cs[i]].shrink = 0 \/ objs[cs[i]].size[Axis[p]] = objs[cs[i]].min[Axis[p]]
                                                      \/ objs[cs[i]].margin[Tree!StartSide(Axis[p])] > 0
      BY DEF Tree!FramesFit, Tree!FollowEachOther
    <2>1. p \in Tree!PanelsBelow(Root)
      <3>1. Root \in Tree!AllPanels
        BY DEF Tree!AllPanels
      <3> QED BY <3>1, BelowParts
    <2>2. Fit(objs, p, cs, Axis[p])
      BY <2>1 DEF FrameInv, AllFit, PanelFits
    <2> QED BY <2>2 DEF Fit, InARow, EndBefore, Excused, Tree!EndsInside
  <1> QED BY <1>1, FrameInvHolds, PTL
------------------------------------------------------------------------------
(* Who answers a press of the mouse.                                          *)

\* h is what getCollidingWidget may return, panel by panel.
Answer(h, c, point) ==
  IF c \in Tree!AllPanels /\ h[c] # {} THEN h[c] ELSE IF Tree!IsColliding(objs[c], point) THEN {c} ELSE {}
Answers(h, q, point) ==
  IF ~Tree!IsColliding(objs[q], point) THEN {} ELSE UNION {Answer(h, c, point) : c \in childIds[q]}

LEMMA HitsIs ==
  ASSUME IsTree(children), childIds = KidsOf(children), NEW point
  PROVE  \E h \in [Tree!AllPanels -> SUBSET Tree!Widgets] :
           \A q \in Tree!AllPanels : h[q] = Answers(h, q, point) /\ Tree!Hits(q, point) = h[q]
  <1> DEFINE P == Tree!AllPanels
             S == SUBSET Tree!Widgets
             Made(q, g) == Answers(g, q, point)
             Eq(g) == g = [q \in P |-> Made(q, g)]
             it == CHOOSE g : Eq(g)
             F == [x \in P \X [P -> S] |-> Made(x[1], x[2])]
             kids == KidsOf(children)
  <1>1. \A q \in P : Tree!Hits(q, point) = it[q]
    BY DEF Tree!Hits, Answers, Answer
  <1>2. \A q \in P : \A c \in kids[q] : c \in Tree!Widgets
    <2> SUFFICES ASSUME NEW q \in P, NEW c \in kids[q] PROVE c \in Tree!Widgets
      OBVIOUS
    <2>1. children[q] \in Seq(Tree!Widgets) /\ c \in Tree!ToSet(children[q])
      BY DEF IsTree, KidsOf
    <2> QED BY <2>1 DEF Tree!ToSet
  <1>3. childIds = kids
    OBVIOUS
  <1> HIDE DEF kids, it
  <1>4. \A q \in P : \A g \in [P -> S] : Made(q, g) \in S
    <2> TAKE q \in P
    <2> TAKE g \in [P -> S]
    <2>1. \A c \in kids[q] : Answer(g, c, point) \in S
      BY <1>2 DEF Answer
    <2> QED BY <1>3, <2>1 DEF Answers
  <1>5. \A q \in P : \A g, h : (\A c \in kids[q] \cap P : g[c] = h[c]) => Made(q, g) = Made(q, h)
    <2> SUFFICES ASSUME NEW q \in P, NEW g, NEW h, \A c \in kids[q] \cap P : g[c] = h[c]
                 PROVE  Made(q, g) = Made(q, h)
      OBVIOUS
    <2>1. \A c \in kids[q] : Answer(g, c, point) = Answer(h, c, point)
      BY DEF Answer
    <2> QED BY <1>3, <2>1 DEF Answers
  <1> HIDE DEF Made
  <1>6. F \in [P \X [P -> S] -> S] /\ \A q \in P, g \in [P -> S] : F[<<q, g>>] = Made(q, g)
    BY <1>4
  <1> HIDE DEF F
  <1>7. Local(P, S, kids, F)
    <2>1. ASSUME NEW q \in P, NEW g \in [P -> S], NEW h \in [P -> S], \A c \in kids[q] \cap P : g[c] = h[c]
          PROVE  F[<<q, g>>] = F[<<q, h>>]
      <3>1. Made(q, g) = Made(q, h)
        BY <1>5, <2>1
      <3>2. F[<<q, g>>] = Made(q, g) /\ F[<<q, h>>] = Made(q, h)
        BY <1>6
      <3> QED BY <3>1, <3>2
    <2> HIDE DEF P, S
    <2> QED BY <1>6, <2>1 DEF Local
  <1>8. Ends(P, kids) /\ S # {}
    BY DEF IsTree, kids
  <1> HIDE DEF P, S
  <1>9. PICK g \in [P -> S] : \A q \in P : g[q] = F[<<q, g>>]
    BY <1>7, <1>8, RecursionExists
  <1>10. Eq(g)
    BY <1>6, <1>9
  <1> HIDE DEF Eq
  <1>11. Eq(it)
    BY <1>10 DEF it
  <1>12. it = g
    <2>1. it = [q \in P |-> Made(q, it)]
      BY <1>11 DEF Eq
    <2>2. \A q \in P : it[q] = Made(q, it)
      BY <2>1
    <2>3. \A q \in P : g[q] = Made(q, g)
      BY <1>6, <1>9
    <2> DEFINE s == {q \in P : it[q] # g[q]}
    <2>4. s = {}
      <3> SUFFICES ASSUME s # {} PROVE FALSE
        OBVIOUS
      <3>1. s \in SUBSET P
        OBVIOUS
      <3>2. PICK q \in s : kids[q] \cap s = {}
        <4> HIDE DEF s
        <4> QED BY <1>8, <3>1 DEF Ends
      <3>3. q \in P /\ it[q] # g[q] /\ \A c \in kids[q] \cap P : it[c] = g[c]
        BY <3>2
      <3> HIDE DEF s
      <3>4. Made(q, it) = Made(q, g)
        BY <1>5, <3>3
      <3> QED BY <2>2, <2>3, <3>3, <3>4
    <2> HIDE DEF it
    <2>5. DOMAIN it = P
      BY <2>1
    <2>6. \A q \in P : it[q] = g[q]
      BY <2>4
    <2> QED BY <2>1, <2>5, <2>6
  <1>13. \A q \in P : it[q] = Made(q, it)
    BY <1>6, <1>9, <1>12
  <1> QED BY <1>1, <1>9, <1>12, <1>13 DEF Made, P, S

LEMMA CellsOf ==
  ASSUME NEW o \in Obj, NEW axis \in 1 .. 2
  PROVE  /\ o.pos[axis] \in Int /\ Tree!LastCell(o, axis) \in Int /\ o.pos[axis] - 1 <= Tree!LastCell(o, axis)
         /\ o.margin[Tree!StartSide(axis)] \in Nat /\ o.margin[Tree!EndSide(axis)] \in Nat
  <1> DEFINE x == o.pos[axis]
             y == o.size[axis]
  <1>1. x \in Int /\ y \in Sizes16 /\ o.margin[Tree!StartSide(axis)] \in Nat /\ o.margin[Tree!EndSide(axis)] \in Nat
    BY ObjHas
  <1>2. y \in Nat
    BY <1>1, SizeIs
  <1>3. Tree!LastCell(o, axis) = x + y - 1
    BY DEF Tree!LastCell
  <1> HIDE DEF x, y
  <1>4. x + y - 1 \in Int /\ x - 1 <= x + y - 1
    BY <1>1, <1>2
  <1> QED BY <1>1, <1>3, <1>4 DEF x

\* What follows on a row starts behind all that is before it.
LEMMA RowApart ==
  ASSUME NEW os \in Objs, NEW axis \in 1 .. 2, NEW vis \in Seq(Tree!Widgets), InARow(os, vis, axis)
  PROVE  \A i, j \in 1 .. Len(vis) : i < j => Tree!LastCell(os[vis[i]], axis) < os[vis[j]].pos[axis]
  <1> DEFINE n == Len(vis)
             pos(k) == os[vis[k]].pos[axis]
             last(k) == Tree!LastCell(os[vis[k]], axis)
             end(k) == os[vis[k]].margin[Tree!EndSide(axis)]
             before(k) == os[vis[k]].margin[Tree!StartSide(axis)]
  <1>1. n \in Nat /\ \A k \in 1 .. n : os[vis[k]] \in Obj
    BY DEF Objs
  <1>2. \A k \in 1 .. n : pos(k) \in Int /\ last(k) \in Int /\ end(k) \in Nat /\ before(k) \in Nat /\ pos(k) - 1 <= last(k)
    BY <1>1, CellsOf
  <1>3. \A k \in 1 .. n - 1 : last(k) + end(k) + 1 = pos(k + 1) - before(k + 1)
    BY DEF InARow
  <1> SUFFICES ASSUME NEW i \in 1 .. n PROVE \A j \in 1 .. n : i < j => last(i) < pos(j)
    OBVIOUS
  <1> HIDE DEF n, pos, last, end, before
  <1> DEFINE T == {k \in Nat : k \in 1 .. n /\ i < k => last(i) < pos(k)}
  <1>4. 0 \in T
    OBVIOUS
  <1>5. ASSUME NEW k \in T PROVE k + 1 \in T
    <2> SUFFICES ASSUME k + 1 \in 1 .. n, i < k + 1 PROVE last(i) < pos(k + 1)
      OBVIOUS
    <2>1. k \in 1 .. n /\ k \in 1 .. n - 1 /\ (i = k \/ i < k)
      BY <1>1
    <2>2. last(k) + end(k) + 1 = pos(k + 1) - before(k + 1)
      BY <1>3, <2>1
    <2>3. /\ pos(k) \in Int /\ last(k) \in Int /\ end(k) \in Nat /\ pos(k) - 1 <= last(k) /\ last(i) \in Int
          /\ pos(k + 1) \in Int /\ before(k + 1) \in Nat
      BY <1>2, <2>1
    <2>4. i < k => last(i) < pos(k)
      BY <2>1
    <2> QED BY <2>1, <2>2, <2>3, <2>4
  <1>6. T = Nat
    <2> HIDE DEF T
    <2>1. T \subseteq Nat
      BY DEF T
    <2> QED BY <1>4, <1>5, <2>1, Induction
  <1>7. ASSUME NEW j \in 1 .. n, i < j PROVE last(i) < pos(j)
    <2>1. j \in T
      BY <1>1, <1>6
    <2> QED BY <1>7, <2>1
  <1> QED BY <1>7

\* At most one child of a panel that is laid out has the point.
LEMMA OneChild ==
  ASSUME IsTree(children), objs \in Objs, NEW q \in Tree!AllPanels, PanelFits(objs, q), NEW point \in Int \X Int,
         NEW a \in Tree!ToSet(children[q]), NEW b \in Tree!ToSet(children[q]),
         Tree!IsColliding(objs[a], point), Tree!IsColliding(objs[b], point)
  PROVE  a = b
  <1> DEFINE cs == children[q]
             vis == Tree!Visible(objs, cs)
             axis == Axis[q]
  <1>1. cs \in Seq(Tree!Widgets) /\ axis \in 1 .. 2
    BY SetsCounts DEF IsTree
  <1>2. ~objs[a].hidden /\ ~objs[b].hidden
    BY DEF Tree!IsColliding
  <1>3. /\ objs[a].pos[axis] <= point[axis] /\ point[axis] <= Tree!LastCell(objs[a], axis)
        /\ objs[b].pos[axis] <= point[axis] /\ point[axis] <= Tree!LastCell(objs[b], axis)
    <2> HIDE DEF axis
    <2> QED BY <1>1 DEF Tree!IsColliding
  <1>4. InARow(objs, vis, axis)
    BY DEF PanelFits, Fit
  <1>a. a \in Tree!ToSet(cs) /\ b \in Tree!ToSet(cs)
    OBVIOUS
  <1> HIDE DEF cs, axis
  <1>5. ShownOf(vis, objs, cs)
    BY <1>1, VisibleIs
  <1> HIDE DEF vis
  <1>6. \A c \in Tree!ToSet(cs) : ~objs[c].hidden => \E i \in 1 .. Len(vis) : vis[i] = c
    <2> SUFFICES ASSUME NEW c \in Tree!ToSet(cs), ~objs[c].hidden PROVE \E i \in 1 .. Len(vis) : vis[i] = c
      OBVIOUS
    <2>1. PICK k \in 1 .. Len(cs) : cs[k] = c
      BY <1>1 DEF Tree!ToSet
    <2> QED BY <1>5, <2>1 DEF ShownOf
  <1>7. PICK i \in 1 .. Len(vis) : vis[i] = a
    BY <1>2, <1>6, <1>a
  <1>8. PICK j \in 1 .. Len(vis) : vis[j] = b
    BY <1>2, <1>6, <1>a
  <1>9. vis \in Seq(Tree!Widgets)
    BY <1>5 DEF ShownOf
  <1>10. \A k, m \in 1 .. Len(vis) : k < m => Tree!LastCell(objs[vis[k]], axis) < objs[vis[m]].pos[axis]
    BY <1>1, <1>4, <1>9, RowApart
  <1>11. ~(i < j) /\ ~(j < i)
    <2>1. a \in Tree!Widgets /\ b \in Tree!Widgets
      BY <1>7, <1>8, <1>9
    <2>2. objs[a] \in Obj /\ objs[b] \in Obj
      BY <2>1 DEF Objs
    <2>3. point[axis] \in Int
      BY <1>1
    <2>4. \A o \in Obj : o.pos[axis] \in Int /\ Tree!LastCell(o, axis) \in Int
      BY <1>1, CellsOf
    <2>5. /\ objs[a].pos[axis] \in Int /\ Tree!LastCell(objs[a], axis) \in Int
          /\ objs[b].pos[axis] \in Int /\ Tree!LastCell(objs[b], axis) \in Int
      BY <2>2, <2>4
    <2>6. i < j => Tree!LastCell(objs[a], axis) < objs[b].pos[axis]
      BY <1>7, <1>8, <1>10
    <2>7. j < i => Tree!LastCell(objs[b], axis) < objs[a].pos[axis]
      BY <1>7, <1>8, <1>10
    <2> QED BY <1>3, <2>3, <2>5, <2>6, <2>7
  <1>12. i = j
    BY <1>11
  <1> QED BY <1>7, <1>8, <1>12

\* What a panel answers is one widget, which has the point, and every panel
\* that it is below, unless the first is below that, is on the screen.
OneShown(h, q, point) ==
  /\ \A u, w \in h[q] : u = w
  /\ \A w \in h[q] : /\ w \in Tree!Widgets /\ Tree!IsColliding(objs[w], point) /\ Tree!IsColliding(objs[q], point)
                     /\ \A p \in Tree!AllPanels : w \in Tree!Below(p) => q \in Tree!PanelsBelow(p) \/ ~objs[p].hidden

\* The panel of a child is below every other panel the child is below.
LEMMA AboveChild ==
  ASSUME IsTree(children), NEW q \in Tree!AllPanels, NEW c \in Tree!ToSet(children[q]),
         NEW p \in Tree!AllPanels, c \in Tree!Below(p), c # p
  PROVE  q \in Tree!PanelsBelow(p)
  <1>1. \A r \in Tree!AllPanels : c \in Tree!ToSet(children[r]) => r = q
    BY DEF IsTree
  <1>2. PICK r \in Tree!PanelsBelow(p) : c \in Tree!ToSet(children[r])
    BY BelowParts, AboveOne
  <1> QED BY <1>1, <1>2, BelowPanel

LEMMA AnswerShown ==
  ASSUME IsTree(children), childIds = KidsOf(children), NEW point, NEW h \in [Tree!AllPanels -> SUBSET Tree!Widgets],
         \A x \in Tree!AllPanels : h[x] = Answers(h, x, point),
         NEW q \in Tree!AllPanels, NEW c \in Tree!ToSet(children[q]), c \in Tree!AllPanels => OneShown(h, c, point)
  PROVE  /\ \A u, w \in Answer(h, c, point) : u = w
         /\ Answer(h, c, point) # {} => Tree!IsColliding(objs[c], point)
         /\ \A w \in Answer(h, c, point) :
              /\ w \in Tree!Widgets /\ Tree!IsColliding(objs[w], point)
              /\ \A p \in Tree!AllPanels : w \in Tree!Below(p) => q \in Tree!PanelsBelow(p) \/ ~objs[p].hidden
  <1>1. c \in Tree!Widgets
    <2>1. children[q] \in Seq(Tree!Widgets)
      BY DEF IsTree
    <2> QED BY <2>1 DEF Tree!ToSet
  <1>2. \A p \in Tree!AllPanels : c \in Tree!Below(p) /\ c # p => q \in Tree!PanelsBelow(p)
    BY AboveChild
  <1>3. CASE c \in Tree!AllPanels /\ h[c] # {}
    <2>1. Answer(h, c, point) = h[c] /\ OneShown(h, c, point)
      BY <1>3 DEF Answer
    <2>2. Tree!IsColliding(objs[c], point)
      BY <1>3, <2>1 DEF OneShown
    <2>3. ~objs[c].hidden
      BY <2>2 DEF Tree!IsColliding
    <2>4. \A p \in Tree!AllPanels : c \in Tree!PanelsBelow(p) => q \in Tree!PanelsBelow(p) \/ ~objs[p].hidden
      BY <1>2, <2>3, BelowParts
    <2> QED BY <2>1, <2>2, <2>4 DEF OneShown
  <1>4. CASE ~(c \in Tree!AllPanels /\ h[c] # {}) /\ Tree!IsColliding(objs[c], point)
    <2>1. Answer(h, c, point) = {c}
      BY <1>4 DEF Answer
    <2>2. ~objs[c].hidden
      BY <1>4 DEF Tree!IsColliding
    <2> QED BY <1>1, <1>2, <1>4, <2>1, <2>2
  <1>5. CASE ~(c \in Tree!AllPanels /\ h[c] # {}) /\ ~Tree!IsColliding(objs[c], point)
    BY <1>5 DEF Answer
  <1> QED BY <1>3, <1>4, <1>5

LEMMA AllShown ==
  ASSUME IsTree(children), childIds = KidsOf(children), objs \in Objs, AllFit, NEW point \in Int \X Int,
         NEW h \in [Tree!AllPanels -> SUBSET Tree!Widgets], \A x \in Tree!AllPanels : h[x] = Answers(h, x, point)
  PROVE  \A q \in Tree!PanelsBelow(Root) : OneShown(h, q, point)
  <1> DEFINE s == {q \in Tree!PanelsBelow(Root) : ~OneShown(h, q, point)}
  <1> SUFFICES ASSUME s # {} PROVE FALSE
    OBVIOUS
  <1>1. Root \in Tree!AllPanels
    BY DEF Tree!AllPanels
  <1>2. /\ Tree!PanelsBelow(Root) \subseteq Tree!AllPanels
        /\ \A x \in Tree!PanelsBelow(Root) : Tree!ToSet(children[x]) \cap Tree!AllPanels \subseteq Tree!PanelsBelow(Root)
    BY <1>1, BelowPanel
  <1>3. PICK q \in s : KidsOf(children)[q] \cap s = {}
    <2>1. s \in SUBSET Tree!AllPanels
      BY <1>2
    <2> HIDE DEF s
    <2> QED BY <2>1 DEF IsTree, Ends
  <1>4. q \in Tree!AllPanels /\ q \in Tree!PanelsBelow(Root) /\ ~OneShown(h, q, point)
    BY <1>2
  <1>5. KidsOf(children)[q] = Tree!ToSet(children[q])
    BY <1>4 DEF KidsOf
  <1>6. \A c \in Tree!ToSet(children[q]) : c \in Tree!AllPanels => OneShown(h, c, point)
    BY <1>2, <1>3, <1>4, <1>5
  <1> HIDE DEF s
  <1> DEFINE kids == Tree!ToSet(children[q])
             A(c) == Answer(h, c, point)
  <1>7. \A c \in kids : /\ \A u, w \in A(c) : u = w
                        /\ A(c) # {} => Tree!IsColliding(objs[c], point)
                        /\ \A w \in A(c) :
                             /\ w \in Tree!Widgets /\ Tree!IsColliding(objs[w], point)
                             /\ \A p \in Tree!AllPanels : w \in Tree!Below(p) => q \in Tree!PanelsBelow(p) \/ ~objs[p].hidden
    BY <1>4, <1>6, AnswerShown
  <1>8. \A a, b \in kids : Tree!IsColliding(objs[a], point) /\ Tree!IsColliding(objs[b], point) => a = b
    BY <1>4, OneChild DEF AllFit
  <1>9. h[q] = IF ~Tree!IsColliding(objs[q], point) THEN {} ELSE UNION {A(c) : c \in kids}
    <2>1. h[q] = Answers(h, q, point) /\ childIds[q] = kids
      BY <1>4, <1>5
    <2> QED BY <2>1 DEF Answers
  <1> HIDE DEF kids, A
  <1>10. h[q] # {} => Tree!IsColliding(objs[q], point)
    BY <1>9
  <1>11. \A w \in h[q] : \E c \in kids : w \in A(c)
    BY <1>9
  <1>12. \A u, w \in h[q] : u = w
    <2> SUFFICES ASSUME NEW u \in h[q], NEW w \in h[q] PROVE u = w
      OBVIOUS
    <2>1. PICK a \in kids : u \in A(a)
      BY <1>11
    <2>2. PICK b \in kids : w \in A(b)
      BY <1>11
    <2>3. a = b
      BY <1>7, <1>8, <2>1, <2>2
    <2> QED BY <1>7, <2>1, <2>2, <2>3
  <1>13. OneShown(h, q, point)
    BY <1>7, <1>10, <1>11, <1>12 DEF OneShown
  <1> QED BY <1>4, <1>13

\* In such a frame the widgets that may answer a press are at most one, and on
\* the screen.
LEMMA FrameHits ==
  ASSUME IsTree(children), childIds = KidsOf(children), objs \in Objs, AllFit, NEW point \in Int \X Int
  PROVE  /\ Cardinality(Tree!Hits(Root, point)) <= 1
         /\ \A w \in Tree!Hits(Root, point) : \A p \in Tree!Above(w) \cup {w} : ~objs[p].hidden
  <1>1. Root \in Tree!AllPanels /\ Root \in Tree!PanelsBelow(Root)
    BY BelowPanel DEF Tree!AllPanels
  <1>2. PICK h \in [Tree!AllPanels -> SUBSET Tree!Widgets] :
          \A q \in Tree!AllPanels : h[q] = Answers(h, q, point) /\ Tree!Hits(q, point) = h[q]
    BY HitsIs
  <1>3. OneShown(h, Root, point)
    BY <1>1, <1>2, AllShown
  <1> DEFINE hits == Tree!Hits(Root, point)
  <1>4. hits = h[Root]
    BY <1>1, <1>2
  <1> HIDE DEF hits
  <1>5. /\ \A u, w \in hits : u = w
        /\ \A w \in hits : /\ Tree!IsColliding(objs[w], point) /\ Tree!IsColliding(objs[Root], point)
                           /\ \A p \in Tree!AllPanels : w \in Tree!Below(p) => Root \in Tree!PanelsBelow(p) \/ ~objs[p].hidden
    BY <1>3, <1>4 DEF OneShown
  <1>6. Cardinality(hits) <= 1
    <2>1. CASE hits = {}
      <3>1. Cardinality(hits) = 0
        BY <2>1, FS_EmptySet
      <3> QED BY <3>1
    <2>2. CASE hits # {}
      <3>1. PICK w : hits = {w}
        BY <1>5, <2>2
      <3>2. Cardinality(hits) = 1
        BY <3>1, FS_Singleton
      <3> QED BY <3>2
    <2> QED BY <2>1, <2>2
  <1>7. \A p \in Tree!AllPanels : Root \in Tree!PanelsBelow(p) => p = Root
    <2> SUFFICES ASSUME NEW p \in Tree!AllPanels, Root \in Tree!PanelsBelow(p), p # Root PROVE FALSE
      OBVIOUS
    <2>1. PICK r \in Tree!PanelsBelow(p) : Root \in Tree!ToSet(children[r])
      BY AboveOne
    <2> QED BY <2>1, BelowPanel DEF IsTree
  <1>8. \A o : Tree!IsColliding(o, point) => ~o.hidden
    BY DEF Tree!IsColliding
  <1>9. ASSUME NEW w \in hits, NEW p \in Tree!Above(w) \cup {w} PROVE ~objs[p].hidden
    <2>1. CASE p = w
      BY <1>5, <1>8, <2>1
    <2>2. CASE p \in Tree!AllPanels /\ w \in Tree!Below(p)
      BY <1>5, <1>7, <1>8, <2>2
    <2> QED BY <2>1, <2>2 DEF Tree!Above
  <1> QED BY <1>6, <1>9 DEF hits

\* HitIsShown, of the same trees: after such a frame at most one widget answers
\* a press, and it and every panel above it are on the screen.
THEOREM HitIsShownHolds ==
  Tree!Spec => []HitIsShown
  <1>1. FrameInv => HitIsShown
    <2>0. \A s : Tree!Cardinality(s) = Cardinality(s)
      BY DEF Tree!Cardinality, Cardinality
    <2> SUFFICES ASSUME FrameInv, running = "shown", ~grown, fresh, ~odd, NEW point \in Points
                 PROVE  /\ Cardinality(Tree!Hits(Root, point)) <= 1
                        /\ \A w \in Tree!Hits(Root, point) : \A p \in Tree!Above(w) \cup {w} : ~objs[p].hidden
      BY <2>0 DEF HitIsShown, Tree!HitIsShown, Tree!Settled
    <2>1. IsTree(children) /\ childIds = KidsOf(children) /\ objs \in Objs /\ AllFit
      BY DEF FrameInv
    <2>2. point \in Int \X Int
      BY SetsCounts
    <2> QED BY <2>1, <2>2, FrameHits
  <1> QED BY <1>1, FrameInvHolds, PTL
================================================================================
