---------------------------- MODULE InterfaceProofs ----------------------------
(****************************************************************************)
(* What is proved of the parts of the user interface, for every value of    *)
(* their constants: the parser gives every argument the value that was      *)
(* given for it, a widget that waits for a repack is known at the main      *)
(* panel, a flush makes the terminal show the buffer, and a container gives *)
(* back what was written to it.                                             *)
(*                                                                          *)
(* These parts compute with folds, recursive functions and sequences put    *)
(* together from others.  The provers do not instantiate the library's      *)
(* induction theorems, which take a predicate as a parameter; a set of      *)
(* numbers is not a predicate, so the first lemmas derive induction over    *)
(* sets of numbers, from < being well-founded on Nat, and everything else   *)
(* that goes over the places of a sequence follows from them.               *)
(****************************************************************************)
EXTENDS InterfaceParts, Integers, Sequences, SequencesExt, FiniteSetsExt, FiniteSets,
        WellFoundedInduction, FiniteSetTheorems, SequenceTheorems, TLAPS

------------------------------------------------------------------------------
(* Induction, as a set that has 0 and the successors of its elements.         *)

LEMMA Least ==
  ASSUME NEW T, T \subseteq Nat, T # {}
  PROVE  \E n \in T : \A k \in T : n <= k
  <1> DEFINE R == OpToRel(<, Nat)
  <1>1. IsWellFoundedOn(R, Nat)
    BY NatLessThanWellFounded
  <1>2. PICK n \in T : \A k \in T : ~(<<k, n>> \in R)
    <2> HIDE DEF R
    <2> QED BY <1>1, WFMin
  <1>3. \A k \in T : <<k, n>> \in R <=> k < n
    BY DEF OpToRel
  <1> HIDE DEF R
  <1>4. \A k \in T : ~(k < n)
    BY <1>2, <1>3, Zenon
  <1> QED BY <1>4

LEMMA Induction ==
  ASSUME NEW S, S \subseteq Nat, 0 \in S, \A n \in S : n + 1 \in S
  PROVE  S = Nat
  <1> SUFFICES ASSUME Nat \ S # {} PROVE FALSE
    OBVIOUS
  <1>1. PICK n \in Nat \ S : \A k \in Nat \ S : n <= k
    BY Least
  <1>2. n # 0 /\ n - 1 \in Nat /\ n - 1 \in S
    BY <1>1
  <1> QED BY <1>1, <1>2

------------------------------------------------------------------------------
(* Folds.  A fold over a sequence of n elements is a function of the sets of  *)
(* places it has still to go through, the last one first.                     *)

\* Each of these sets is cut at its largest element.
CutsLast(n, last) == \A k \in 1 .. n : \A s \in SUBSET (1 .. k) : k \in s => last[s] = k

\* What a fold with the step function F comes to, for each set of places.
IsFold(g, S, n, base, F, last) ==
  /\ g \in [SUBSET (1 .. n) -> S]
  /\ \A s \in SUBSET (1 .. n) : g[s] = IF s = {} THEN base ELSE F[<<g[s \ {last[s]}], last[s]>>]

LEMMA FoldExists ==
  ASSUME NEW S, NEW n \in Nat, NEW base \in S, NEW F \in [S \X (1 .. n) -> S],
         NEW last, CutsLast(n, last)
  PROVE  \E g : IsFold(g, S, n, base, F, last)
  <1> DEFINE Right(g, k) == \A s \in SUBSET (1 .. k) : g[s] = IF s = {} THEN base ELSE F[<<g[s \ {last[s]}], last[s]>>]
             Has(k) == \E g \in [SUBSET (1 .. k) -> S] : Right(g, k)
             Done == {j \in Nat : j <= n => Has(j)}
  <1>1. 0 \in Done
    <2> DEFINE g == [s \in SUBSET (1 .. 0) |-> base]
    <2>0. 1 .. 0 = {}
      OBVIOUS
    <2>1. SUBSET (1 .. 0) = {{}}
      BY <2>0, Zenon
    <2>2. g \in [SUBSET (1 .. 0) -> S] /\ Right(g, 0)
      BY <2>1
    <2> QED BY <2>2
  <1>2. ASSUME NEW k \in Done PROVE k + 1 \in Done
    <2> HIDE DEF Has
    <2>0. k \in Nat /\ (k <= n => Has(k))
      OBVIOUS
    <2> SUFFICES ASSUME k + 1 <= n PROVE Has(k + 1)
      BY <2>0
    <2> HIDE DEF Right
    <2>1. k \in Nat /\ k <= n
      BY <2>0
    <2>2. PICK g \in [SUBSET (1 .. k) -> S] : Right(g, k)
      BY <2>0, <2>1 DEF Has
    <2> DEFINE h == [s \in SUBSET (1 .. k + 1) |-> IF k + 1 \in s THEN F[<<g[s \ {k + 1}], k + 1>>] ELSE g[s]]
    <2>3. \A s \in SUBSET (1 .. k + 1) : /\ s \ {k + 1} \in SUBSET (1 .. k)
                                         /\ k + 1 \notin s => s \in SUBSET (1 .. k)
      BY <2>1
    <2>4. k + 1 \in 1 .. n
      BY <2>1
    <2>5. h \in [SUBSET (1 .. k + 1) -> S]
      BY <2>3, <2>4
    <2>6. \A s \in SUBSET (1 .. k) : s \in SUBSET (1 .. k + 1) /\ k + 1 \notin s /\ h[s] = g[s]
      BY <2>1
    <2>7. Right(h, k + 1)
      <3> SUFFICES ASSUME NEW s \in SUBSET (1 .. k + 1)
                   PROVE  h[s] = IF s = {} THEN base ELSE F[<<h[s \ {last[s]}], last[s]>>]
        BY DEF Right
      <3>1. CASE k + 1 \in s
        <4>1. last[s] = k + 1
          BY <2>1, <2>4, <3>1 DEF CutsLast
        <4>2. h[s \ {k + 1}] = g[s \ {k + 1}]
          BY <2>3, <2>6
        <4>3. h[s] = F[<<g[s \ {k + 1}], k + 1>>]
          BY <3>1
        <4> HIDE DEF h
        <4> QED BY <3>1, <4>1, <4>2, <4>3
      <3>2. CASE k + 1 \notin s
        <4>1. s \in SUBSET (1 .. k) /\ h[s] = g[s]
          BY <2>3, <3>2, <2>6
        <4>2. g[s] = IF s = {} THEN base ELSE F[<<g[s \ {last[s]}], last[s]>>]
          BY <2>2, <4>1 DEF Right
        <4>3. h[s \ {last[s]}] = g[s \ {last[s]}]
          BY <4>1, <2>6
        <4> HIDE DEF h
        <4> QED BY <4>1, <4>2, <4>3
      <3> QED BY <3>1, <3>2
    <2> QED BY <2>5, <2>7 DEF Has
  <1>3. Done = Nat
    <2> HIDE DEF Done
    <2>1. Done \subseteq Nat
      BY DEF Done
    <2> QED BY <1>1, <1>2, <2>1, Induction
  <1>4. n \in Done
    BY <1>3
  <1>5. n <= n => Has(n)
    <2> HIDE DEF Has
    <2> QED BY <1>4
  <1>6. n <= n
    OBVIOUS
  <1> QED BY <1>5, <1>6 DEF IsFold

\* The places of the first k elements.
LEMMA NoPlaces ==
  ASSUME NEW n \in Nat
  PROVE  1 .. 0 = {} /\ 1 .. 0 \in SUBSET (1 .. n)
  OBVIOUS

CutsFirst(n, last, k) ==
  /\ 1 .. k \in SUBSET (1 .. n)
  /\ 1 .. k # {}
  /\ last[1 .. k] = k
  /\ (1 .. k) \ {k} = 1 .. k - 1

LEMMA FirstPlaces ==
  ASSUME NEW n \in Nat, NEW last, NEW k \in 1 .. n, CutsLast(n, last)
  PROVE  CutsFirst(n, last, k)
  <1>1. /\ 1 .. k \in SUBSET (1 .. n)
        /\ 1 .. k # {}
        /\ k \in 1 .. k
        /\ (1 .. k) \ {k} = 1 .. k - 1
    OBVIOUS
  <1>2. last[1 .. k] = k
    BY <1>1 DEF CutsLast
  <1> QED BY <1>1, <1>2 DEF CutsFirst

LEMMA LastIn ==
  ASSUME NEW n \in Nat, NEW last, NEW s \in SUBSET (1 .. n), CutsLast(n, last), s # {}
  PROVE  last[s] \in s
  <1> DEFINE Bounds == {k \in Nat : \A y \in s : y <= k}
  <1>1. Bounds \subseteq Nat /\ n \in Bounds
    OBVIOUS
  <1>2. PICK k \in Bounds : \A j \in Bounds : k <= j
    BY <1>1, Least
  <1>3. k \in s
    <2>1. SUFFICES ASSUME k \notin s PROVE FALSE
      OBVIOUS
    <2>2. k \in Nat /\ (\A y \in s : y <= k /\ y # k /\ y \in Nat /\ y >= 1)
      BY <1>2, <2>1
    <2>3. \A y \in s : y <= k - 1
      BY <2>2
    <2>4. k # 0
      <3>1. PICK y \in s : TRUE
        OBVIOUS
      <3> QED BY <2>2, <3>1
    <2>5. k - 1 \in Bounds
      BY <2>2, <2>3, <2>4
    <2> QED BY <1>2, <2>2, <2>5
  <1>4. k \in 1 .. n /\ s \in SUBSET (1 .. k)
    BY <1>2, <1>3
  <1> QED BY <1>3, <1>4 DEF CutsLast

------------------------------------------------------------------------------
(* Sequences put one behind the other.                                        *)

\* The pieces make up whole, and piece k ends at ends[k].
Spans(whole, pieces, ends) ==
  /\ ends \in [0 .. Len(pieces) -> Nat] /\ ends[0] = 0 /\ ends[Len(pieces)] = Len(whole)
  /\ \A k \in 1 .. Len(pieces) :
       /\ ends[k] = ends[k - 1] + Len(pieces[k])
       /\ \A i \in 1 .. Len(pieces[k]) : whole[ends[k - 1] + i] = pieces[k][i]

\* What does not fall from one place to the next does not fall.
LEMMA Rises ==
  ASSUME NEW n \in Nat, NEW f \in [0 .. n -> Nat], NEW i \in 0 .. n, NEW j \in 0 .. n, i <= j,
         \A k \in 1 .. n : f[k - 1] <= f[k]
  PROVE  f[i] <= f[j]
  <1> DEFINE T == {d \in Nat : i + d <= n => f[i] <= f[i + d]}
  <1>1. 0 \in T
    OBVIOUS
  <1>2. ASSUME NEW d \in T PROVE d + 1 \in T
    <2> SUFFICES ASSUME i + (d + 1) <= n PROVE f[i] <= f[i + (d + 1)]
      OBVIOUS
    <2>1. f[i] <= f[i + d]
      OBVIOUS
    <2>2. i + (d + 1) \in 1 .. n /\ (i + (d + 1)) - 1 = i + d
      OBVIOUS
    <2>3. f[i + d] <= f[i + (d + 1)]
      BY <2>2
    <2>4. f[i] \in Nat /\ f[i + d] \in Nat /\ f[i + (d + 1)] \in Nat
      BY <2>2
    <2> QED BY <2>1, <2>3, <2>4
  <1>3. T = Nat
    <2> HIDE DEF T
    <2>1. T \subseteq Nat
      BY DEF T
    <2> QED BY <1>1, <1>2, <2>1, Induction
  <1>4. j - i \in T
    <2> HIDE DEF T
    <2>1. j - i \in Nat
      OBVIOUS
    <2> QED BY <1>3, <2>1
  <1>5. i + (j - i) = j
    OBVIOUS
  <1> QED BY <1>4, <1>5

\* What rises by one from one place to the next counts the places.
LEMMA Counts ==
  ASSUME NEW n \in Nat, NEW f \in [0 .. n -> Nat], NEW i \in 0 .. n, NEW j \in 0 .. n, i <= j,
         \A k \in 1 .. n : k > i => f[k] = f[k - 1] + 1
  PROVE  f[j] = f[i] + (j - i)
  <1> DEFINE T == {d \in Nat : i + d <= n => f[i + d] = f[i] + d}
  <1>1. 0 \in T
    OBVIOUS
  <1>2. ASSUME NEW d \in T PROVE d + 1 \in T
    <2> SUFFICES ASSUME i + (d + 1) <= n PROVE f[i + (d + 1)] = f[i] + (d + 1)
      OBVIOUS
    <2>1. f[i + d] = f[i] + d
      OBVIOUS
    <2>2. i + (d + 1) \in 1 .. n /\ i + (d + 1) > i /\ (i + (d + 1)) - 1 = i + d
      OBVIOUS
    <2>3. f[i + (d + 1)] = f[i + d] + 1
      BY <2>2
    <2>4. f[i] \in Nat
      OBVIOUS
    <2> QED BY <2>1, <2>3, <2>4
  <1>3. T = Nat
    <2> HIDE DEF T
    <2>1. T \subseteq Nat
      BY DEF T
    <2> QED BY <1>1, <1>2, <2>1, Induction
  <1>4. j - i \in T
    <2> HIDE DEF T
    <2>1. j - i \in Nat
      OBVIOUS
    <2> QED BY <1>3, <2>1
  <1>5. i + (j - i) = j
    OBVIOUS
  <1> QED BY <1>4, <1>5

\* The sequences put together from the first pieces.
Joined(h, W, pieces, k) ==
  /\ h \in [0 .. k -> Seq(W)] /\ h[0] = <<>>
  /\ \A i \in 1 .. k : h[i] = h[i - 1] \o pieces[i]

LEMMA JoinedExists ==
  ASSUME NEW W, NEW pieces \in Seq(Seq(W))
  PROVE  \E h : Joined(h, W, pieces, Len(pieces))
  <1> DEFINE n == Len(pieces)
             T == {k \in Nat : k <= n => \E h : Joined(h, W, pieces, k)}
  <1>0. n \in Nat /\ \A k \in 1 .. n : pieces[k] \in Seq(W)
    OBVIOUS
  <1> HIDE DEF n
  <1>1. 0 \in T
    <2>1. Joined([i \in 0 .. 0 |-> <<>>], W, pieces, 0)
      BY DEF Joined
    <2> QED BY <2>1
  <1>2. ASSUME NEW k \in T PROVE k + 1 \in T
    <2> SUFFICES ASSUME k + 1 <= n PROVE \E h : Joined(h, W, pieces, k + 1)
      OBVIOUS
    <2>1. k \in Nat /\ k <= n /\ k + 1 \in 1 .. n
      BY <1>0
    <2>2. PICK g : Joined(g, W, pieces, k)
      BY <2>1
    <2> DEFINE new == g[k] \o pieces[k + 1]
               h == [i \in 0 .. k + 1 |-> IF i = k + 1 THEN new ELSE g[i]]
    <2>3. new \in Seq(W)
      BY <1>0, <2>1, <2>2 DEF Joined
    <2> HIDE DEF new
    <2>4. h \in [0 .. k + 1 -> Seq(W)] /\ h[0] = <<>>
      BY <2>1, <2>2, <2>3 DEF Joined
    <2>5. ASSUME NEW i \in 1 .. k + 1 PROVE h[i] = h[i - 1] \o pieces[i]
      <3>1. CASE i = k + 1
        <4>1. h[i] = new /\ h[i - 1] = g[k]
          BY <2>1, <3>1
        <4> HIDE DEF h
        <4> QED BY <3>1, <4>1 DEF new
      <3>2. CASE i # k + 1
        <4>1. h[i] = g[i] /\ h[i - 1] = g[i - 1] /\ i \in 1 .. k
          BY <2>1, <3>2
        <4> HIDE DEF h
        <4> QED BY <2>2, <4>1 DEF Joined
      <3> QED BY <3>1, <3>2
    <2> HIDE DEF h
    <2>6. Joined(h, W, pieces, k + 1)
      BY <2>4, <2>5 DEF Joined
    <2> QED BY <2>6
  <1>3. T = Nat
    <2> HIDE DEF T
    <2>1. T \subseteq Nat
      BY DEF T
    <2> QED BY <1>1, <1>2, <2>1, Induction
  <1>4. n \in T
    BY <1>0, <1>3
  <1>5. n <= n
    BY <1>0
  <1> QED BY <1>4, <1>5 DEF n

\* FlattenSeq is the sequence put together from all pieces.
LEMMA FlattenJoins ==
  ASSUME NEW W, NEW pieces \in Seq(Seq(W)), NEW h, Joined(h, W, pieces, Len(pieces))
  PROVE  Parser!FlattenSeq(pieces) = h[Len(pieces)]
  <1> DEFINE n == Len(pieces)
             Eq(f) == f = [i \in 1 .. n |-> IF i = 1 THEN pieces[i] ELSE f[i - 1] \o pieces[i]]
             f == CHOOSE f : Eq(f)
             g == [i \in 1 .. n |-> h[i]]
  <1>1. n \in Nat /\ \A k \in 1 .. n : pieces[k] \in Seq(W)
    OBVIOUS
  <1>2. CASE n = 0
    BY <1>2 DEF Parser!FlattenSeq, Joined
  <1>3. CASE n # 0
    <2>1. Parser!FlattenSeq(pieces) = f[n]
      BY <1>3, Zenon DEF Parser!FlattenSeq
    <2> HIDE DEF n, g
    <2>2. ASSUME NEW i \in 1 .. n PROVE g[i] = IF i = 1 THEN pieces[i] ELSE g[i - 1] \o pieces[i]
      <3>1. g[i] = h[i - 1] \o pieces[i] /\ h[0] = <<>>
        BY DEF Joined, g, n
      <3>2. CASE i = 1
        <4>1. pieces[i] \in Seq(W)
          BY <1>1
        <4>2. <<>> \o pieces[i] = pieces[i]
          BY <4>1, ConcatEmptySeq
        <4>3. h[i - 1] = <<>>
          BY <3>1, <3>2
        <4> QED BY <3>1, <3>2, <4>2, <4>3, Zenon
      <3>3. CASE i # 1
        <4>1. i - 1 \in 1 .. n
          BY <1>1, <3>3
        <4>2. g[i - 1] = h[i - 1]
          BY <4>1 DEF g
        <4> QED BY <3>1, <3>3, <4>2
      <3> QED BY <3>2, <3>3
    <2>3. g = [i \in 1 .. n |-> IF i = 1 THEN pieces[i] ELSE g[i - 1] \o pieces[i]]
      <3>1. g = [i \in 1 .. n |-> g[i]]
        BY DEF g
      <3> QED BY <2>2, <3>1
    <2>4. Eq(g)
      BY <2>3
    <2>5. Eq(f)
      <3> HIDE DEF Eq
      <3> QED BY <2>4
    <2> HIDE DEF f
    <2>6. f = [i \in 1 .. n |-> f[i]] /\ \A i \in 1 .. n : f[i] = IF i = 1 THEN pieces[i] ELSE f[i - 1] \o pieces[i]
      BY <2>5
    <2> HIDE DEF Eq
    <2> DEFINE T == {k \in Nat : k \in 1 .. n => f[k] = g[k]}
    <2>7. 0 \in T
      OBVIOUS
    <2>8. ASSUME NEW k \in T PROVE k + 1 \in T
      <3> SUFFICES ASSUME k + 1 \in 1 .. n PROVE f[k + 1] = g[k + 1]
        OBVIOUS
      <3>1. CASE k = 0
        <4>1. 1 \in 1 .. n /\ k + 1 = 1
          BY <3>1
        <4> HIDE DEF T
        <4>2. f[1] = pieces[1] /\ g[1] = pieces[1]
          BY <2>2, <2>6, <4>1
        <4> QED BY <4>1, <4>2
      <3>2. CASE k # 0
        <4>1. k \in 1 .. n /\ f[k] = g[k] /\ k + 1 # 1 /\ (k + 1) - 1 = k
          BY <1>1, <3>2
        <4> HIDE DEF T
        <4>2. f[k + 1] = f[k] \o pieces[k + 1]
          BY <2>6, <4>1
        <4>3. g[k + 1] = g[k] \o pieces[k + 1]
          BY <2>2, <4>1
        <4> QED BY <4>1, <4>2, <4>3
      <3> QED BY <3>1, <3>2
    <2>9. T = Nat
      <3> HIDE DEF T
      <3>1. T \subseteq Nat
        BY DEF T
      <3> QED BY <2>7, <2>8, <3>1, Induction
    <2>10. n \in T /\ n \in 1 .. n
      <3> HIDE DEF T
      <3> QED BY <1>1, <1>3, <2>9
    <2>11. f[n] = g[n]
      BY <2>10
    <2> QED BY <2>1, <2>10, <2>11 DEF g, n
  <1> QED BY <1>1, <1>2, <1>3

\* Each of these sequences starts with the ones before it.
LEMMA JoinedStarts ==
  ASSUME NEW W, NEW pieces \in Seq(Seq(W)), NEW h, Joined(h, W, pieces, Len(pieces)),
         NEW i \in 0 .. Len(pieces), NEW j \in 0 .. Len(pieces), i <= j
  PROVE  Len(h[i]) <= Len(h[j]) /\ \A x \in 1 .. Len(h[i]) : h[j][x] = h[i][x]
  <1> DEFINE n == Len(pieces)
             StartsBefore(k) == Len(h[i]) <= Len(h[k]) /\ \A x \in 1 .. Len(h[i]) : h[k][x] = h[i][x]
             T == {d \in Nat : i + d <= n => StartsBefore(i + d)}
  <1>1. /\ n \in Nat /\ i \in Nat /\ i \in 0 .. n
        /\ \A k \in 1 .. n : pieces[k] \in Seq(W)
        /\ \A k \in 0 .. n : h[k] \in Seq(W) /\ Len(h[k]) \in Nat
        /\ \A k \in 1 .. n : h[k] = h[k - 1] \o pieces[k]
    <2> HIDE DEF T
    <2>1. n \in Nat /\ i \in Nat /\ i \in 0 .. n /\ \A k \in 1 .. n : pieces[k] \in Seq(W)
      OBVIOUS
    <2>2. h \in [0 .. n -> Seq(W)] /\ \A k \in 1 .. n : h[k] = h[k - 1] \o pieces[k]
      BY DEF Joined
    <2> HIDE DEF n
    <2>3. ASSUME NEW k \in 0 .. n PROVE h[k] \in Seq(W) /\ Len(h[k]) \in Nat
      <3>1. h[k] \in Seq(W)
        BY <2>2
      <3> QED BY <3>1, LenProperties
    <2> QED BY <2>1, <2>2, <2>3
  <1> HIDE DEF n
  <1>2. 0 \in T
    BY <1>1
  <1>3. ASSUME NEW d \in T PROVE d + 1 \in T
    <2> HIDE DEF StartsBefore
    <2> SUFFICES ASSUME i + (d + 1) <= n PROVE StartsBefore(i + (d + 1))
      OBVIOUS
    <2>1. d \in Nat /\ i + d <= n /\ StartsBefore(i + d)
      BY <1>1
    <2> HIDE DEF T
    <2> DEFINE k == i + d
    <2>2. k \in 0 .. n /\ k + 1 \in 1 .. n /\ i + (d + 1) = k + 1 /\ (k + 1) - 1 = k /\ StartsBefore(k)
      <3>1. k \in 0 .. n /\ k + 1 \in 1 .. n /\ i + (d + 1) = k + 1 /\ (k + 1) - 1 = k
        BY <1>1, <2>1
      <3> QED BY <2>1, <3>1
    <2> HIDE DEF k
    <2>3. h[k + 1] = h[k] \o pieces[k + 1] /\ pieces[k + 1] \in Seq(W) /\ h[k] \in Seq(W) /\ h[i] \in Seq(W)
      BY <1>1, <2>2
    <2>4. Len(h[k]) <= Len(h[k + 1]) /\ \A x \in 1 .. Len(h[k]) : h[k + 1][x] = h[k][x]
      <3> DEFINE s == h[k]
                 t == pieces[k + 1]
      <3>1. /\ Len(s) \in Nat /\ Len(t) \in Nat /\ Len(s \o t) = Len(s) + Len(t)
            /\ \A y \in 1 .. Len(s) + Len(t) : (s \o t)[y] = IF y <= Len(s) THEN s[y] ELSE t[y - Len(s)]
        BY <2>3, ConcatProperties, LenProperties
      <3> HIDE DEF s, t
      <3>2. Len(s) <= Len(s \o t) /\ \A x \in 1 .. Len(s) : (s \o t)[x] = s[x]
        BY <3>1
      <3>3. h[k + 1] = s \o t
        BY <2>3 DEF s, t
      <3> QED BY <3>2, <3>3 DEF s
    <2>5. Len(h[i]) <= Len(h[k]) /\ \A x \in 1 .. Len(h[i]) : h[k][x] = h[i][x]
      BY <2>2 DEF StartsBefore
    <2>6. Len(h[i]) \in Nat /\ Len(h[k]) \in Nat /\ Len(h[k + 1]) \in Nat
      BY <1>1, <2>2
    <2>7. StartsBefore(k + 1)
      BY <2>4, <2>5, <2>6 DEF StartsBefore
    <2> QED BY <2>2, <2>7
  <1>4. T = Nat
    <2> HIDE DEF T
    <2>1. T \subseteq Nat
      BY DEF T
    <2> QED BY <1>2, <1>3, <2>1, Induction
  <1>5. j - i \in T
    <2> HIDE DEF T
    <2>1. j - i \in Nat
      OBVIOUS
    <2> QED BY <1>4, <2>1
  <1>6. i + (j - i) = j /\ j <= n
    BY DEF n
  <1>7. StartsBefore(j)
    <2> HIDE DEF StartsBefore
    <2> QED BY <1>5, <1>6
  <1> QED BY <1>7

\* FlattenSeq puts its pieces one behind the other.
LEMMA FlattenSpans ==
  ASSUME NEW W, NEW pieces \in Seq(Seq(W))
  PROVE  /\ Parser!FlattenSeq(pieces) \in Seq(W)
         /\ \E ends : Spans(Parser!FlattenSeq(pieces), pieces, ends)
  <1> DEFINE n == Len(pieces)
             whole == Parser!FlattenSeq(pieces)
  <1>1. PICK h : Joined(h, W, pieces, n)
    BY JoinedExists
  <1>2. whole = h[n]
    BY <1>1, FlattenJoins
  <1>0. n \in Nat /\ \A k \in 1 .. n : pieces[k] \in Seq(W)
    OBVIOUS
  <1>3. /\ n \in Nat
        /\ \A k \in 1 .. n : pieces[k] \in Seq(W) /\ h[k] = h[k - 1] \o pieces[k]
        /\ \A k \in 0 .. n : h[k] \in Seq(W) /\ Len(h[k]) \in Nat
        /\ h[0] = <<>>
    <2> HIDE DEF n
    <2>1. h \in [0 .. n -> Seq(W)] /\ h[0] = <<>> /\ \A k \in 1 .. n : h[k] = h[k - 1] \o pieces[k]
      BY <1>1 DEF Joined
    <2>2. \A k \in 0 .. n : h[k] \in Seq(W)
      BY <2>1
    <2>3. \A w \in Seq(W) : Len(w) \in Nat
      OBVIOUS
    <2> QED BY <1>0, <2>1, <2>2, <2>3
  <1>4. \A i, j \in 0 .. n : i <= j => Len(h[i]) <= Len(h[j]) /\ \A x \in 1 .. Len(h[i]) : h[j][x] = h[i][x]
    <2> SUFFICES ASSUME NEW i \in 0 .. Len(pieces), NEW j \in 0 .. Len(pieces), i <= j
                 PROVE  Len(h[i]) <= Len(h[j]) /\ \A x \in 1 .. Len(h[i]) : h[j][x] = h[i][x]
      OBVIOUS
    <2>1. Joined(h, W, pieces, Len(pieces))
      BY <1>1
    <2> QED BY <2>1, JoinedStarts
  <1> HIDE DEF n, whole
  <1> DEFINE ends == [k \in 0 .. n |-> Len(h[k])]
  <1>5. ends \in [0 .. n -> Nat] /\ ends[0] = 0 /\ ends[n] = Len(whole)
    BY <1>2, <1>3
  <1>6. ASSUME NEW k \in 1 .. n
        PROVE  /\ ends[k] = ends[k - 1] + Len(pieces[k])
               /\ \A i \in 1 .. Len(pieces[k]) : whole[ends[k - 1] + i] = pieces[k][i]
    <2>1. k - 1 \in 0 .. n /\ k \in 0 .. n /\ n \in 0 .. n /\ k <= n
      BY <1>3
    <2>2. ends[k] = Len(h[k]) /\ ends[k - 1] = Len(h[k - 1])
      BY <2>1
    <2> HIDE DEF ends
    <2>3. h[k] = h[k - 1] \o pieces[k] /\ h[k - 1] \in Seq(W) /\ pieces[k] \in Seq(W)
      BY <1>3, <2>1
    <2>4. Len(h[k]) = Len(h[k - 1]) + Len(pieces[k])
      BY <2>3
    <2>5. ASSUME NEW i \in 1 .. Len(pieces[k]) PROVE whole[ends[k - 1] + i] = pieces[k][i]
      <3> DEFINE a == Len(h[k - 1])
                 b == Len(pieces[k])
      <3>0. a \in Nat /\ b \in Nat
        BY <2>3
      <3>a. a + i \in 1 .. a + b /\ ~(a + i <= a) /\ (a + i) - a = i
        <4> HIDE DEF a
        <4> QED BY <3>0
      <3>b. (h[k - 1] \o pieces[k])[a + i] = pieces[k][i]
        <4>1. \A y \in 1 .. a + b : (h[k - 1] \o pieces[k])[y] = IF y <= a THEN h[k - 1][y] ELSE pieces[k][y - a]
          BY <2>3, ConcatProperties
        <4> HIDE DEF a, b
        <4> QED BY <3>a, <4>1
      <3>1. h[k][a + i] = pieces[k][i] /\ a + i \in 1 .. Len(h[k])
        <4> HIDE DEF b
        <4> QED BY <2>3, <2>4, <3>a, <3>b DEF b
      <3>2. h[n][Len(h[k - 1]) + i] = h[k][Len(h[k - 1]) + i]
        BY <1>4, <2>1, <3>1
      <3> QED BY <1>2, <2>2, <3>1, <3>2
    <2> QED BY <2>2, <2>4, <2>5
  <1> HIDE DEF ends
  <1>7. Spans(whole, pieces, ends)
    BY <1>5, <1>6 DEF Spans, n
  <1>8. whole \in Seq(W)
    BY <1>2, <1>3
  <1> QED BY <1>7, <1>8 DEF whole

\* Every piece ends within the whole.
LEMMA Within ==
  ASSUME NEW W, NEW whole \in Seq(W), NEW pieces \in Seq(Seq(W)), NEW ends, Spans(whole, pieces, ends),
         NEW i \in 1 .. Len(pieces)
  PROVE  /\ Len(pieces) \in Nat /\ Len(whole) \in Nat /\ Len(pieces[i]) \in Nat
         /\ ends[i - 1] \in Nat /\ ends[i] = ends[i - 1] + Len(pieces[i]) /\ ends[i] <= Len(whole)
  <1> DEFINE n == Len(pieces)
  <1>1. n \in Nat /\ Len(whole) \in Nat
    OBVIOUS
  <1>2. \A k \in 1 .. n : Len(pieces[k]) \in Nat
    OBVIOUS
  <1>3. /\ ends \in [0 .. n -> Nat] /\ ends[n] = Len(whole)
        /\ \A k \in 1 .. n : ends[k] = ends[k - 1] + Len(pieces[k])
    BY DEF Spans
  <1> HIDE DEF n
  <1>4. ASSUME NEW k \in 1 .. n PROVE ends[k - 1] \in Nat /\ ends[k - 1] <= ends[k]
    <2>1. k - 1 \in 0 .. n /\ Len(pieces[k]) \in Nat
      BY <1>1, <1>2
    <2>2. ends[k - 1] \in Nat /\ ends[k] = ends[k - 1] + Len(pieces[k])
      BY <1>3, <2>1
    <2> QED BY <2>1, <2>2
  <1>5. i \in 1 .. n
    BY DEF n
  <1>6. ends[i] <= ends[n]
    <2>1. i \in 0 .. n /\ n \in 0 .. n /\ i <= n
      BY <1>1, <1>5
    <2> QED BY <1>1, <1>3, <1>4, <2>1, Rises
  <1> QED BY <1>1, <1>2, <1>3, <1>4, <1>5, <1>6 DEF n

------------------------------------------------------------------------------
(* A command line and its cut.                                                *)

Declaration == [name : Names, type : {"BOOLEAN", "STRING", "INTEGER"}, required : BOOLEAN]
Given == {Unset, Parser!Flipped} \cup Texts \cup Numbers
Word == Given \cup {Parser!Flag(n) : n \in Names}

\* Arguments of different names, the optional ones first.
Arguments(args, optional) ==
  /\ args \in Seq(Declaration) /\ optional \in 0 .. Len(args)
  /\ \A i \in 1 .. Len(args) : args[i].required <=> i > optional
  /\ \A i, j \in 1 .. Len(args) : args[i].name = args[j].name => i = j

\* The words that give an argument the value w.
Gave(o, w, words) ==
  \/ w = Unset /\ ~o.required /\ words = <<>>
  \/ w # Unset /\ o.required /\ o.type # "BOOLEAN" /\ words = <<w>> /\ Parser!Accepts(o, w)
  \/ w = Parser!Flipped /\ w # Unset /\ ~o.required /\ o.type = "BOOLEAN" /\ words = <<Parser!Flag(o.name)>>
  \/ w # Unset /\ ~o.required /\ o.type # "BOOLEAN" /\ words = <<Parser!Flag(o.name), w>> /\ Parser!Accepts(o, w)

\* The line gives the arguments the values wanted, each in its piece.
Line(args, optional, wanted, pieces, line, ends) ==
  /\ Arguments(args, optional)
  /\ pieces \in Seq(Seq(Word)) /\ Len(pieces) = Len(args) /\ line \in Seq(Word)
  /\ \A i \in 1 .. Len(args) : Gave(args[i], wanted[args[i].name], pieces[i])
  /\ Spans(line, pieces, ends)

\* What it says of the words of one argument, and how far they reach.
LEMMA Spoken ==
  ASSUME NEW args, NEW optional, NEW wanted, NEW pieces, NEW line, NEW ends,
         Line(args, optional, wanted, pieces, line, ends), NEW i \in 1 .. Len(args)
  PROVE  /\ Len(args) \in Nat /\ optional \in 0 .. Len(args)
         /\ ends \in [0 .. Len(args) -> Nat] /\ ends[0] = 0 /\ ends[Len(args)] = Len(line) /\ Len(line) \in Nat
         /\ args[i] \in Declaration /\ (args[i].required <=> i > optional)
         /\ pieces[i] \in Seq(Word) /\ Len(pieces[i]) \in Nat
         /\ ends[i - 1] \in Nat /\ ends[i] = ends[i - 1] + Len(pieces[i]) /\ ends[i] <= Len(line)
         /\ \A x \in 1 .. Len(pieces[i]) : line[ends[i - 1] + x] = pieces[i][x]
  <1>1. /\ Len(args) \in Nat /\ optional \in 0 .. Len(args)
        /\ args[i] \in Declaration /\ (args[i].required <=> i > optional)
    BY DEF Line, Arguments
  <1>2. line \in Seq(Word) /\ pieces \in Seq(Seq(Word)) /\ Len(pieces) = Len(args) /\ Spans(line, pieces, ends)
    BY DEF Line
  <1>3. \A k \in 1 .. Len(args) : pieces[k] \in Seq(Word) /\ Len(pieces[k]) \in Nat
    BY <1>2
  <1>4. /\ ends \in [0 .. Len(args) -> Nat] /\ ends[0] = 0 /\ ends[Len(args)] = Len(line) /\ Len(line) \in Nat
        /\ \A x \in 1 .. Len(pieces[i]) : line[ends[i - 1] + x] = pieces[i][x]
    <2>1. Len(line) \in Nat /\ i \in 1 .. Len(pieces)
      BY <1>2
    <2> QED BY <1>2, <2>1 DEF Spans
  <1>5. ends[i - 1] \in Nat /\ ends[i] = ends[i - 1] + Len(pieces[i]) /\ ends[i] <= Len(line)
    BY <1>2, Within
  <1> QED BY <1>1, <1>3, <1>4, <1>5

\* The pieces are what the cut where they end has as parts.
LEMMA PartIs ==
  ASSUME NEW args, NEW optional, NEW wanted, NEW pieces, NEW line, NEW ends,
         Line(args, optional, wanted, pieces, line, ends), NEW i \in 1 .. Len(args)
  PROVE  Parser!Part(line, ends, i) = pieces[i]
  <1> DEFINE s == ends[i - 1]
             t == pieces[i]
             p == SubSeq(line, s + 1, ends[i])
  <1>1. /\ s \in Nat /\ ends[i] = s + Len(t) /\ ends[i] <= Len(line) /\ t \in Seq(Word) /\ Len(t) \in Nat
        /\ Len(line) \in Nat
        /\ \A x \in 1 .. Len(t) : line[s + x] = t[x]
    BY Spoken
  <1>2. line \in Seq(Word)
    BY DEF Line
  <1> HIDE DEF s, t
  <1>3. p \in Seq(Word) /\ Len(p) = Len(t) /\ \A x \in 1 .. Len(t) : p[x] = line[s + x]
    <2>1. \A x \in s + 1 .. s + Len(t) : line[x] \in Word
      BY <1>1, <1>2
    <2>2. p \in Seq(Word) /\ Len(p) = Len(t)
      BY <1>1, <2>1
    <2>3. ASSUME NEW x \in 1 .. Len(t) PROVE p[x] = line[s + x]
      BY <1>1, <1>2
    <2> QED BY <2>2, <2>3
  <1> HIDE DEF p
  <1>4. \A x \in 1 .. Len(p) : p[x] = t[x]
    BY <1>1, <1>3
  <1>5. p = t
    BY <1>1, <1>3, <1>4, SeqEqual
  <1> QED BY <1>5 DEF Parser!Part, p, s, t

\* The words that give a value match the pattern of the argument.
LEMMA GavePattern ==
  ASSUME NEW o, NEW w, NEW words, Gave(o, w, words), o.required \in BOOLEAN
  PROVE  Parser!Pattern(o, words)
  <1>1. CASE ~o.required /\ words = <<>>
    BY <1>1 DEF Parser!Pattern, Parser!BooleanPattern, Parser!OptionPattern
  <1>2. CASE o.required /\ words = <<w>> /\ Parser!Accepts(o, w)
    <2>1. Len(words) = 1 /\ words[1] = w
      BY <1>2
    <2> QED BY <1>2, <2>1 DEF Parser!Pattern, Parser!RequiredPattern
  <1>3. CASE ~o.required /\ o.type = "BOOLEAN" /\ words = <<Parser!Flag(o.name)>>
    <2>1. Len(words) = 1 /\ words[1] = Parser!Flag(o.name)
      BY <1>3
    <2> QED BY <1>3, <2>1 DEF Parser!Pattern, Parser!BooleanPattern, Parser!Flagged
  <1>4. CASE ~o.required /\ o.type # "BOOLEAN" /\ words = <<Parser!Flag(o.name), w>> /\ Parser!Accepts(o, w)
    <2>1. Len(words) = 2 /\ words[1] = Parser!Flag(o.name) /\ words[2] = w
      BY <1>4
    <2> QED BY <1>4, <2>1 DEF Parser!Pattern, Parser!OptionPattern, Parser!Flagged
  <1> QED BY <1>1, <1>2, <1>3, <1>4 DEF Gave

LEMMA CutIs ==
  ASSUME NEW args, NEW optional, NEW wanted, NEW pieces, NEW line, NEW ends,
         Line(args, optional, wanted, pieces, line, ends)
  PROVE  ends \in Parser!Cuts(args, line)
  <1>1. /\ ends \in [0 .. Len(args) -> Nat] /\ ends[0] = 0 /\ ends[Len(args)] = Len(line)
        /\ Len(line) \in Nat /\ Len(args) \in Nat
    BY DEF Line, Spans, Arguments
  <1>2. ASSUME NEW i \in 1 .. Len(args)
        PROVE  ends[i - 1] <= ends[i] /\ ends[i] <= Len(line) /\ Parser!Pattern(args[i], Parser!Part(line, ends, i))
    <2>1. ends[i - 1] \in Nat /\ ends[i] = ends[i - 1] + Len(pieces[i]) /\ Len(pieces[i]) \in Nat /\ ends[i] <= Len(line)
      BY Spoken
    <2>2. Gave(args[i], wanted[args[i].name], pieces[i])
      BY DEF Line
    <2>3. Parser!Pattern(args[i], pieces[i])
      <3>1. args[i].required \in BOOLEAN
        BY Spoken DEF Declaration
      <3> QED BY <2>2, <3>1, GavePattern
    <2> QED BY <2>1, <2>3, PartIs
  <1>3. ends \in [0 .. Len(args) -> 0 .. Len(line)]
    <2>1. ASSUME NEW i \in 0 .. Len(args) PROVE ends[i] \in 0 .. Len(line)
      <3>1. CASE i = 0
        BY <1>1, <3>1
      <3>2. CASE i # 0
        BY <1>1, <1>2, <3>2
      <3> QED BY <3>1, <3>2
    <2> QED BY <1>1, <2>1
  <1> QED BY <1>1, <1>2, <1>3, Zenon DEF Parser!Cuts

\* The parts of any cut.
LEMMA OtherCut ==
  ASSUME NEW args, NEW optional, NEW line \in Seq(Word), NEW cut \in Parser!Cuts(args, line), Arguments(args, optional)
  PROVE  /\ Len(args) \in Nat /\ Len(line) \in Nat
         /\ cut \in [0 .. Len(args) -> Nat] /\ cut[0] = 0 /\ cut[Len(args)] = Len(line)
         /\ \A i \in 1 .. Len(args) :
              /\ cut[i - 1] \in Nat /\ cut[i] \in Nat /\ cut[i - 1] <= cut[i] /\ cut[i] <= Len(line)
              /\ args[i].required => cut[i] = cut[i - 1] + 1
              /\ ~args[i].required /\ cut[i] # cut[i - 1] =>
                   /\ cut[i] = cut[i - 1] + (IF args[i].type = "BOOLEAN" THEN 1 ELSE 2)
                   /\ line[cut[i - 1] + 1] = Parser!Flag(args[i].name)
  <1>1. /\ Len(args) \in Nat /\ Len(line) \in Nat
        /\ cut \in [0 .. Len(args) -> 0 .. Len(line)] /\ cut[0] = 0 /\ cut[Len(args)] = Len(line)
        /\ \A i \in 1 .. Len(args) : cut[i - 1] <= cut[i] /\ Parser!Pattern(args[i], Parser!Part(line, cut, i))
    <2>1. Len(args) \in Nat /\ Len(line) \in Nat
      BY DEF Arguments
    <2> QED BY <2>1, Zenon DEF Parser!Cuts
  <1>2. ASSUME NEW i \in 1 .. Len(args)
        PROVE  /\ cut[i - 1] \in Nat /\ cut[i] \in Nat /\ cut[i - 1] <= cut[i] /\ cut[i] <= Len(line)
               /\ args[i].required => cut[i] = cut[i - 1] + 1
               /\ ~args[i].required /\ cut[i] # cut[i - 1] =>
                    /\ cut[i] = cut[i - 1] + (IF args[i].type = "BOOLEAN" THEN 1 ELSE 2)
                    /\ line[cut[i - 1] + 1] = Parser!Flag(args[i].name)
    <2> DEFINE s == cut[i - 1]
               t == cut[i]
               part == SubSeq(line, s + 1, t)
    <2>1. s \in Nat /\ t \in Nat /\ s <= t /\ t <= Len(line) /\ Parser!Pattern(args[i], part)
      BY <1>1 DEF Parser!Part
    <2> HIDE DEF s, t
    <2>2. Len(part) = t - s /\ (s < t => part[1] = line[s + 1]) /\ (s = t => part = <<>>) /\ (part = <<>> => s = t)
      <3>1. Len(part) = t - s
        BY <1>1, <2>1
      <3>2. s < t => part[1] = line[s + 1]
        BY <1>1, <2>1
      <3>3. s = t => part = <<>>
        BY <1>1, <2>1
      <3> HIDE DEF part
      <3>4. part = <<>> => s = t
        BY <2>1, <3>1
      <3> QED BY <3>1, <3>2, <3>3, <3>4
    <2> HIDE DEF part
    <2>3. args[i].required => t = s + 1
      BY <2>1, <2>2 DEF Parser!Pattern, Parser!RequiredPattern
    <2>4. ~args[i].required /\ t # s => /\ t = s + (IF args[i].type = "BOOLEAN" THEN 1 ELSE 2)
                                        /\ line[s + 1] = Parser!Flag(args[i].name)
      BY <2>1, <2>2 DEF Parser!Pattern, Parser!BooleanPattern, Parser!OptionPattern, Parser!Flagged
    <2> QED BY <2>1, <2>3, <2>4 DEF s, t
  <1> QED BY <1>1, <1>2

\* Two cuts do not part: who leaves out an option whose flag is there can give
\* that word to no argument but a required one, and these take one word each.
LEMMA CutsStayTogether ==
  ASSUME NEW args, NEW optional, NEW line \in Seq(Word), Arguments(args, optional),
         NEW cut \in Parser!Cuts(args, line), NEW other \in Parser!Cuts(args, line),
         NEW i \in 1 .. Len(args), cut[i - 1] = other[i - 1]
  PROVE  ~(cut[i] < other[i])
  <1> DEFINE n == Len(args)
             s == cut[i - 1]
  <1> SUFFICES ASSUME cut[i] < other[i] PROVE FALSE
    OBVIOUS
  <1>1. /\ n \in Nat /\ optional \in 0 .. n /\ i \in 1 .. n /\ s \in Nat
        /\ cut \in [0 .. n -> Nat] /\ other \in [0 .. n -> Nat] /\ cut[n] = other[n]
        /\ \A k \in 1 .. n : args[k].required <=> k > optional
        /\ \A k \in 1 .. n : args[k].name = args[i].name => k = i
    <2>1. /\ n \in Nat /\ cut \in [0 .. n -> Nat] /\ other \in [0 .. n -> Nat] /\ cut[n] = other[n] /\ s \in Nat
      BY OtherCut
    <2>2. /\ optional \in 0 .. n
          /\ \A k \in 1 .. n : args[k].required <=> k > optional
          /\ \A k \in 1 .. n : args[k].name = args[i].name => k = i
      BY DEF Arguments
    <2> QED BY <2>1, <2>2
  <1>2. \A k \in 1 .. n : /\ cut[k - 1] <= cut[k] /\ other[k - 1] <= other[k]
                          /\ k > optional => cut[k] = cut[k - 1] + 1 /\ other[k] = other[k - 1] + 1
    <2>1. \A k \in 1 .. n : cut[k - 1] <= cut[k] /\ (args[k].required => cut[k] = cut[k - 1] + 1)
      BY OtherCut
    <2>2. \A k \in 1 .. n : other[k - 1] <= other[k] /\ (args[k].required => other[k] = other[k - 1] + 1)
      BY OtherCut
    <2> HIDE DEF n
    <2> QED BY <1>1, <2>1, <2>2
  <1>3. ~args[i].required /\ cut[i] = s /\ other[i] > s /\ line[s + 1] = Parser!Flag(args[i].name)
    <2> DEFINE words == IF args[i].type = "BOOLEAN" THEN 1 ELSE 2
    <2>1. /\ args[i].required => cut[i] = s + 1
          /\ ~args[i].required /\ cut[i] # s => cut[i] = s + words
      BY OtherCut
    <2>2. /\ args[i].required => other[i] = s + 1
          /\ ~args[i].required /\ other[i] # s => other[i] = s + words /\ line[s + 1] = Parser!Flag(args[i].name)
      BY OtherCut
    <2>3. cut[i] \in Nat /\ other[i] \in Nat /\ s \in Nat /\ s <= cut[i] /\ words \in Nat
      <3>1. words \in Nat
        OBVIOUS
      <3> HIDE DEF n, words
      <3>2. i \in 0 .. n
        BY <1>1
      <3> QED BY <1>1, <1>2, <3>1, <3>2
    <2> HIDE DEF s, words
    <2>4. ~args[i].required
      BY <2>1, <2>2, <2>3
    <2>5. cut[i] = s
      BY <2>1, <2>2, <2>3, <2>4
    <2>6. other[i] # s
      BY <2>3, <2>5
    <2> QED BY <2>2, <2>3, <2>4, <2>5, <2>6
  <1> HIDE DEF s
  <1>4. i <= optional
    BY <1>1, <1>3
  <1> DEFINE T == {d \in Nat : i + d <= optional => cut[i + d] = s}
  <1>5. 0 \in T
    BY <1>1, <1>3
  <1>6. ASSUME NEW d \in T PROVE d + 1 \in T
    <2> SUFFICES ASSUME i + (d + 1) <= optional PROVE cut[i + (d + 1)] = s
      OBVIOUS
    <2> DEFINE k == i + (d + 1)
    <2>1. k \in 1 .. n /\ k # i /\ ~args[k].required /\ cut[k - 1] = s
      <3>1. d \in Nat /\ k \in 1 .. n /\ k # i /\ k <= optional /\ k - 1 = i + d /\ i + d <= optional
        BY <1>1
      <3>2. cut[i + d] = s
        BY <3>1
      <3> HIDE DEF T, k
      <3> QED BY <1>1, <3>1, <3>2
    <2> HIDE DEF T, k
    <2>2. cut[k] # s => line[s + 1] = Parser!Flag(args[k].name)
      BY <2>1, OtherCut
    <2>3. cut[k] = s
      <3> SUFFICES ASSUME Parser!Flag(args[i].name) = Parser!Flag(args[k].name) PROVE FALSE
        BY <1>3, <2>2
      <3>1. args[i].name = args[k].name
        BY DEF Parser!Flag
      <3> QED BY <1>1, <2>1, <3>1
    <2> QED BY <2>3 DEF k
  <1>7. T = Nat
    <2> HIDE DEF T
    <2>1. T \subseteq Nat
      BY DEF T
    <2> QED BY <1>5, <1>6, <2>1, Induction
  <1>8. cut[optional] = s
    <2>1. optional - i \in Nat
      BY <1>1, <1>4
    <2>2. optional - i \in T
      <3> HIDE DEF T
      <3> QED BY <1>7, <2>1
    <2>3. i + (optional - i) = optional
      BY <1>1
    <2> QED BY <1>1, <2>2, <2>3
  <1> HIDE DEF T, n
  <1>9. optional <= n /\ n \in 0 .. n /\ i \in 0 .. n
    BY <1>1
  <1>10. cut[n] = cut[optional] + (n - optional) /\ other[n] = other[optional] + (n - optional)
    <2>1. optional \in 0 .. n
      BY <1>1
    <2>2. \A k \in 1 .. n : k > optional => cut[k] = cut[k - 1] + 1
      BY <1>2
    <2>3. \A k \in 1 .. n : k > optional => other[k] = other[k - 1] + 1
      BY <1>2
    <2>4. cut[n] = cut[optional] + (n - optional)
      BY <1>1, <1>9, <2>1, <2>2, Counts
    <2>5. other[n] = other[optional] + (n - optional)
      BY <1>1, <1>9, <2>1, <2>3, Counts
    <2> QED BY <2>4, <2>5
  <1>11. other[i] <= other[optional]
    BY <1>1, <1>2, <1>4, <1>9, Rises
  <1>12. other[optional] \in Nat /\ other[i] \in Nat
    BY <1>1, <1>9
  <1>13. cut[optional] + (n - optional) = other[optional] + (n - optional) /\ cut[optional] \in Nat /\ n - optional \in Nat
    <2>1. cut[optional] \in Nat /\ n - optional \in Nat
      BY <1>1, <1>9
    <2>2. cut[n] = other[n]
      BY <1>1
    <2> QED BY <1>10, <2>1, <2>2
  <1>14. cut[optional] = other[optional]
    BY <1>12, <1>13
  <1> QED BY <1>1, <1>3, <1>8, <1>11, <1>12, <1>14

\* A command line can be read in one way only (combinePatterns), whatever the
\* arguments and the words, also when a value looks like an option: the order in
\* which regex_match tries the alternatives does not matter.
THEOREM OneReading ==
  ASSUME NEW args, NEW optional, NEW line \in Seq(Word), Arguments(args, optional),
         NEW cut \in Parser!Cuts(args, line), NEW other \in Parser!Cuts(args, line)
  PROVE  cut = other
  <1> DEFINE n == Len(args)
             T == {i \in Nat : i \in 0 .. n => cut[i] = other[i]}
  <1>1. n \in Nat /\ cut \in [0 .. n -> Nat] /\ other \in [0 .. n -> Nat] /\ cut[0] = 0 /\ other[0] = 0
    BY OtherCut
  <1>2. 0 \in T
    BY <1>1
  <1>3. ASSUME NEW i \in T PROVE i + 1 \in T
    <2> SUFFICES ASSUME i + 1 \in 0 .. n PROVE cut[i + 1] = other[i + 1]
      OBVIOUS
    <2>1. i \in 0 .. n /\ cut[i] = other[i] /\ i + 1 \in 1 .. n /\ (i + 1) - 1 = i
      BY <1>1
    <2> HIDE DEF T
    <2>2. ~(cut[i + 1] < other[i + 1]) /\ ~(other[i + 1] < cut[i + 1])
      BY <2>1, CutsStayTogether
    <2>3. cut[i + 1] \in Nat /\ other[i + 1] \in Nat
      BY <1>1
    <2> QED BY <2>2, <2>3
  <1>4. T = Nat
    <2> HIDE DEF T
    <2>1. T \subseteq Nat
      BY DEF T
    <2> QED BY <1>2, <1>3, <2>1, Induction
  <1>5. \A i \in 0 .. n : cut[i] = other[i]
    BY <1>4
  <1> HIDE DEF T, n
  <1> QED BY <1>1, <1>5

\* The match of a line that gives the arguments their values.
LEMMA FirstIs ==
  ASSUME NEW args, NEW optional, NEW wanted, NEW pieces, NEW line, NEW ends,
         Line(args, optional, wanted, pieces, line, ends)
  PROVE  Parser!MatchAll(args, line) =
           <<Parser!FlattenSeq([i \in 1 .. Len(args) |-> Parser!Captured(args[i], pieces[i])])>>
  <1> DEFINE cuts == Parser!Cuts(args, line)
             Groups(cut) == Parser!FlattenSeq([i \in 1 .. Len(args) |-> Parser!Captured(args[i], Parser!Part(line, cut, i))])
  <1>1. ends \in cuts
    BY CutIs
  <1>2. \A cut \in cuts : cut = ends
    BY <1>1, OneReading DEF Line
  <1>3. Parser!FirstTried(cuts) = ends
    <2> HIDE DEF cuts
    <2>1. cuts \ {ends} = {}
      BY <1>2
    <2> DEFINE First(cut) == \A other \in cuts \ {cut} : Parser!TriedBefore(cut, other)
    <2>2. First(ends)
      BY <2>1
    <2> HIDE DEF First
    <2>3. (CHOOSE cut \in cuts : First(cut)) \in cuts
      BY <1>1, <2>2
    <2> QED BY <1>2, <2>3 DEF First, Parser!FirstTried
  <1>4. Parser!MatchAll(args, line) = <<Groups(Parser!FirstTried(cuts))>>
    BY <1>1 DEF Parser!MatchAll
  <1>5. \A i \in 1 .. Len(args) : Parser!Part(line, ends, i) = pieces[i]
    BY PartIs
  <1> HIDE DEF cuts
  <1>6. [i \in 1 .. Len(args) |-> Parser!Captured(args[i], Parser!Part(line, ends, i))] =
          [i \in 1 .. Len(args) |-> Parser!Captured(args[i], pieces[i])]
    BY <1>5
  <1>7. Groups(ends) = Parser!FlattenSeq([i \in 1 .. Len(args) |-> Parser!Captured(args[i], pieces[i])])
    BY <1>6
  <1> HIDE DEF Groups
  <1> QED BY <1>3, <1>4, <1>7

------------------------------------------------------------------------------
(* The groups of the match and what they are given to.                        *)

LEMMA OneGroup ==
  ASSUME NEW W, NEW a \in W, NEW s, s = <<a>>
  PROVE  s \in Seq(W) /\ Len(s) = 1 /\ s[1] = a
  OBVIOUS

LEMMA TwoGroups ==
  ASSUME NEW W, NEW a \in W, NEW b \in W, NEW s, s = <<a, b>>
  PROVE  s \in Seq(W) /\ Len(s) = 2 /\ s[1] = a /\ s[2] = b
  OBVIOUS

\* The groups an argument captures: as many as it counts, the first of them
\* empty if it was not given, the last of them its value.
Captures(o, w, groups) ==
  /\ groups \in Seq(Word) /\ Len(groups) = Parser!GroupCount(o) /\ Parser!GroupCount(o) \in 1 .. 2
  /\ groups[1] = Unset <=> w = Unset
  /\ w # Unset => w = IF o.type = "BOOLEAN" THEN Parser!Flipped ELSE groups[Parser!GroupCount(o)]

LEMMA CapturedIs ==
  ASSUME NEW o \in Declaration, NEW w \in Given, NEW words \in Seq(Word), Gave(o, w, words)
  PROVE  Captures(o, w, Parser!Captured(o, words))
  <1> DEFINE groups == Parser!Captured(o, words)
  <1>1. /\ Unset \in Word /\ w \in Word /\ Parser!Flag(o.name) \in Word /\ Parser!Flag(o.name) # Unset
        /\ o.required \in BOOLEAN
    BY UnsetIsNoWord DEF Declaration, Word, Given
  <1>2. Parser!GroupCount(o) = IF o.type # "BOOLEAN" /\ ~o.required THEN 2 ELSE 1
    BY DEF Parser!GroupCount
  <1>3. groups = IF words # <<>> THEN words ELSE IF o.type = "BOOLEAN" THEN <<Unset>> ELSE <<Unset, Unset>>
    BY DEF Parser!Captured
  <1> HIDE DEF groups
  <1> SUFFICES /\ groups \in Seq(Word) /\ Len(groups) = Parser!GroupCount(o) /\ Parser!GroupCount(o) \in 1 .. 2
               /\ groups[1] = Unset <=> w = Unset
               /\ w # Unset => w = IF o.type = "BOOLEAN" THEN Parser!Flipped ELSE groups[Parser!GroupCount(o)]
    BY DEF Captures, groups
  <1>4. CASE w = Unset /\ ~o.required /\ words = <<>>
    <2>1. groups = IF o.type = "BOOLEAN" THEN <<Unset>> ELSE <<Unset, Unset>>
      BY <1>3, <1>4
    <2>2. CASE o.type = "BOOLEAN"
      <3>1. groups = <<Unset>> /\ Parser!GroupCount(o) = 1
        BY <1>2, <2>1, <2>2
      <3> QED BY <1>1, <1>4, <3>1, OneGroup
    <2>3. CASE o.type # "BOOLEAN"
      <3>1. groups = <<Unset, Unset>> /\ Parser!GroupCount(o) = 2
        BY <1>2, <1>4, <2>1, <2>3
      <3> QED BY <1>1, <1>4, <3>1, TwoGroups
    <2> QED BY <2>2, <2>3
  <1>5. CASE w # Unset /\ o.required /\ o.type # "BOOLEAN" /\ words = <<w>>
    <2>1. groups = <<w>>
      BY <1>3, <1>5
    <2>2. Parser!GroupCount(o) = 1
      BY <1>2, <1>5
    <2> QED BY <1>1, <1>5, <2>1, <2>2, OneGroup
  <1>6. CASE w = Parser!Flipped /\ w # Unset /\ ~o.required /\ o.type = "BOOLEAN" /\ words = <<Parser!Flag(o.name)>>
    <2> DEFINE flag == Parser!Flag(o.name)
    <2>1. groups = <<flag>> /\ flag # Unset /\ flag \in Word
      BY <1>1, <1>3, <1>6
    <2> HIDE DEF flag
    <2>2. Parser!GroupCount(o) = 1
      BY <1>2, <1>6
    <2> QED BY <1>6, <2>1, <2>2, OneGroup
  <1>7. CASE w # Unset /\ ~o.required /\ o.type # "BOOLEAN" /\ words = <<Parser!Flag(o.name), w>>
    <2> DEFINE flag == Parser!Flag(o.name)
    <2>1. groups = <<flag, w>> /\ flag # Unset /\ flag \in Word
      BY <1>1, <1>3, <1>7
    <2> HIDE DEF flag
    <2>2. Parser!GroupCount(o) = 2
      BY <1>2, <1>7
    <2> QED BY <1>1, <1>7, <2>1, <2>2, TwoGroups
  <1> QED BY <1>4, <1>5, <1>6, <1>7 DEF Gave

LEMMA LastArgument ==
  ASSUME NEW n \in Nat, NEW last, last = [s \in SUBSET (1 .. n) |-> Parser!Max(s)]
  PROVE  CutsLast(n, last)
  <1> SUFFICES ASSUME NEW k \in 1 .. n, NEW s \in SUBSET (1 .. k), k \in s PROVE last[s] = k
    BY DEF CutsLast
  <1>1. s \in SUBSET (1 .. n) /\ s \subseteq Int
    OBVIOUS
  <1>2. \A y \in s : k >= y
    OBVIOUS
  <1>3. \A x \in s : (\A y \in s : x >= y) => x = k
    BY <1>1, <1>2
  <1>4. Parser!Max(s) = k
    BY <1>2, <1>3 DEF Parser!Max
  <1> QED BY <1>1, <1>4

\* What handleMatchingGroups holds between two arguments.
Kept(groups) == Word \cup {groups[i] : i \in Nat}
Assignments(groups) == [curridx : Nat, values : [Names -> Kept(groups)]]

LEMMA AssignType ==
  ASSUME NEW groups, NEW acc \in Assignments(groups), NEW o \in Declaration
  PROVE  Parser!Assign(groups, acc, o) \in Assignments(groups)
  <1> DEFINE c == acc.curridx
             count == Parser!GroupCount(o)
             V == Kept(groups)
             New(old) == Parser!NewValue(groups, c, o, old)
             new == [acc.values EXCEPT ![o.name] = New(@)]
             at == c + count
  <1>1. c \in Nat /\ acc.values \in [Names -> V] /\ count \in 1 .. 2 /\ o.name \in Names
    BY DEF Assignments, Declaration, Parser!GroupCount
  <1>2. c + count - 1 \in Nat /\ at \in Nat
    <2> HIDE DEF c, count
    <2> QED BY <1>1
  <1>3. Parser!Flipped \in V /\ groups[c + count - 1] \in V
    BY <1>2 DEF Kept, Word, Given
  <1>4. \A old \in V : New(old) \in V
    <2> HIDE DEF V
    <2> QED BY <1>3 DEF Parser!NewValue
  <1> HIDE DEF New, V
  <1>5. new \in [Names -> V]
    BY <1>1, <1>4
  <1>6. Parser!Assign(groups, acc, o) = IF c > Len(groups) THEN acc ELSE [curridx |-> at, values |-> new]
    BY Zenon DEF Parser!Assign, New
  <1> HIDE DEF at, new
  <1>7. [curridx |-> at, values |-> new] \in Assignments(groups)
    BY <1>2, <1>5 DEF Assignments, V
  <1> QED BY <1>6, <1>7

\* handleMatchingGroups, an argument at a time.
AssignsBy(f, groups, args) ==
  /\ f[1 .. 0] = [curridx |-> 1, values |-> values]
  /\ \A k \in 1 .. Len(args) : f[1 .. k] = Parser!Assign(groups, f[1 .. k - 1], args[k])
  /\ Parser!Assigned(groups) = f[1 .. Len(args)].values

LEMMA AssignSteps ==
  ASSUME NEW groups, NEW args \in Seq(Declaration), args = Parser!Declared, values \in [Names -> Word]
  PROVE  \E f : AssignsBy(f, groups, args)
  <1> DEFINE n == Len(args)
             base == [curridx |-> 1, values |-> values]
             Eq(f) == f = [s \in SUBSET DOMAIN args |->
                             IF s = {} THEN base
                             ELSE Parser!Assign(groups, f[s \ {Parser!Max(s)}], args[Parser!Max(s)])]
             iter == CHOOSE f : Eq(f)
             last == [s \in SUBSET (1 .. n) |-> Parser!Max(s)]
             S == Assignments(groups)
  <1>1. Parser!Assigned(groups) = iter[DOMAIN args].values
    BY DEF Parser!Assigned, Parser!FoldLeft, Parser!MapThenFoldSet
  <1>2. n \in Nat /\ DOMAIN args = 1 .. n /\ \A k \in 1 .. n : args[k] \in Declaration
    OBVIOUS
  <1>3. CutsLast(n, last)
    BY <1>2, LastArgument
  <1>4. \E f : Eq(f)
    <2> DEFINE F == [p \in S \X (1 .. n) |-> Parser!Assign(groups, p[1], args[p[2]])]
    <2>1. \A acc \in S, i \in 1 .. n : F[<<acc, i>>] = Parser!Assign(groups, acc, args[i])
      OBVIOUS
    <2>2. F \in [S \X (1 .. n) -> S]
      <3>1. \A p \in S \X (1 .. n) : p[1] \in S /\ args[p[2]] \in Declaration
        BY <1>2
      <3> QED BY <3>1, AssignType
    <2>3. base \in S
      BY DEF Assignments, Kept
    <2> HIDE DEF F, last, base, n, S
    <2> PICK g : IsFold(g, S, n, base, F, last)
      BY <1>2, <1>3, <2>2, <2>3, FoldExists
    <2>4. /\ g \in [SUBSET (1 .. n) -> S]
          /\ \A s \in SUBSET (1 .. n) : g[s] = IF s = {} THEN base ELSE F[<<g[s \ {last[s]}], last[s]>>]
      BY DEF IsFold
    <2>5. ASSUME NEW s \in SUBSET (1 .. n), s # {}
          PROVE  last[s] \in 1 .. n /\ s \ {last[s]} \in SUBSET (1 .. n)
      BY <1>2, <1>3, <2>5, LastIn
    <2>6. ASSUME NEW s \in SUBSET (1 .. n), s # {}
          PROVE  g[s] = Parser!Assign(groups, g[s \ {last[s]}], args[last[s]])
      BY <2>1, <2>4, <2>5, <2>6
    <2>7. \A s \in SUBSET (1 .. n) : g[s] = IF s = {} THEN base
                                           ELSE Parser!Assign(groups, g[s \ {Parser!Max(s)}], args[Parser!Max(s)])
      BY <2>4, <2>6 DEF last
    <2>8. Eq(g)
      BY <1>2, <2>4, <2>7
    <2> QED BY <2>8
  <1>5. Eq(iter)
    <2> HIDE DEF Eq
    <2> QED BY <1>4
  <1> HIDE DEF iter
  <1>6. \A s \in SUBSET (1 .. n) : iter[s] = IF s = {} THEN base
                                            ELSE Parser!Assign(groups, iter[s \ {last[s]}], args[last[s]])
    BY <1>2, <1>5
  <1> HIDE DEF base, last, n
  <1>7. iter[1 .. 0] = base
    BY <1>2, <1>6, NoPlaces
  <1>8. ASSUME NEW k \in 1 .. n
        PROVE  iter[1 .. k] = Parser!Assign(groups, iter[1 .. k - 1], args[k])
    <2>1. CutsFirst(n, last, k)
      <3>1. n \in Nat
        BY <1>2
      <3> QED BY <1>3, <3>1, FirstPlaces
    <2> QED BY <1>6, <2>1 DEF CutsFirst
  <1> QED BY <1>1, <1>2, <1>7, <1>8 DEF AssignsBy, base, n

\* What the arguments hold after the first k of them took their groups.
Holding(args, k, wanted, old) ==
  [m \in Names |-> IF \E j \in 1 .. k : args[j].name = m /\ wanted[m] # Unset THEN wanted[m] ELSE old[m]]

Taken(h, name, w) == [h EXCEPT ![name] = IF w = Unset THEN @ ELSE w]

\* Behind the first s groups are the argument's own.
At(groups, s, own) == \A i \in 1 .. Len(own) : groups[s + i] = own[i]

\* The argument takes its own groups, and its value if it was given.
Takes(groups, c, h, o, own, w) ==
  Parser!Assign(groups, [curridx |-> c, values |-> h], o) = [curridx |-> c + Len(own), values |-> Taken(h, o.name, w)]

\* What one argument leaves, when its groups are those behind the first s.
LEMMA AssignIs ==
  ASSUME NEW o \in Declaration, NEW w \in Given, NEW words \in Seq(Word), Gave(o, w, words),
         NEW own, own = Parser!Captured(o, words), NEW groups, NEW s \in Nat, NEW h \in [Names -> Word],
         Len(groups) \in Nat, s + 1 <= Len(groups),
         At(groups, s, own)
  PROVE  Takes(groups, s + 1, h, o, own, w)
  <1> DEFINE count == Parser!GroupCount(o)
             c == s + 1
             acc == [curridx |-> c, values |-> h]
  <1>1. /\ Len(own) = count /\ count \in 1 .. 2
        /\ own[1] = Unset <=> w = Unset
        /\ w # Unset => w = IF o.type = "BOOLEAN" THEN Parser!Flipped ELSE own[count]
    <2>1. Captures(o, w, own)
      BY CapturedIs
    <2> QED BY <2>1 DEF Captures
  <1> HIDE DEF count
  <1>2. groups[c] = own[1] /\ groups[c + count - 1] = own[count]
    <2>1. 1 \in 1 .. Len(own) /\ count \in 1 .. Len(own) /\ s + count = c + count - 1
      BY <1>1
    <2> QED BY <2>1 DEF At
  <1>3. \A old : Parser!NewValue(groups, c, o, old) = IF w = Unset THEN old ELSE w
    <2> HIDE DEF c
    <2> QED BY <1>1, <1>2 DEF Parser!NewValue, count
  <1>4. acc.curridx = c /\ acc.values = h /\ ~(c > Len(groups))
    OBVIOUS
  <1> HIDE DEF acc, c
  <1>5. Parser!Assign(groups, acc, o) =
          [curridx |-> c + count, values |-> [h EXCEPT ![o.name] = Parser!NewValue(groups, c, o, @)]]
    BY <1>4, Zenon DEF Parser!Assign, count
  <1>6. [h EXCEPT ![o.name] = Parser!NewValue(groups, c, o, @)] =
          Taken(h, o.name, w)
    BY <1>3 DEF Taken
  <1>7. Parser!Assign(groups, acc, o) =
          [curridx |-> c + Len(own), values |-> Taken(h, o.name, w)]
    BY <1>1, <1>5, <1>6
  <1> QED BY <1>7 DEF Takes, acc, c

LEMMA HoldingMore ==
  ASSUME NEW args \in Seq(Declaration), NEW k \in 1 .. Len(args), NEW wanted \in [Names -> Given], NEW old \in [Names -> Word]
  PROVE  Taken(Holding(args, k - 1, wanted, old), args[k].name, wanted[args[k].name])
           = Holding(args, k, wanted, old)
  <1> DEFINE h == Holding(args, k - 1, wanted, old)
             g == Holding(args, k, wanted, old)
             a == args[k].name
             w == wanted[a]
             Earlier(m) == \E j \in 1 .. k - 1 : args[j].name = m /\ wanted[m] # Unset
             Now(m) == \E j \in 1 .. k : args[j].name = m /\ wanted[m] # Unset
  <1>1. \A m \in Names : Now(m) <=> Earlier(m) \/ (a = m /\ wanted[m] # Unset)
    <2>1. 1 .. k = (1 .. k - 1) \cup {k}
      OBVIOUS
    <2> QED BY <2>1
  <1>2. a \in Names
    <2>1. args[k] \in Declaration
      OBVIOUS
    <2> QED BY <2>1 DEF Declaration
  <1>3. h = [m \in Names |-> IF Earlier(m) THEN wanted[m] ELSE old[m]]
    BY DEF Holding
  <1>4. g = [m \in Names |-> IF Now(m) THEN wanted[m] ELSE old[m]]
    BY DEF Holding
  <1> HIDE DEF h, g, a, Earlier, Now
  <1>5. w = wanted[a]
    OBVIOUS
  <1> HIDE DEF w
  <1>6. ASSUME NEW m \in Names PROVE g[m] = IF m = a /\ w # Unset THEN w ELSE h[m]
    BY <1>1, <1>2, <1>3, <1>4, <1>5
  <1>7. Taken(h, a, w) = [m \in Names |-> IF m = a /\ w # Unset THEN w ELSE h[m]]
    BY <1>2, <1>3 DEF Taken
  <1>8. g = [m \in Names |-> g[m]]
    BY <1>4
  <1>9. g = [m \in Names |-> IF m = a /\ w # Unset THEN w ELSE h[m]]
    BY <1>6, <1>8
  <1> QED BY <1>7, <1>9 DEF h, g, a, w

LEMMA AssignedBy ==
  ASSUME NEW args \in Seq(Declaration), NEW f, NEW groups \in Seq(Word), AssignsBy(f, groups, args), values \in [Names -> Word],
         NEW wanted \in [Names -> Given], NEW pieces,
         \A i \in 1 .. Len(args) : pieces[i] \in Seq(Word) /\ Gave(args[i], wanted[args[i].name], pieces[i]),
         NEW own \in Seq(Seq(Word)), Len(own) = Len(args),
         \A i \in 1 .. Len(args) : own[i] = Parser!Captured(args[i], pieces[i]) /\ Len(own[i]) \in 1 .. 2,
         NEW ends, Spans(groups, own, ends)
  PROVE  Parser!Assigned(groups) = Holding(args, Len(args), wanted, values)
  <1> DEFINE n == Len(args)
  <1>1. n \in Nat /\ \A i \in 1 .. n : /\ args[i] \in Declaration /\ args[i].name \in Names
                                       /\ wanted[args[i].name] \in Given /\ pieces[i] \in Seq(Word)
                                       /\ Gave(args[i], wanted[args[i].name], pieces[i])
    <2>1. n \in Nat /\ \A i \in 1 .. n : args[i] \in Declaration
      OBVIOUS
    <2>2. \A i \in 1 .. n : args[i].name \in Names
      BY <2>1 DEF Declaration
    <2> QED BY <2>1, <2>2
  <1>2. \A i \in 1 .. n : own[i] = Parser!Captured(args[i], pieces[i]) /\ Len(own[i]) \in 1 .. 2
    OBVIOUS
  <1>3. Len(own) = n /\ values \in [Names -> Word]
    OBVIOUS
  <1>6. /\ f[1 .. 0] = [curridx |-> 1, values |-> values]
        /\ \A k \in 1 .. n : f[1 .. k] = Parser!Assign(groups, f[1 .. k - 1], args[k])
        /\ Parser!Assigned(groups) = f[1 .. n].values
    BY DEF AssignsBy
  <1> HIDE DEF n
  <1> DEFINE T == {k \in Nat : k <= n => f[1 .. k] = [curridx |-> ends[k] + 1, values |-> Holding(args, k, wanted, values)]}
  <1>7. 0 \in T
    <2>1. Holding(args, 0, wanted, values) = values
      <3>1. Holding(args, 0, wanted, values) = [m \in Names |-> values[m]]
        BY DEF Holding
      <3> QED BY <3>1
    <2>2. ends[0] = 0
      BY DEF Spans
    <2> QED BY <1>6, <2>1, <2>2
  <1>8. ASSUME NEW j \in T PROVE j + 1 \in T
    <2> SUFFICES ASSUME j + 1 <= n
                 PROVE  f[1 .. j + 1] = [curridx |-> ends[j + 1] + 1, values |-> Holding(args, j + 1, wanted, values)]
      OBVIOUS
    <2>1. PICK k : k = j + 1
      OBVIOUS
    <2>2. k \in 1 .. n /\ k - 1 = j
      BY <1>1, <2>1
    <2>3. f[1 .. k - 1] = [curridx |-> ends[k - 1] + 1, values |-> Holding(args, k - 1, wanted, values)]
      BY <1>1, <2>1, <2>2
    <2> HIDE DEF T
    <2> DEFINE s == ends[k - 1]
               h == Holding(args, k - 1, wanted, values)
               w == wanted[args[k].name]
               acc == [curridx |-> s + 1, values |-> h]
    <2>4. /\ s \in Nat /\ ends[k] = s + Len(own[k]) /\ ends[k] <= Len(groups) /\ Len(groups) \in Nat
          /\ \A i \in 1 .. Len(own[k]) : groups[s + i] = own[k][i]
      <3>1. k \in 1 .. Len(own)
        BY <1>3, <2>2
      <3>2. \A i \in 1 .. Len(own[k]) : groups[s + i] = own[k][i]
        BY <3>1 DEF Spans
      <3>3. /\ Len(groups) \in Nat /\ ends[k - 1] \in Nat
            /\ ends[k] = ends[k - 1] + Len(own[k]) /\ ends[k] <= Len(groups)
        BY <3>1, Within
      <3> QED BY <3>2, <3>3
    <2>5. h \in [Names -> Word]
      BY DEF Holding, Word
    <2>6. Taken(h, args[k].name, w) = Holding(args, k, wanted, values)
      <3>1. k \in 1 .. Len(args)
        BY <2>2 DEF n
      <3> QED BY <3>1, HoldingMore
    <2>7. f[1 .. k] = Parser!Assign(groups, acc, args[k])
      BY <1>6, <2>2, <2>3
    <2> HIDE DEF s, h, w
    <2>8. Len(own[k]) \in 1 .. 2
      BY <1>2, <2>2
    <2>9. s + 1 <= Len(groups) /\ (s + 1) + Len(own[k]) = ends[k] + 1
      <3> DEFINE l == Len(own[k])
                 size == Len(groups)
      <3>1. l \in 1 .. 2 /\ s \in Nat /\ ends[k] = s + l /\ ends[k] <= size /\ size \in Nat
        BY <2>4, <2>8
      <3> HIDE DEF l, size
      <3>2. s + 1 <= size /\ (s + 1) + l = ends[k] + 1
        BY <3>1
      <3> QED BY <3>2 DEF l, size
    <2>10. Parser!Assign(groups, acc, args[k]) =
            [curridx |-> (s + 1) + Len(own[k]), values |-> Taken(h, args[k].name, w)]
      <3>1. /\ args[k] \in Declaration /\ w \in Given /\ pieces[k] \in Seq(Word) /\ Gave(args[k], w, pieces[k])
            /\ own[k] = Parser!Captured(args[k], pieces[k])
        BY <1>1, <1>2, <2>2 DEF w
      <3>2. At(groups, s, own[k])
        BY <2>4 DEF At
      <3>3. s \in Nat /\ Len(groups) \in Nat
        BY <2>4
      <3>4. Takes(groups, s + 1, h, args[k], own[k], w)
        BY <2>5, <2>9, <3>1, <3>2, <3>3, AssignIs
      <3> QED BY <3>4 DEF Takes
    <2> HIDE DEF acc
    <2> QED BY <2>1, <2>6, <2>7, <2>9, <2>10
  <1>9. T = Nat
    <2> HIDE DEF T
    <2>1. T \subseteq Nat
      BY DEF T
    <2> QED BY <1>7, <1>8, <2>1, Induction
  <1>10. n \in T /\ n <= n
    <2> HIDE DEF T
    <2> QED BY <1>1, <1>9
  <1>11. f[1 .. n].values = Holding(args, n, wanted, values)
    BY <1>10
  <1> QED BY <1>6, <1>11 DEF n

LEMMA AssignedIs ==
  ASSUME NEW args \in Seq(Declaration), args = Parser!Declared, values \in [Names -> Word],
         NEW wanted \in [Names -> Given], NEW pieces \in Seq(Seq(Word)), Len(pieces) = Len(args),
         \A i \in 1 .. Len(args) : Gave(args[i], wanted[args[i].name], pieces[i])
  PROVE  Parser!Assigned(Parser!FlattenSeq([i \in 1 .. Len(args) |-> Parser!Captured(args[i], pieces[i])]))
           = Holding(args, Len(args), wanted, values)
  <1> DEFINE own == [i \in 1 .. Len(args) |-> Parser!Captured(args[i], pieces[i])]
             groups == Parser!FlattenSeq(own)
  <1>1. \A i \in 1 .. Len(args) : pieces[i] \in Seq(Word) /\ args[i] \in Declaration /\ own[i] = Parser!Captured(args[i], pieces[i])
    OBVIOUS
  <1>2. Len(args) \in Nat /\ Len(own) = Len(args)
    OBVIOUS
  <1>3. ASSUME NEW i \in 1 .. Len(args) PROVE own[i] \in Seq(Word) /\ Len(own[i]) \in 1 .. 2
    <2>1. args[i] \in Declaration
      BY <1>1
    <2>2. wanted[args[i].name] \in Given
      BY <2>1 DEF Declaration
    <2>3. Captures(args[i], wanted[args[i].name], Parser!Captured(args[i], pieces[i]))
      BY <1>1, <2>1, <2>2, CapturedIs
    <2>4. Captures(args[i], wanted[args[i].name], own[i])
      BY <1>1, <2>3
    <2> HIDE DEF own
    <2> QED BY <2>4 DEF Captures
  <1>4. own \in Seq(Seq(Word))
    BY <1>2, <1>3
  <1> HIDE DEF own
  <1>5. groups \in Seq(Word)
    BY <1>4, FlattenSpans
  <1>6. PICK ends : Spans(groups, own, ends)
    BY <1>4, FlattenSpans
  <1> HIDE DEF groups
  <1>7. PICK f : AssignsBy(f, groups, args)
    BY AssignSteps
  <1>8. \A i \in 1 .. Len(args) : pieces[i] \in Seq(Word) /\ Gave(args[i], wanted[args[i].name], pieces[i])
    BY <1>1
  <1>9. Parser!Assigned(groups) = Holding(args, Len(args), wanted, values)
    BY <1>1, <1>2, <1>3, <1>4, <1>5, <1>6, <1>7, <1>8, AssignedBy
  <1> QED BY <1>9 DEF groups, own

------------------------------------------------------------------------------
(* Every command line.                                                        *)

\* The declarations, each list with its kind, and no name twice.
Declares(optional, required) ==
  /\ optional \in Seq(Declaration) /\ required \in Seq(Declaration)
  /\ \A i \in 1 .. Len(optional) : ~optional[i].required
  /\ \A i \in 1 .. Len(required) : required[i].required
  /\ \A i, j \in 1 .. Len(optional) : optional[i].name = optional[j].name => i = j
  /\ \A i, j \in 1 .. Len(required) : required[i].name = required[j].name => i = j
  /\ \A i \in 1 .. Len(optional), j \in 1 .. Len(required) : optional[i].name # required[j].name

\* No required BOOLEAN.
NoneFixed(required) == \A i \in 1 .. Len(required) : required[i].type # "BOOLEAN"

ParserInv ==
  /\ Declares(m_optional_args, m_required_args)
  /\ plain => NoneFixed(m_required_args)
  /\ given \in [Names -> Given]
  /\ plain => values \in [Names -> Given]
  /\ parses \in Nat /\ (parses = 0 => values = given)
  /\ GetsWhatWasGiven

\* args is one list behind the other, m elements and k.
Chained(args, optional, required, m, k) ==
  /\ args \in Seq(Declaration) /\ m \in Nat /\ k \in Nat
  /\ DOMAIN args = 1 .. m + k /\ DOMAIN optional = 1 .. m /\ DOMAIN required = 1 .. k
  /\ Len(args) = m + k /\ Len(optional) = m /\ Len(required) = k
  /\ \A i \in 1 .. m : args[i] = optional[i]
  /\ \A i \in 1 .. k : args[m + i] = required[i]

LEMMA ConcatChains ==
  ASSUME NEW optional \in Seq(Declaration), NEW required \in Seq(Declaration)
  PROVE  Chained(optional \o required, optional, required, Len(optional), Len(required))
  <1> DEFINE args == optional \o required
             m == Len(optional)
             k == Len(required)
  <1>1. args \in Seq(Declaration) /\ Len(args) = m + k
    OBVIOUS
  <1>2. \A i \in 1 .. m + k : args[i] = IF i <= m THEN optional[i] ELSE required[i - m]
    BY <1>1, ConcatProperties
  <1>3. m \in Nat /\ k \in Nat /\ DOMAIN optional = 1 .. m /\ DOMAIN required = 1 .. k
    OBVIOUS
  <1>4. DOMAIN args = 1 .. m + k
    <2> HIDE DEF args, m, k
    <2> QED BY <1>1
  <1>5. Len(optional) = m /\ Len(required) = k
    OBVIOUS
  <1> HIDE DEF args, m, k
  <1>6. ASSUME NEW i \in 1 .. m PROVE args[i] = optional[i]
    <2>1. i \in 1 .. m + k /\ i <= m
      BY <1>3
    <2> QED BY <1>2, <2>1
  <1>7. ASSUME NEW i \in 1 .. k PROVE args[m + i] = required[i]
    <2>1. m + i \in 1 .. m + k /\ ~(m + i <= m) /\ (m + i) - m = i
      BY <1>3
    <2> QED BY <1>2, <2>1
  <1>8. Chained(args, optional, required, m, k)
    BY <1>1, <1>3, <1>4, <1>5, <1>6, <1>7 DEF Chained
  <1> QED BY <1>8 DEF args, m, k

\* Each argument is in one of the lists.
LEMMA FromList ==
  ASSUME NEW args, NEW optional, NEW required, NEW m, NEW k, Chained(args, optional, required, m, k),
         NEW i \in 1 .. m + k
  PROVE  \/ i \in 1 .. m /\ i <= m /\ args[i] = optional[i]
         \/ \E j \in 1 .. k : i = m + j /\ i > m /\ args[i] = required[j]
  <1>1. m \in Nat /\ k \in Nat
    BY DEF Chained
  <1>2. CASE i <= m
    <2>1. i \in 1 .. m
      BY <1>1, <1>2
    <2> QED BY <1>2, <2>1 DEF Chained
  <1>3. CASE ~(i <= m)
    <2>1. PICK j : j = i - m
      OBVIOUS
    <2>2. j \in 1 .. k /\ i = m + j /\ i > m
      BY <1>1, <1>3, <2>1
    <2>3. args[m + j] = required[j]
      BY <2>2 DEF Chained
    <2> QED BY <2>2, <2>3
  <1> QED BY <1>2, <1>3

LEMMA ChainedSet ==
  ASSUME NEW args, NEW optional, NEW required, NEW m, NEW k, Chained(args, optional, required, m, k), NEW d
  PROVE  d \in Parser!ToSet(args) <=> d \in Parser!ToSet(optional) \/ d \in Parser!ToSet(required)
  <1>1. \A s : Parser!ToSet(s) = {s[i] : i \in DOMAIN s}
    BY DEF Parser!ToSet
  <1>2. /\ m \in Nat /\ k \in Nat
        /\ DOMAIN args = 1 .. m + k /\ DOMAIN optional = 1 .. m /\ DOMAIN required = 1 .. k
        /\ \A i \in 1 .. m : args[i] = optional[i]
        /\ \A i \in 1 .. k : args[m + i] = required[i]
    BY DEF Chained
  <1>3. ASSUME d \in Parser!ToSet(args) PROVE d \in Parser!ToSet(optional) \/ d \in Parser!ToSet(required)
    <2>1. PICK i \in 1 .. m + k : d = args[i]
      BY <1>1, <1>2, <1>3
    <2>2. \/ i \in 1 .. m /\ args[i] = optional[i]
          \/ \E j \in 1 .. k : args[i] = required[j]
      BY FromList
    <2> QED BY <1>1, <1>2, <2>1, <2>2
  <1>4. ASSUME d \in Parser!ToSet(optional) PROVE d \in Parser!ToSet(args)
    <2>1. PICK i \in 1 .. m : d = optional[i]
      BY <1>1, <1>2, <1>4
    <2>2. i \in 1 .. m + k
      BY <1>2
    <2> QED BY <1>1, <1>2, <2>1, <2>2
  <1>5. ASSUME d \in Parser!ToSet(required) PROVE d \in Parser!ToSet(args)
    <2>1. PICK i \in 1 .. k : d = required[i]
      BY <1>1, <1>2, <1>5
    <2>2. m + i \in 1 .. m + k
      BY <1>2
    <2> QED BY <1>1, <1>2, <2>1, <2>2
  <1> QED BY <1>3, <1>4, <1>5

\* As one list they are the arguments of a pattern.
LEMMA DeclaredArguments ==
  ASSUME NEW optional, NEW required, Declares(optional, required), NEW args, NEW m, NEW k,
         Chained(args, optional, required, m, k)
  PROVE  Arguments(args, m)
  <1>1. args \in Seq(Declaration) /\ Len(args) = m + k /\ m \in Nat /\ k \in Nat /\ m \in 0 .. m + k
    BY DEF Chained
  <1>2. /\ \A i \in 1 .. m : ~optional[i].required
        /\ \A i \in 1 .. k : required[i].required
        /\ \A i, j \in 1 .. m : optional[i].name = optional[j].name => i = j
        /\ \A i, j \in 1 .. k : required[i].name = required[j].name => i = j
        /\ \A i \in 1 .. m, j \in 1 .. k : optional[i].name # required[j].name
    BY DEF Declares, Chained
  <1>3. \A i \in 1 .. m + k : \/ i \in 1 .. m /\ i <= m /\ args[i] = optional[i]
                              \/ \E j \in 1 .. k : i = m + j /\ i > m /\ args[i] = required[j]
    BY FromList
  <1>4. ASSUME NEW i \in 1 .. m + k PROVE args[i].required <=> i > m
    <2>1. CASE i \in 1 .. m /\ i <= m /\ args[i] = optional[i]
      BY <1>1, <1>2, <2>1
    <2>2. CASE \E j \in 1 .. k : i = m + j /\ i > m /\ args[i] = required[j]
      BY <1>2, <2>2
    <2> QED BY <1>3, <2>1, <2>2
  <1>5. ASSUME NEW i \in 1 .. m + k, NEW j \in 1 .. m + k, args[i].name = args[j].name PROVE i = j
    <2>1. CASE i \in 1 .. m /\ args[i] = optional[i]
      <3>1. CASE j \in 1 .. m /\ args[j] = optional[j]
        BY <1>2, <1>5, <2>1, <3>1
      <3>2. CASE \E y \in 1 .. k : args[j] = required[y]
        BY <1>2, <1>5, <2>1, <3>2
      <3> QED BY <1>3, <3>1, <3>2
    <2>2. CASE \E x \in 1 .. k : i = m + x /\ args[i] = required[x]
      <3>1. PICK x \in 1 .. k : i = m + x /\ args[i] = required[x]
        BY <2>2
      <3>2. CASE j \in 1 .. m /\ args[j] = optional[j]
        BY <1>2, <1>5, <3>1, <3>2
      <3>3. CASE \E y \in 1 .. k : j = m + y /\ args[j] = required[y]
        BY <1>2, <1>5, <3>1, <3>3
      <3> QED BY <1>3, <3>2, <3>3
    <2> QED BY <1>3, <2>1, <2>2
  <1> QED BY <1>1, <1>4, <1>5 DEF Arguments

\* What a user types for an argument gives it its value.
LEMMA TypedIs ==
  ASSUME NEW o \in Declaration, NEW wanted \in [Names -> Given], ~(o.required /\ o.type = "BOOLEAN"),
         \/ wanted[o.name] = Unset /\ ~o.required
         \/ CASE o.type = "BOOLEAN" -> wanted[o.name] = Parser!Flipped
              [] o.type = "INTEGER" -> wanted[o.name] \in Numbers
              [] OTHER -> wanted[o.name] \in Texts
  PROVE  Gave(o, wanted[o.name], Parser!Typed(o, wanted)) /\ Parser!Typed(o, wanted) \in Seq(Word)
  <1> DEFINE w == wanted[o.name]
             flag == Parser!Flag(o.name)
             words == Parser!Typed(o, wanted)
  <1>1. /\ o.type \in {"BOOLEAN", "STRING", "INTEGER"} /\ o.required \in BOOLEAN /\ o.name \in Names
        /\ w \in Word /\ flag \in Word
    BY DEF Declaration, Word
  <1>2. w # Unset => IF o.type = "BOOLEAN" THEN w = Parser!Flipped ELSE Parser!Accepts(o, w)
    BY <1>1 DEF Parser!Accepts
  <1>3. w = Unset => ~o.required
    BY <1>1, UnsetIsNoWord
  <1>4. words = CASE w = Unset -> <<>>
                  [] w # Unset /\ o.required -> <<w>>
                  [] w # Unset /\ ~o.required /\ o.type = "BOOLEAN" -> <<flag>>
                  [] OTHER -> <<flag, w>>
    BY DEF Parser!Typed
  <1> HIDE DEF words, w
  <1>5. CASE w = Unset
    <2>1. words = <<>>
      BY <1>4, <1>5
    <2> QED BY <1>3, <1>5, <2>1 DEF Gave, words, w
  <1>6. CASE w # Unset /\ o.required
    <2>1. words = <<w>>
      BY <1>4, <1>6
    <2>2. words \in Seq(Word)
      BY <1>1, <2>1
    <2> QED BY <1>1, <1>2, <1>6, <2>1, <2>2 DEF Gave, words, w
  <1>7. CASE w # Unset /\ ~o.required /\ o.type = "BOOLEAN"
    <2>1. words = <<flag>>
      BY <1>4, <1>7
    <2>2. words \in Seq(Word)
      <3> HIDE DEF flag
      <3> QED BY <1>1, <2>1
    <2> QED BY <1>2, <1>7, <2>1, <2>2 DEF Gave, words, w
  <1>8. CASE w # Unset /\ ~o.required /\ o.type # "BOOLEAN"
    <2>1. words = <<flag, w>>
      BY <1>4, <1>8
    <2>2. words \in Seq(Word)
      <3> HIDE DEF flag
      <3> QED BY <1>1, <2>1
    <2> QED BY <1>2, <1>8, <2>1, <2>2 DEF Gave, words, w
  <1> QED BY <1>1, <1>5, <1>6, <1>7, <1>8

LEMMA DeclareMore ==
  ASSUME NEW optional, NEW required, Declares(optional, required), NEW o \in Declaration,
         \A i \in 1 .. Len(optional) : optional[i].name # o.name, \A i \in 1 .. Len(required) : required[i].name # o.name
  PROVE  /\ ~o.required => Declares(Append(optional, o), required)
         /\ o.required => Declares(optional, Append(required, o))
  <1>1. optional \in Seq(Declaration) /\ required \in Seq(Declaration)
    BY DEF Declares
  <1>2. ASSUME NEW s \in Seq(Declaration)
        PROVE  /\ Append(s, o) \in Seq(Declaration) /\ Len(Append(s, o)) = Len(s) + 1 /\ Len(s) \in Nat
               /\ \A i \in 1 .. Len(s) + 1 : Append(s, o)[i] = IF i = Len(s) + 1 THEN o ELSE s[i]
    BY AppendProperties
  <1>3. ASSUME ~o.required PROVE Declares(Append(optional, o), required)
    <2> DEFINE m == Len(optional)
               s == Append(optional, o)
    <2>1. s \in Seq(Declaration) /\ Len(s) = m + 1 /\ m \in Nat /\ \A i \in 1 .. m + 1 : s[i] = IF i = m + 1 THEN o ELSE optional[i]
      BY <1>1, <1>2
    <2>2. /\ \A i \in 1 .. m : ~optional[i].required /\ optional[i].name # o.name
          /\ \A i, j \in 1 .. m : optional[i].name = optional[j].name => i = j
          /\ \A i \in 1 .. m, j \in 1 .. Len(required) : optional[i].name # required[j].name
      BY DEF Declares
    <2> HIDE DEF m, s
    <2>3. \A i \in 1 .. m + 1 : (i = m + 1 /\ s[i] = o) \/ (i \in 1 .. m /\ s[i] = optional[i])
      BY <2>1
    <2>4. \A i \in 1 .. m + 1 : ~s[i].required
      BY <1>3, <2>2, <2>3
    <2>5. \A i, j \in 1 .. m + 1 : s[i].name = s[j].name => i = j
      BY <2>2, <2>3
    <2>6. \A i \in 1 .. m + 1, j \in 1 .. Len(required) : s[i].name # required[j].name
      BY <2>2, <2>3
    <2>7. Declares(s, required)
      BY <2>1, <2>4, <2>5, <2>6 DEF Declares
    <2> QED BY <2>7 DEF s
  <1>4. ASSUME o.required PROVE Declares(optional, Append(required, o))
    <2> DEFINE m == Len(required)
               s == Append(required, o)
    <2>1. s \in Seq(Declaration) /\ Len(s) = m + 1 /\ m \in Nat /\ \A i \in 1 .. m + 1 : s[i] = IF i = m + 1 THEN o ELSE required[i]
      BY <1>1, <1>2
    <2>2. /\ \A i \in 1 .. m : required[i].required /\ required[i].name # o.name
          /\ \A i, j \in 1 .. m : required[i].name = required[j].name => i = j
          /\ \A i \in 1 .. Len(optional), j \in 1 .. m : optional[i].name # required[j].name
      BY DEF Declares
    <2> HIDE DEF m, s
    <2>3. \A i \in 1 .. m + 1 : (i = m + 1 /\ s[i] = o) \/ (i \in 1 .. m /\ s[i] = required[i])
      BY <2>1
    <2>4. \A i \in 1 .. m + 1 : s[i].required
      BY <1>4, <2>2, <2>3
    <2>5. \A i, j \in 1 .. m + 1 : s[i].name = s[j].name => i = j
      BY <2>2, <2>3
    <2>6. \A i \in 1 .. Len(optional), j \in 1 .. m + 1 : optional[i].name # s[j].name
      BY <2>2, <2>3
    <2>7. Declares(optional, s)
      BY <2>1, <2>4, <2>5, <2>6 DEF Declares
    <2> QED BY <2>7 DEF s
  <1> QED BY <1>3, <1>4

\* The arguments the parser has, with the two lists they come from.
LEMMA DeclaredIs ==
  ASSUME Declares(m_optional_args, m_required_args)
  PROVE  /\ Chained(Parser!Declared, m_optional_args, m_required_args, Len(m_optional_args), Len(m_required_args))
         /\ Arguments(Parser!Declared, Len(m_optional_args))
  <1>1. Chained(Parser!Declared, m_optional_args, m_required_args, Len(m_optional_args), Len(m_required_args))
    BY ConcatChains DEF Declares, Parser!Declared
  <1> QED BY <1>1, DeclaredArguments

LEMMA AddKeeps ==
  ASSUME ParserInv, parses = 0, NEW o \in Declaration, Parser!AddArgument(o)
  PROVE  ParserInv'
  <1>1. Declares(m_optional_args, m_required_args) /\ values = given /\ parses \in Nat
    BY DEF ParserInv
  <1>2. /\ \A d \in Parser!ToSet(Parser!Declared) : d.name # o.name
        /\ IF o.required
           THEN m_required_args' = Append(m_required_args, o) /\ m_optional_args' = m_optional_args
           ELSE m_optional_args' = Append(m_optional_args, o) /\ m_required_args' = m_required_args
        /\ plain' = (plain /\ ~(o.required /\ o.type = "BOOLEAN"))
        /\ values' = values /\ given' = given /\ threw' = threw /\ parses' = parses
    BY DEF Parser!AddArgument
  <1>3. /\ \A i \in 1 .. Len(m_optional_args) : m_optional_args[i].name # o.name
        /\ \A i \in 1 .. Len(m_required_args) : m_required_args[i].name # o.name
    <2>1. m_optional_args \in Seq(Declaration) /\ m_required_args \in Seq(Declaration)
      BY <1>1 DEF Declares
    <2>2. ASSUME NEW i \in 1 .. Len(m_optional_args) PROVE m_optional_args[i].name # o.name
      <3>1. m_optional_args[i] \in Parser!ToSet(m_optional_args)
        BY <2>1 DEF Parser!ToSet
      <3>2. m_optional_args[i] \in Parser!ToSet(Parser!Declared)
        BY <1>1, <3>1, DeclaredIs, ChainedSet
      <3> QED BY <1>2, <3>2
    <2>3. ASSUME NEW i \in 1 .. Len(m_required_args) PROVE m_required_args[i].name # o.name
      <3>1. m_required_args[i] \in Parser!ToSet(m_required_args)
        BY <2>1 DEF Parser!ToSet
      <3>2. m_required_args[i] \in Parser!ToSet(Parser!Declared)
        BY <1>1, <3>1, DeclaredIs, ChainedSet
      <3> QED BY <1>2, <3>2
    <2> QED BY <2>2, <2>3
  <1>4. Declares(m_optional_args', m_required_args')
    <2>1. /\ ~o.required => Declares(Append(m_optional_args, o), m_required_args)
          /\ o.required => Declares(m_optional_args, Append(m_required_args, o))
      BY <1>1, <1>3, DeclareMore
    <2> QED BY <1>2, <2>1, Zenon
  <1>5. plain' => NoneFixed(m_required_args')
    <2> SUFFICES ASSUME plain' PROVE NoneFixed(m_required_args')
      OBVIOUS
    <2>1. plain /\ ~(o.required /\ o.type = "BOOLEAN")
      BY <1>2
    <2>2. NoneFixed(m_required_args)
      BY <2>1 DEF ParserInv
    <2>3. CASE ~o.required
      BY <1>2, <2>2, <2>3
    <2>4. CASE o.required
      <3>1. m_required_args \in Seq(Declaration)
        BY <1>1 DEF Declares
      <3> DEFINE s == Append(m_required_args, o)
                 k == Len(m_required_args)
      <3>2. k \in Nat /\ Len(s) = k + 1 /\ \A i \in 1 .. k + 1 : s[i] = IF i = k + 1 THEN o ELSE m_required_args[i]
        BY <3>1, AppendProperties
      <3>3. \A i \in 1 .. k : m_required_args[i].type # "BOOLEAN"
        BY <2>2 DEF NoneFixed
      <3> HIDE DEF s, k
      <3>4. \A i \in 1 .. k + 1 : s[i].type # "BOOLEAN"
        <4> SUFFICES ASSUME NEW i \in 1 .. k + 1 PROVE s[i].type # "BOOLEAN"
          OBVIOUS
        <4>1. (i = k + 1 /\ s[i] = o) \/ (i \in 1 .. k /\ s[i] = m_required_args[i])
          BY <3>2
        <4> QED BY <2>1, <2>4, <3>3, <4>1
      <3>5. m_required_args' = s
        BY <1>2, <2>4 DEF s
      <3> QED BY <3>2, <3>4, <3>5 DEF NoneFixed
    <2> QED BY <2>3, <2>4
  <1>6. GetsWhatWasGiven'
    BY <1>1, <1>2 DEF ParserInv, GetsWhatWasGiven, Parser!GetsWhatWasGiven
  <1>7. (plain' => values' \in [Names -> Given]) /\ given' \in [Names -> Given] /\ parses' \in Nat /\ values' = given'
    BY <1>1, <1>2 DEF ParserInv
  <1> QED BY <1>4, <1>5, <1>6, <1>7 DEF ParserInv

\* A line that gives the arguments their values is accepted, and gives them.
LEMMA ParseGives ==
  ASSUME ParserInv, plain, NEW wanted \in [Names -> Given], Parser!Parse(wanted)
  PROVE  /\ ~threw'
         /\ values' = Holding(Parser!Declared, Len(Parser!Declared), wanted, values)
  <1> DEFINE args == Parser!Declared
             m == Len(m_optional_args)
             n == Len(args)
             pieces == [i \in 1 .. n |-> Parser!Typed(args[i], wanted)]
             line == Parser!FlattenSeq(pieces)
  <1>1. /\ Chained(args, m_optional_args, m_required_args, m, Len(m_required_args))
        /\ Arguments(args, m)
        /\ NoneFixed(m_required_args) /\ values \in [Names -> Given]
        /\ m_required_args \in Seq(Declaration)
    BY DeclaredIs DEF ParserInv, Declares
  <1>2. args \in Seq(Declaration) /\ n \in Nat /\ n = m + Len(m_required_args)
    BY <1>1 DEF Chained
  <1>3. ASSUME NEW i \in 1 .. n
        PROVE  /\ Gave(args[i], wanted[args[i].name], Parser!Typed(args[i], wanted))
               /\ Parser!Typed(args[i], wanted) \in Seq(Word)
    <2>1. args[i] \in Declaration /\ args[i] \in Parser!ToSet(args)
      BY <1>2 DEF Parser!ToSet
    <2>2. ~(args[i].required /\ args[i].type = "BOOLEAN")
      <3>1. \/ i \in 1 .. m /\ i <= m /\ args[i] = m_optional_args[i]
            \/ \E j \in 1 .. Len(m_required_args) : i = m + j /\ i > m /\ args[i] = m_required_args[j]
        <4>1. i \in 1 .. m + Len(m_required_args)
          BY <1>2
        <4> QED BY <1>1, <4>1, FromList
      <3>2. \A j \in 1 .. m : ~m_optional_args[j].required
        BY DEF ParserInv, Declares
      <3>3. \A j \in 1 .. Len(m_required_args) : m_required_args[j].type # "BOOLEAN"
        BY <1>1 DEF NoneFixed
      <3> QED BY <3>1, <3>2, <3>3
    <2>3. \/ wanted[args[i].name] = Unset /\ ~args[i].required
          \/ CASE args[i].type = "BOOLEAN" -> wanted[args[i].name] = Parser!Flipped
               [] args[i].type = "INTEGER" -> wanted[args[i].name] \in Numbers
               [] OTHER -> wanted[args[i].name] \in Texts
      <3>1. Parser!Sensible(wanted)
        BY DEF Parser!Parse
      <3> HIDE DEF args
      <3> QED BY <2>1, <3>1 DEF Parser!Sensible, args
    <2> QED BY <2>1, <2>2, <2>3, TypedIs
  <1> HIDE DEF args, m
  <1>4. /\ pieces \in Seq(Seq(Word)) /\ Len(pieces) = n
        /\ \A i \in 1 .. n : Gave(args[i], wanted[args[i].name], pieces[i])
    <2>1. \A i \in 1 .. n : pieces[i] = Parser!Typed(args[i], wanted)
      OBVIOUS
    <2> HIDE DEF n
    <2>2. pieces \in Seq(Seq(Word)) /\ Len(pieces) = n
      BY <1>2, <1>3
    <2> HIDE DEF pieces
    <2> QED BY <1>3, <2>1, <2>2
  <1>5. Parser!Rendered(wanted) = line
    BY DEF Parser!Rendered, args
  <1> HIDE DEF pieces
  <1>6. line \in Seq(Word)
    BY <1>4, FlattenSpans
  <1>7. PICK ends : Spans(line, pieces, ends)
    BY <1>4, FlattenSpans
  <1> HIDE DEF line
  <1>8. Line(args, m, wanted, pieces, line, ends)
    BY <1>1, <1>4, <1>6, <1>7 DEF Line
  <1> DEFINE groups == Parser!FlattenSeq([i \in 1 .. Len(args) |-> Parser!Captured(args[i], pieces[i])])
  <1>9. Parser!MatchAll(args, line) = <<groups>>
    BY <1>8, FirstIs
  <1>10. Parser!Matches(line) = <<groups>>
    <2>1. ~(\E o \in Parser!ToSet(m_required_args) : o.type = "BOOLEAN")
      BY <1>1 DEF NoneFixed, Parser!ToSet
    <2> HIDE DEF groups
    <2> QED BY <1>9, <2>1 DEF Parser!Matches, args
  <1>11. Parser!Assigned(groups) = Holding(args, n, wanted, values)
    <2>1. values \in [Names -> Word]
      BY <1>1 DEF Word
    <2> QED BY <1>2, <1>4, <2>1, AssignedIs DEF args
  <1> HIDE DEF groups
  <1>12. <<groups>> # <<>> /\ <<groups>>[1] = groups
    OBVIOUS
  <1>13. /\ threw' = (Parser!Matches(line) = <<>>)
         /\ values' = IF Parser!Matches(line) = <<>> THEN values ELSE Parser!Assigned(Parser!Matches(line)[1])
    BY <1>5 DEF Parser!Parse
  <1> QED BY <1>10, <1>11, <1>12, <1>13 DEF args

LEMMA ParseKeeps ==
  ASSUME ParserInv, NEW wanted \in [Names -> Given], Parser!Parse(wanted)
  PROVE  ParserInv'
  <1>1. /\ parses' = parses + 1 /\ parses \in Nat
        /\ given' = [n \in Names |-> IF wanted[n] = Unset THEN given[n] ELSE wanted[n]]
        /\ m_optional_args' = m_optional_args /\ m_required_args' = m_required_args /\ plain' = plain
    BY DEF Parser!Parse, ParserInv
  <1>2. given \in [Names -> Given] /\ Declares(m_optional_args, m_required_args) /\ (plain => NoneFixed(m_required_args))
    BY DEF ParserInv
  <1>3. given' \in [Names -> Given] /\ parses' \in Nat /\ parses' # 0
    BY <1>1, <1>2
  <1>4. CASE ~plain
    BY <1>1, <1>2, <1>3, <1>4 DEF ParserInv, GetsWhatWasGiven, Parser!GetsWhatWasGiven
  <1>5. CASE plain
    <2> DEFINE args == Parser!Declared
    <2>1. ~threw' /\ values' = Holding(args, Len(args), wanted, values)
      BY <1>5, ParseGives
    <2>2. values \in [Names -> Given] /\ \A o \in Parser!ToSet(args) : values[o.name] = given[o.name]
      BY <1>5 DEF ParserInv, GetsWhatWasGiven, Parser!GetsWhatWasGiven
    <2>3. args \in Seq(Declaration) /\ args' = args
      BY <1>1, <1>2, DeclaredIs DEF Chained, Parser!Declared
    <2> HIDE DEF args
    <2>4. values' \in [Names -> Given]
      BY <2>1, <2>2 DEF Holding
    <2>5. ASSUME NEW o \in Parser!ToSet(args) PROVE values'[o.name] = given'[o.name]
      <3>1. PICK i \in 1 .. Len(args) : args[i] = o
        BY <2>3 DEF Parser!ToSet
      <3>2. o \in Declaration
        BY <2>3, <3>1
      <3>3. o.name \in Names
        BY <3>2 DEF Declaration
      <3>4. values'[o.name] = IF wanted[o.name] # Unset THEN wanted[o.name] ELSE values[o.name]
        BY <2>1, <3>1, <3>3 DEF Holding
      <3> QED BY <1>1, <2>2, <3>3, <3>4
    <2>6. GetsWhatWasGiven'
      BY <2>1, <2>3, <2>5 DEF GetsWhatWasGiven, Parser!GetsWhatWasGiven, args
    <2> QED BY <1>1, <1>2, <1>3, <2>4, <2>6 DEF ParserInv
  <1> QED BY <1>4, <1>5

\* getValue of what addArgument declared, whatever the declarations, the values
\* and the command lines: a line in the order of declaration is always accepted,
\* and every argument holds what was last given for it, as long as no BOOLEAN is
\* required.
THEOREM GetsWhatWasGivenHolds ==
  Parser!Spec => []GetsWhatWasGiven
  <1>1. Parser!Init => ParserInv
    <2> SUFFICES ASSUME Parser!Init PROVE ParserInv
      OBVIOUS
    <2>1. /\ m_optional_args = <<>> /\ m_required_args = <<>>
          /\ values = [n \in Names |-> Unset] /\ given = [n \in Names |-> Unset]
          /\ plain = TRUE /\ threw = FALSE /\ parses = 0
      BY DEF Parser!Init
    <2>2. Declares(m_optional_args, m_required_args) /\ NoneFixed(m_required_args)
      BY <2>1 DEF Declares, NoneFixed
    <2>3. GetsWhatWasGiven
      BY <2>1 DEF GetsWhatWasGiven, Parser!GetsWhatWasGiven
    <2>4. values \in [Names -> Given] /\ given \in [Names -> Given]
      BY <2>1 DEF Given
    <2> QED BY <2>1, <2>2, <2>3, <2>4 DEF ParserInv
  <1>2. ParserInv /\ [Parser!Next]_(Parser!parserVars) => ParserInv'
    <2> SUFFICES ASSUME ParserInv, [Parser!Next]_(Parser!parserVars) PROVE ParserInv'
      OBVIOUS
    <2>1. ASSUME NEW n \in Names, NEW t \in {"BOOLEAN", "STRING", "INTEGER"}, NEW r \in BOOLEAN, parses = 0,
                 Parser!AddArgument([name |-> n, type |-> t, required |-> r])
          PROVE  ParserInv'
      <3>1. [name |-> n, type |-> t, required |-> r] \in Declaration
        BY DEF Declaration
      <3> QED BY <2>1, <3>1, AddKeeps
    <2>2. ASSUME NEW wanted \in [Names -> {Unset, Parser!Flipped} \cup Texts \cup Numbers], Parser!Parse(wanted)
          PROVE  ParserInv'
      BY <2>2, ParseKeeps DEF Given
    <2>3. CASE Parser!Clean
      <3>1. /\ values' = [n \in Names |-> Unset] /\ given' = [n \in Names |-> Unset]
            /\ m_optional_args' = m_optional_args /\ m_required_args' = m_required_args /\ plain' = plain
            /\ threw' = threw /\ parses' = parses
        BY <2>3 DEF Parser!Clean
      <3>2. values' \in [Names -> Given] /\ given' \in [Names -> Given]
        BY <3>1 DEF Given
      <3>3. GetsWhatWasGiven'
        BY <3>1 DEF ParserInv, GetsWhatWasGiven, Parser!GetsWhatWasGiven
      <3> QED BY <3>1, <3>2, <3>3 DEF ParserInv
    <2>4. CASE UNCHANGED Parser!parserVars
      BY <2>4 DEF Parser!parserVars, ParserInv, GetsWhatWasGiven, Parser!GetsWhatWasGiven, Parser!Declared
    <2> QED BY <2>1, <2>2, <2>3, <2>4 DEF Parser!Next
  <1>3. ParserInv => GetsWhatWasGiven
    BY DEF ParserInv
  <1> QED BY <1>1, <1>2, <1>3, PTL DEF Parser!Spec
------------------------------------------------------------------------------
(* The tree of widgets.                                                       *)

\* What waits below p is known at p.
Knows(p) == \A c \in Tree!ToSet(children[p]) : (c \in Tree!AllPanels /\ needs[c]) \/ c \in outdated => needs[p]

TreeInv ==
  /\ parent \in [Tree!Widgets -> Tree!AllPanels \cup {Nobody}]
  /\ needs \in [Tree!AllPanels -> BOOLEAN]
  /\ running = "building" => \A p \in Tree!AllPanels : needs[p]
  /\ ~grown => /\ children \in [Tree!AllPanels -> Seq(Tree!Widgets)]
               /\ \A p \in Tree!AllPanels : \A c \in Tree!ToSet(children[p]) : parent[c] = p
               /\ \A p \in Tree!Below(Root) \cap Tree!AllPanels : Knows(p)

\* A set of panels with Root and every panel in one of them.
HoldsPanels(s) ==
  s \in SUBSET Tree!AllPanels /\ Root \in s /\ \A x \in s : Tree!ToSet(children[x]) \cap Tree!AllPanels \subseteq s

LEMMA PanelsIs ==
  ASSUME NEW q
  PROVE  q \in Tree!PanelsBelow(Root) <=> q \in Tree!AllPanels /\ \A s : HoldsPanels(s) => q \in s
  BY DEF Tree!PanelsBelow, HoldsPanels

\* The tree below Root has Root, and the children of every panel it has; its
\* panels are those that are PanelsBelow.
LEMMA BelowHas ==
  ASSUME children \in [Tree!AllPanels -> Seq(Tree!Widgets)]
  PROVE  /\ Root \in Tree!PanelsBelow(Root)
         /\ Tree!Below(Root) \cap Tree!AllPanels = Tree!PanelsBelow(Root)
         /\ \A p \in Tree!PanelsBelow(Root) : Tree!ToSet(children[p]) \subseteq Tree!Below(Root)
         /\ \A c \in Tree!Below(Root) \ {Root} : \E p \in Tree!PanelsBelow(Root) : c \in Tree!ToSet(children[p])
  <1> DEFINE panels == Tree!PanelsBelow(Root)
  <1>1. Root \in panels
    BY PanelsIs DEF HoldsPanels, Tree!AllPanels
  <1>2. ASSUME NEW p \in panels, NEW c \in Tree!ToSet(children[p]) \cap Tree!AllPanels
        PROVE  c \in panels
    <2> SUFFICES ASSUME NEW s, HoldsPanels(s) PROVE c \in s
      BY PanelsIs
    <2>1. p \in s
      BY PanelsIs
    <2> QED BY <2>1 DEF HoldsPanels
  <1>3. panels \subseteq Tree!AllPanels
    BY PanelsIs
  <1>4. Tree!Below(Root) = panels \cup UNION {Tree!ToSet(children[q]) : q \in panels}
    BY DEF Tree!Below, Tree!PanelsBelow
  <1>5. ASSUME NEW q \in panels \ {Root} PROVE \E p \in panels : q \in Tree!ToSet(children[p])
    <2> DEFINE s == {Root} \cup {x \in panels : \E p \in panels : x \in Tree!ToSet(children[p])}
    <2>1. HoldsPanels(s)
      <3>1. s \subseteq panels
        BY <1>1
      <3>2. \A x \in s : Tree!ToSet(children[x]) \cap Tree!AllPanels \subseteq s
        BY <1>2, <3>1
      <3> QED BY <1>3, <3>1, <3>2 DEF HoldsPanels
    <2> HIDE DEF s
    <2>2. q \in s
      BY <2>1, PanelsIs
    <2> QED BY <2>2 DEF s
  <1> HIDE DEF panels
  <1>6. Tree!Below(Root) \cap Tree!AllPanels = panels
    BY <1>2, <1>3, <1>4
  <1>7. \A p \in panels : Tree!ToSet(children[p]) \subseteq Tree!Below(Root)
    BY <1>4
  <1>8. \A c \in Tree!Below(Root) \ {Root} : \E p \in panels : c \in Tree!ToSet(children[p])
    BY <1>4, <1>5
  <1> QED BY <1>1, <1>6, <1>7, <1>8 DEF panels

\* What waits anywhere below Root is known at Root.
LEMMA KnowsAll ==
  ASSUME TreeInv, ~grown, ~needs[Root]
  PROVE  \A c \in Tree!Below(Root) \ {Root} : ~(c \in Tree!AllPanels /\ needs[c]) /\ c \notin outdated
  <1> DEFINE panels == Tree!PanelsBelow(Root)
             s == {x \in panels : ~needs[x]}
  <1>1. /\ Root \in panels /\ panels \subseteq Tree!AllPanels
        /\ Tree!Below(Root) \cap Tree!AllPanels = panels
        /\ \A p \in panels : Tree!ToSet(children[p]) \subseteq Tree!Below(Root)
        /\ \A c \in Tree!Below(Root) \ {Root} : \E p \in panels : c \in Tree!ToSet(children[p])
    BY BelowHas DEF TreeInv
  <1>2. \A p \in panels : Knows(p)
    BY <1>1 DEF TreeInv
  <1>3. \A p \in panels : HoldsPanels(s) => p \in s
    <2> HIDE DEF s
    <2> QED BY PanelsIs
  <1> HIDE DEF panels
  <1>4. HoldsPanels(s)
    <2>1. ASSUME NEW x \in s, NEW c \in Tree!ToSet(children[x]) \cap Tree!AllPanels PROVE c \in s
      <3>1. c \in panels
        BY <1>1
      <3>2. ~needs[c]
        BY <1>2 DEF Knows
      <3> QED BY <3>1, <3>2
    <2> QED BY <1>1, <2>1 DEF HoldsPanels
  <1>5. \A p \in panels : ~needs[p]
    BY <1>3, <1>4
  <1> HIDE DEF s
  <1> QED BY <1>1, <1>2, <1>5 DEF Knows

------------------------------------------------------------------------------
(* The changes of the tree.                                                   *)

\* setRepacking(true): the panel is told, and with each panel told its parent knows.
LEMMA ToldUpwards ==
  ASSUME NEW p \in Tree!AllPanels, needs \in [Tree!AllPanels -> BOOLEAN], NEW flags, flags = Tree!Repacking(needs, p)
  PROVE  /\ flags \in [Tree!AllPanels -> BOOLEAN]
         /\ flags[p]
         /\ \A q \in Tree!AllPanels : needs[q] => flags[q]
         /\ \A q \in Tree!AllPanels : flags[q] /\ ~needs[q] /\ parent[q] \in Tree!AllPanels \ {Nobody} => flags[parent[q]]
  <1> DEFINE told == Tree!Told(needs, p)
  <1>1. p \in told
    BY DEF Tree!Told
  <1>2. ASSUME NEW q \in told, parent[q] \in Tree!AllPanels \ {Nobody}, ~needs[parent[q]]
        PROVE  parent[q] \in told
    <2> SUFFICES ASSUME NEW s \in SUBSET Tree!AllPanels, p \in s,
                        \A x \in s : parent[x] = Nobody \/ needs[parent[x]] \/ parent[x] \in s
                 PROVE  parent[q] \in s
      BY <1>2 DEF Tree!Told
    <2>1. q \in s
      BY DEF Tree!Told
    <2> QED BY <1>2, <2>1
  <1>3. told \subseteq Tree!AllPanels
    BY DEF Tree!Told
  <1>4. flags = [q \in Tree!AllPanels |-> needs[q] \/ q \in told]
    BY DEF Tree!Repacking
  <1> HIDE DEF told
  <1>5. flags \in [Tree!AllPanels -> BOOLEAN] /\ flags[p] /\ \A q \in Tree!AllPanels : needs[q] => flags[q]
    BY <1>1, <1>4
  <1>6. ASSUME NEW q \in Tree!AllPanels, flags[q], ~needs[q], parent[q] \in Tree!AllPanels \ {Nobody}
        PROVE  flags[parent[q]]
    <2>1. q \in told
      BY <1>4, <1>6
    <2>2. needs[parent[q]] \/ parent[q] \in told
      BY <1>2, <1>6, <2>1
    <2> QED BY <1>4, <1>6, <2>2
  <1> QED BY <1>5, <1>6

\* forceParentRepack
LEMMA ForceKeeps ==
  ASSUME TreeInv, NEW w \in Tree!Widgets, Tree!forceParentRepack(w),
         UNCHANGED <<parent, children, running, grown>>, Nobody \notin Tree!AllPanels
  PROVE  TreeInv'
  <1>1. CASE parent[w] = Nobody
    <2>1. needs' = needs /\ outdated' = outdated \cup {w}
      BY <1>1 DEF Tree!forceParentRepack
    <2>2. Tree!Below(Root)' = Tree!Below(Root)
      BY DEF Tree!Below, Tree!PanelsBelow
    <2>3. ASSUME ~grown', NEW p \in Tree!Below(Root) \cap Tree!AllPanels PROVE Knows(p)'
      <3>1. Knows(p) /\ \A c \in Tree!ToSet(children[p]) : parent[c] = p
        BY <2>3 DEF TreeInv
      <3> QED BY <1>1, <2>1, <3>1 DEF Knows
    <2> QED BY <2>1, <2>2, <2>3 DEF TreeInv
  <1>2. CASE parent[w] # Nobody
    <2>1. needs' = Tree!Repacking(needs, parent[w]) /\ outdated' = outdated \cup {w}
      BY <1>2 DEF Tree!forceParentRepack
    <2>2. parent[w] \in Tree!AllPanels
      BY <1>2 DEF TreeInv
    <2>3. /\ needs' \in [Tree!AllPanels -> BOOLEAN]
          /\ needs'[parent[w]]
          /\ \A q \in Tree!AllPanels : needs[q] => needs'[q]
          /\ \A q \in Tree!AllPanels : needs'[q] /\ ~needs[q] /\ parent[q] \in Tree!AllPanels \ {Nobody} => needs'[parent[q]]
      <3>1. PICK flags : flags = Tree!Repacking(needs, parent[w])
        OBVIOUS
      <3> QED BY <2>1, <2>2, <3>1, ToldUpwards DEF TreeInv
    <2>4. Tree!Below(Root)' = Tree!Below(Root)
      BY DEF Tree!Below, Tree!PanelsBelow
    <2>5. ASSUME ~grown', NEW p \in Tree!Below(Root) \cap Tree!AllPanels PROVE Knows(p)'
      <3>1. Knows(p) /\ \A c \in Tree!ToSet(children[p]) : parent[c] = p
        BY <2>5 DEF TreeInv
      <3> QED BY <1>2, <2>1, <2>3, <3>1 DEF Knows
    <2> QED BY <2>1, <2>3, <2>4, <2>5 DEF TreeInv
  <1> QED BY <1>1, <1>2

LEMMA SameKeeps ==
  ASSUME TreeInv, UNCHANGED <<parent, children, needs, running, grown, outdated>>
  PROVE  TreeInv'
  <1>1. Tree!Below(Root)' = Tree!Below(Root)
    BY DEF Tree!Below, Tree!PanelsBelow
  <1>2. \A p \in Tree!AllPanels : Knows(p)' <=> Knows(p)
    BY DEF Knows
  <1> QED BY <1>1, <1>2 DEF TreeInv

LEMMA AddChildKeeps ==
  ASSUME TreeInv, NEW p \in Tree!AllPanels, NEW w \in Tree!Widgets \ {Root}, Tree!AddChild(p, w), Nobody \notin Tree!AllPanels
  PROVE  TreeInv'
  <1>1. parent' = [parent EXCEPT ![w] = p] /\ needs' = needs /\ running' = running /\ outdated' = outdated
    BY DEF Tree!AddChild
  <1>2. parent' \in [Tree!Widgets -> Tree!AllPanels \cup {Nobody}]
    BY <1>1 DEF TreeInv
  <1>3. ASSUME ~grown'
        PROVE  /\ children' \in [Tree!AllPanels -> Seq(Tree!Widgets)]
               /\ \A q \in Tree!AllPanels : \A c \in Tree!ToSet(children'[q]) : parent'[c] = q
               /\ \A q \in Tree!AllPanels : needs'[q]
    <2>1. ~grown /\ running = "building" /\ parent[w] = Nobody
      BY <1>3 DEF Tree!AddChild
    <2>2. children' = [children EXCEPT ![p] = Append(@, w)]
      BY <2>1 DEF Tree!AddChild
    <2>3. children \in [Tree!AllPanels -> Seq(Tree!Widgets)]
      BY <2>1 DEF TreeInv
    <2>4. Tree!ToSet(children'[p]) \subseteq Tree!ToSet(children[p]) \cup {w}
      <3>1. children'[p] = Append(children[p], w) /\ children[p] \in Seq(Tree!Widgets)
        BY <2>2, <2>3
      <3> QED BY <3>1 DEF Tree!ToSet
    <2>5. \A q \in Tree!AllPanels : \A c \in Tree!ToSet(children[q]) : parent[c] = q /\ c # w /\ c \in Tree!Widgets
      BY <2>1, <2>3 DEF TreeInv, Tree!ToSet
    <2>6. ASSUME NEW q \in Tree!AllPanels, NEW c \in Tree!ToSet(children'[q]) PROVE parent'[c] = q
      <3>1. parent'[w] = p /\ \A x \in Tree!Widgets \ {w} : parent'[x] = parent[x]
        BY <1>1 DEF TreeInv
      <3>2. q # p => children'[q] = children[q]
        BY <2>2, <2>3
      <3> QED BY <2>4, <2>5, <3>1, <3>2
    <2> QED BY <1>1, <2>1, <2>2, <2>3, <2>6 DEF TreeInv
  <1> QED BY <1>1, <1>2, <1>3 DEF TreeInv, Knows

LEMMA DrawKeeps == TreeInv /\ Tree!Draw => TreeInv'
  <1> SUFFICES ASSUME TreeInv, Tree!Draw PROVE TreeInv'
    OBVIOUS
  <1>1. parent' = parent /\ children' = children /\ grown' = grown /\ needs[Root]
    BY DEF Tree!Draw, TreeInv, Tree!AllPanels
  <1>2. running' \in {"thrown", "shown"}
    BY <1>1 DEF Tree!Draw
  <1>3. \/ needs' = needs /\ outdated' = outdated
        \/ /\ needs' = [p \in Tree!AllPanels |-> needs[p] /\ p \notin Tree!Below(Root)]
           /\ outdated' = outdated \ Tree!Below(Root)
    BY <1>1 DEF Tree!Draw
  <1>4. needs' \in [Tree!AllPanels -> BOOLEAN]
    BY <1>3 DEF TreeInv
  <1>5. Tree!Below(Root)' = Tree!Below(Root)
    BY <1>1 DEF Tree!Below, Tree!PanelsBelow
  <1>6. ASSUME ~grown', NEW p \in Tree!Below(Root) \cap Tree!AllPanels PROVE Knows(p)'
    <2>1. Knows(p) /\ children \in [Tree!AllPanels -> Seq(Tree!Widgets)]
      BY <1>1, <1>6 DEF TreeInv
    <2>2. Tree!ToSet(children[p]) \subseteq Tree!Below(Root)
      BY <2>1, BelowHas
    <2> QED BY <1>1, <1>3, <2>1, <2>2 DEF Knows
  <1> QED BY <1>1, <1>2, <1>4, <1>5, <1>6 DEF TreeInv

\* RepackReachesRoot, of any tree that the program builds before its first
\* frame, however its widgets change between the frames.
THEOREM RepackReachesRootHolds ==
  Tree!Spec => []RepackReachesRoot
  <1>1. Tree!Init => TreeInv
    <2> SUFFICES ASSUME Tree!Init PROVE TreeInv
      OBVIOUS
    <2>1. /\ children \in [Tree!AllPanels -> Seq(Tree!Widgets)]
          /\ \A p, q \in Tree!AllPanels : Tree!ToSet(children[p]) \cap Tree!ToSet(children[q]) # {} => p = q
      <3>1. PICK start \in Starts : children = start.children
        BY DEF Tree!Init
      <3> QED BY <3>1, BuildsTrees
    <2>2. parent = [w \in Tree!Widgets |-> IF \E p \in Tree!AllPanels : w \in Tree!ToSet(children[p])
                                           THEN CHOOSE p \in Tree!AllPanels : w \in Tree!ToSet(children[p]) ELSE Nobody]
      BY DEF Tree!Init
    <2>3. parent \in [Tree!Widgets -> Tree!AllPanels \cup {Nobody}]
      BY <2>2
    <2>4. ASSUME NEW p \in Tree!AllPanels, NEW c \in Tree!ToSet(children[p]) PROVE parent[c] = p
      <3>1. c \in Tree!Widgets
        BY <2>1 DEF Tree!ToSet
      <3>2. parent[c] \in Tree!AllPanels /\ c \in Tree!ToSet(children[parent[c]])
        BY <2>2, <3>1
      <3> QED BY <2>1, <3>2
    <2>5. needs = [p \in Tree!AllPanels |-> TRUE] /\ running = "building"
      BY DEF Tree!Init
    <2> QED BY <2>1, <2>3, <2>4, <2>5 DEF TreeInv, Knows
  <1>2. TreeInv /\ [Tree!Next]_(Tree!treeVars) => TreeInv'
    <2> SUFFICES ASSUME TreeInv, [Tree!Next]_(Tree!treeVars) PROVE TreeInv'
      OBVIOUS
    <2>0. Nobody \notin Tree!AllPanels
      BY BuildsTrees
    <2>1. ASSUME NEW p \in Tree!AllPanels, NEW w \in Tree!Widgets \ {Root}, Tree!AddChild(p, w) PROVE TreeInv'
      BY <2>0, <2>1, AddChildKeeps
    <2>2. ASSUME NEW p \in Tree!AllPanels, NEW w \in Tree!Widgets \ {Root}, Tree!RemoveChild(p, w) PROVE TreeInv'
      BY <2>2 DEF Tree!RemoveChild, TreeInv
    <2>3. ASSUME NEW w \in Tree!Widgets \ {Root}, Tree!SetVisibility(w) PROVE TreeInv'
      BY <2>0, <2>3, ForceKeeps DEF Tree!SetVisibility, Tree!Quiet
    <2>4. ASSUME NEW w \in Tree!Widgets \ {Root}, NEW side \in Sides, NEW n \in Spaces, Tree!SetMargin(w, side, n)
          PROVE  TreeInv'
      BY <2>0, <2>4, ForceKeeps DEF Tree!SetMargin, Tree!Quiet
    <2>5. ASSUME NEW w \in Tree!Widgets \ {Root}, NEW side \in Sides, NEW n \in Spaces, Tree!SetPadding(w, side, n)
          PROVE  TreeInv'
      <3>1. CASE side \in {2, 3}
        BY <2>0, <2>5, <3>1, ForceKeeps DEF Tree!SetPadding, Tree!Quiet
      <3>2. CASE side \notin {2, 3}
        BY <2>5, <3>2, SameKeeps DEF Tree!SetPadding, Tree!Quiet
      <3> QED BY <3>1, <3>2
    <2>6. ASSUME NEW w \in Tree!Widgets \ {Root}, NEW n \in Widths, Tree!SetContent(w, n) PROVE TreeInv'
      BY <2>0, <2>6, ForceKeeps DEF Tree!SetContent, Tree!Quiet
    <2>7. ASSUME NEW p \in Tree!AllPanels, NEW a \in Aligns, Tree!SetAlignment(p, a) PROVE TreeInv'
      BY <2>7, SameKeeps DEF Tree!SetAlignment
    <2>8. ASSUME Tree!Draw PROVE TreeInv'
      BY <2>8, DrawKeeps
    <2>9. ASSUME UNCHANGED Tree!treeVars PROVE TreeInv'
      BY <2>9, SameKeeps DEF Tree!treeVars
    <2> QED BY <2>1, <2>2, <2>3, <2>4, <2>5, <2>6, <2>7, <2>8, <2>9 DEF Tree!Next
  <1>3. TreeInv => RepackReachesRoot
    BY KnowsAll DEF RepackReachesRoot, Tree!RepackReachesRoot, Tree!Settled
  <1> QED BY <1>1, <1>2, <1>3, PTL DEF Tree!Spec

------------------------------------------------------------------------------
(* The screen.                                                                *)

Places == Screen!Pos
Glyph == (Narrow \cup Wide) \ Zero

BufferOK(chars, marks) ==
  /\ chars \in [Places -> Glyph \cup {NoChar}]
  /\ marks \in [Places -> BOOLEAN]
  /\ \A p \in Places : chars[p] \in Wide => p + 1 \in Places
  /\ \A p \in Places : chars[p] \in Wide /\ marks[p] /\ chars[p + 1] # NoChar => marks[p + 1]

ScreenOK(screen) ==
  /\ screen \in [Places -> Glyph \cup {Space, Half}]
  /\ \A p \in Places : screen[p] = Half => p - 1 \in Places /\ screen[p - 1] \in Wide

\* The terminal shows what the cell holds, where the cell was not set since.
TidyAt(chars, p) == chars[p] \in Wide => chars[p + 1] = NoChar
Shows(chars, marks, screen, k) ==
  \A p \in Places : chars[p] # NoChar /\ TidyAt(chars, p) /\ (p < k \/ ~marks[p]) => screen[p] = chars[p]

ScreenInv ==
  /\ BufferOK(cells, updated) /\ ScreenOK(shown) /\ flushed \in BOOLEAN
  /\ Shows(cells, updated, shown, 0)
  /\ flushed => \A p \in Places : ~updated[p]

LEMMA WidthOf ==
  ASSUME NEW c \in Narrow \cup Wide \cup Zero, NEW w, w = Screen!charwidth(c)
  PROVE  w \in {0, 1, 2} /\ (w = 2 <=> c \in Wide) /\ (w # 0 => c \in Glyph) /\ (c \in Glyph => w # 0)
  <1>1. CASE c \in Wide
    <2>1. c \notin Zero
      BY <1>1, WritesCharacters
    <2>2. w = 2
      BY <1>1, <2>1 DEF Screen!charwidth
    <2> QED BY <1>1, <2>1, <2>2 DEF Glyph
  <1>2. CASE c \in Zero
    <2>1. c \notin Wide
      BY <1>2, WritesCharacters
    <2>2. w = 0
      BY <1>2, <2>1 DEF Screen!charwidth
    <2> QED BY <1>2, <2>1, <2>2 DEF Glyph
  <1>3. CASE c \notin Wide /\ c \notin Zero
    <2>1. w = 1
      BY <1>3 DEF Screen!charwidth
    <2> QED BY <1>3, <2>1 DEF Glyph
  <1> QED BY <1>1, <1>2, <1>3

\* A character set.
LEMMA SetCharKeeps ==
  ASSUME ScreenOK(shown),
         NEW buf, buf.pos \in Nat, BufferOK(buf.cells, buf.updated), Shows(buf.cells, buf.updated, shown, 0),
         NEW c \in Narrow \cup Wide \cup Zero, NEW redraw \in BOOLEAN,
         NEW next, next = Screen!SetChar(buf, c, redraw)
  PROVE  next.pos \in Nat /\ BufferOK(next.cells, next.updated) /\ Shows(next.cells, next.updated, shown, 0)
  <1> DEFINE pos == buf.pos
             old == buf.cells
             marks == buf.updated
             w == Screen!charwidth(c)
             new == [p \in Places |-> IF p = pos THEN c ELSE IF p = pos + 1 /\ c \in Wide THEN NoChar ELSE old[p]]
             set == [marks EXCEPT ![pos] = TRUE]
  <1>1. CASE next = buf
    BY <1>1
  <1>2. CASE /\ w # 0 /\ pos + w - 1 < Columns /\ ~redraw /\ old[pos] = c
             /\ next = [pos |-> pos + w, updated |-> marks, cells |-> old]
    <2>1. w \in {0, 1, 2}
      BY WidthOf
    <2> QED BY <1>2, <2>1
  <1>3. CASE /\ w # 0 /\ pos + w - 1 < Columns
             /\ next = [pos |-> pos + w, updated |-> set, cells |-> new]
    <2>1. w \in {1, 2} /\ (w = 2 <=> c \in Wide) /\ c \in Glyph
      BY <1>3, WidthOf
    <2>2. pos \in Places /\ (c \in Wide => pos + 1 \in Places)
      BY <1>3, <2>1, WritesCharacters DEF Places, Screen!Pos
    <2>3. c # NoChar /\ NoChar \notin Wide
      BY <2>1, WritesCharacters DEF Glyph
    <2>4. next.pos \in Nat /\ next.cells = new /\ next.updated = set
      BY <1>3, <2>1
    <2>5. /\ \A p \in Places : p # pos /\ ~(p = pos + 1 /\ c \in Wide) => new[p] = old[p] /\ set[p] = marks[p]
          /\ new[pos] = c /\ set[pos] = TRUE /\ (c \in Wide => new[pos + 1] = NoChar)
          /\ new \in [Places -> Glyph \cup {NoChar}] /\ set \in [Places -> BOOLEAN]
      BY <2>1, <2>2 DEF BufferOK
    <2>6. Places \subseteq Int /\ pos \in Nat
      BY DEF Places, Screen!Pos
    <2> HIDE DEF new, set, w
    <2>8. \A p \in Places : new[p] \in Wide => p + 1 \in Places
      BY <2>2, <2>3, <2>5 DEF BufferOK
    <2>9. ASSUME NEW p \in Places, new[p] \in Wide, set[p], new[p + 1] # NoChar PROVE set[p + 1]
      <3>1. p # pos /\ ~(p = pos + 1 /\ c \in Wide)
        BY <2>9, <2>3, <2>5
      <3>2. new[p] = old[p] /\ set[p] = marks[p] /\ p + 1 \in Places
        BY <2>8, <2>9, <3>1, <2>5
      <3>3. CASE p + 1 = pos
        BY <3>3, <2>5
      <3>4. CASE p + 1 # pos
        <4>1. new[p + 1] = old[p + 1] /\ set[p + 1] = marks[p + 1]
          BY <2>6, <3>1, <3>2, <3>4, <2>5
        <4> QED BY <4>1, <3>2, <2>9 DEF BufferOK
      <3> QED BY <3>3, <3>4
    <2>10. BufferOK(new, set)
      BY <2>5, <2>8, <2>9 DEF BufferOK
    <2>11. ASSUME NEW p \in Places, new[p] # NoChar, TidyAt(new, p), p < 0 \/ ~set[p] PROVE shown[p] = new[p]
      <3>1. p # pos /\ ~(p = pos + 1 /\ c \in Wide) /\ ~set[p]
        BY <2>11, <2>5 DEF Places, Screen!Pos
      <3>2. new[p] = old[p] /\ ~marks[p]
        BY <3>1, <2>5
      <3>3. TidyAt(old, p)
        <4>1. SUFFICES ASSUME old[p] \in Wide PROVE old[p + 1] = NoChar
          BY DEF TidyAt
        <4>2. new[p + 1] = NoChar /\ p + 1 \in Places
          BY <4>1, <3>2, <2>11, <2>8 DEF TidyAt
        <4>3. p + 1 # pos
          BY <4>2, <2>3, <2>5
        <4> QED BY <4>2, <4>3, <3>1, <2>5, <2>6
      <3> QED BY <2>11, <3>2, <3>3 DEF Shows
    <2>12. Shows(new, set, shown, 0)
      BY <2>11 DEF Shows
    <2> QED BY <2>4, <2>10, <2>12
  <1>4. next = buf \/ (w # 0 /\ ~(pos + w - 1 >= Columns))
    BY DEF Screen!SetChar
  <1>5. w \in {0, 1, 2}
    BY WidthOf
  <1>6. Places = Screen!Pos
    BY DEF Places
  <1>7. CASE w # 0 /\ pos + w - 1 < Columns
    <2>1. ~(w = 0 \/ pos + w - 1 >= Columns)
      BY <1>5, <1>7, WritesCharacters
    <2>2. next = [pos |-> pos + w,
                  updated |-> IF ~redraw /\ old[pos] = c THEN marks ELSE set,
                  cells |-> IF ~redraw /\ old[pos] = c THEN old ELSE new]
      BY <2>1, <1>6, Zenon DEF Screen!SetChar
    <2> HIDE DEF new, set, w, old, marks, pos
    <2>3. CASE ~redraw /\ old[pos] = c
      BY <2>2, <2>3, <1>7, <1>2
    <2>4. CASE ~(~redraw /\ old[pos] = c)
      BY <2>2, <2>4, <1>7, <1>3
    <2> QED BY <2>3, <2>4
  <1> QED BY <1>1, <1>4, <1>5, <1>7, WritesCharacters

------------------------------------------------------------------------------
(* set of a string: a character at a time.                                    *)

LEMMA LastOf ==
  ASSUME NEW n \in Nat, NEW last, last = [s \in SUBSET (1 .. n) |-> Screen!Max(s)]
  PROVE  CutsLast(n, last)
  <1> SUFFICES ASSUME NEW k \in 1 .. n, NEW s \in SUBSET (1 .. k), k \in s PROVE last[s] = k
    BY DEF CutsLast
  <1>1. s \in SUBSET (1 .. n) /\ s \subseteq Int
    OBVIOUS
  <1>2. \A y \in s : k >= y
    OBVIOUS
  <1>3. \A x \in s : (\A y \in s : x >= y) => x = k
    BY <1>1, <1>2
  <1>4. Screen!Max(s) = k
    BY <1>2, <1>3 DEF Screen!Max
  <1> QED BY <1>1, <1>4

Buffers == [pos : Nat, cells : [Places -> Glyph \cup {NoChar}], updated : [Places -> BOOLEAN]]

LEMMA SetCharType ==
  ASSUME NEW buf \in Buffers, NEW c \in Narrow \cup Wide \cup Zero, NEW redraw \in BOOLEAN
  PROVE  Screen!SetChar(buf, c, redraw) \in Buffers
  <1> DEFINE w == Screen!charwidth(c)
             same == ~redraw /\ buf.cells[buf.pos] = c
             next == Screen!SetChar(buf, c, redraw)
  <1>1. CASE w = 0 \/ buf.pos + w - 1 >= Columns
    BY <1>1 DEF Screen!SetChar
  <1>2. CASE ~(w = 0 \/ buf.pos + w - 1 >= Columns)
    <2> DEFINE new == [p \in Places |-> IF p = buf.pos THEN c ELSE IF p = buf.pos + 1 /\ c \in Wide THEN NoChar
                                        ELSE buf.cells[p]]
               set == [buf.updated EXCEPT ![buf.pos] = TRUE]
               marks == IF same THEN buf.updated ELSE set
               chars == IF same THEN buf.cells ELSE new
    <2>1. w \in {1, 2} /\ c \in Glyph
      BY <1>2, WidthOf
    <2>2. buf.pos \in Nat /\ buf.cells \in [Places -> Glyph \cup {NoChar}] /\ buf.updated \in [Places -> BOOLEAN]
      BY DEF Buffers
    <2>3. new \in [Places -> Glyph \cup {NoChar}] /\ set \in [Places -> BOOLEAN] /\ buf.pos + w \in Nat
      <3>1. new \in [Places -> Glyph \cup {NoChar}]
        BY <2>1, <2>2
      <3>2. set \in [Places -> BOOLEAN]
        BY <2>2
      <3>3. buf.pos + w \in Nat
        <4> HIDE DEF w
        <4> QED BY <2>1, <2>2
      <3> QED BY <3>1, <3>2, <3>3
    <2>4. next = [pos |-> buf.pos + w, updated |-> marks, cells |-> chars]
      BY <1>2, Zenon DEF Screen!SetChar, Places
    <2>5. marks \in [Places -> BOOLEAN] /\ chars \in [Places -> Glyph \cup {NoChar}]
      <3> HIDE DEF new, set, same
      <3> QED BY <2>2, <2>3
    <2> DEFINE at == buf.pos + w
    <2>6. at \in Nat /\ next = [pos |-> at, updated |-> marks, cells |-> chars]
      BY <2>3, <2>4
    <2> HIDE DEF marks, chars, next, at
    <2>7. next \in Buffers
      BY <2>5, <2>6 DEF Buffers
    <2> QED BY <2>7 DEF next
  <1> QED BY <1>1, <1>2

LEMMA StringSteps ==
  ASSUME NEW content \in Strings, NEW pos \in Places, NEW redraw \in BOOLEAN,
         BufferOK(cells, updated),
         Screen!SetString(content, pos, redraw)
  PROVE  \E f : /\ f[1 .. 0] = [pos |-> pos, cells |-> cells, updated |-> updated]
                /\ \A k \in 1 .. Len(content) : f[1 .. k] = Screen!SetChar(f[1 .. k - 1], content[k], redraw)
                /\ cells' = f[1 .. Len(content)].cells /\ updated' = f[1 .. Len(content)].updated
  <1> DEFINE n == Len(content)
             base == [pos |-> pos, cells |-> cells, updated |-> updated]
             Eq(f) == f = [s \in SUBSET DOMAIN content |->
                             IF s = {} THEN base
                             ELSE Screen!SetChar(f[s \ {Screen!Max(s)}], content[Screen!Max(s)], redraw)]
             iter == CHOOSE f : Eq(f)
             last == [s \in SUBSET (1 .. n) |-> Screen!Max(s)]
  <1>1. /\ cells' = iter[DOMAIN content].cells
        /\ updated' = iter[DOMAIN content].updated
    BY DEF Screen!SetString, Screen!FoldLeft, Screen!MapThenFoldSet
  <1>2. content \in Seq(Narrow \cup Wide \cup Zero) /\ DOMAIN content = 1 .. n /\ n \in Nat
    BY WritesCharacters
  <1>3. CutsLast(n, last)
    BY <1>2, LastOf
  <1>4. \E f : Eq(f)
    <2> DEFINE F == [p \in Buffers \X (1 .. n) |-> Screen!SetChar(p[1], content[p[2]], redraw)]
    <2>1. \A buf \in Buffers, i \in 1 .. n : F[<<buf, i>>] = Screen!SetChar(buf, content[i], redraw)
      OBVIOUS
    <2>2. F \in [Buffers \X (1 .. n) -> Buffers]
      <3>1. \A p \in Buffers \X (1 .. n) : p[1] \in Buffers /\ content[p[2]] \in Narrow \cup Wide \cup Zero
        BY <1>2
      <3> QED BY <3>1, SetCharType
    <2>3. base \in Buffers
      BY DEF Buffers, BufferOK, Places, Screen!Pos
    <2> HIDE DEF F, last, base, n
    <2> PICK g : IsFold(g, Buffers, n, base, F, last)
      BY <1>2, <1>3, <2>2, <2>3, FoldExists
    <2>4. /\ g \in [SUBSET (1 .. n) -> Buffers]
          /\ \A s \in SUBSET (1 .. n) : g[s] = IF s = {} THEN base ELSE F[<<g[s \ {last[s]}], last[s]>>]
      BY DEF IsFold
    <2>5. ASSUME NEW s \in SUBSET (1 .. n), s # {}
          PROVE  last[s] \in 1 .. n /\ s \ {last[s]} \in SUBSET (1 .. n)
      BY <1>2, <1>3, <2>5, LastIn
    <2>6. ASSUME NEW s \in SUBSET (1 .. n), s # {}
          PROVE  g[s] = Screen!SetChar(g[s \ {last[s]}], content[last[s]], redraw)
      BY <2>1, <2>4, <2>5, <2>6
    <2>7. \A s \in SUBSET (1 .. n) : g[s] = IF s = {} THEN base
                                           ELSE Screen!SetChar(g[s \ {Screen!Max(s)}], content[Screen!Max(s)], redraw)
      BY <2>4, <2>6 DEF last
    <2>8. Eq(g)
      BY <1>2, <2>4, <2>7
    <2> QED BY <2>8
  <1>5. Eq(iter)
    <2> HIDE DEF Eq
    <2> QED BY <1>4
  <1> HIDE DEF iter
  <1>6. \A s \in SUBSET (1 .. n) : iter[s] = IF s = {} THEN base
                                            ELSE Screen!SetChar(iter[s \ {last[s]}], content[last[s]], redraw)
    BY <1>2, <1>5
  <1> HIDE DEF base, last, n
  <1>7. iter[1 .. 0] = base
    BY <1>2, <1>6, NoPlaces
  <1>8. ASSUME NEW k \in 1 .. n
        PROVE  iter[1 .. k] = Screen!SetChar(iter[1 .. k - 1], content[k], redraw)
    <2>1. CutsFirst(n, last, k)
      BY <1>2, <1>3, FirstPlaces
    <2> QED BY <1>6, <2>1 DEF CutsFirst
  <1> QED BY <1>1, <1>2, <1>7, <1>8 DEF base, n

\* A string written.
LEMMA StringKeeps ==
  ASSUME NEW content \in Strings, NEW pos \in Places, NEW redraw \in BOOLEAN,
         ScreenInv, Screen!SetString(content, pos, redraw)
  PROVE  ScreenInv'
  <1> DEFINE n == Len(content)
             Ok(buf) == buf.pos \in Nat /\ BufferOK(buf.cells, buf.updated) /\ Shows(buf.cells, buf.updated, shown, 0)
  <1>1. /\ BufferOK(cells, updated) /\ ScreenOK(shown) /\ Shows(cells, updated, shown, 0)
        /\ content \in Seq(Narrow \cup Wide \cup Zero) /\ n \in Nat /\ DOMAIN content = 1 .. n
    BY WritesCharacters DEF ScreenInv
  <1>2. PICK f : /\ f[1 .. 0] = [pos |-> pos, cells |-> cells, updated |-> updated]
                 /\ \A k \in 1 .. n : f[1 .. k] = Screen!SetChar(f[1 .. k - 1], content[k], redraw)
                 /\ cells' = f[1 .. n].cells /\ updated' = f[1 .. n].updated
    BY <1>1, StringSteps
  <1> DEFINE Good == {k \in Nat : k <= n => Ok(f[1 .. k])}
  <1>3. 0 \in Good
    <2>1. Ok(f[1 .. 0])
      BY <1>1, <1>2 DEF Places, Screen!Pos
    <2> QED BY <2>1
  <1>4. ASSUME NEW k \in Good PROVE k + 1 \in Good
    <2> HIDE DEF Ok, n
    <2>1. k \in Nat /\ (k <= n => Ok(f[1 .. k]))
      OBVIOUS
    <2>2. SUFFICES ASSUME k + 1 <= n PROVE Ok(f[1 .. k + 1])
      BY <2>1
    <2>3. Ok(f[1 .. k]) /\ k + 1 \in 1 .. n /\ (k + 1) - 1 = k
      BY <1>1, <2>1, <2>2
    <2>4. f[1 .. k + 1] = Screen!SetChar(f[1 .. k], content[k + 1], redraw) /\ content[k + 1] \in Narrow \cup Wide \cup Zero
      BY <1>1, <1>2, <2>3
    <2> QED BY <1>1, <2>3, <2>4, SetCharKeeps DEF Ok
  <1>5. Good \subseteq Nat
    OBVIOUS
  <1>6. n \in Good
    <2> HIDE DEF Good
    <2> QED BY <1>1, <1>3, <1>4, <1>5, Induction
  <1>7. Ok(f[1 .. n])
    BY <1>1, <1>6
  <1>8. BufferOK(cells', updated') /\ Shows(cells', updated', shown, 0)
    BY <1>2, <1>7
  <1>9. shown' = shown /\ flushed' = FALSE
    BY DEF Screen!SetString
  <1>10. Places' = Places
    BY DEF Places, Screen!Pos
  <1> QED BY <1>1, <1>8, <1>9 DEF ScreenInv, BufferOK, ScreenOK, Shows, TidyAt

------------------------------------------------------------------------------
(* flush: a cell at a time.                                                   *)

Screens == [Places -> Glyph \cup {Space, Half}]
AfterCell(screen, i) == IF updated[i - 1] THEN Screen!Put(screen, i - 1) ELSE screen

LEMMA PutType ==
  ASSUME NEW screen \in Screens, NEW p \in Places, BufferOK(cells, updated)
  PROVE  Screen!Put(screen, p) \in Screens
  <1> DEFINE c == cells[p]
             covered == p .. p + Screen!charwidth(c) - 1
             torn == {q \in Places \ covered : \/ q + 1 \in covered /\ screen[q + 1] = Half
                                               \/ q - 1 \in covered /\ screen[q] = Half}
  <1>1. c \in Glyph \cup {NoChar}
    BY DEF BufferOK
  <1>2. CASE c = NoChar
    BY <1>2 DEF Screen!Put
  <1>3. CASE c # NoChar
    <2>1. Screen!Put(screen, p) = [q \in Places |-> IF q = p THEN c ELSE IF q \in covered THEN Half
                                                   ELSE IF q \in torn THEN Space ELSE screen[q]]
      BY <1>3, Zenon DEF Screen!Put, Places
    <2> HIDE DEF c, covered, torn
    <2> QED BY <1>1, <1>3, <2>1 DEF Screens
  <1> QED BY <1>2, <1>3

LEMMA PutIs ==
  ASSUME NEW screen, NEW p \in Places, BufferOK(cells, updated), ScreenOK(screen), cells[p] # NoChar,
         NEW after, after = Screen!Put(screen, p)
  PROVE  /\ after \in Screens
         /\ after[p] = cells[p]
         /\ \A q \in Places : cells[p] \in Wide /\ q = p + 1 => after[q] = Half
         /\ \A q \in Places : q # p /\ ~(cells[p] \in Wide /\ q = p + 1) =>
              \/ after[q] = screen[q] /\ ~(q = p - 1 /\ screen[p] = Half)
                                      /\ ~(q = p + (IF cells[p] \in Wide THEN 2 ELSE 1) /\ screen[q] = Half)
              \/ after[q] = Space /\ q = p - 1 /\ screen[p] = Half
              \/ after[q] = Space /\ q > p /\ screen[q] = Half
  <1> DEFINE c == cells[p]
             w == Screen!charwidth(c)
             covered == p .. p + w - 1
             torn == {q \in Places \ covered : \/ q + 1 \in covered /\ screen[q + 1] = Half
                                               \/ q - 1 \in covered /\ screen[q] = Half}
  <1>1. c \in Glyph /\ p \in Nat /\ Places \subseteq Nat /\ screen \in Screens
    BY WritesCharacters DEF BufferOK, Places, Screen!Pos, ScreenOK, Screens
  <1>2. w = IF c \in Wide THEN 2 ELSE 1
    BY <1>1, WidthOf DEF Glyph
  <1>3. \A q \in Int : q \in covered <=> q = p \/ (c \in Wide /\ q = p + 1)
    <2> HIDE DEF w, c
    <2> QED BY <1>1, <1>2
  <1>4. after = [q \in Places |-> IF q = p THEN c ELSE IF q \in covered THEN Half
                                 ELSE IF q \in torn THEN Space ELSE screen[q]]
    BY Zenon DEF Screen!Put, Places
  <1>5. \A q \in Places : q \in torn <=> /\ q # p /\ ~(c \in Wide /\ q = p + 1)
                                         /\ \/ q = p - 1 /\ screen[p] = Half
                                            \/ q = p + (IF c \in Wide THEN 2 ELSE 1) /\ screen[q] = Half
    <2> SUFFICES ASSUME NEW q \in Places
                 PROVE  q \in torn <=> /\ q # p /\ ~(c \in Wide /\ q = p + 1)
                                       /\ \/ q = p - 1 /\ screen[p] = Half
                                          \/ q = p + (IF c \in Wide THEN 2 ELSE 1) /\ screen[q] = Half
      OBVIOUS
    <2>1. q \in Int /\ q + 1 \in Int /\ q - 1 \in Int
      BY <1>1
    <2>2. q \in covered <=> q = p \/ (c \in Wide /\ q = p + 1)
      BY <1>3, <2>1
    <2>3. q + 1 \in covered <=> q + 1 = p \/ (c \in Wide /\ q = p)
      BY <1>1, <1>3, <2>1
    <2>4. q - 1 \in covered <=> q - 1 = p \/ (c \in Wide /\ q = p + 2)
      BY <1>1, <1>3, <2>1
    <2>5. q \in torn <=> /\ q \notin covered
                         /\ \/ q + 1 \in covered /\ screen[q + 1] = Half
                            \/ q - 1 \in covered /\ screen[q] = Half
      OBVIOUS
    <2> HIDE DEF covered, torn, c
    <2> QED BY <1>1, <2>1, <2>2, <2>3, <2>4, <2>5
  <1> HIDE DEF covered, torn, c, w
  <1>6. after \in Screens
    BY <1>1, <1>4 DEF Screens
  <1>7. after[p] = c
    BY <1>4
  <1>8. ASSUME NEW q \in Places, c \in Wide, q = p + 1 PROVE after[q] = Half
    BY <1>1, <1>3, <1>4, <1>8
  <1>9. ASSUME NEW q \in Places, q # p, ~(c \in Wide /\ q = p + 1)
        PROVE  \/ after[q] = screen[q] /\ ~(q = p - 1 /\ screen[p] = Half)
                                       /\ ~(q = p + (IF c \in Wide THEN 2 ELSE 1) /\ screen[q] = Half)
               \/ after[q] = Space /\ q = p - 1 /\ screen[p] = Half
               \/ after[q] = Space /\ q > p /\ screen[q] = Half
    <2>1. q \notin covered
      BY <1>1, <1>3, <1>9
    <2>2. after[q] = IF q \in torn THEN Space ELSE screen[q]
      BY <1>4, <1>9, <2>1
    <2>3. q = p + (IF c \in Wide THEN 2 ELSE 1) => q > p
      BY <1>1
    <2> QED BY <1>5, <1>9, <2>2, <2>3
  <1> QED BY <1>6, <1>7, <1>8, <1>9 DEF c

\* A cell put: what is behind it is shown, what is before it is not touched.
LEMMA PutKeeps ==
  ASSUME NEW screen, NEW p \in Places, BufferOK(cells, updated), ScreenOK(screen),
         Shows(cells, updated, screen, p), updated[p],
         NEW after, after = Screen!Put(screen, p)
  PROVE  ScreenOK(after) /\ Shows(cells, updated, after, p + 1)
  <1>1. /\ p \in Nat /\ Places \subseteq Nat /\ screen \in Screens /\ cells \in [Places -> Glyph \cup {NoChar}]
        /\ Half \notin Glyph \cup {Space} /\ Half # Space /\ Half \notin Wide /\ NoChar \notin Glyph
    BY WritesCharacters DEF BufferOK, Places, Screen!Pos, ScreenOK, Screens, Glyph
  <1>2. CASE cells[p] = NoChar
    <2>1. after = screen
      BY <1>2 DEF Screen!Put
    <2>2. ASSUME NEW q \in Places, cells[q] # NoChar, TidyAt(cells, q), q < p + 1 \/ ~updated[q] PROVE screen[q] = cells[q]
      <3>1. q # p /\ (q < p \/ ~updated[q])
        BY <1>1, <1>2, <2>2
      <3> QED BY <2>2, <3>1 DEF Shows
    <2> QED BY <2>1, <2>2 DEF Shows
  <1>3. CASE cells[p] # NoChar
    <2> DEFINE wide == cells[p] \in Wide
    <2>1. /\ after \in Screens
          /\ after[p] = cells[p]
          /\ \A q \in Places : wide /\ q = p + 1 => after[q] = Half
          /\ \A q \in Places : q # p /\ ~(wide /\ q = p + 1) =>
               \/ after[q] = screen[q] /\ ~(q = p - 1 /\ screen[p] = Half)
                                       /\ ~(q = p + (IF wide THEN 2 ELSE 1) /\ screen[q] = Half)
               \/ after[q] = Space /\ q = p - 1 /\ screen[p] = Half
               \/ after[q] = Space /\ q > p /\ screen[q] = Half
      BY <1>3, PutIs
    <2>2. cells[p] \in Glyph /\ cells[p] # Half
      BY <1>1, <1>3
    <2>3. \A q \in Places : screen[q] = Half => q - 1 \in Places /\ screen[q - 1] \in Wide
      BY DEF ScreenOK
    <2> HIDE DEF wide
    <2>4. ASSUME NEW q \in Places, after[q] = Half PROVE q - 1 \in Places /\ after[q - 1] \in Wide
      <3>1. q # p
        BY <2>1, <2>2, <2>4
      <3>2. CASE wide /\ q = p + 1
        BY <1>1, <2>1, <3>2 DEF wide
      <3>3. CASE ~(wide /\ q = p + 1)
        <4>1. after[q] = screen[q] /\ ~(q = p + (IF wide THEN 2 ELSE 1) /\ screen[q] = Half)
          BY <1>1, <2>1, <2>4, <3>1, <3>3
        <4>2. screen[q] = Half /\ q - 1 \in Places /\ screen[q - 1] \in Wide /\ q # p + (IF wide THEN 2 ELSE 1)
          BY <2>3, <2>4, <4>1
        <4>3. q - 1 # p /\ ~(wide /\ q - 1 = p + 1)
          BY <1>1, <3>1, <3>3, <4>2
        <4>4. screen[q - 1] # Half /\ ~(q - 1 = p - 1)
          BY <1>1, <3>1, <4>2
        <4>5. after[q - 1] = screen[q - 1]
          BY <1>1, <2>1, <4>2, <4>3, <4>4
        <4> QED BY <4>2, <4>5
      <3> QED BY <3>2, <3>3
    <2>5. ScreenOK(after)
      BY <2>1, <2>4 DEF ScreenOK, Screens
    <2>6. ASSUME NEW q \in Places, cells[q] # NoChar, TidyAt(cells, q), q < p + 1 \/ ~updated[q] PROVE after[q] = cells[q]
      <3>1. CASE q = p
        BY <2>1, <3>1
      <3>2. CASE wide /\ q = p + 1
        <4>1. updated[q]
          BY <2>6, <3>2 DEF BufferOK, wide
        <4> QED BY <1>1, <2>6, <3>2, <4>1
      <3>3. CASE q # p /\ ~(wide /\ q = p + 1)
        <4>1. screen[q] = cells[q] /\ cells[q] # Half
          <5>1. q < p \/ ~updated[q]
            BY <1>1, <2>6, <3>3
          <5> QED BY <1>1, <2>6, <5>1 DEF Shows
        <4>2. ~(q = p - 1 /\ screen[p] = Half)
          <5>1. SUFFICES ASSUME q = p - 1, screen[p] = Half PROVE FALSE
            OBVIOUS
          <5>2. screen[q] \in Wide /\ q + 1 = p
            BY <1>1, <2>3, <5>1
          <5>3. cells[q + 1] = NoChar
            BY <2>6, <4>1, <5>2 DEF TidyAt
          <5> QED BY <1>3, <5>2, <5>3
        <4> QED BY <2>1, <3>3, <4>1, <4>2
      <3> QED BY <3>1, <3>2, <3>3
    <2> QED BY <2>5, <2>6 DEF Shows
  <1> QED BY <1>2, <1>3

LEMMA FlushSteps ==
  ASSUME BufferOK(cells, updated), ScreenOK(shown), Screen!Flush
  PROVE  \E f : /\ f[1 .. 0] = shown
                /\ \A k \in 1 .. Columns : f[1 .. k] = AfterCell(f[1 .. k - 1], k)
                /\ shown' = f[1 .. Columns]
  <1> DEFINE content == [i \in 1 .. Columns |-> i]
             Eq(f) == f = [s \in SUBSET DOMAIN content |->
                             IF s = {} THEN shown
                             ELSE AfterCell(f[s \ {Screen!Max(s)}], content[Screen!Max(s)])]
             iter == CHOOSE f : Eq(f)
             last == [s \in SUBSET (1 .. Columns) |-> Screen!Max(s)]
  <1>1. shown' = iter[DOMAIN content]
    BY DEF Screen!Flush, Screen!FoldLeft, Screen!MapThenFoldSet, AfterCell
  <1>2. Columns \in Nat /\ DOMAIN content = 1 .. Columns /\ \A i \in 1 .. Columns : content[i] = i
    BY WritesCharacters
  <1>3. CutsLast(Columns, last)
    BY <1>2, LastOf
  <1>4. \E f : Eq(f)
    <2> DEFINE F == [p \in Screens \X (1 .. Columns) |-> AfterCell(p[1], p[2])]
    <2>1. \A screen \in Screens, i \in 1 .. Columns : F[<<screen, i>>] = AfterCell(screen, i)
      OBVIOUS
    <2>2. F \in [Screens \X (1 .. Columns) -> Screens]
      <3>1. \A p \in Screens \X (1 .. Columns) : p[1] \in Screens /\ p[2] - 1 \in Places
        BY <1>2 DEF Places, Screen!Pos
      <3> QED BY <3>1, PutType DEF AfterCell
    <2>3. shown \in Screens
      BY DEF ScreenOK, Screens
    <2> HIDE DEF F, last, content
    <2> PICK g : IsFold(g, Screens, Columns, shown, F, last)
      BY <1>2, <1>3, <2>2, <2>3, FoldExists
    <2>4. /\ g \in [SUBSET (1 .. Columns) -> Screens]
          /\ \A s \in SUBSET (1 .. Columns) : g[s] = IF s = {} THEN shown ELSE F[<<g[s \ {last[s]}], last[s]>>]
      BY DEF IsFold
    <2>5. ASSUME NEW s \in SUBSET (1 .. Columns), s # {}
          PROVE  last[s] \in 1 .. Columns /\ s \ {last[s]} \in SUBSET (1 .. Columns)
      BY <1>2, <1>3, <2>5, LastIn
    <2>6. ASSUME NEW s \in SUBSET (1 .. Columns), s # {}
          PROVE  g[s] = AfterCell(g[s \ {last[s]}], content[last[s]])
      <3>1. last[s] \in 1 .. Columns /\ s \ {last[s]} \in SUBSET (1 .. Columns)
        BY <2>5, <2>6
      <3>2. g[s \ {last[s]}] \in Screens /\ content[last[s]] = last[s]
        BY <1>2, <2>4, <3>1
      <3> QED BY <2>1, <2>4, <2>6, <3>1, <3>2
    <2>7. \A s \in SUBSET (1 .. Columns) : g[s] = IF s = {} THEN shown
                                                 ELSE AfterCell(g[s \ {Screen!Max(s)}], content[Screen!Max(s)])
      BY <2>4, <2>6 DEF last
    <2>8. Eq(g)
      BY <1>2, <2>4, <2>7
    <2> QED BY <2>8
  <1>5. Eq(iter)
    <2> HIDE DEF Eq
    <2> QED BY <1>4
  <1> HIDE DEF iter
  <1>6. \A s \in SUBSET (1 .. Columns) : iter[s] = IF s = {} THEN shown
                                                  ELSE AfterCell(iter[s \ {last[s]}], content[last[s]])
    BY <1>2, <1>5
  <1> HIDE DEF last, content
  <1>7. iter[1 .. 0] = shown
    BY <1>2, <1>6, NoPlaces
  <1>8. ASSUME NEW k \in 1 .. Columns
        PROVE  iter[1 .. k] = AfterCell(iter[1 .. k - 1], k)
    <2>1. CutsFirst(Columns, last, k)
      BY <1>2, <1>3, FirstPlaces
    <2> QED BY <1>2, <1>6, <2>1 DEF CutsFirst
  <1> QED BY <1>1, <1>2, <1>7, <1>8

\* The terminal brought up to date.
LEMMA FlushKeeps ==
  ASSUME ScreenInv, Screen!Flush
  PROVE  ScreenInv'
  <1>1. /\ BufferOK(cells, updated) /\ ScreenOK(shown) /\ Shows(cells, updated, shown, 0)
        /\ Columns \in Nat
    BY WritesCharacters DEF ScreenInv
  <1>2. PICK f : /\ f[1 .. 0] = shown
                 /\ \A k \in 1 .. Columns : f[1 .. k] = AfterCell(f[1 .. k - 1], k)
                 /\ shown' = f[1 .. Columns]
    BY <1>1, FlushSteps
  <1> DEFINE Ok(k) == ScreenOK(f[1 .. k]) /\ Shows(cells, updated, f[1 .. k], k)
             Good == {k \in Nat : k <= Columns => Ok(k)}
  <1>3. 0 \in Good
    BY <1>1, <1>2
  <1>4. ASSUME NEW k \in Good PROVE k + 1 \in Good
    <2> HIDE DEF Ok
    <2>1. k \in Nat /\ (k <= Columns => Ok(k))
      OBVIOUS
    <2>2. SUFFICES ASSUME k + 1 <= Columns PROVE Ok(k + 1)
      BY <2>1
    <2>3. Ok(k) /\ k + 1 \in 1 .. Columns /\ (k + 1) - 1 = k
      BY <1>1, <2>1, <2>2
    <2>4. f[1 .. k + 1] = AfterCell(f[1 .. k], k + 1)
      BY <1>2, <2>3
    <2>5. k \in Places
      BY <1>1, <2>1, <2>2 DEF Places, Screen!Pos
    <2>6. CASE updated[k]
      <3>1. f[1 .. k + 1] = Screen!Put(f[1 .. k], k)
        BY <2>3, <2>4, <2>6 DEF AfterCell
      <3> QED BY <1>1, <2>3, <2>5, <2>6, <3>1, PutKeeps DEF Ok
    <2>7. CASE ~updated[k]
      <3>1. f[1 .. k + 1] = f[1 .. k]
        BY <2>3, <2>4, <2>7 DEF AfterCell
      <3>2. Shows(cells, updated, f[1 .. k], k + 1)
        <4> SUFFICES ASSUME NEW p \in Places, cells[p] # NoChar, TidyAt(cells, p), p < k + 1 \/ ~updated[p]
                     PROVE  f[1 .. k][p] = cells[p]
          BY DEF Shows
        <4>1. p < k \/ ~updated[p]
          BY <2>1, <2>7 DEF Places, Screen!Pos
        <4> QED BY <2>3, <4>1 DEF Shows, Ok
      <3> QED BY <2>3, <3>1, <3>2 DEF Ok
    <2> QED BY <2>6, <2>7
  <1>5. Good \subseteq Nat
    OBVIOUS
  <1>6. Columns \in Good
    <2> HIDE DEF Good
    <2> QED BY <1>1, <1>3, <1>4, <1>5, Induction
  <1>7. ScreenOK(shown') /\ Shows(cells, updated, shown', Columns)
    BY <1>1, <1>2, <1>6
  <1>8. /\ cells' = cells /\ updated' = [p \in Places |-> FALSE] /\ flushed' = TRUE
    BY DEF Screen!Flush, Places
  <1>9. Shows(cells', updated', shown', 0)
    BY <1>1, <1>7, <1>8 DEF Shows, Places, Screen!Pos
  <1>10. BufferOK(cells', updated')
    BY <1>1, <1>8 DEF BufferOK
  <1> QED BY <1>7, <1>8, <1>9, <1>10 DEF ScreenInv, BufferOK, ScreenOK, Shows, TidyAt, Places, Screen!Pos

\* FlushShowsTheBuffer (screen_buffer.cpp, flush): after a flush the terminal
\* shows what every cell of a tidy buffer holds, however it was half
\* overwritten in the frames before, for a screen of any width and any strings.
THEOREM FlushShowsTheBufferHolds ==
  Screen!Spec => []FlushShowsTheBuffer
  <1>1. Screen!Init => ScreenInv
    <2> SUFFICES ASSUME Screen!Init PROVE ScreenInv
      OBVIOUS
    <2>1. /\ cells = [p \in Places |-> NoChar] /\ updated = [p \in Places |-> FALSE]
          /\ shown = [p \in Places |-> Space] /\ flushed = FALSE
      BY DEF Screen!Init, Places
    <2>2. BufferOK(cells, updated)
      BY <2>1, WritesCharacters DEF BufferOK
    <2>3. ScreenOK(shown)
      BY <2>1, WritesCharacters DEF ScreenOK
    <2> QED BY <2>1, <2>2, <2>3 DEF ScreenInv, Shows
  <1>2. ScreenInv /\ [Screen!Next]_(Screen!screenVars) => ScreenInv'
    <2> SUFFICES ASSUME ScreenInv, [Screen!Next]_(Screen!screenVars) PROVE ScreenInv'
      OBVIOUS
    <2>1. CASE UNCHANGED Screen!screenVars
      BY <2>1 DEF Screen!screenVars, ScreenInv, BufferOK, ScreenOK, Shows, TidyAt, Places, Screen!Pos
    <2>2. ASSUME NEW content \in Strings, NEW pos \in Screen!Pos, NEW redraw \in BOOLEAN,
                 Screen!SetString(content, pos, redraw)
          PROVE  ScreenInv'
      BY <2>2, StringKeeps DEF Places
    <2>3. CASE Screen!Flush
      BY <2>3, FlushKeeps
    <2> QED BY <2>1, <2>2, <2>3 DEF Screen!Next
  <1>3. ScreenInv => FlushShowsTheBuffer
    BY DEF ScreenInv, Shows, TidyAt, FlushShowsTheBuffer, Screen!FlushShowsTheBuffer, Screen!Tidy, Places
  <1> QED BY <1>1, <1>2, <1>3, PTL DEF Screen!Spec

------------------------------------------------------------------------------
(* Rows, columns and positions.                                               *)

LEMMA TimesMore ==
  ASSUME NEW a \in Nat, NEW b \in Nat, NEW n \in Nat, a <= b
  PROVE  a * n <= b * n /\ a * n \in Nat /\ b * n \in Nat
  OBVIOUS

LEMMA PlaceIn ==
  ASSUME NEW rows \in Nat, NEW cols \in Nat, NEW r \in 0 .. rows - 1, NEW c \in 0 .. cols - 1
  PROVE  r * cols + c \in 0 .. rows * cols - 1
  <1>1. (r + 1) * cols <= rows * cols
    BY TimesMore
  <1>2. (r + 1) * cols = r * cols + cols /\ r * cols \in Nat /\ rows * cols \in Nat
    BY SMT
  <1> QED BY <1>1, <1>2

LEMMA PlacesDiffer ==
  ASSUME NEW cols \in Nat, NEW r \in Nat, NEW c \in 0 .. cols - 1, NEW s \in Nat, NEW d \in 0 .. cols - 1,
         r * cols + c = s * cols + d
  PROVE  r = s /\ c = d
  <1>1. ASSUME NEW a \in Nat, NEW b \in Nat, NEW i \in 0 .. cols - 1, NEW j \in 0 .. cols - 1, a < b
        PROVE  a * cols + i < b * cols + j
    <2>1. (a + 1) * cols <= b * cols
      BY <1>1, TimesMore
    <2>2. (a + 1) * cols = a * cols + cols /\ a * cols \in Nat /\ b * cols \in Nat
      BY SMT
    <2> QED BY <2>1, <2>2
  <1>2. r * cols + c \in Int /\ s * cols + d \in Int
    BY SMT
  <1>3. ~(r < s) /\ ~(s < r)
    BY <1>1, <1>2
  <1>4. r = s
    BY <1>3
  <1>5. r * cols \in Int
    BY SMT
  <1> QED BY <1>4, <1>5

LEMMA RowAndColumn ==
  ASSUME NEW rows \in Nat, NEW cols \in Nat, NEW pos \in 0 .. rows * cols - 1
  PROVE  /\ cols > 0
         /\ pos \div cols \in 0 .. rows - 1 /\ pos % cols \in 0 .. cols - 1
         /\ (pos \div cols) * cols + (pos % cols) = pos
  <1>1. cols > 0
    <2>1. cols = 0 => rows * cols = 0
      BY SMT
    <2>2. rows * cols \in Nat
      BY SMT
    <2> QED BY <2>1, <2>2
  <1>2. pos \in Nat
    BY SMT
  <1> DEFINE r == pos \div cols
             c == pos % cols
  <1>3. r \in Int /\ c \in 0 .. cols - 1 /\ r * cols + c = pos
    BY <1>1, <1>2
  <1> HIDE DEF r, c
  <1>4. r >= 0
    BY <1>1, <1>2, <1>3
  <1>5. r < rows
    <2>1. SUFFICES ASSUME rows <= r PROVE FALSE
      BY <1>3
    <2>2. rows * cols <= r * cols
      BY <1>3, <1>4, <2>1, TimesMore
    <2>3. r * cols \in Int /\ rows * cols \in Int
      BY <1>3
    <2> QED BY <1>3, <2>2, <2>3
  <1>6. cols > 0 /\ r \in 0 .. rows - 1 /\ c \in 0 .. cols - 1 /\ r * cols + c = pos
    BY <1>1, <1>3, <1>4, <1>5
  <1> QED BY <1>6, Zenon DEF r, c

LEMMA OnlyRowAndColumn ==
  ASSUME NEW rows \in Nat, NEW cols \in Nat, NEW r \in 0 .. rows - 1, NEW c \in 0 .. cols - 1
  PROVE  (r * cols + c) \div cols = r /\ (r * cols + c) % cols = c
  <1> DEFINE pos == r * cols + c
             s == pos \div cols
             d == pos % cols
  <1>1. pos \in 0 .. rows * cols - 1
    BY PlaceIn
  <1>2. s \in 0 .. rows - 1 /\ d \in 0 .. cols - 1 /\ s * cols + d = pos
    <2> HIDE DEF pos
    <2> QED BY <1>1, RowAndColumn
  <1>3. s \in Nat /\ r \in Nat /\ s * cols + d = r * cols + c
    BY <1>2
  <1> HIDE DEF s, d, pos
  <1>4. r = s /\ c = d
    BY <1>2, <1>3, PlacesDiffer
  <1> QED BY <1>4 DEF s, d, pos

------------------------------------------------------------------------------
(* A grid and what it should hold.                                            *)

Values == Cell \cup {Blank}
Grids == [m : Seq(Values), rows : Nat, cols : Nat, transposed : BOOLEAN]
Matrices(rows, cols) == [(0 .. rows - 1) \X (0 .. cols - 1) -> Values]

GridOK(g) == g \in Grids /\ Len(g.m) = g.rows * g.cols
Agrees(g, mx) == \A r \in 0 .. g.rows - 1, c \in 0 .. g.cols - 1 : g.m[Arrays!RefIndex(g, r, c) + 1] = mx[<<r, c>>]

GridInv ==
  /\ GridOK(grid) /\ matrix \in Matrices(grid.rows, grid.cols) /\ fit \in BOOLEAN
  /\ fit => Agrees(grid, matrix)

LEMMA RefIs ==
  ASSUME NEW g, NEW r, NEW c
  PROVE  /\ g.transposed => Arrays!RefIndex(g, r, c) = c * g.rows + r
         /\ ~g.transposed => Arrays!RefIndex(g, r, c) = r * g.cols + c
         /\ g.transposed => Arrays!Flatten(g, r, c) = c * g.cols + r
         /\ ~g.transposed => Arrays!Flatten(g, r, c) = r * g.cols + c
  BY DEF Arrays!RefIndex, Arrays!Flatten, Arrays!Swapped

LEMMA RefIn ==
  ASSUME NEW g, GridOK(g), NEW r \in 0 .. g.rows - 1, NEW c \in 0 .. g.cols - 1
  PROVE  Arrays!RefIndex(g, r, c) \in 0 .. Len(g.m) - 1
  <1>1. g.rows \in Nat /\ g.cols \in Nat /\ g.transposed \in BOOLEAN /\ Len(g.m) = g.rows * g.cols
    BY DEF GridOK, Grids
  <1>2. g.rows * g.cols = g.cols * g.rows
    BY <1>1
  <1>3. CASE g.transposed
    <2>1. c * g.rows + r \in 0 .. g.cols * g.rows - 1
      BY <1>1, PlaceIn
    <2> QED BY <1>1, <1>2, <1>3, <2>1, RefIs
  <1>4. CASE ~g.transposed
    <2>1. r * g.cols + c \in 0 .. g.rows * g.cols - 1
      BY <1>1, PlaceIn
    <2> QED BY <1>1, <1>4, <2>1, RefIs
  <1> QED BY <1>3, <1>4

LEMMA RefsDiffer ==
  ASSUME NEW g, NEW r \in 0 .. g.rows - 1, NEW c \in 0 .. g.cols - 1, NEW s \in 0 .. g.rows - 1, NEW d \in 0 .. g.cols - 1,
         GridOK(g), Arrays!RefIndex(g, r, c) = Arrays!RefIndex(g, s, d)
  PROVE  r = s /\ c = d
  <1>1. g.rows \in Nat /\ g.cols \in Nat /\ g.transposed \in BOOLEAN
    BY DEF GridOK, Grids
  <1>2. r \in Nat /\ c \in Nat /\ s \in Nat /\ d \in Nat
    OBVIOUS
  <1>3. CASE g.transposed
    <2>1. c * g.rows + r = d * g.rows + s
      BY <1>3, RefIs
    <2> QED BY <1>1, <1>2, <2>1, PlacesDiffer
  <1>4. CASE ~g.transposed
    <2>1. r * g.cols + c = s * g.cols + d
      BY <1>4, RefIs
    <2> QED BY <1>1, <1>2, <2>1, PlacesDiffer
  <1> QED BY <1>1, <1>3, <1>4

\* A cell of m_grid set.
IsStore(h, g, i, v) ==
  /\ GridOK(h) /\ h.rows = g.rows /\ h.cols = g.cols /\ h.transposed = g.transposed
  /\ Len(h.m) = Len(g.m) /\ h.m[i + 1] = v
  /\ \A j \in 0 .. Len(g.m) - 1 : j # i => h.m[j + 1] = g.m[j + 1]

LEMMA StoreIs ==
  ASSUME NEW g, NEW i \in 0 .. Len(g.m) - 1, NEW v \in Values, GridOK(g),
         NEW h, h = [g EXCEPT !.m[i + 1] = v]
  PROVE  IsStore(h, g, i, v)
  <1>1. g \in Grids /\ g.m \in Seq(Values) /\ Len(g.m) \in Nat /\ DOMAIN g.m = 1 .. Len(g.m)
    BY DEF GridOK, Grids
  <1> DEFINE m2 == [g.m EXCEPT ![i + 1] = v]
  <1>2. h = [g EXCEPT !.m = m2]
    BY <1>1 DEF Grids
  <1>3. i + 1 \in 1 .. Len(g.m)
    BY <1>1
  <1>4. m2 \in Seq(Values) /\ Len(m2) = Len(g.m) /\ m2[i + 1] = v
        /\ \A j \in 1 .. Len(g.m) : j # i + 1 => m2[j] = g.m[j]
    BY <1>1, <1>3
  <1> HIDE DEF m2
  <1>5. h.m = m2 /\ h.rows = g.rows /\ h.cols = g.cols /\ h.transposed = g.transposed /\ h \in Grids
    BY <1>1, <1>2, <1>4 DEF Grids
  <1>6. \A j \in 0 .. Len(g.m) - 1 : j # i => j + 1 \in 1 .. Len(g.m) /\ j + 1 # i + 1
    BY <1>1
  <1> QED BY <1>4, <1>5, <1>6 DEF GridOK, IsStore

\* An element written through a reference, in the grid and in the matrix.
Follows(h, mh, g, mx) ==
  GridOK(h) /\ mh \in Matrices(h.rows, h.cols) /\ (Agrees(g, mx) => Agrees(h, mh))

LEMMA StoreAgrees ==
  ASSUME NEW g, NEW mx \in Matrices(g.rows, g.cols), NEW r \in 0 .. g.rows - 1, NEW c \in 0 .. g.cols - 1, NEW v \in Values,
         GridOK(g), NEW h, h = [g EXCEPT !.m[Arrays!RefIndex(g, r, c) + 1] = v],
         NEW mh, mh = [mx EXCEPT ![<<r, c>>] = v]
  PROVE  Follows(h, mh, g, mx)
  <1> DEFINE i == Arrays!RefIndex(g, r, c)
  <1>1. i \in 0 .. Len(g.m) - 1
    BY RefIn
  <1>2. /\ GridOK(h) /\ h.rows = g.rows /\ h.cols = g.cols /\ h.transposed = g.transposed
        /\ h.m[i + 1] = v
        /\ \A j \in 0 .. Len(g.m) - 1 : j # i => h.m[j + 1] = g.m[j + 1]
    <2> HIDE DEF i
    <2>1. h = [g EXCEPT !.m[i + 1] = v]
      BY DEF i
    <2>2. IsStore(h, g, i, v)
      BY <1>1, <2>1, StoreIs
    <2> QED BY <2>2 DEF IsStore
  <1>3. mh \in Matrices(h.rows, h.cols) /\ mh[<<r, c>>] = v
        /\ \A s \in 0 .. g.rows - 1, d \in 0 .. g.cols - 1 : ~(s = r /\ d = c) => mh[<<s, d>>] = mx[<<s, d>>]
    BY <1>2 DEF Matrices
  <1>4. ASSUME Agrees(g, mx), NEW s \in 0 .. h.rows - 1, NEW d \in 0 .. h.cols - 1
        PROVE  h.m[Arrays!RefIndex(h, s, d) + 1] = mh[<<s, d>>]
    <2> DEFINE j == Arrays!RefIndex(g, s, d)
    <2>1. s \in 0 .. g.rows - 1 /\ d \in 0 .. g.cols - 1 /\ Arrays!RefIndex(h, s, d) = j
      <3>0. h.rows = g.rows /\ h.cols = g.cols /\ h.transposed = g.transposed
        BY <1>2
      <3>1. Arrays!RefIndex(h, s, d) = Arrays!RefIndex(g, s, d)
        BY <3>0 DEF Arrays!RefIndex, Arrays!Swapped
      <3> QED BY <1>2, <3>1
    <2>2. j \in 0 .. Len(g.m) - 1
      BY <2>1, RefIn
    <2>3. CASE s = r /\ d = c
      BY <1>2, <1>3, <2>1, <2>3
    <2>4. CASE ~(s = r /\ d = c)
      <3>1. j # i
        BY <2>1, <2>4, RefsDiffer
      <3>2. g.m[j + 1] = mx[<<s, d>>]
        BY <1>4, <2>1 DEF Agrees
      <3> HIDE DEF i, j
      <3> QED BY <1>2, <1>3, <2>1, <2>2, <2>4, <3>1, <3>2
    <2> QED BY <2>3, <2>4
  <1> QED BY <1>2, <1>3, <1>4 DEF Agrees, Follows

------------------------------------------------------------------------------
(* The operations.                                                            *)

LEMMA BlanksAre ==
  ASSUME NEW n \in Nat, NEW b, b = Arrays!Blanks(n)
  PROVE  b \in Seq(Values) /\ Len(b) = n /\ \A i \in 1 .. n : b[i] = Blank
  <1> DEFINE all == [i \in 1 .. n |-> Blank]
  <1>1. all \in Seq(Values) /\ Len(all) = n /\ \A i \in 1 .. n : all[i] = Blank
    BY DEF Values
  <1> HIDE DEF all
  <1>2. b = <<>> \o all
    BY DEF all, Arrays!Blanks
  <1> QED BY <1>1, <1>2

LEMMA NewGridIs ==
  ASSUME NEW rows \in Nat, NEW cols \in Nat, NEW transposed \in BOOLEAN,
         NEW g, g = Arrays!NewGrid(rows, cols, transposed)
  PROVE  /\ GridOK(g) /\ g.rows = rows /\ g.cols = cols /\ g.transposed = transposed
         /\ \A i \in 1 .. Len(g.m) : g.m[i] = Blank
  <1> DEFINE b == Arrays!Blanks(rows * cols)
  <1>1. rows * cols \in Nat
    BY SMT
  <1>2. b \in Seq(Values) /\ Len(b) = rows * cols /\ \A i \in 1 .. rows * cols : b[i] = Blank
    BY <1>1, BlanksAre
  <1>3. g = [m |-> b, rows |-> rows, cols |-> cols, transposed |-> transposed]
    BY DEF Arrays!NewGrid
  <1> HIDE DEF b
  <1> QED BY <1>2, <1>3 DEF GridOK, Grids

LEMMA RowColIn ==
  ASSUME NEW g, GridOK(g), NEW pos \in 0 .. Arrays!Size(g) - 1, NEW rc, rc = Arrays!RowCol(g, pos)
  PROVE  /\ rc[1] \in 0 .. g.rows - 1 /\ rc[2] \in 0 .. g.cols - 1 /\ rc = <<rc[1], rc[2]>>
         /\ rc[1] * g.cols + rc[2] = pos
  <1>1. g.rows \in Nat /\ g.cols \in Nat
    BY DEF GridOK, Grids
  <1>2. pos \in 0 .. g.rows * g.cols - 1
    BY DEF Arrays!Size
  <1> DEFINE r == pos \div g.cols
             c == pos % g.cols
  <1>3. r \in 0 .. g.rows - 1 /\ c \in 0 .. g.cols - 1 /\ r * g.cols + c = pos
    BY <1>1, <1>2, RowAndColumn
  <1>4. rc = <<r, c>>
    BY DEF Arrays!RowCol
  <1> HIDE DEF r, c
  <1>5. rc[1] = r /\ rc[2] = c
    BY <1>4
  <1> QED BY <1>3, <1>4, <1>5

\* set, and an assignment through a reference.
LEMMA SetCellKeeps ==
  ASSUME NEW v \in Cell, NEW r \in 0 .. grid.rows - 1, NEW c \in 0 .. grid.cols - 1, GridInv, Arrays!SetCell(v, r, c)
  PROVE  GridInv'
  <1>1. /\ GridOK(grid) /\ matrix \in Matrices(grid.rows, grid.cols) /\ fit \in BOOLEAN
        /\ (fit => Agrees(grid, matrix)) /\ v \in Values
    BY DEF GridInv, Values
  <1> DEFINE i == Arrays!Flatten(grid, r, c)
  <1>2. /\ grid' = Arrays!Set(grid, v, r, c) /\ matrix' = [matrix EXCEPT ![<<r, c>>] = v]
        /\ fit' \in BOOLEAN /\ (fit' => fit /\ (grid.rows = grid.cols \/ ~grid.transposed))
    BY <1>1 DEF Arrays!SetCell, Arrays!Square
  <1>3. /\ grid.rows \in Nat /\ grid.cols \in Nat /\ grid.transposed \in BOOLEAN
        /\ Len(grid.m) \in Nat /\ grid.m \in Seq(Values)
    BY <1>1 DEF GridOK, Grids
  <1>4. i \in Nat
    <2>1. \A a \in Nat, b \in Nat : a * grid.cols + b \in Nat
      BY <1>3
    <2>2. i = r * grid.cols + c \/ i = c * grid.cols + r
      BY <1>3, RefIs
    <2>3. r \in Nat /\ c \in Nat
      OBVIOUS
    <2> HIDE DEF i
    <2> QED BY <2>1, <2>2, <2>3
  <1>5. CASE fit'
    <2>1. i = Arrays!RefIndex(grid, r, c)
      BY <1>2, <1>3, <1>5, RefIs
    <2>2. i \in 0 .. Len(grid.m) - 1
      BY <1>1, <2>1, RefIn
    <2>3. grid' = [grid EXCEPT !.m[i + 1] = v]
      BY <1>2, <2>2 DEF Arrays!Set, Arrays!InMemory
    <2>4. Follows(grid', matrix', grid, matrix)
      <3>1. grid' = [grid EXCEPT !.m[Arrays!RefIndex(grid, r, c) + 1] = v]
        BY <2>1, <2>3
      <3> QED BY <1>1, <1>2, <3>1, StoreAgrees
    <2> QED BY <1>1, <1>2, <1>5, <2>4 DEF GridInv, GridOK, Agrees, Follows
  <1>6. CASE ~fit'
    <2>1. GridOK(grid') /\ grid'.rows = grid.rows /\ grid'.cols = grid.cols
      <3>1. CASE i < Len(grid.m)
        <4>1. grid' = [grid EXCEPT !.m[i + 1] = v]
          BY <1>2, <3>1 DEF Arrays!Set, Arrays!InMemory
        <4>2. i \in 0 .. Len(grid.m) - 1
          BY <1>3, <1>4, <3>1
        <4> HIDE DEF i
        <4>3. IsStore(grid', grid, i, v)
          BY <1>1, <4>1, <4>2, StoreIs
        <4> QED BY <4>3 DEF IsStore
      <3>2. CASE ~(i < Len(grid.m))
        BY <1>1, <1>2, <3>2 DEF Arrays!Set, Arrays!InMemory
      <3> QED BY <3>1, <3>2
    <2>2. matrix' \in Matrices(grid.rows, grid.cols)
      BY <1>1, <1>2 DEF Matrices
    <2>3. matrix' \in Matrices(grid'.rows, grid'.cols)
      BY <2>1, <2>2
    <2> QED BY <1>2, <1>6, <2>1, <2>3 DEF GridInv, GridOK
  <1> QED BY <1>5, <1>6

LEMMA WriteRefKeeps ==
  ASSUME NEW v \in Cell, NEW pos \in 0 .. Arrays!Size(grid) - 1, GridInv, Arrays!WriteRef(v, pos)
  PROVE  GridInv'
  <1>1. /\ GridOK(grid) /\ matrix \in Matrices(grid.rows, grid.cols) /\ fit \in BOOLEAN
        /\ (fit => Agrees(grid, matrix)) /\ v \in Values
    BY DEF GridInv, Values
  <1> DEFINE rc == Arrays!RowCol(grid, pos)
  <1>2. /\ grid' = [grid EXCEPT !.m[Arrays!RefIndex(grid, rc[1], rc[2]) + 1] = v]
        /\ matrix' = [matrix EXCEPT ![rc] = v] /\ fit' = fit
    BY DEF Arrays!WriteRef
  <1>3. rc[1] \in 0 .. grid.rows - 1 /\ rc[2] \in 0 .. grid.cols - 1 /\ rc = <<rc[1], rc[2]>>
    BY <1>1, RowColIn
  <1> DEFINE r == rc[1]
             c == rc[2]
  <1> HIDE DEF rc
  <1>4. /\ r \in 0 .. grid.rows - 1 /\ c \in 0 .. grid.cols - 1
        /\ matrix' = [matrix EXCEPT ![<<r, c>>] = v]
        /\ grid' = [grid EXCEPT !.m[Arrays!RefIndex(grid, r, c) + 1] = v]
    BY <1>2, <1>3
  <1> HIDE DEF r, c
  <1>5. Follows(grid', matrix', grid, matrix)
    BY <1>1, <1>4, StoreAgrees
  <1> QED BY <1>1, <1>2, <1>5 DEF GridInv, GridOK, Agrees, Follows

\* transpose: the same memory, read the other way.
LEMMA TransposedAgrees ==
  ASSUME NEW g, NEW mx \in Matrices(g.rows, g.cols), GridOK(g), NEW h, h = Arrays!Transposed(g),
         NEW mh, mh = [rc \in (0 .. g.cols - 1) \X (0 .. g.rows - 1) |-> mx[<<rc[2], rc[1]>>]]
  PROVE  Follows(h, mh, g, mx) /\ h.rows = g.cols /\ h.cols = g.rows /\ h.transposed = ~g.transposed /\ h.m = g.m
  <1>1. g \in Grids /\ g.rows \in Nat /\ g.cols \in Nat /\ g.transposed \in BOOLEAN /\ Len(g.m) = g.rows * g.cols
    BY DEF GridOK, Grids
  <1>2. h.m = g.m /\ h.rows = g.cols /\ h.cols = g.rows /\ h.transposed = ~g.transposed /\ h \in Grids
    <2>1. h = [g EXCEPT !.transposed = ~g.transposed, !.rows = g.cols, !.cols = g.rows]
      BY <1>1 DEF Arrays!Transposed, Grids
    <2> QED BY <1>1, <2>1 DEF Grids
  <1>3. GridOK(h)
    <2>1. g.rows * g.cols = g.cols * g.rows
      BY <1>1
    <2> QED BY <1>1, <1>2, <2>1 DEF GridOK
  <1>4. mh \in Matrices(h.rows, h.cols)
    <2>1. \A rc \in (0 .. g.cols - 1) \X (0 .. g.rows - 1) : mx[<<rc[2], rc[1]>>] \in Values
      BY DEF Matrices
    <2> QED BY <1>2, <2>1 DEF Matrices
  <1>5. ASSUME Agrees(g, mx), NEW r \in 0 .. h.rows - 1, NEW c \in 0 .. h.cols - 1
        PROVE  h.m[Arrays!RefIndex(h, r, c) + 1] = mh[<<r, c>>]
    <2>1. mh[<<r, c>>] = mx[<<c, r>>] /\ c \in 0 .. g.rows - 1 /\ r \in 0 .. g.cols - 1
      BY <1>2
    <2>2. g.m[Arrays!RefIndex(g, c, r) + 1] = mx[<<c, r>>]
      BY <1>5, <2>1 DEF Agrees
    <2>3. Arrays!RefIndex(h, r, c) = Arrays!RefIndex(g, c, r)
      <3>1. CASE g.transposed
        <4>1. Arrays!RefIndex(g, c, r) = r * g.rows + c
          BY <3>1, RefIs
        <4>0. ~h.transposed
          BY <1>2, <3>1
        <4>2. Arrays!RefIndex(h, r, c) = r * h.cols + c
          BY <4>0, RefIs
        <4> QED BY <1>2, <4>1, <4>2
      <3>2. CASE ~g.transposed
        <4>1. Arrays!RefIndex(g, c, r) = c * g.cols + r
          BY <3>2, RefIs
        <4>2. Arrays!RefIndex(h, r, c) = c * h.rows + r
          BY <1>2, <3>2, RefIs
        <4> QED BY <1>2, <4>1, <4>2
      <3> QED BY <1>1, <3>1, <3>2
    <2> QED BY <1>2, <2>1, <2>2, <2>3
  <1> QED BY <1>2, <1>3, <1>4, <1>5 DEF Agrees, Follows

LEMMA TransposeKeeps ==
  ASSUME GridInv, Arrays!Transpose
  PROVE  GridInv'
  <1>1. /\ GridOK(grid) /\ matrix \in Matrices(grid.rows, grid.cols) /\ fit \in BOOLEAN
        /\ (fit => Agrees(grid, matrix))
    BY DEF GridInv
  <1>2. /\ grid' = Arrays!Transposed(grid) /\ fit' = fit
        /\ matrix' = [rc \in (0 .. grid.cols - 1) \X (0 .. grid.rows - 1) |-> matrix[<<rc[2], rc[1]>>]]
    BY DEF Arrays!Transpose, Arrays!Rearranged
  <1>3. Follows(grid', matrix', grid, matrix)
    BY <1>1, <1>2, TransposedAgrees
  <1> QED BY <1>1, <1>2, <1>3 DEF GridInv, GridOK, Agrees, Follows

\* extend.
LEMMA ExtendRowsIs ==
  ASSUME NEW g, NEW n \in Nat, GridOK(g), NEW h, h = Arrays!ExtendRows(g, n)
  PROVE  /\ GridOK(h) /\ h.rows = g.rows + n /\ h.cols = g.cols /\ h.transposed = g.transposed
         /\ \A i \in 1 .. Len(h.m) : h.m[i] = IF i <= Len(g.m) THEN g.m[i] ELSE Blank
  <1>1. g \in Grids /\ g.rows \in Nat /\ g.cols \in Nat /\ g.transposed \in BOOLEAN /\ Len(g.m) = g.rows * g.cols /\ g.m \in Seq(Values)
    BY DEF GridOK, Grids
  <1> DEFINE b == Arrays!Blanks(n * g.cols)
  <1>2. n * g.cols \in Nat /\ (g.rows + n) * g.cols = g.rows * g.cols + n * g.cols /\ g.rows + n \in Nat
    BY <1>1
  <1>3. b \in Seq(Values) /\ Len(b) = n * g.cols /\ \A i \in 1 .. n * g.cols : b[i] = Blank
    BY <1>2, BlanksAre
  <1>4. h = [g EXCEPT !.rows = g.rows + n, !.m = g.m \o b]
    BY <1>1 DEF Arrays!ExtendRows, Grids
  <1> HIDE DEF b
  <1> DEFINE all == g.m \o b
  <1>5. /\ all \in Seq(Values) /\ Len(all) = Len(g.m) + n * g.cols
        /\ \A i \in 1 .. Len(all) : all[i] = IF i <= Len(g.m) THEN g.m[i] ELSE Blank
    <2>1. all \in Seq(Values) /\ Len(all) = Len(g.m) + Len(b)
      BY <1>1, <1>3
    <2>2. ASSUME NEW i \in 1 .. Len(all) PROVE all[i] = IF i <= Len(g.m) THEN g.m[i] ELSE Blank
      <3>1. CASE i <= Len(g.m)
        BY <1>1, <1>3, <2>1, <3>1
      <3>2. CASE i > Len(g.m)
        <4>0. i \in Nat /\ i <= Len(g.m) + Len(b) /\ Len(g.m) \in Nat /\ Len(b) \in Nat
          BY <1>1, <1>3, <2>1
        <4>1. all[i] = b[i - Len(g.m)] /\ i - Len(g.m) \in 1 .. Len(b)
          <5>1. i - Len(g.m) \in 1 .. Len(b)
            BY <3>2, <4>0
          <5>2. i \in Len(g.m) + 1 .. Len(g.m) + Len(b)
            BY <3>2, <4>0
          <5> QED BY <1>1, <1>3, <5>1, <5>2, ConcatProperties
        <4> QED BY <1>1, <1>3, <3>2, <4>1
      <3> QED BY <1>1, <2>1, <3>1, <3>2
    <2> QED BY <1>3, <2>1, <2>2
  <1>6. h.m = all /\ h.rows = g.rows + n /\ h.cols = g.cols /\ h.transposed = g.transposed /\ h \in Grids
    <2>1. h = [g EXCEPT !.rows = g.rows + n, !.m = all] /\ all \in Seq(Values)
      BY <1>4, <1>5
    <2> HIDE DEF all
    <2> QED BY <1>1, <1>2, <2>1 DEF Grids
  <1> HIDE DEF all
  <1> QED BY <1>1, <1>2, <1>5, <1>6 DEF GridOK

ColumnsAdded(h, g, n) ==
  /\ GridOK(h) /\ h.rows = g.rows /\ h.cols = g.cols + n /\ h.transposed = g.transposed
  /\ \A r \in 0 .. h.rows - 1, c \in 0 .. h.cols - 1 :
       h.m[(r * h.cols + c) + 1] = IF c < g.cols THEN g.m[(r * g.cols + c) + 1] ELSE Blank

LEMMA ExtendColsIs ==
  ASSUME NEW g, NEW n \in Nat, GridOK(g), NEW h, h = Arrays!ExtendCols(g, n)
  PROVE  ColumnsAdded(h, g, n)
  <1>1. /\ g \in Grids /\ g.rows \in Nat /\ g.cols \in Nat /\ g.transposed \in BOOLEAN
        /\ Len(g.m) = g.rows * g.cols /\ g.m \in Seq(Values)
    BY DEF GridOK, Grids
  <1> DEFINE cols == g.cols + n
             len == g.rows * cols
             val(i) == LET r == (i - 1) \div (g.cols + n)
                           c == (i - 1) % (g.cols + n)
                       IN  IF c < g.cols THEN g.m[r * g.cols + c + 1] ELSE Blank
             all == [i \in 1 .. len |-> val(i)]
  <1>2. cols \in Nat /\ len \in Nat
    BY <1>1
  <1>3. h = [g EXCEPT !.cols = cols, !.m = all]
    BY <1>1 DEF Arrays!ExtendCols, Grids
  <1>4. ASSUME NEW r \in 0 .. g.rows - 1, NEW c \in 0 .. g.cols - 1
        PROVE  (r * g.cols + c) + 1 \in 1 .. Len(g.m) /\ g.m[(r * g.cols + c) + 1] \in Values
    <2> DEFINE pos == r * g.cols + c
    <2>1. pos \in 0 .. Len(g.m) - 1
      BY <1>1, PlaceIn
    <2> HIDE DEF pos
    <2>2. pos + 1 \in 1 .. Len(g.m)
      BY <1>1, <2>1
    <2>3. pos + 1 \in 1 .. Len(g.m) /\ g.m[pos + 1] \in Values
      BY <1>1, <2>2
    <2> QED BY <2>3 DEF pos
  <1>5. ASSUME NEW i \in 1 .. len PROVE val(i) \in Values
    <2> DEFINE r == (i - 1) \div cols
               c == (i - 1) % cols
    <2>1. r \in 0 .. g.rows - 1 /\ c \in 0 .. cols - 1
      <3>1. i - 1 \in 0 .. g.rows * cols - 1
        BY <1>2
      <3> HIDE DEF cols
      <3> QED BY <1>1, <1>2, <3>1, RowAndColumn
    <2>2. val(i) = IF c < g.cols THEN g.m[(r * g.cols + c) + 1] ELSE Blank
      OBVIOUS
    <2> HIDE DEF val, r, c
    <2>3. CASE c < g.cols
      <3>1. c \in 0 .. g.cols - 1
        BY <1>1, <2>1, <2>3
      <3> QED BY <1>4, <2>1, <2>2, <2>3, <3>1
    <2>4. CASE ~(c < g.cols)
      BY <2>2, <2>4 DEF Values
    <2> QED BY <2>3, <2>4
  <1>6. all \in Seq(Values) /\ Len(all) = len /\ \A i \in 1 .. len : all[i] = val(i)
    <2> HIDE DEF val, len
    <2> QED BY <1>2, <1>5
  <1>7. ASSUME NEW r \in 0 .. g.rows - 1, NEW c \in 0 .. cols - 1
        PROVE  all[(r * cols + c) + 1] = IF c < g.cols THEN g.m[(r * g.cols + c) + 1] ELSE Blank
    <2> DEFINE pos == r * cols + c
    <2>1. pos \in 0 .. len - 1 /\ pos \div cols = r /\ pos % cols = c
      <3> HIDE DEF cols
      <3> QED BY <1>1, <1>2, PlaceIn, OnlyRowAndColumn
    <2>2. pos + 1 \in 1 .. len /\ (pos + 1) - 1 = pos
      <3> HIDE DEF pos, len
      <3> QED BY <1>2, <2>1
    <2>3. all[pos + 1] = val(pos + 1)
      <3> HIDE DEF all, val, pos, len
      <3> QED BY <1>6, <2>2
    <2>4. val(pos + 1) = IF c < g.cols THEN g.m[(r * g.cols + c) + 1] ELSE Blank
      <3> HIDE DEF pos
      <3> QED BY <2>1, <2>2
    <2> HIDE DEF all, val
    <2> QED BY <2>3, <2>4
  <1> HIDE DEF all, val
  <1>8. h.m = all /\ h.rows = g.rows /\ h.cols = cols /\ h.transposed = g.transposed /\ h \in Grids
    <2> HIDE DEF cols, len
    <2> QED BY <1>1, <1>2, <1>3, <1>6 DEF Grids
  <1>9. GridOK(h)
    BY <1>6, <1>8 DEF GridOK
  <1>10. h.rows = g.rows /\ h.cols = g.cols + n
    BY <1>8
  <1> HIDE DEF cols, len
  <1>11. \A r \in 0 .. h.rows - 1, c \in 0 .. h.cols - 1 :
           h.m[(r * h.cols + c) + 1] = IF c < g.cols THEN g.m[(r * g.cols + c) + 1] ELSE Blank
    BY <1>7, <1>8
  <1> QED BY <1>8, <1>9, <1>10, <1>11 DEF ColumnsAdded

Grows(h, mh, g, mx, n) ==
  /\ GridOK(h) /\ mh \in Matrices(h.rows, h.cols)
  /\ Agrees(g, mx) /\ (~g.transposed \/ n = 0) => Agrees(h, mh)

LEMMA ExtendAgrees ==
  ASSUME NEW g, NEW mx \in Matrices(g.rows, g.cols), NEW rows \in Nat, NEW cols \in Nat, GridOK(g),
         NEW h, h = Arrays!ExtendCols(Arrays!ExtendRows(g, rows), cols),
         NEW mh, mh = [rc \in (0 .. (g.rows + rows) - 1) \X (0 .. (g.cols + cols) - 1) |->
                         IF rc \in DOMAIN mx THEN mx[rc] ELSE Blank]
  PROVE  Grows(h, mh, g, mx, rows + cols)
  <1>1. /\ g \in Grids /\ g.rows \in Nat /\ g.cols \in Nat /\ g.transposed \in BOOLEAN
        /\ Len(g.m) = g.rows * g.cols /\ g.m \in Seq(Values)
    BY DEF GridOK, Grids
  <1> DEFINE k == Arrays!ExtendRows(g, rows)
  <1>2. /\ GridOK(k) /\ k.rows = g.rows + rows /\ k.cols = g.cols /\ k.transposed = g.transposed
        /\ \A i \in 1 .. Len(k.m) : k.m[i] = IF i <= Len(g.m) THEN g.m[i] ELSE Blank
    BY ExtendRowsIs
  <1> HIDE DEF k
  <1>3. ColumnsAdded(h, k, cols)
    <2>1. h = Arrays!ExtendCols(k, cols)
      BY DEF k
    <2> QED BY <1>2, <2>1, ExtendColsIs
  <1>4. /\ h.rows = g.rows + rows /\ h.cols = g.cols + cols /\ h.transposed = g.transposed
        /\ h.rows \in Nat /\ h.cols \in Nat /\ GridOK(h)
        /\ Len(k.m) = h.rows * g.cols
    <2>1. h.rows = k.rows /\ h.cols = k.cols + cols /\ h.transposed = k.transposed /\ GridOK(h)
      BY <1>3 DEF ColumnsAdded
    <2>2. Len(k.m) = k.rows * k.cols
      BY <1>2 DEF GridOK
    <2>3. h.rows = g.rows + rows /\ h.cols = g.cols + cols /\ h.transposed = g.transposed
      BY <1>2, <2>1
    <2>4. Len(k.m) = h.rows * g.cols
      BY <1>2, <2>1, <2>2
    <2>5. h.rows \in Nat /\ h.cols \in Nat
      BY <1>1, <2>3
    <2> QED BY <2>1, <2>3, <2>4, <2>5
  <1>5. mh \in Matrices(h.rows, h.cols)
    <2>1. \A rc \in DOMAIN mx : mx[rc] \in Values
      BY DEF Matrices
    <2>2. mh = [rc \in (0 .. h.rows - 1) \X (0 .. h.cols - 1) |-> IF rc \in DOMAIN mx THEN mx[rc] ELSE Blank]
      <3>1. h.rows = g.rows + rows /\ h.cols = g.cols + cols
        BY <1>4
      <3>2. h.rows - 1 = (g.rows + rows) - 1 /\ h.cols - 1 = (g.cols + cols) - 1
        <4>1. g.rows \in Nat /\ g.cols \in Nat
          BY <1>1
        <4>2. h.rows - 1 = (g.rows + rows) - 1
          BY <3>1, <4>1
        <4>3. h.cols - 1 = (g.cols + cols) - 1
          BY <3>1, <4>1
        <4> QED BY <4>2, <4>3
      <3> QED BY <3>2, Zenon
    <2>3. Blank \in Values
      BY DEF Values
    <2> QED BY <2>1, <2>2, <2>3 DEF Matrices
  <1>6. ASSUME NEW r \in 0 .. h.rows - 1, NEW c \in 0 .. h.cols - 1
        PROVE  h.m[(r * h.cols + c) + 1] = IF r < g.rows /\ c < g.cols THEN g.m[(r * g.cols + c) + 1] ELSE Blank
    <2>1. h.m[(r * h.cols + c) + 1] = IF c < g.cols THEN k.m[(r * g.cols + c) + 1] ELSE Blank
      <3>1. h.m[(r * h.cols + c) + 1] = IF c < k.cols THEN k.m[(r * k.cols + c) + 1] ELSE Blank
        BY <1>3 DEF ColumnsAdded
      <3> QED BY <1>2, <3>1
    <2>2. CASE ~(c < g.cols)
      BY <2>1, <2>2
    <2>3. CASE c < g.cols
      <3> DEFINE pos == r * g.cols + c
      <3>1. c \in 0 .. g.cols - 1 /\ r \in Nat
        BY <1>1, <2>3
      <3>2. pos \in 0 .. h.rows * g.cols - 1
        BY <1>1, <1>4, <3>1, PlaceIn
      <3>3. r < g.rows => pos \in 0 .. g.rows * g.cols - 1
        <4>1. SUFFICES ASSUME r < g.rows PROVE pos \in 0 .. g.rows * g.cols - 1
          OBVIOUS
        <4>2. r \in 0 .. g.rows - 1
          BY <1>1, <3>1, <4>1
        <4> QED BY <1>1, <3>1, <4>2, PlaceIn
      <3>4. ~(r < g.rows) => pos >= g.rows * g.cols
        <4>1. SUFFICES ASSUME g.rows <= r PROVE pos >= g.rows * g.cols
          BY <1>1, <3>1
        <4>2. g.rows * g.cols <= r * g.cols /\ r * g.cols \in Nat /\ g.rows * g.cols \in Nat
          BY <1>1, <3>1, <4>1, TimesMore
        <4> QED BY <3>1, <4>2
      <3> HIDE DEF pos
      <3>5. pos + 1 \in 1 .. Len(k.m)
        BY <1>4, <3>2
      <3>6. k.m[pos + 1] = IF pos + 1 <= Len(g.m) THEN g.m[pos + 1] ELSE Blank
        BY <1>2, <3>5
      <3>7. pos + 1 <= Len(g.m) <=> r < g.rows
        BY <1>1, <3>1, <3>2, <3>3, <3>4
      <3>8. h.m[(r * h.cols + c) + 1] = k.m[pos + 1]
        BY <2>1, <2>3 DEF pos
      <3> QED BY <2>3, <3>6, <3>7, <3>8 DEF pos
    <2> QED BY <2>2, <2>3
  <1>7. \A r \in 0 .. h.rows - 1, c \in 0 .. h.cols - 1 :
          mh[<<r, c>>] = IF r < g.rows /\ c < g.cols THEN mx[<<r, c>>] ELSE Blank
    <2> SUFFICES ASSUME NEW r \in 0 .. h.rows - 1, NEW c \in 0 .. h.cols - 1
                 PROVE  mh[<<r, c>>] = IF r < g.rows /\ c < g.cols THEN mx[<<r, c>>] ELSE Blank
      OBVIOUS
    <2>1. r \in 0 .. (g.rows + rows) - 1 /\ c \in 0 .. (g.cols + cols) - 1
      <3>1. h.rows = g.rows + rows /\ h.cols = g.cols + cols
        BY <1>4
      <3>2. h.rows - 1 = (g.rows + rows) - 1 /\ h.cols - 1 = (g.cols + cols) - 1
        BY <1>1, <3>1
      <3>3. r \in 0 .. h.rows - 1 /\ c \in 0 .. h.cols - 1
        OBVIOUS
      <3> HIDE DEF k
      <3> QED BY <3>2, <3>3, Zenon
    <2>2. mh[<<r, c>>] = IF <<r, c>> \in DOMAIN mx THEN mx[<<r, c>>] ELSE Blank
      BY <2>1
    <2>3. <<r, c>> \in DOMAIN mx <=> r \in 0 .. g.rows - 1 /\ c \in 0 .. g.cols - 1
      BY DEF Matrices
    <2>4. g.rows \in Nat /\ g.cols \in Nat
      BY <1>1
    <2>5. <<r, c>> \in DOMAIN mx <=> r < g.rows /\ c < g.cols
      BY <2>1, <2>3, <2>4
    <2> QED BY <2>2, <2>5
  <1>8. ASSUME Agrees(g, mx), ~g.transposed, NEW r \in 0 .. h.rows - 1, NEW c \in 0 .. h.cols - 1
        PROVE  h.m[Arrays!RefIndex(h, r, c) + 1] = mh[<<r, c>>]
    <2>0. ~h.transposed
      BY <1>4, <1>8
    <2>1. Arrays!RefIndex(h, r, c) = r * h.cols + c /\ Arrays!RefIndex(g, r, c) = r * g.cols + c
      BY <1>8, <2>0, RefIs
    <2>2. r < g.rows /\ c < g.cols => g.m[(r * g.cols + c) + 1] = mx[<<r, c>>]
      <3>1. SUFFICES ASSUME r < g.rows, c < g.cols PROVE g.m[(r * g.cols + c) + 1] = mx[<<r, c>>]
        OBVIOUS
      <3>2. g.rows \in Nat /\ g.cols \in Nat
        BY <1>1
      <3>3. r \in 0 .. g.rows - 1 /\ c \in 0 .. g.cols - 1
        BY <3>1, <3>2
      <3>4. g.m[Arrays!RefIndex(g, r, c) + 1] = mx[<<r, c>>]
        BY <1>8, <3>3 DEF Agrees
      <3> QED BY <2>1, <3>4
    <2>3. h.m[(r * h.cols + c) + 1] = IF r < g.rows /\ c < g.cols THEN g.m[(r * g.cols + c) + 1] ELSE Blank
      BY <1>6
    <2>4. mh[<<r, c>>] = IF r < g.rows /\ c < g.cols THEN mx[<<r, c>>] ELSE Blank
      BY <1>7
    <2> QED BY <2>1, <2>2, <2>3, <2>4
  <1>9. ASSUME Agrees(g, mx), g.transposed, rows + cols = 0, NEW r \in 0 .. h.rows - 1, NEW c \in 0 .. h.cols - 1
        PROVE  h.m[Arrays!RefIndex(h, r, c) + 1] = mh[<<r, c>>]
    <2>1. h.rows = g.rows /\ h.cols = g.cols /\ h.transposed = g.transposed
      <3>1. rows = 0 /\ cols = 0
        BY <1>9
      <3>2. g.rows \in Nat /\ g.cols \in Nat
        BY <1>1
      <3>3. h.rows = g.rows + rows /\ h.cols = g.cols + cols /\ h.transposed = g.transposed
        BY <1>4
      <3> QED BY <3>1, <3>2, <3>3
    <2> DEFINE pos == Arrays!RefIndex(g, r, c)
    <2>2. Arrays!RefIndex(h, r, c) = pos
      BY <2>1 DEF Arrays!RefIndex, Arrays!Swapped
    <2>3. pos \in 0 .. g.rows * g.cols - 1
      BY <1>1, <2>1, RefIn
    <2> HIDE DEF pos
    <2> DEFINE s == pos \div g.cols
               d == pos % g.cols
    <2> HIDE DEF s, d
    <2>4. s \in 0 .. g.rows - 1 /\ d \in 0 .. g.cols - 1 /\ s * g.cols + d = pos
      <3>1. g.rows \in Nat /\ g.cols \in Nat
        BY <1>1
      <3> QED BY <2>3, <3>1, RowAndColumn DEF s, d
    <2> HIDE DEF s, d
    <2>5. h.m[pos + 1] = g.m[pos + 1]
      <3>1. s \in 0 .. h.rows - 1 /\ d \in 0 .. h.cols - 1 /\ s * h.cols + d = pos
        BY <2>1, <2>4
      <3>2. h.m[(s * h.cols + d) + 1] = IF s < g.rows /\ d < g.cols THEN g.m[(s * g.cols + d) + 1] ELSE Blank
        BY <1>6, <3>1
      <3>3. s < g.rows /\ d < g.cols
        BY <1>1, <2>4
      <3> QED BY <2>4, <3>1, <3>2, <3>3
    <2>6. g.m[pos + 1] = mx[<<r, c>>]
      BY <1>9, <2>1 DEF Agrees, pos
    <2>7. mh[<<r, c>>] = mx[<<r, c>>]
      <3>1. mh[<<r, c>>] = IF r < g.rows /\ c < g.cols THEN mx[<<r, c>>] ELSE Blank
        BY <1>7
      <3>2. g.rows \in Nat /\ g.cols \in Nat
        BY <1>1
      <3>3. r < g.rows /\ c < g.cols
        BY <2>1, <3>2
      <3> QED BY <3>1, <3>3
    <2> QED BY <2>2, <2>5, <2>6, <2>7
  <1>10. Agrees(g, mx) /\ (~g.transposed \/ rows + cols = 0) => Agrees(h, mh)
    BY <1>1, <1>8, <1>9 DEF Agrees
  <1> QED BY <1>4, <1>5, <1>10 DEF Grows

LEMMA ExtendKeeps ==
  ASSUME NEW rows \in Pads, NEW cols \in Pads, GridInv, Arrays!Extend(rows, cols)
  PROVE  GridInv'
  <1>1. /\ GridOK(grid) /\ matrix \in Matrices(grid.rows, grid.cols) /\ fit \in BOOLEAN
        /\ (fit => Agrees(grid, matrix)) /\ rows \in Nat /\ cols \in Nat
    BY GrowsByCounts DEF GridInv
  <1>2. /\ grid' = Arrays!ExtendCols(Arrays!ExtendRows(grid, rows), cols)
        /\ matrix' = [rc \in (0 .. (grid.rows + rows) - 1) \X (0 .. (grid.cols + cols) - 1) |->
                        IF rc \in DOMAIN matrix THEN matrix[rc] ELSE Blank]
        /\ fit' \in BOOLEAN /\ (fit' => fit /\ (~grid.transposed \/ rows + cols = 0))
    <2>1. fit' = (fit /\ (~grid.transposed \/ rows + cols = 0))
      BY DEF Arrays!Extend
    <2>2. grid' = Arrays!ExtendCols(Arrays!ExtendRows(grid, rows), cols)
      BY DEF Arrays!Extend
    <2>3. matrix' = [rc \in (0 .. (grid.rows + rows) - 1) \X (0 .. (grid.cols + cols) - 1) |->
                       IF rc \in DOMAIN matrix THEN matrix[rc] ELSE Blank]
      <3> DEFINE a == grid.rows + rows
                 b == grid.cols + cols
      <3>1. Arrays!Rearranged(a, b, LAMBDA rc : IF rc \in DOMAIN matrix THEN matrix[rc] ELSE Blank)
        BY DEF Arrays!Extend
      <3> HIDE DEF a, b
      <3>2. matrix' = [rc \in (0 .. a - 1) \X (0 .. b - 1) |-> IF rc \in DOMAIN matrix THEN matrix[rc] ELSE Blank]
        BY <3>1 DEF Arrays!Rearranged
      <3> QED BY <3>2 DEF a, b
    <2> QED BY <1>1, <2>1, <2>2, <2>3
  <1>3. Grows(grid', matrix', grid, matrix, rows + cols)
    BY <1>1, <1>2, ExtendAgrees
  <1> QED BY <1>1, <1>2, <1>3 DEF GridInv, GridOK, Agrees, Grows

\* transposeRaw: an element at a time, each to its position.
LEMMA ArraysLastOf ==
  ASSUME NEW n \in Nat, NEW last, last = [s \in SUBSET (1 .. n) |-> Arrays!Max(s)]
  PROVE  CutsLast(n, last)
  <1> SUFFICES ASSUME NEW k \in 1 .. n, NEW s \in SUBSET (1 .. k), k \in s PROVE last[s] = k
    BY DEF CutsLast
  <1>1. s \in SUBSET (1 .. n) /\ s \subseteq Int
    OBVIOUS
  <1>2. \A y \in s : k >= y
    OBVIOUS
  <1>3. \A x \in s : (\A y \in s : x >= y) => x = k
    BY <1>1, <1>2
  <1>4. Arrays!Max(s) = k
    BY <1>2, <1>3 DEF Arrays!Max
  <1> QED BY <1>1, <1>4

ReadAt(view, pos) ==
  LET rc == Arrays!RowCol(view, pos) IN view.m[Arrays!RefIndex(view, rc[1], rc[2]) + 1]
Copied(view, dst, pos) ==
  LET rc == Arrays!RowCol(dst, pos - 1) IN Arrays!Set(dst, ReadAt(view, pos - 1), rc[1], rc[2])

LEMMA ReadAtIs ==
  ASSUME NEW view, GridOK(view), NEW pos \in 0 .. Arrays!Size(view) - 1
  PROVE  ReadAt(view, pos) \in Values
  <1> DEFINE rc == Arrays!RowCol(view, pos)
  <1>1. rc[1] \in 0 .. view.rows - 1 /\ rc[2] \in 0 .. view.cols - 1
    BY RowColIn
  <1> HIDE DEF rc
  <1> DEFINE i == Arrays!RefIndex(view, rc[1], rc[2])
  <1>2. i \in 0 .. Len(view.m) - 1
    BY <1>1, RefIn
  <1> HIDE DEF i
  <1>3. view.m \in Seq(Values) /\ Len(view.m) \in Nat
    BY DEF GridOK, Grids
  <1>4. view.m[i + 1] \in Values
    BY <1>2, <1>3
  <1> QED BY <1>4 DEF ReadAt, i, rc

\* The grids that have the shape of the view, read by rows.
CopyOK(dst, view) ==
  GridOK(dst) /\ dst.rows = view.rows /\ dst.cols = view.cols /\ ~dst.transposed
Copies(view) == {dst \in Grids : CopyOK(dst, view)}

LEMMA CopiedIs ==
  ASSUME NEW view, NEW dst, NEW pos \in 1 .. Arrays!Size(view), GridOK(view), CopyOK(dst, view),
         NEW after, after = Copied(view, dst, pos)
  PROVE  /\ CopyOK(after, view)
         /\ \A i \in 1 .. Arrays!Size(view) : after.m[i] = IF i = pos THEN ReadAt(view, pos - 1) ELSE dst.m[i]
  <1>1. view.rows \in Nat /\ view.cols \in Nat /\ Arrays!Size(view) = view.rows * view.cols
    BY DEF GridOK, Grids, Arrays!Size
  <1>2. GridOK(dst) /\ dst.rows = view.rows /\ dst.cols = view.cols /\ ~dst.transposed
    BY DEF CopyOK
  <1> DEFINE size == Arrays!Size(view)
  <1>3. Arrays!Size(dst) = size /\ Len(dst.m) = size /\ size \in Nat
    <2>1. Arrays!Size(dst) = dst.rows * dst.cols /\ Len(dst.m) = dst.rows * dst.cols
      BY <1>2 DEF Arrays!Size, GridOK
    <2>2. view.rows * view.cols \in Nat
      BY <1>1
    <2> QED BY <1>1, <1>2, <2>1, <2>2
  <1> HIDE DEF size
  <1>4. pos - 1 \in 0 .. size - 1 /\ (pos - 1) + 1 = pos
    BY <1>3 DEF size
  <1> DEFINE rc == Arrays!RowCol(dst, pos - 1)
             v == ReadAt(view, pos - 1)
  <1>5. rc[1] * dst.cols + rc[2] = pos - 1
    <2>1. pos - 1 \in 0 .. Arrays!Size(dst) - 1
      BY <1>3, <1>4
    <2> QED BY <1>2, <2>1, RowColIn
  <1>6. v \in Values
    BY <1>4, ReadAtIs DEF size
  <1>7. after = Arrays!Set(dst, v, rc[1], rc[2])
    BY DEF Copied
  <1> HIDE DEF rc, v
  <1>8. Arrays!Flatten(dst, rc[1], rc[2]) = pos - 1
    BY <1>2, <1>5, RefIs
  <1>9. after = [dst EXCEPT !.m[(pos - 1) + 1] = v]
    <2>1. pos - 1 < Len(dst.m)
      BY <1>3, <1>4
    <2> QED BY <1>7, <1>8, <2>1 DEF Arrays!Set, Arrays!InMemory
  <1> DEFINE at == pos - 1
  <1>10. IsStore(after, dst, at, v)
    <2>1. at \in 0 .. Len(dst.m) - 1 /\ after = [dst EXCEPT !.m[at + 1] = v]
      BY <1>3, <1>4, <1>9
    <2> HIDE DEF at
    <2> QED BY <1>2, <1>6, <2>1, StoreIs
  <1>11. CopyOK(after, view)
    BY <1>2, <1>10 DEF CopyOK, IsStore
  <1>12. ASSUME NEW i \in 1 .. size PROVE after.m[i] = IF i = pos THEN v ELSE dst.m[i]
    <2>1. CASE i = pos
      BY <1>4, <1>10, <2>1 DEF IsStore
    <2>2. CASE i # pos
      <3>1. i - 1 \in 0 .. Len(dst.m) - 1 /\ i - 1 # at /\ (i - 1) + 1 = i
        BY <1>3, <2>2
      <3> QED BY <1>10, <2>2, <3>1 DEF IsStore
    <2> QED BY <2>1, <2>2
  <1> QED BY <1>11, <1>12 DEF v, size

LEMMA CopySteps ==
  ASSUME NEW view, NEW to, GridOK(view), CopyOK(to, view),
         NEW h, h = Arrays!TransposeRaw(view, to)
  PROVE  \E f : /\ f[1 .. 0] = to
                /\ \A k \in 1 .. Arrays!Size(view) : f[1 .. k] = Copied(view, f[1 .. k - 1], k)
                /\ h = f[1 .. Arrays!Size(view)]
  <1> DEFINE n == Arrays!Size(view)
             content == [i \in 1 .. n |-> i]
             Eq(f) == f = [s \in SUBSET DOMAIN content |->
                             IF s = {} THEN to
                             ELSE Copied(view, f[s \ {Arrays!Max(s)}], content[Arrays!Max(s)])]
             iter == CHOOSE f : Eq(f)
             last == [s \in SUBSET (1 .. n) |-> Arrays!Max(s)]
  <1>1. h = iter[DOMAIN content]
    BY DEF Arrays!TransposeRaw, Arrays!FoldLeft, Arrays!MapThenFoldSet, Copied, ReadAt
  <1>2. n \in Nat /\ DOMAIN content = 1 .. n /\ \A i \in 1 .. n : content[i] = i
    BY DEF GridOK, Grids, Arrays!Size
  <1>3. CutsLast(n, last)
    BY <1>2, ArraysLastOf
  <1>4. \E f : Eq(f)
    <2> DEFINE F == [p \in Copies(view) \X (1 .. n) |-> Copied(view, p[1], p[2])]
    <2>1. \A dst \in Copies(view), i \in 1 .. n : F[<<dst, i>>] = Copied(view, dst, i)
      OBVIOUS
    <2>2. F \in [Copies(view) \X (1 .. n) -> Copies(view)]
      <3>1. \A p \in Copies(view) \X (1 .. n) : CopyOK(p[1], view) /\ p[2] \in 1 .. n
        BY DEF Copies
      <3>2. \A p \in Copies(view) \X (1 .. n) : CopyOK(Copied(view, p[1], p[2]), view)
        BY <3>1, CopiedIs
      <3> QED BY <3>2 DEF Copies, CopyOK, GridOK
    <2>3. to \in Copies(view)
      BY DEF Copies, CopyOK, GridOK
    <2> HIDE DEF F, last, content, n
    <2> PICK g : IsFold(g, Copies(view), n, to, F, last)
      BY <1>2, <1>3, <2>2, <2>3, FoldExists
    <2>4. /\ g \in [SUBSET (1 .. n) -> Copies(view)]
          /\ \A s \in SUBSET (1 .. n) : g[s] = IF s = {} THEN to ELSE F[<<g[s \ {last[s]}], last[s]>>]
      BY DEF IsFold
    <2>5. ASSUME NEW s \in SUBSET (1 .. n), s # {}
          PROVE  last[s] \in 1 .. n /\ s \ {last[s]} \in SUBSET (1 .. n)
      BY <1>2, <1>3, <2>5, LastIn
    <2>6. ASSUME NEW s \in SUBSET (1 .. n), s # {}
          PROVE  g[s] = Copied(view, g[s \ {last[s]}], content[last[s]])
      <3>1. last[s] \in 1 .. n /\ s \ {last[s]} \in SUBSET (1 .. n)
        BY <2>5, <2>6
      <3>2. g[s \ {last[s]}] \in Copies(view) /\ content[last[s]] = last[s]
        BY <1>2, <2>4, <3>1
      <3> QED BY <2>1, <2>4, <2>6, <3>1, <3>2
    <2>7. \A s \in SUBSET (1 .. n) : g[s] = IF s = {} THEN to
                                           ELSE Copied(view, g[s \ {Arrays!Max(s)}], content[Arrays!Max(s)])
      BY <2>4, <2>6 DEF last
    <2>8. Eq(g)
      BY <1>2, <2>4, <2>7
    <2> QED BY <2>8
  <1>5. Eq(iter)
    <2> HIDE DEF Eq
    <2> QED BY <1>4
  <1> HIDE DEF iter
  <1>6. \A s \in SUBSET (1 .. n) : iter[s] = IF s = {} THEN to
                                            ELSE Copied(view, iter[s \ {last[s]}], content[last[s]])
    BY <1>2, <1>5
  <1> HIDE DEF last, content, n
  <1>7. iter[1 .. 0] = to
    BY <1>2, <1>6, NoPlaces
  <1>8. ASSUME NEW k \in 1 .. n
        PROVE  iter[1 .. k] = Copied(view, iter[1 .. k - 1], k)
    <2>1. CutsFirst(n, last, k)
      BY <1>2, <1>3, FirstPlaces
    <2> QED BY <1>2, <1>6, <2>1 DEF CutsFirst
  <1> QED BY <1>1, <1>2, <1>7, <1>8 DEF n

LEMMA TransposeRawIs ==
  ASSUME NEW view, NEW to, GridOK(view), CopyOK(to, view),
         NEW h, h = Arrays!TransposeRaw(view, to)
  PROVE  CopyOK(h, view) /\ \A i \in 1 .. Arrays!Size(view) : h.m[i] = ReadAt(view, i - 1)
  <1> DEFINE n == Arrays!Size(view)
  <1>1. n \in Nat
    BY DEF GridOK, Grids, Arrays!Size
  <1>2. PICK f : /\ f[1 .. 0] = to
                 /\ \A k \in 1 .. n : f[1 .. k] = Copied(view, f[1 .. k - 1], k)
                 /\ h = f[1 .. n]
    BY CopySteps
  <1> DEFINE Ok(k) == CopyOK(f[1 .. k], view) /\ \A i \in 1 .. k : f[1 .. k].m[i] = ReadAt(view, i - 1)
             Good == {k \in Nat : k <= n => Ok(k)}
  <1>3. 0 \in Good
    <2>1. Ok(0)
      BY <1>2
    <2> QED BY <2>1
  <1>4. ASSUME NEW k \in Good PROVE k + 1 \in Good
    <2> HIDE DEF Ok, n
    <2>1. k \in Nat /\ (k <= n => Ok(k))
      OBVIOUS
    <2>2. SUFFICES ASSUME k + 1 <= n PROVE Ok(k + 1)
      BY <2>1
    <2>3. Ok(k) /\ k + 1 \in 1 .. n /\ (k + 1) - 1 = k
      BY <1>1, <2>1, <2>2
    <2>4. f[1 .. k + 1] = Copied(view, f[1 .. k], k + 1)
      BY <1>2, <2>3
    <2>5. /\ CopyOK(f[1 .. k + 1], view)
          /\ \A i \in 1 .. n : f[1 .. k + 1].m[i] = IF i = k + 1 THEN ReadAt(view, (k + 1) - 1) ELSE f[1 .. k].m[i]
      <3>1. CopyOK(f[1 .. k], view)
        BY <2>3 DEF Ok
      <3> QED BY <2>3, <2>4, <3>1, CopiedIs DEF n
    <2>6. ASSUME NEW i \in 1 .. k + 1 PROVE f[1 .. k + 1].m[i] = ReadAt(view, i - 1)
      <3>1. i \in 1 .. n /\ (i = k + 1 \/ i \in 1 .. k)
        BY <1>1, <2>1, <2>2
      <3>2. CASE i = k + 1
        BY <2>5, <3>1, <3>2
      <3>3. CASE i # k + 1 /\ i \in 1 .. k
        BY <2>3, <2>5, <3>1, <3>3 DEF Ok
      <3> QED BY <3>1, <3>2, <3>3
    <2> QED BY <2>5, <2>6 DEF Ok
  <1>5. Good \subseteq Nat
    OBVIOUS
  <1>6. n \in Good
    <2> HIDE DEF Good
    <2> QED BY <1>1, <1>3, <1>4, <1>5, Induction
  <1>7. Ok(n)
    BY <1>1, <1>6
  <1> QED BY <1>2, <1>7

\* deepTranspose: the copy holds what the view shows.
LEMMA DeepAgrees ==
  ASSUME NEW view, NEW mx \in Matrices(view.rows, view.cols), GridOK(view),
         NEW h, h = Arrays!TransposeRaw(view, Arrays!NewGrid(view.rows, view.cols, FALSE))
  PROVE  Follows(h, mx, view, mx)
  <1> DEFINE to == Arrays!NewGrid(view.rows, view.cols, FALSE)
  <1>1. view.rows \in Nat /\ view.cols \in Nat /\ Arrays!Size(view) = view.rows * view.cols
    BY DEF GridOK, Grids, Arrays!Size
  <1>3. h = Arrays!TransposeRaw(view, to)
    OBVIOUS
  <1> HIDE DEF to
  <1>2. CopyOK(to, view)
    <2> PICK swapped : swapped = FALSE
      OBVIOUS
    <2>1. to = Arrays!NewGrid(view.rows, view.cols, swapped) /\ swapped \in BOOLEAN
      BY DEF to
    <2>2. GridOK(to) /\ to.rows = view.rows /\ to.cols = view.cols /\ to.transposed = swapped
      BY <1>1, <2>1, NewGridIs
    <2> QED BY <2>2 DEF CopyOK
  <1>4. CopyOK(h, view) /\ \A i \in 1 .. Arrays!Size(view) : h.m[i] = ReadAt(view, i - 1)
    BY <1>2, <1>3, TransposeRawIs
  <1>5. GridOK(h) /\ h.rows = view.rows /\ h.cols = view.cols /\ ~h.transposed
    BY <1>4 DEF CopyOK
  <1>6. ASSUME Agrees(view, mx), NEW r \in 0 .. h.rows - 1, NEW c \in 0 .. h.cols - 1
        PROVE  h.m[Arrays!RefIndex(h, r, c) + 1] = mx[<<r, c>>]
    <2> DEFINE pos == r * view.cols + c
    <2>1. r \in 0 .. view.rows - 1 /\ c \in 0 .. view.cols - 1
      BY <1>5
    <2>2. Arrays!RefIndex(h, r, c) = pos
      <3>1. ~h.transposed /\ h.cols = view.cols
        BY <1>5
      <3>2. Arrays!RefIndex(h, r, c) = r * h.cols + c
        BY <3>1 DEF Arrays!RefIndex, Arrays!Swapped
      <3> QED BY <3>1, <3>2
    <2>3. pos \in 0 .. view.rows * view.cols - 1 /\ pos \div view.cols = r /\ pos % view.cols = c
      <3>1. view.rows \in Nat /\ view.cols \in Nat
        BY <1>1
      <3>2. pos \in 0 .. view.rows * view.cols - 1
        BY <2>1, <3>1, PlaceIn
      <3> DEFINE rows == view.rows
                 cols == view.cols
      <3>3. pos \div cols = r /\ pos % cols = c
        <4>1. pos = r * cols + c /\ rows \in Nat /\ cols \in Nat /\ r \in 0 .. rows - 1 /\ c \in 0 .. cols - 1
          BY <2>1, <3>1
        <4>2. (r * cols + c) \div cols = r /\ (r * cols + c) % cols = c
          <5> HIDE DEF rows, cols, pos
          <5> QED BY <4>1, OnlyRowAndColumn
        <4> QED BY <4>2
      <3> QED BY <3>2, <3>3
    <2> HIDE DEF pos
    <2>4. pos + 1 \in 1 .. Arrays!Size(view) /\ (pos + 1) - 1 = pos
      BY <1>1, <2>3
    <2>5. h.m[pos + 1] = ReadAt(view, pos)
      BY <1>4, <2>4
    <2>6. Arrays!RowCol(view, pos) = <<r, c>>
      BY <2>3 DEF Arrays!RowCol
    <2>7. ReadAt(view, pos) = view.m[Arrays!RefIndex(view, r, c) + 1]
      BY <2>6 DEF ReadAt
    <2>8. view.m[Arrays!RefIndex(view, r, c) + 1] = mx[<<r, c>>]
      BY <1>6, <2>1 DEF Agrees
    <2> QED BY <2>2, <2>5, <2>7, <2>8
  <1> QED BY <1>5, <1>6 DEF Follows, Agrees

LEMMA TakeTransposedKeeps ==
  ASSUME GridInv, Arrays!TakeTransposed
  PROVE  GridInv'
  <1>1. /\ GridOK(grid) /\ matrix \in Matrices(grid.rows, grid.cols) /\ fit \in BOOLEAN
        /\ (fit => Agrees(grid, matrix)) /\ grid.transposed \in BOOLEAN
    BY DEF GridInv, GridOK, Grids
  <1>2. grid' = Arrays!DeepTranspose(grid) /\ fit' = fit
    BY DEF Arrays!TakeTransposed
  <1>3. CASE grid.transposed
    <2>1. grid' = Arrays!TransposeRaw(grid, Arrays!NewGrid(grid.rows, grid.cols, FALSE)) /\ matrix' = matrix
      BY <1>2, <1>3 DEF Arrays!TakeTransposed, Arrays!DeepTranspose
    <2>2. Follows(grid', matrix, grid, matrix)
      BY <1>1, <2>1, DeepAgrees
    <2> QED BY <1>1, <1>2, <2>1, <2>2 DEF GridInv, GridOK, Agrees, Follows
  <1>4. CASE ~grid.transposed
    <2> DEFINE view == Arrays!Transposed(grid)
               mx == [rc \in (0 .. grid.cols - 1) \X (0 .. grid.rows - 1) |-> matrix[<<rc[2], rc[1]>>]]
    <2>1. grid' = Arrays!TransposeRaw(view, Arrays!NewGrid(view.rows, view.cols, FALSE)) /\ matrix' = mx
      BY <1>2, <1>4 DEF Arrays!TakeTransposed, Arrays!DeepTranspose, Arrays!Rearranged
    <2>2. Follows(view, mx, grid, matrix)
      BY <1>1, TransposedAgrees
    <2> HIDE DEF view, mx
    <2>3. GridOK(view) /\ mx \in Matrices(view.rows, view.cols)
      BY <2>2 DEF Follows
    <2>4. Follows(grid', mx, view, mx)
      BY <2>1, <2>3, DeepAgrees
    <2>5. Follows(grid', mx, grid, matrix)
      BY <2>2, <2>4 DEF Follows
    <2>6. Follows(grid', matrix', grid, matrix)
      BY <2>1, <2>5
    <2> QED BY <1>1, <1>2, <2>6 DEF GridInv, GridOK, Agrees, Follows
  <1> QED BY <1>1, <1>3, <1>4

\* ReadsWhatWasWritten (AbstractGridContainer, Array2D, DynamicArray2D): a grid
\* that was only set or extended as it supports gives back what was written at
\* every row and column, through transpositions, real or not, and growth.
THEOREM ReadsWhatWasWrittenHolds ==
  Arrays!Spec => []ReadsWhatWasWritten
  <1>1. Arrays!Init => GridInv
    <2> SUFFICES ASSUME Arrays!Init PROVE GridInv
      OBVIOUS
    <2>1. PICK shape \in Shapes, transposed \in BOOLEAN : grid = Arrays!NewGrid(shape[1], shape[2], transposed)
      BY DEF Arrays!Init
    <2>2. shape[1] \in Nat /\ shape[2] \in Nat
      BY GrowsByCounts
    <2>3. GridOK(grid) /\ \A i \in 1 .. Len(grid.m) : grid.m[i] = Blank
      BY <2>1, <2>2, NewGridIs
    <2>4. /\ matrix = [rc \in (0 .. grid.rows - 1) \X (0 .. grid.cols - 1) |-> Blank]
          /\ fit = TRUE
      BY DEF Arrays!Init
    <2>5. matrix \in Matrices(grid.rows, grid.cols)
      BY <2>4 DEF Matrices, Values
    <2>6. ASSUME NEW r \in 0 .. grid.rows - 1, NEW c \in 0 .. grid.cols - 1
          PROVE  grid.m[Arrays!RefIndex(grid, r, c) + 1] = matrix[<<r, c>>]
      <3> DEFINE i == Arrays!RefIndex(grid, r, c)
      <3>1. i \in 0 .. Len(grid.m) - 1
        BY <2>3, RefIn
      <3>2. i + 1 \in 1 .. Len(grid.m)
        <4>1. Len(grid.m) \in Nat
          BY <2>3 DEF GridOK, Grids
        <4> HIDE DEF i
        <4> QED BY <3>1, <4>1
      <3> QED BY <2>3, <2>4, <3>2
    <2> QED BY <2>3, <2>4, <2>5, <2>6 DEF GridInv, Agrees
  <1>2. GridInv /\ [Arrays!Next]_(Arrays!gridVars) => GridInv'
    <2> SUFFICES ASSUME GridInv, [Arrays!Next]_(Arrays!gridVars) PROVE GridInv'
      OBVIOUS
    <2>1. CASE UNCHANGED Arrays!gridVars
      BY <2>1 DEF Arrays!gridVars, GridInv, GridOK, Agrees
    <2>2. ASSUME NEW v \in Cell, NEW pos \in 0 .. Arrays!Size(grid) - 1, Arrays!WriteRef(v, pos)
          PROVE  GridInv'
      BY <2>2, WriteRefKeeps
    <2>3. ASSUME NEW v \in Cell, NEW pos \in 0 .. Arrays!Size(grid) - 1,
                 NEW r, NEW c, <<r, c>> = Arrays!RowCol(grid, pos), Arrays!SetCell(v, r, c)
          PROVE  GridInv'
      <3>1. GridOK(grid)
        BY DEF GridInv
      <3>2. r \in 0 .. grid.rows - 1 /\ c \in 0 .. grid.cols - 1
        BY <2>3, <3>1, RowColIn
      <3> QED BY <2>3, <3>2, SetCellKeeps
    <2>4. CASE Arrays!Transpose
      BY <2>4, TransposeKeeps
    <2>5. CASE Arrays!TakeTransposed
      BY <2>5, TakeTransposedKeeps
    <2>6. ASSUME NEW rows \in Pads, NEW cols \in Pads, Arrays!Extend(rows, cols) PROVE GridInv'
      BY <2>6, ExtendKeeps
    <2>7. ASSUME NEW v \in Cell, NEW pos \in 0 .. Arrays!Size(grid) - 1,
                 LET rc == Arrays!RowCol(grid, pos) IN Arrays!SetCell(v, rc[1], rc[2])
          PROVE  GridInv'
      <3> DEFINE rc == Arrays!RowCol(grid, pos)
                 r == rc[1]
                 c == rc[2]
      <3>1. <<r, c>> = rc
        BY DEF Arrays!RowCol
      <3>2. Arrays!SetCell(v, r, c)
        BY <2>7
      <3> HIDE DEF r, c
      <3> QED BY <2>3, <3>1, <3>2
    <2> QED BY <2>1, <2>2, <2>4, <2>5, <2>6, <2>7 DEF Arrays!Next
  <1>3. GridInv => ReadsWhatWasWritten
    <2> SUFFICES ASSUME GridInv, fit, NEW rc \in DOMAIN matrix
                 PROVE  /\ grid.m[Arrays!RefIndex(grid, rc[1], rc[2]) + 1] = matrix[rc]
                        /\ Arrays!Square \/ ~grid.transposed => Arrays!ConstRead(grid, rc[1], rc[2]) = matrix[rc]
      BY DEF ReadsWhatWasWritten, Arrays!ReadsWhatWasWritten
    <2>1. rc[1] \in 0 .. grid.rows - 1 /\ rc[2] \in 0 .. grid.cols - 1 /\ rc = <<rc[1], rc[2]>>
      BY DEF GridInv, Matrices
    <2>2. grid.m[Arrays!RefIndex(grid, rc[1], rc[2]) + 1] = matrix[rc]
      BY <2>1 DEF GridInv, Agrees
    <2>3. Arrays!Square \/ ~grid.transposed => Arrays!Flatten(grid, rc[1], rc[2]) = Arrays!RefIndex(grid, rc[1], rc[2])
      BY RefIs DEF Arrays!Square
    <2> QED BY <2>2, <2>3 DEF Arrays!ConstRead
  <1> QED BY <1>1, <1>2, <1>3, PTL DEF Arrays!Spec

================================================================================
