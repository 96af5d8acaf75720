----------------------------- MODULE RcuCounts -----------------------------
(***************************************************************************)
(* Sums of the counters over the slots, and the bumps made on an index     *)
(* (visible, or still in a store buffer): what a bump, a store that drains *)
(* and a barrier do to them, for every number of slots and threads.        *)
(***************************************************************************)
EXTENDS RcuInv, FiniteSetTheorems, WellFoundedInduction, TLAPS

-----------------------------------------------------------------------------
(* Sums over the slots, in the order of the scan.                          *)

\* Induction over the naturals, for a set.
LEMMA SetInduction ==
    ASSUME NEW S, 0 \in S, \A n \in Nat : n \in S => n + 1 \in S
    PROVE  Nat \subseteq S
<1>. DEFINE R == {ss \in Nat \X Nat : ss[1] < ss[2]}
            T == Nat \ S
<1>1. IsWellFoundedOn(R, Nat)
  BY NatLessThanWellFounded DEF OpToRel
<1>2. SUFFICES ASSUME T # {} PROVE FALSE
  OBVIOUS
<1>. HIDE DEF R
<1>3. PICK x \in T : \A y \in T : ~ (<<y, x>> \in R)
  BY <1>1, <1>2, WFMin, Zenon
<1>4. x \in Nat /\ x # 0 /\ x - 1 \in Nat /\ x - 1 < x
  OBVIOUS
<1>5. <<x - 1, x>> \in R
  BY <1>4 DEF R
<1>6. x - 1 \in S
  BY <1>3, <1>4, <1>5
<1>7. (x - 1) + 1 \in S
  BY <1>4, <1>6
<1>. QED
  BY <1>4, <1>7

LEMMA NIsNat == N \in Nat /\ N > 0 /\ 0 \in 0..N /\ N \in 0..N
<1>1. kMaxThreads \in Nat
  BY RcuAssumption, Zenon
<1>. QED
  BY <1>1 DEF N

\* Every row of naturals has its partial sums.
LEMMA SumExists ==
    ASSUME NEW g \in [1..N -> Nat]
    PROVE  IsSum(Upto(g), g)
<1>. DEFINE P(n, f) == /\ f \in [0..n -> Nat] /\ f[0] = 0
                       /\ \A k \in 1..n : f[k] = f[k - 1] + g[k]
            S == {n \in Nat : n <= N => \E f : P(n, f)}
<1>1. 0 \in S
  <2>1. P(0, [k \in 0..0 |-> 0])
    OBVIOUS
  <2>. QED
    BY <2>1, Zenon
<1>2. ASSUME NEW n \in Nat, n \in S PROVE n + 1 \in S
  <2>1. SUFFICES ASSUME n + 1 <= N PROVE \E f : P(n + 1, f)
    OBVIOUS
  <2>2. n <= N /\ g[n + 1] \in Nat
    BY <2>1, NIsNat
  <2>3. PICK f : P(n, f)
    BY <1>2, <2>2, SMTT(30)
  <2>. DEFINE h == [k \in 0..n + 1 |-> IF k <= n THEN f[k] ELSE f[n] + g[n + 1]]
  <2>4. h \in [0..n + 1 -> Nat] /\ h[0] = 0
    BY <2>2, <2>3
  <2>5. ASSUME NEW k \in 1..n + 1 PROVE h[k] = h[k - 1] + g[k]
    <3>1. CASE k = n + 1
      BY <3>1
    <3>2. CASE k <= n
      <4>1. h[k] = f[k] /\ h[k - 1] = f[k - 1] /\ k \in 1..n
        BY <3>2
      <4>. QED
        BY <2>3, <4>1
    <3>. QED
      BY <3>1, <3>2
  <2>6. P(n + 1, h)
    <3>. HIDE DEF h
    <3>. QED
      BY <2>4, <2>5
  <2>. QED
    BY <2>6, Zenon
<1>3. Nat \subseteq S
  <2>. HIDE DEF S
  <2>. QED
    BY <1>1, <1>2, SetInduction
<1>4. \E f : P(N, f)
  <2>. HIDE DEF P
  <2>1. N \in S /\ N <= N
    BY <1>3, NIsNat
  <2>. QED
    BY <2>1
<1>5. \E f : IsSum(f, g)
  BY <1>4, Zenon DEF IsSum
<1>. QED
  BY <1>5 DEF Upto

\* What is known of a sum.
LEMMA SumFacts ==
    ASSUME NEW g \in [1..N -> Nat]
    PROVE  /\ Upto(g) \in [0..N -> Nat] /\ Upto(g)[0] = 0 /\ Upto(g)[N] \in Nat
           /\ \A k \in 0..N : Upto(g)[k] \in Nat
           /\ \A k \in 1..N : Upto(g)[k] = Upto(g)[k - 1] + g[k]
BY SumExists, NIsNat, Zenon DEF IsSum

\* Sums of sums.
LEMMA SumAdd ==
    ASSUME NEW g \in [1..N -> Nat], NEW h \in [1..N -> Nat], NEW d \in [1..N -> Nat],
           \A k \in 1..N : h[k] = g[k] + d[k]
    PROVE  \A k \in 0..N : Upto(h)[k] = Upto(g)[k] + Upto(d)[k]
<1>. DEFINE S == {n \in Nat : n <= N => Upto(h)[n] = Upto(g)[n] + Upto(d)[n]}
<1>1. 0 \in S
  BY SumFacts
<1>2. ASSUME NEW n \in Nat, n \in S PROVE n + 1 \in S
  <2>1. SUFFICES ASSUME n + 1 <= N
                 PROVE  Upto(h)[n + 1] = Upto(g)[n + 1] + Upto(d)[n + 1]
    OBVIOUS
  <2>2. n + 1 \in 1..N /\ n \in 0..N /\ (n + 1) - 1 = n
    BY <2>1, NIsNat
  <2>3. Upto(h)[n] = Upto(g)[n] + Upto(d)[n]
    BY <1>2, <2>2
  <2>4. /\ Upto(h)[n + 1] = Upto(h)[n] + h[n + 1]
        /\ Upto(g)[n + 1] = Upto(g)[n] + g[n + 1]
        /\ Upto(d)[n + 1] = Upto(d)[n] + d[n + 1]
    BY <2>2, SumFacts, Zenon
  <2>5. /\ Upto(g)[n] \in Nat /\ Upto(d)[n] \in Nat /\ g[n + 1] \in Nat /\ d[n + 1] \in Nat
        /\ h[n + 1] = g[n + 1] + d[n + 1]
    BY <2>2, SumFacts
  <2>. QED
    BY <2>3, <2>4, <2>5
<1>3. Nat \subseteq S
  <2>. HIDE DEF S
  <2>. QED
    BY <1>1, <1>2, SetInduction
<1>. QED
  BY <1>3, NIsNat

\* Partial sums do not fall, and hold every term.
LEMMA SumUp ==
    ASSUME NEW g \in [1..N -> Nat]
    PROVE  /\ \A k \in 0..N : Upto(g)[k] <= Upto(g)[N]
           /\ \A k \in 1..N : g[k] <= Upto(g)[N]
<1>. DEFINE S == {n \in Nat : n <= N => Upto(g)[N - n] <= Upto(g)[N]}
<1>1. 0 \in S
  BY SumFacts, NIsNat
<1>2. ASSUME NEW n \in Nat, n \in S PROVE n + 1 \in S
  <2>1. SUFFICES ASSUME n + 1 <= N PROVE Upto(g)[N - (n + 1)] <= Upto(g)[N]
    OBVIOUS
  <2>2. N - n \in 1..N /\ N - (n + 1) \in 0..N /\ (N - n) - 1 = N - (n + 1)
    BY <2>1, NIsNat
  <2>3. /\ Upto(g)[N - n] = Upto(g)[N - (n + 1)] + g[N - n] /\ g[N - n] \in Nat
        /\ Upto(g)[N - (n + 1)] \in Nat /\ Upto(g)[N] \in Nat
    BY <2>2, SumFacts, Zenon
  <2>4. Upto(g)[N - n] <= Upto(g)[N]
    BY <1>2, <2>1, NIsNat
  <2>. QED
    BY <2>3, <2>4
<1>3. Nat \subseteq S
  <2>. HIDE DEF S
  <2>. QED
    BY <1>1, <1>2, SetInduction
<1>4. ASSUME NEW k \in 0..N PROVE Upto(g)[k] <= Upto(g)[N]
  <2>1. N - k \in Nat /\ N - k <= N /\ N - (N - k) = k
    BY NIsNat
  <2>. QED
    BY <1>3, <2>1
<1>5. ASSUME NEW k \in 1..N PROVE g[k] <= Upto(g)[N]
  <2>1. k \in 0..N /\ k - 1 \in 0..N
    BY NIsNat
  <2>2. Upto(g)[k] = Upto(g)[k - 1] + g[k] /\ Upto(g)[k - 1] \in Nat /\ g[k] \in Nat
        /\ Upto(g)[N] \in Nat
    BY <2>1, SumFacts, Zenon
  <2>. QED
    BY <1>4, <2>1, <2>2
<1>. QED
  BY <1>4, <1>5

\* A row that is nowhere less has no less a sum, from the start and to the end.
LEMMA SumLeq ==
    ASSUME NEW g \in [1..N -> Nat], NEW h \in [1..N -> Nat],
           \A k \in 1..N : g[k] <= h[k]
    PROVE  \A k \in 0..N : /\ Upto(g)[k] <= Upto(h)[k]
                           /\ Upto(g)[N] - Upto(g)[k] <= Upto(h)[N] - Upto(h)[k]
<1>. DEFINE d == [k \in 1..N |-> h[k] - g[k]]
<1>1. d \in [1..N -> Nat] /\ \A k \in 1..N : h[k] = g[k] + d[k]
  OBVIOUS
<1>. HIDE DEF d
<1>2. ASSUME NEW k \in 0..N
      PROVE  /\ Upto(g)[k] <= Upto(h)[k]
             /\ Upto(g)[N] - Upto(g)[k] <= Upto(h)[N] - Upto(h)[k]
  <2>1. Upto(h)[k] = Upto(g)[k] + Upto(d)[k] /\ Upto(h)[N] = Upto(g)[N] + Upto(d)[N]
    <3>1. \A j \in 0..N : Upto(h)[j] = Upto(g)[j] + Upto(d)[j]
      BY <1>1, SumAdd, Zenon
    <3>. QED
      BY <3>1, NIsNat
  <2>2. Upto(d)[k] <= Upto(d)[N]
    BY <1>1, SumUp
  <2>3. /\ Upto(g)[k] \in Nat /\ Upto(d)[k] \in Nat /\ Upto(g)[N] \in Nat
        /\ Upto(d)[N] \in Nat
    BY <1>1, SumFacts
  <2>. QED
    BY <2>1, <2>2, <2>3
<1>. QED
  BY <1>2

\* One term that is 1, and the others 0.
LEMMA SumUnit ==
    ASSUME NEW m \in 1..N, NEW d \in [1..N -> Nat],
           \A k \in 1..N : d[k] = IF k = m THEN 1 ELSE 0
    PROVE  Upto(d)[N] = 1
<1>. DEFINE S == {n \in Nat : n <= N => Upto(d)[n] = IF n < m THEN 0 ELSE 1}
<1>1. 0 \in S
  BY SumFacts
<1>2. ASSUME NEW n \in Nat, n \in S PROVE n + 1 \in S
  <2>1. SUFFICES ASSUME n + 1 <= N
                 PROVE  Upto(d)[n + 1] = IF n + 1 < m THEN 0 ELSE 1
    OBVIOUS
  <2>2. n + 1 \in 1..N /\ (n + 1) - 1 = n /\ n <= N
    BY <2>1, NIsNat
  <2>3. Upto(d)[n] = IF n < m THEN 0 ELSE 1
    BY <1>2, <2>2
  <2>4. Upto(d)[n + 1] = Upto(d)[n] + d[n + 1]
    BY <2>2, SumFacts, Zenon
  <2>5. d[n + 1] = IF n + 1 = m THEN 1 ELSE 0
    BY <2>2
  <2>. QED
    BY <2>3, <2>4, <2>5
<1>3. Nat \subseteq S
  <2>. HIDE DEF S
  <2>. QED
    BY <1>1, <1>2, SetInduction
<1>4. N \in S
  BY <1>3, NIsNat
<1>. QED
  BY <1>4, NIsNat

\* The sum of the sizes of disjoint sets is the size of their union.
LEMMA SumCard ==
    ASSUME NEW X, IsFiniteSet(X), NEW P \in [1..N -> SUBSET X],
           \A j, k \in 1..N : j # k => P[j] \cap P[k] = {},
           \A x \in X : \E k \in 1..N : x \in P[k],
           NEW d \in [1..N -> Nat], \A k \in 1..N : d[k] = Cardinality(P[k])
    PROVE  Upto(d)[N] = Cardinality(X)
<1>. DEFINE A(n) == {x \in X : \E k \in 1..n : x \in P[k]}
            S == {n \in Nat : n <= N => Upto(d)[n] = Cardinality(A(n))}
<1>1. 0 \in S
  <2>1. A(0) = {}
    OBVIOUS
  <2>. QED
    BY <2>1, SumFacts, FS_EmptySet, Zenon
<1>2. ASSUME NEW n \in Nat, n \in S PROVE n + 1 \in S
  <2>1. SUFFICES ASSUME n + 1 <= N PROVE Upto(d)[n + 1] = Cardinality(A(n + 1))
    OBVIOUS
  <2>2. n + 1 \in 1..N /\ (n + 1) - 1 = n /\ n <= N
    BY <2>1, NIsNat
  <2>3. Upto(d)[n] = Cardinality(A(n))
    BY <1>2, <2>2
  <2>4. Upto(d)[n + 1] = Upto(d)[n] + d[n + 1]
    BY <2>2, SumFacts, Zenon
  <2>5. A(n + 1) = A(n) \cup P[n + 1]
    <3>1. 1..n + 1 = (1..n) \cup {n + 1}
      OBVIOUS
    <3>2. P[n + 1] \subseteq X
      BY <2>2
    <3>. QED
      BY <3>1, <3>2
  <2>6. A(n) \cap P[n + 1] = {}
    <3>1. \A k \in 1..n : k \in 1..N /\ k # n + 1
      BY <2>1, NIsNat
    <3>. QED
      BY <2>2, <3>1
  <2>7. IsFiniteSet(A(n)) /\ IsFiniteSet(P[n + 1])
    <3>1. A(n) \in SUBSET X /\ P[n + 1] \in SUBSET X
      BY <2>2
    <3>. HIDE DEF A
    <3>. QED
      BY <3>1, FS_Subset
  <2>8. Cardinality(A(n) \cup P[n + 1]) = Cardinality(A(n)) + Cardinality(P[n + 1])
    <3>. HIDE DEF A
    <3>1. Cardinality(A(n) \cup P[n + 1])
            = Cardinality(A(n)) + Cardinality(P[n + 1]) - Cardinality(A(n) \cap P[n + 1])
      BY <2>7, FS_Union
    <3>2. Cardinality(A(n)) \in Nat /\ Cardinality(P[n + 1]) \in Nat
      BY <2>7, FS_CardinalityType
    <3>3. Cardinality(A(n) \cap P[n + 1]) = 0
      BY <2>6, FS_EmptySet, Zenon
    <3>. QED
      BY <3>1, <3>2, <3>3
  <2>. HIDE DEF A
  <2>. QED
    BY <2>2, <2>3, <2>4, <2>5, <2>8, Zenon
<1>3. Nat \subseteq S
  <2>. HIDE DEF S
  <2>. QED
    BY <1>1, <1>2, SetInduction
<1>4. N \in S /\ N <= N
  BY <1>3, NIsNat
<1>5. A(N) = X
  OBVIOUS
<1>. HIDE DEF A
<1>. QED
  BY <1>4, <1>5
-----------------------------------------------------------------------------
(* The counters.                                                           *)

\* The scan reads every slot once.
LEMMA ScanFacts ==
    /\ Len(ScanOrder) = N
    /\ \A k \in 1..N : ScanOrder[k] \in Slots
    /\ \A s \in Slots : \E k \in 1..N : ScanOrder[k] = s
    /\ \A j, k \in 1..N : ScanOrder[j] = ScanOrder[k] => j = k
<1>1. kMaxThreads \in Nat
  BY RcuAssumption, Zenon
<1>. DEFINE r == [i \in 1..kMaxThreads |-> i - 1]
<1>2. r \in Seq(Nat) /\ Len(r) = kMaxThreads /\ <<kShared>> \in Seq(Nat) /\ Len(<<kShared>>) = 1
  BY <1>1 DEF kShared
<1>3. /\ Len(ScanOrder) = N
      /\ \A k \in 1..N : ScanOrder[k] = IF k = 1 THEN kShared ELSE k - 2
  <2>1. Len(ScanOrder) = N
    BY <1>1, <1>2 DEF ScanOrder, N
  <2>2. ASSUME NEW k \in 1..N PROVE ScanOrder[k] = IF k = 1 THEN kShared ELSE k - 2
    BY <1>1, <1>2 DEF ScanOrder, N
  <2>. QED
    BY <2>1, <2>2
<1>4. \A k \in 1..N : ScanOrder[k] \in Slots
  BY <1>1, <1>3 DEF Slots, N, kShared
<1>5. ASSUME NEW s \in Slots PROVE \E k \in 1..N : ScanOrder[k] = s
  <2>1. CASE s = kShared
    <3>1. 1 \in 1..N /\ ScanOrder[1] = s
      BY <1>3, <2>1, NIsNat
    <3>. QED
      BY <3>1
  <2>2. CASE s # kShared
    <3>1. s + 2 \in 1..N /\ ScanOrder[s + 2] = s
      BY <1>1, <1>3, <2>2 DEF Slots, N, kShared
    <3>. QED
      BY <3>1
  <2>. QED
    BY <2>1, <2>2
<1>6. ASSUME NEW j \in 1..N, NEW k \in 1..N, ScanOrder[j] = ScanOrder[k] PROVE j = k
  BY <1>1, <1>3, <1>6 DEF kShared, N
<1>. QED
  BY <1>3, <1>4, <1>5, <1>6

LEMMA RowIsRow ==
    ASSUME NEW c \in Counter, NEW i \in 0..1
    PROVE  Row(c, i) \in [1..N -> Nat]
BY ScanFacts DEF Row, Counter

\* The sum over the slots, and over those a scan has read.
LEMMA TotalFacts ==
    ASSUME NEW c \in Counter, NEW i \in 0..1
    PROVE  /\ Total(c, i) \in Nat /\ Part(c, i, 0) = 0
           /\ \A k \in 0..N : Part(c, i, k) \in Nat /\ Part(c, i, k) <= Total(c, i)
           /\ \A k \in 1..N : Part(c, i, k) = Part(c, i, k - 1) + c[ScanOrder[k]][i]
           /\ \A s \in Slots : c[s][i] <= Total(c, i)
<1>. DEFINE g == Row(c, i)
<1>1. g \in [1..N -> Nat] /\ \A k \in 1..N : g[k] = c[ScanOrder[k]][i]
  BY RowIsRow DEF Row
<1>. HIDE DEF g
<1>2. /\ Upto(g)[0] = 0 /\ Upto(g)[N] \in Nat /\ \A k \in 0..N : Upto(g)[k] \in Nat
      /\ \A k \in 1..N : Upto(g)[k] = Upto(g)[k - 1] + g[k]
  BY <1>1, SumFacts, Zenon
<1>3. /\ \A k \in 0..N : Upto(g)[k] <= Upto(g)[N]
      /\ \A k \in 1..N : g[k] <= Upto(g)[N]
  BY <1>1, SumUp, Zenon
<1>4. ASSUME NEW s \in Slots PROVE c[s][i] <= Upto(g)[N]
  <2>1. PICK k \in 1..N : ScanOrder[k] = s
    BY ScanFacts
  <2>. QED
    BY <1>1, <1>3, <2>1
<1>. QED
  BY <1>1, <1>2, <1>3, <1>4 DEF Total, Part, g

\* Counters that grow: so do their sums, from the start and to the end.
LEMMA Grown ==
    ASSUME NEW c \in Counter, NEW e \in Counter, NEW i \in 0..1,
           \A s \in Slots : c[s][i] <= e[s][i]
    PROVE  \A k \in 0..N : /\ Part(c, i, k) <= Part(e, i, k)
                           /\ Total(c, i) - Part(c, i, k) <= Total(e, i) - Part(e, i, k)
<1>1. \A k \in 1..N : Row(c, i)[k] <= Row(e, i)[k]
  BY ScanFacts DEF Row
<1>. QED
  BY <1>1, RowIsRow, SumLeq, Zenon DEF Total, Part

Inc(c, s, i) == [c EXCEPT ![s][i] = @ + 1]

\* A bump adds one to the sum of its index.
LEMMA Bumped ==
    ASSUME NEW c \in Counter, NEW s \in Slots, NEW i \in 0..1
    PROVE  /\ Inc(c, s, i) \in Counter
           /\ \A j \in 0..1 : Total(Inc(c, s, i), j) = Total(c, j) + IF j = i THEN 1 ELSE 0
           /\ \A r \in Slots, j \in 0..1 : c[r][j] <= Inc(c, s, i)[r][j]
<1>0. PICK e : e = Inc(c, s, i)
  OBVIOUS
<1>1. e \in Counter /\ \A r \in Slots, j \in 0..1 :
                          e[r][j] = c[r][j] + IF r = s /\ j = i THEN 1 ELSE 0
  BY <1>0 DEF Counter, Inc
<1>2. ASSUME NEW j \in 0..1, j # i PROVE Total(e, j) = Total(c, j)
  <2>1. Row(e, j) = Row(c, j)
    BY <1>1, <1>2, ScanFacts, SMTT(30) DEF Row, Counter
  <2>. QED
    BY <2>1 DEF Total, Part
<1>3. Total(e, i) = Total(c, i) + 1
  <2>1. PICK m \in 1..N : ScanOrder[m] = s
    BY ScanFacts
  <2>. DEFINE d == [k \in 1..N |-> IF k = m THEN 1 ELSE 0]
  <2>2. d \in [1..N -> Nat] /\ \A k \in 1..N : d[k] = IF k = m THEN 1 ELSE 0
    OBVIOUS
  <2>. HIDE DEF d
  <2>3. Upto(d)[N] = 1
    BY <2>2, SumUnit, Zenon
  <2>4. ASSUME NEW k \in 1..N PROVE Row(e, i)[k] = Row(c, i)[k] + d[k]
    <3>1. ScanOrder[k] = s <=> k = m
      BY <2>1, ScanFacts
    <3>2. ScanOrder[k] \in Slots
      BY ScanFacts
    <3>. QED
      BY <1>1, <2>2, <3>1, <3>2 DEF Row
  <2>5. \A k \in 0..N : Upto(Row(e, i))[k] = Upto(Row(c, i))[k] + Upto(d)[k]
    <3>1. Row(e, i) \in [1..N -> Nat] /\ Row(c, i) \in [1..N -> Nat]
      BY <1>1, RowIsRow
    <3>. QED
      BY <2>2, <2>4, <3>1, SumAdd, Zenon
  <2>. QED
    BY <2>3, <2>5, NIsNat DEF Total, Part
<1>4. \A r \in Slots, j \in 0..1 : c[r][j] <= e[r][j]
  BY <1>1 DEF Counter
<1>5. \A j \in 0..1 : Total(c, j) \in Nat
  BY TotalFacts
<1>. QED
  BY <1>0, <1>1, <1>2, <1>3, <1>4, <1>5
IncIf(a, b, c, s, i) == IF a = b THEN Inc(c, s, i) ELSE c

LEMMA BumpedIf ==
    ASSUME NEW c \in Counter, NEW s \in Slots, NEW i \in 0..1, NEW a, NEW b
    PROVE  /\ IncIf(a, b, c, s, i) \in Counter
           /\ \A j \in 0..1 : Total(IncIf(a, b, c, s, i), j)
                                 = Total(c, j) + IF a = b /\ j = i THEN 1 ELSE 0
           /\ \A r \in Slots, j \in 0..1 : c[r][j] <= IncIf(a, b, c, s, i)[r][j]
<1>1. CASE a = b
  BY <1>1, Bumped, Zenon DEF IncIf
<1>2. CASE a # b
  <2>1. IncIf(a, b, c, s, i) = c /\ \A j \in 0..1 : Total(c, j) \in Nat
    BY <1>2, TotalFacts DEF IncIf
  <2>. QED
    BY <1>2, <2>1 DEF Counter
<1>. QED
  BY <1>1, <1>2
-----------------------------------------------------------------------------
(* The store buffers.                                                      *)

StoresOf(b) == UNION {{t} \X DOMAIN b[t] : t \in Threads}

\* The stores are the pairs of a thread and a place in its buffer.
LEMMA StoresFacts ==
    ASSUME NEW b \in [Threads -> Seq(Store)]
    PROVE  /\ StoresOf(b) \subseteq Threads \X Nat
           /\ \A t \in Threads, n \in Nat : <<t, n>> \in StoresOf(b) <=> n \in 1..Len(b[t])
           /\ \A p \in StoresOf(b) : b[p[1]][p[2]] \in Store
<1>1. \A t \in Threads : Len(b[t]) \in Nat /\ DOMAIN b[t] = 1..Len(b[t])
                         /\ \A n \in 1..Len(b[t]) : b[t][n] \in Store
  OBVIOUS
<1>2. ASSUME NEW t \in Threads, NEW n \in Nat
      PROVE  <<t, n>> \in StoresOf(b) <=> n \in 1..Len(b[t])
  BY <1>1 DEF StoresOf
<1>3. ASSUME NEW p \in StoresOf(b)
      PROVE  /\ p \in Threads \X Nat /\ b[p[1]][p[2]] \in Store
  <2>1. PICK t \in Threads : p \in {t} \X DOMAIN b[t]
    BY DEF StoresOf
  <2>2. p = <<t, p[2]>> /\ p[2] \in 1..Len(b[t])
    BY <1>1, <2>1
  <2>. QED
    BY <1>1, <2>2
<1>. QED
  BY <1>2, <1>3

\* No more bumps are visible than were made.
LEMMA PendFacts ==
    ASSUME StoresOK, NEW i \in 0..1
    PROVE  /\ \A ctr : IsFiniteSet(Pend(ctr, i)) /\ Cardinality(Pend(ctr, i)) \in Nat
           /\ Locks(i) \in Nat /\ Unlocks(i) \in Nat
           /\ Total(lock, i) \in Nat /\ Total(unlock, i) \in Nat
           /\ Total(lock, i) <= Locks(i) /\ Total(unlock, i) <= Unlocks(i)
<1>1. ASSUME NEW ctr PROVE IsFiniteSet(Pend(ctr, i)) /\ Cardinality(Pend(ctr, i)) \in Nat
  <2>1. Pend(ctr, i) \in SUBSET Stores
    BY DEF Pend
  <2>2. IsFiniteSet(Pend(ctr, i))
    BY <2>1, FS_Subset DEF StoresOK
  <2>. QED
    BY <2>2, FS_CardinalityType
<1>2. Total(lock, i) \in Nat /\ Total(unlock, i) \in Nat
  BY TotalFacts DEF StoresOK
<1>. QED
  BY <1>1, <1>2 DEF Locks, Unlocks

\* A store enters its thread's buffer.
LEMMA Appended ==
    ASSUME StoresOK, NEW t \in Threads, NEW e \in Store,
           buf' = [buf EXCEPT ![t] = Append(@, e)], UNCHANGED <<lock, unlock>>
    PROVE  /\ StoresOK'
           /\ \A ctr, j : Cardinality(Pend(ctr, j)') = Cardinality(Pend(ctr, j))
                            + IF e.ctr = ctr /\ e.idx = j THEN 1 ELSE 0
<1>. DEFINE m == Len(buf[t]) + 1
            x == <<t, m>>
<1>1. buf \in [Threads -> Seq(Store)] /\ buf[t] \in Seq(Store) /\ IsFiniteSet(Stores)
      /\ Len(buf[t]) \in Nat
  BY DEF StoresOK
<1>2. /\ buf' \in [Threads -> Seq(Store)] /\ buf'[t] = Append(buf[t], e)
      /\ \A u \in Threads \ {t} : buf'[u] = buf[u]
  BY <1>1
<1>3. /\ Len(buf'[t]) = m /\ buf'[t][m] = e /\ m \in Nat
      /\ \A n \in 1..Len(buf[t]) : buf'[t][n] = buf[t][n]
  BY <1>1, <1>2
<1>4. /\ Stores \subseteq Threads \X Nat
      /\ \A u \in Threads, n \in Nat : <<u, n>> \in Stores <=> n \in 1..Len(buf[u])
  BY <1>1, StoresFacts, Zenon DEF Stores, StoresOf
<1>5. /\ Stores' \subseteq Threads \X Nat
      /\ \A u \in Threads, n \in Nat : <<u, n>> \in Stores' <=> n \in 1..Len(buf'[u])
  BY <1>2, StoresFacts, Zenon DEF Stores, StoresOf
<1>6. x \notin Stores /\ Stores' = Stores \cup {x}
  BY <1>1, <1>2, <1>3, <1>4, <1>5
<1>7. IsFiniteSet(Stores')
  BY <1>1, <1>6, FS_AddElement, Zenon
<1>8. ASSUME NEW ctr, NEW j
      PROVE  Cardinality(Pend(ctr, j)') = Cardinality(Pend(ctr, j))
                + IF e.ctr = ctr /\ e.idx = j THEN 1 ELSE 0
  <2>1. \A p \in Stores : buf'[p[1]][p[2]] = buf[p[1]][p[2]]
    BY <1>2, <1>3, <1>4
  <2>2. buf'[x[1]][x[2]] = e
    BY <1>3
  <2>3. Pend(ctr, j)' = IF e.ctr = ctr /\ e.idx = j THEN Pend(ctr, j) \cup {x}
                                                    ELSE Pend(ctr, j)
    <3>. HIDE DEF x
    <3>. QED
      BY <1>6, <2>1, <2>2, Zenon DEF Pend
  <2>4. x \notin Pend(ctr, j) /\ Pend(ctr, j) \in SUBSET Stores
    BY <1>6 DEF Pend
  <2>5. IsFiniteSet(Pend(ctr, j))
    BY <1>1, <2>4, FS_Subset
  <2>6. Cardinality(Pend(ctr, j)) \in Nat
        /\ Cardinality(Pend(ctr, j) \cup {x}) = Cardinality(Pend(ctr, j)) + 1
    BY <2>4, <2>5, FS_AddElement, FS_CardinalityType
  <2>. QED
    BY <2>3, <2>6
<1>. QED
  BY <1>2, <1>7, <1>8 DEF StoresOK

\* The same pairs with the places of thread t one lower.
LEMMA Shift ==
    ASSUME NEW t \in Threads, NEW A \in SUBSET (Threads \X Nat), IsFiniteSet(A),
           NEW B \in SUBSET (Threads \X Nat), <<t, 0>> \notin A,
           \A u \in Threads, n \in Nat :
               <<u, n>> \in B <=> IF u = t THEN <<t, n + 1>> \in A ELSE <<u, n>> \in A
    PROVE  IsFiniteSet(B) /\ Cardinality(B) = Cardinality(A)
<1>. DEFINE f == [p \in A |-> IF p[1] = t THEN <<t, p[2] - 1>> ELSE p]
<1>1. ASSUME NEW p \in A
      PROVE  /\ p[1] \in Threads /\ p[2] \in Nat /\ p = <<p[1], p[2]>>
             /\ p[1] = t => p[2] # 0 /\ p[2] - 1 \in Nat /\ (p[2] - 1) + 1 = p[2]
  OBVIOUS
<1>2. ASSUME NEW p \in A PROVE f[p] \in B
  <2>1. CASE p[1] = t
    <3>1. p[2] - 1 \in Nat /\ <<t, (p[2] - 1) + 1>> \in A
      BY <1>1, <2>1
    <3>2. <<t, p[2] - 1>> \in B
      BY <3>1
    <3>. QED
      BY <2>1, <3>2
  <2>2. CASE p[1] # t
    <3>1. <<p[1], p[2]>> \in B
      BY <1>1, <2>2, Zenon
    <3>. QED
      BY <1>1, <2>2, <3>1
  <2>. QED
    BY <2>1, <2>2
<1>3. ASSUME NEW p \in A, NEW q \in A, f[p] = f[q] PROVE p = q
  <2>1. CASE p[1] = t /\ q[1] = t
    <3>1. p[2] - 1 = q[2] - 1
      BY <1>3, <2>1
    <3>2. p[2] = q[2]
      BY <1>1, <2>1, <3>1
    <3>. QED
      BY <1>1, <2>1, <3>2
  <2>2. CASE p[1] # t /\ q[1] # t
    BY <1>3, <2>2
  <2>3. CASE p[1] = t /\ q[1] # t
    BY <1>3, <2>3
  <2>4. CASE p[1] # t /\ q[1] = t
    BY <1>3, <2>4
  <2>. QED
    BY <2>1, <2>2, <2>3, <2>4
<1>4. ASSUME NEW q \in B PROVE \E p \in A : f[p] = q
  <2>1. q[1] \in Threads /\ q[2] \in Nat /\ q = <<q[1], q[2]>>
    OBVIOUS
  <2>2. CASE q[1] = t
    <3>1. <<t, q[2] + 1>> \in A
      BY <2>1, <2>2
    <3>2. f[<<t, q[2] + 1>>] = <<t, (q[2] + 1) - 1>>
      BY <3>1
    <3>3. f[<<t, q[2] + 1>>] = q
      BY <2>1, <2>2, <3>2, SMTT(30)
    <3>. QED
      BY <3>1, <3>3
  <2>3. CASE q[1] # t
    <3>1. q \in A
      BY <2>1, <2>3, Zenon
    <3>2. f[q] = q
      BY <2>3, <3>1
    <3>. QED
      BY <3>1, <3>2
  <2>. QED
    BY <2>2, <2>3
<1>5. f \in Bijection(A, B)
  <2>1. f \in [A -> B]
    BY <1>2
  <2>. HIDE DEF f
  <2>2. f \in Injection(A, B)
    BY <1>3, <2>1 DEF Injection, IsInjective
  <2>3. f \in Surjection(A, B)
    BY <1>4, <2>1 DEF Surjection
  <2>. QED
    BY <2>2, <2>3 DEF Bijection
<1>. QED
  BY <1>5, FS_Bijection DEF ExistsBijection

\* The oldest store of a buffer leaves it.
LEMMA Dropped ==
    ASSUME StoresOK, NEW t \in Threads, buf[t] # <<>>,
           buf' = [buf EXCEPT ![t] = Tail(@)]
    PROVE  /\ Head(buf[t]) \in Store /\ buf' \in [Threads -> Seq(Store)]
           /\ IsFiniteSet(Stores')
           /\ \A ctr, j : Cardinality(Pend(ctr, j)) = Cardinality(Pend(ctr, j)')
                 + IF Head(buf[t]).ctr = ctr /\ Head(buf[t]).idx = j THEN 1 ELSE 0
<1>. DEFINE x == <<t, 1>>
<1>0. PICK e : e = Head(buf[t])
  OBVIOUS
<1>1. buf \in [Threads -> Seq(Store)] /\ buf[t] \in Seq(Store) /\ IsFiniteSet(Stores)
      /\ Len(buf[t]) \in Nat \ {0}
  BY DEF StoresOK
<1>2. /\ buf' \in [Threads -> Seq(Store)] /\ buf'[t] = Tail(buf[t])
      /\ \A u \in Threads \ {t} : buf'[u] = buf[u]
  BY <1>1
<1>3. /\ e \in Store /\ buf[t][1] = e /\ Len(buf'[t]) = Len(buf[t]) - 1
      /\ \A n \in 1..Len(buf'[t]) : buf'[t][n] = buf[t][n + 1]
  BY <1>0, <1>1, <1>2
<1>4. /\ Stores \subseteq Threads \X Nat
      /\ \A u \in Threads, n \in Nat : <<u, n>> \in Stores <=> n \in 1..Len(buf[u])
  BY <1>1, StoresFacts, Zenon DEF Stores, StoresOf
<1>5. /\ Stores' \subseteq Threads \X Nat
      /\ \A u \in Threads, n \in Nat : <<u, n>> \in Stores' <=> n \in 1..Len(buf'[u])
  BY <1>2, StoresFacts, Zenon DEF Stores, StoresOf
<1>6. ASSUME NEW u \in Threads, NEW n \in Nat
      PROVE  /\ <<u, n>> \in Stores' <=> IF u = t THEN <<t, n + 1>> \in Stores \ {x}
                                                  ELSE <<u, n>> \in Stores \ {x}
             /\ <<u, n>> \in Stores' => buf'[u][n] = IF u = t THEN buf[t][n + 1]
                                                              ELSE buf[u][n]
  <2>1. CASE u = t
    <3>1. <<u, n>> \in Stores' <=> n \in 1..Len(buf'[t])
      BY <1>5, <2>1
    <3>2. <<t, n + 1>> \in Stores <=> n + 1 \in 1..Len(buf[t])
      BY <1>4
    <3>3. <<t, n + 1>> = x <=> n = 0
      OBVIOUS
    <3>4. n \in 1..Len(buf'[t]) <=> n + 1 \in 1..Len(buf[t]) /\ n # 0
      BY <1>1, <1>3
    <3>5. <<u, n>> \in Stores' <=> <<t, n + 1>> \in Stores \ {x}
      BY <3>1, <3>2, <3>3, <3>4
    <3>. QED
      BY <1>3, <2>1, <3>1, <3>5
  <2>2. CASE u # t
    BY <1>2, <1>4, <1>5, <2>2
  <2>. QED
    BY <2>1, <2>2, Zenon
<1>7. x \in Stores /\ <<t, 0>> \notin Stores
  BY <1>1, <1>4
<1>8. IsFiniteSet(Stores')
  <2>. DEFINE A == Stores \ {x}
  <2>1. IsFiniteSet(A)
    BY <1>1, FS_RemoveElement, Zenon
  <2>2. A \in SUBSET (Threads \X Nat) /\ <<t, 0>> \notin A
    BY <1>4, <1>7
  <2>3. \A u \in Threads, n \in Nat :
            <<u, n>> \in Stores' <=> IF u = t THEN <<t, n + 1>> \in A ELSE <<u, n>> \in A
    BY <1>6, Zenon
  <2>. HIDE DEF A
  <2>4. Stores' \in SUBSET (Threads \X Nat)
    BY <1>5
  <2>. QED
    BY <2>1, <2>2, <2>3, <2>4, Shift
<1>9. ASSUME NEW ctr, NEW j
      PROVE  Cardinality(Pend(ctr, j)) = Cardinality(Pend(ctr, j)')
                + IF e.ctr = ctr /\ e.idx = j THEN 1 ELSE 0
  <2>. DEFINE P == Pend(ctr, j)
              Q == Pend(ctr, j)'
              A == P \ {x}
  <2>1. P \in SUBSET Stores /\ Q \in SUBSET Stores'
    BY SMTT(30) DEF Pend
  <2>2. IsFiniteSet(P)
    BY <1>1, <2>1, FS_Subset
  <2>3. x \in P <=> e.ctr = ctr /\ e.idx = j
    BY <1>3, <1>7 DEF Pend
  <2>4. \A u \in Threads, n \in Nat :
            <<u, n>> \in P <=> /\ <<u, n>> \in Stores
                               /\ buf[u][n].ctr = ctr /\ buf[u][n].idx = j
    BY DEF Pend
  <2>5. \A u \in Threads, n \in Nat :
            <<u, n>> \in Q <=> /\ <<u, n>> \in Stores'
                               /\ buf'[u][n].ctr = ctr /\ buf'[u][n].idx = j
    BY Zenon DEF Pend
  <2>. HIDE DEF P, Q
  <2>6. \A u \in Threads, n \in Nat :
            <<u, n>> \in Q <=> IF u = t THEN <<t, n + 1>> \in A ELSE <<u, n>> \in A
    <3>. TAKE u \in Threads, n \in Nat
    <3>1. CASE u = t
      <4>1. <<u, n>> \in Stores' <=> <<t, n + 1>> \in Stores /\ <<t, n + 1>> # x
        BY <1>6, <3>1
      <4>2. <<u, n>> \in Stores' => buf'[u][n] = buf[t][n + 1]
        BY <1>6, <3>1, Zenon
      <4>3. n + 1 \in Nat
        OBVIOUS
      <4>4. <<t, n + 1>> \in P <=> /\ <<t, n + 1>> \in Stores
                                  /\ buf[t][n + 1].ctr = ctr /\ buf[t][n + 1].idx = j
        BY <2>4, <4>3, Zenon
      <4>5. <<u, n>> \in Q <=> <<t, n + 1>> \in P /\ <<t, n + 1>> # x
        BY <2>5, <4>1, <4>2, <4>4, Zenon
      <4>. QED
        BY <3>1, <4>5
    <3>2. CASE u # t
      <4>1. <<u, n>> \in Stores' <=> <<u, n>> \in Stores /\ <<u, n>> # x
        BY <1>6, <3>2, Zenon
      <4>2. <<u, n>> \in Stores' => buf'[u][n] = buf[u][n]
        BY <1>6, <3>2
      <4>3. <<u, n>> # x
        BY <3>2
      <4>4. <<u, n>> \in P <=> <<u, n>> \in Stores /\ buf[u][n].ctr = ctr /\ buf[u][n].idx = j
        BY <2>4, Zenon
      <4>5. <<u, n>> \in Q <=> /\ <<u, n>> \in Stores'
                              /\ buf'[u][n].ctr = ctr /\ buf'[u][n].idx = j
        BY <2>5, Zenon
      <4>6. <<u, n>> \in Q <=> <<u, n>> \in P
        BY <4>1, <4>2, <4>3, <4>4, <4>5, Zenon
      <4>. QED
        BY <3>2, <4>3, <4>6
    <3>. QED
      BY <3>1, <3>2
  <2>7. IsFiniteSet(A) /\ A \in SUBSET (Threads \X Nat) /\ <<t, 0>> \notin A
        /\ Q \in SUBSET (Threads \X Nat)
    BY <1>4, <1>5, <1>7, <2>1, <2>2, FS_RemoveElement, Zenon
  <2>8. Cardinality(Q) = Cardinality(A)
    <3>. HIDE DEF A
    <3>. QED
      BY <2>6, <2>7, Shift
  <2>9. /\ Cardinality(P) \in Nat
        /\ Cardinality(A) = IF x \in P THEN Cardinality(P) - 1 ELSE Cardinality(P)
    BY <2>2, FS_RemoveElement, FS_CardinalityType, SMTT(30)
  <2>10. Cardinality(P) = Cardinality(Q) + IF e.ctr = ctr /\ e.idx = j THEN 1 ELSE 0
    BY <2>3, <2>8, <2>9
  <2>. QED
    BY <2>10 DEF P, Q
<1>. QED
  BY <1>0, <1>2, <1>3, <1>8, <1>9

\* What a bump of a counter does to the numbers of bumps made.
LEMMA BumpCounts ==
    ASSUME StoresOK, NEW t \in Threads, NEW s \in Slots, NEW i \in 0..1,
           NEW ctr \in {"lock", "unlock"}, Bump(t, s, ctr, i)
    PROVE  /\ StoresOK' /\ Grows
           /\ \A j \in 0..1 :
                 /\ Locks(j)' = Locks(j) + IF ctr = "lock" /\ j = i THEN 1 ELSE 0
                 /\ Unlocks(j)' = Unlocks(j) + IF ctr = "unlock" /\ j = i THEN 1 ELSE 0
<1>. DEFINE PL(j) == Cardinality(Pend("lock", j))
            PU(j) == Cardinality(Pend("unlock", j))
<1>1. /\ lock \in Counter /\ unlock \in Counter
      /\ \A j \in 0..1 : /\ Total(lock, j) \in Nat /\ Total(unlock, j) \in Nat
                         /\ PL(j) \in Nat /\ PU(j) \in Nat
  BY PendFacts, SMTT(30) DEF StoresOK
<1>2. CASE ReaderFence
  <2>1. /\ lock' = IncIf(ctr, "lock", lock, s, i)
        /\ unlock' = IncIf(ctr, "unlock", unlock, s, i)
        /\ buf' = buf
    BY <1>2 DEF Bump, Inc, IncIf
  <2>2. /\ lock' \in Counter
        /\ \A j \in 0..1 : Total(lock', j) = Total(lock, j) + IF ctr = "lock" /\ j = i THEN 1 ELSE 0
        /\ \A r \in Slots, j \in 0..1 : lock[r][j] <= lock'[r][j]
    BY <1>1, <2>1, BumpedIf, SMTT(30)
  <2>3. /\ unlock' \in Counter
        /\ \A j \in 0..1 : Total(unlock', j) = Total(unlock, j)
                                + IF ctr = "unlock" /\ j = i THEN 1 ELSE 0
        /\ \A r \in Slots, j \in 0..1 : unlock[r][j] <= unlock'[r][j]
    BY <1>1, <2>1, BumpedIf
  <2>4. StoresOK'
    BY <2>1, <2>2, <2>3, SMTT(30) DEF StoresOK, Stores
  <2>5. \A j \in 0..1 : PL(j)' = PL(j) /\ PU(j)' = PU(j)
    BY <2>1, SMTT(30) DEF Pend, Stores
  <2>6. \A j \in 0..1 : /\ Locks(j)' = Total(lock', j) + PL(j)' /\ Locks(j) = Total(lock, j) + PL(j)
                        /\ Unlocks(j)' = Total(unlock', j) + PU(j)'
                        /\ Unlocks(j) = Total(unlock, j) + PU(j)
    BY DEF Locks, Unlocks
  <2>7. Grows
    BY <2>2, <2>3 DEF Grows
  <2>. HIDE DEF PL, PU
  <2>. QED
    BY <1>1, <2>2, <2>3, <2>4, <2>5, <2>6, <2>7, SMTT(30)
<1>3. CASE ~ReaderFence
  <2>. DEFINE e == [ctr |-> ctr, slot |-> s, idx |-> i]
  <2>1. /\ buf' = [buf EXCEPT ![t] = Append(@, e)] /\ lock' = lock /\ unlock' = unlock
    BY <1>3 DEF Bump, counterVars
  <2>2. e \in Store /\ e.ctr = ctr /\ e.idx = i
    BY DEF Store
  <2>. HIDE DEF e
  <2>3. /\ StoresOK'
        /\ \A c, j : Cardinality(Pend(c, j)') = Cardinality(Pend(c, j))
                            + IF e.ctr = c /\ e.idx = j THEN 1 ELSE 0
    BY <2>1, <2>2, Appended, Zenon
  <2>4. \A j : /\ PL(j)' = PL(j) + IF ctr = "lock" /\ i = j THEN 1 ELSE 0
               /\ PU(j)' = PU(j) + IF ctr = "unlock" /\ i = j THEN 1 ELSE 0
    BY <2>2, <2>3
  <2>5. Grows
    <3>1. \A r \in Slots, j \in 0..1 : lock[r][j] \in Nat /\ unlock[r][j] \in Nat
      BY <1>1 DEF Counter
    <3>2. \A n \in Nat : n <= n
      OBVIOUS
    <3>. QED
      BY <2>1, <3>1, <3>2, Zenon DEF Grows
  <2>6. \A j \in 0..1 : /\ Locks(j)' = Total(lock, j) + PL(j)' /\ Locks(j) = Total(lock, j) + PL(j)
                        /\ Unlocks(j)' = Total(unlock, j) + PU(j)'
                        /\ Unlocks(j) = Total(unlock, j) + PU(j)
    BY <2>1 DEF Locks, Unlocks
  <2>. HIDE DEF PL, PU
  <2>. QED
    BY <1>1, <2>3, <2>4, <2>5, <2>6
<1>. QED
  BY <1>2, <1>3

\* A store that becomes visible was counted already.
LEMMA FlushCounts ==
    ASSUME StoresOK, NEW t \in Threads, FlushOne(t)
    PROVE  /\ StoresOK' /\ Grows
           /\ \A j \in 0..1 : Locks(j)' = Locks(j) /\ Unlocks(j)' = Unlocks(j)
<1>. DEFINE PL(j) == Cardinality(Pend("lock", j))
            PU(j) == Cardinality(Pend("unlock", j))
<1>1. PICK e : /\ e = Head(buf[t]) /\ buf[t] # <<>>
               /\ lock' = IncIf(e.ctr, "lock", lock, e.slot, e.idx)
               /\ unlock' = IncIf(e.ctr, "unlock", unlock, e.slot, e.idx)
               /\ buf' = [buf EXCEPT ![t] = Tail(@)]
  BY Zenon DEF FlushOne, Inc, IncIf
<1>2. /\ e \in Store /\ buf' \in [Threads -> Seq(Store)] /\ IsFiniteSet(Stores')
      /\ \A ctr, j : Cardinality(Pend(ctr, j)) = Cardinality(Pend(ctr, j)')
                            + IF e.ctr = ctr /\ e.idx = j THEN 1 ELSE 0
  BY <1>1, Dropped, ZenonT(30)
<1>3. PICK a \in {"lock", "unlock"}, s \in Slots, i \in 0..1 :
          e.ctr = a /\ e.slot = s /\ e.idx = i
  BY <1>2 DEF Store
<1>4. /\ lock \in Counter /\ unlock \in Counter
      /\ \A j \in 0..1 : /\ Total(lock, j) \in Nat /\ Total(unlock, j) \in Nat
                         /\ PL(j) \in Nat /\ PU(j) \in Nat
  BY PendFacts, SMTT(30) DEF StoresOK
<1>5. /\ lock' \in Counter
      /\ \A j \in 0..1 : Total(lock', j) = Total(lock, j)
                            + IF a = "lock" /\ j = i THEN 1 ELSE 0
      /\ \A r \in Slots, j \in 0..1 : lock[r][j] <= lock'[r][j]
  <2>1. lock' = IncIf(a, "lock", lock, s, i)
    BY <1>1, <1>3
  <2>. QED
    BY <1>4, <2>1, BumpedIf
<1>6. /\ unlock' \in Counter
      /\ \A j \in 0..1 : Total(unlock', j) = Total(unlock, j)
                            + IF a = "unlock" /\ j = i THEN 1 ELSE 0
      /\ \A r \in Slots, j \in 0..1 : unlock[r][j] <= unlock'[r][j]
  <2>1. unlock' = IncIf(a, "unlock", unlock, s, i)
    BY <1>1, <1>3
  <2>. QED
    BY <1>4, <2>1, BumpedIf, SMTT(30)
<1>7. StoresOK'
  BY <1>2, <1>5, <1>6 DEF StoresOK
<1>8. \A j \in 0..1 : PL(j)' \in Nat /\ PU(j)' \in Nat
  <2>1. \A ctr, j : Pend(ctr, j)' \in SUBSET Stores'
    BY DEF Pend
  <2>2. \A ctr, j : IsFiniteSet(Pend(ctr, j)')
    BY <1>2, <2>1, FS_Subset
  <2>. QED
    BY <2>2, FS_CardinalityType
<1>9. \A j \in 0..1 : /\ Locks(j)' = Total(lock', j) + PL(j)' /\ Locks(j) = Total(lock, j) + PL(j)
                      /\ Unlocks(j)' = Total(unlock', j) + PU(j)'
                      /\ Unlocks(j) = Total(unlock, j) + PU(j)
  BY DEF Locks, Unlocks
<1>10. \A j : /\ PL(j) = PL(j)' + IF a = "lock" /\ i = j THEN 1 ELSE 0
              /\ PU(j) = PU(j)' + IF a = "unlock" /\ i = j THEN 1 ELSE 0
  BY <1>2, <1>3
<1>11. Grows
  BY <1>5, <1>6 DEF Grows
<1>. HIDE DEF PL, PU
<1>. QED
  BY <1>3, <1>4, <1>5, <1>6, <1>7, <1>8, <1>9, <1>10, <1>11

LEMMA StoreRecord ==
    ASSUME NEW e \in Store
    PROVE  e = [ctr |-> e.ctr, slot |-> e.slot, idx |-> e.idx] /\ e.slot \in Slots
BY DEF Store

\* What a barrier adds to a counter.
LEMMA Drained ==
    ASSUME StoresOK, NEW ctr, NEW c \in Counter, NEW e,
           e = [s \in Slots |-> [i \in 0..1 |-> c[s][i] + Pending(s, ctr, i)]]
    PROVE  /\ e \in Counter
           /\ \A i \in 0..1 : Total(e, i) = Total(c, i) + Cardinality(Pend(ctr, i))
           /\ \A s \in Slots, i \in 0..1 : c[s][i] <= e[s][i]
<1>. DEFINE S(s, i) == {p \in Stores : buf[p[1]][p[2]] = [ctr |-> ctr, slot |-> s, idx |-> i]}
<1>1. \A s, i : IsFiniteSet(S(s, i)) /\ Pending(s, ctr, i) = Cardinality(S(s, i))
  <2>1. \A s, i : S(s, i) \in SUBSET Stores /\ Pending(s, ctr, i) = Cardinality(S(s, i))
    BY DEF Pending
  <2>2. IsFiniteSet(Stores)
    BY DEF StoresOK
  <2>. HIDE DEF S
  <2>. QED
    BY <2>1, <2>2, FS_Subset
<1>2. ASSUME NEW s, NEW i PROVE Pending(s, ctr, i) \in Nat
  <2>1. IsFiniteSet(S(s, i)) /\ Pending(s, ctr, i) = Cardinality(S(s, i))
    BY <1>1, SMTT(30)
  <2>. HIDE DEF S
  <2>. QED
    BY <2>1, FS_CardinalityType
<1>3. /\ e \in Counter
      /\ \A s \in Slots, i \in 0..1 : e[s][i] = c[s][i] + Pending(s, ctr, i)
  BY <1>2 DEF Counter
<1>4. \A s \in Slots, i \in 0..1 : c[s][i] <= e[s][i]
  BY <1>2, <1>3 DEF Counter
<1>5. ASSUME NEW i \in 0..1
      PROVE  Total(e, i) = Total(c, i) + Cardinality(Pend(ctr, i))
  <2>. DEFINE X == Pend(ctr, i)
              P == [k \in 1..N |-> S(ScanOrder[k], i)]
              d == [k \in 1..N |-> Pending(ScanOrder[k], ctr, i)]
  <2>1. IsFiniteSet(X)
    BY PendFacts
  <2>2. /\ P \in [1..N -> SUBSET X]
        /\ \A k \in 1..N : P[k] = S(ScanOrder[k], i)
    BY SMTT(30) DEF Pend
  <2>3. ASSUME NEW j \in 1..N, NEW k \in 1..N, j # k PROVE P[j] \cap P[k] = {}
    <3>1. ScanOrder[j] # ScanOrder[k]
      BY <2>3, ScanFacts
    <3>2. SUFFICES ASSUME NEW p \in P[j], p \in P[k] PROVE FALSE
      BY SMTT(30)
    <3>3. buf[p[1]][p[2]].slot = ScanOrder[j] /\ buf[p[1]][p[2]].slot = ScanOrder[k]
      BY <2>2, <3>2, SMTT(20)
    <3>. QED
      BY <3>1, <3>3, SMTT(30)
  <2>4. ASSUME NEW p \in X PROVE \E k \in 1..N : p \in P[k]
    <3>1. p \in Stores /\ buf[p[1]][p[2]].ctr = ctr /\ buf[p[1]][p[2]].idx = i
      BY SMTT(30) DEF Pend
    <3>2. buf[p[1]][p[2]] \in Store
      BY <3>1, StoresFacts, Zenon DEF StoresOK, Stores, StoresOf
    <3>3. PICK r \in Store : r = buf[p[1]][p[2]]
      BY <3>2
    <3>4. r = [ctr |-> ctr, slot |-> r.slot, idx |-> i] /\ r.slot \in Slots
      BY <3>1, <3>3, StoreRecord, SMTT(30)
    <3>5. PICK k \in 1..N : ScanOrder[k] = r.slot
      BY <3>4, ScanFacts
    <3>6. p \in S(ScanOrder[k], i)
      BY <3>1, <3>3, <3>4, <3>5, Zenon
    <3>. QED
      BY <2>2, <3>6, Zenon
  <2>5. /\ d \in [1..N -> Nat]
        /\ \A k \in 1..N : d[k] = Pending(ScanOrder[k], ctr, i)
    BY <1>2
  <2>6. ASSUME NEW k \in 1..N PROVE d[k] = Cardinality(P[k])
    <3>1. Pending(ScanOrder[k], ctr, i) = Cardinality(S(ScanOrder[k], i))
      BY <1>1, SMTT(30)
    <3>. HIDE DEF S, P, d
    <3>. QED
      BY <2>2, <2>5, <3>1, Zenon
  <2>. HIDE DEF X, P, d
  <2>7. Upto(d)[N] = Cardinality(X)
    <3>1. \A j, k \in 1..N : j # k => P[j] \cap P[k] = {}
      BY <2>3, Zenon
    <3>2. \A x \in X : \E k \in 1..N : x \in P[k]
      BY <2>4, Zenon
    <3>3. P \in [1..N -> SUBSET X] /\ d \in [1..N -> Nat]
      BY <2>2, <2>5, Zenon
    <3>. QED
      BY <2>1, <2>6, <3>1, <3>2, <3>3, SumCard, Zenon
  <2>8. Row(e, i) \in [1..N -> Nat] /\ Row(c, i) \in [1..N -> Nat]
    BY <1>3, RowIsRow, Zenon
  <2>9. \A k \in 1..N : Row(e, i)[k] = Row(c, i)[k] + d[k]
    BY <1>3, <2>5, ScanFacts DEF Row
  <2>10. \A k \in 0..N : Upto(Row(e, i))[k] = Upto(Row(c, i))[k] + Upto(d)[k]
    BY <2>5, <2>8, <2>9, SumAdd, Zenon
  <2>. QED
    BY <2>7, <2>10, NIsNat DEF Total, Part, X
<1>. QED
  BY <1>3, <1>4, <1>5

\* A barrier makes every store visible that was counted already.
LEMMA BarrierCounts ==
    ASSUME StoresOK, HeavyBarrier
    PROVE  /\ StoresOK' /\ Grows
           /\ \A j \in 0..1 : /\ Locks(j)' = Locks(j) /\ Unlocks(j)' = Unlocks(j)
                              /\ Total(lock', j) = Locks(j)
                              /\ Total(unlock', j) = Unlocks(j)
<1>1. /\ lock' \in Counter
      /\ \A i \in 0..1 : Total(lock', i) = Total(lock, i) + Cardinality(Pend("lock", i))
      /\ \A s \in Slots, i \in 0..1 : lock[s][i] <= lock'[s][i]
  <2>1. lock \in Counter /\ lock' = [s \in Slots |-> [i \in 0..1 |->
                    lock[s][i] + Pending(s, "lock", i)]]
    BY DEF HeavyBarrier, StoresOK
  <2>. QED
    BY <2>1, Drained, Zenon
<1>2. /\ unlock' \in Counter
      /\ \A i \in 0..1 : Total(unlock', i) = Total(unlock, i) + Cardinality(Pend("unlock", i))
      /\ \A s \in Slots, i \in 0..1 : unlock[s][i] <= unlock'[s][i]
  <2>1. unlock \in Counter /\ unlock' = [s \in Slots |-> [i \in 0..1 |->
                    unlock[s][i] + Pending(s, "unlock", i)]]
    BY DEF HeavyBarrier, StoresOK
  <2>. QED
    BY <2>1, Drained, Zenon
<1>3. buf' = [t \in Threads |-> <<>>]
  BY DEF HeavyBarrier
<1>4. buf' \in [Threads -> Seq(Store)] /\ Stores' = {}
  BY <1>3 DEF Stores
<1>5. \A ctr, j : Pend(ctr, j)' = {}
  BY <1>4 DEF Pend
<1>6. \A ctr, j : Cardinality(Pend(ctr, j)') = 0
  BY <1>5, FS_EmptySet
<1>7. StoresOK'
  BY <1>1, <1>2, <1>4, FS_EmptySet, SMTT(30) DEF StoresOK
<1>8. Grows
  BY <1>1, <1>2 DEF Grows
<1>9. \A j \in 0..1 : Total(lock', j) \in Nat /\ Total(unlock', j) \in Nat
  BY <1>1, <1>2, TotalFacts, SMTT(30)
<1>10. \A j \in 0..1 : Total(lock', j) = Locks(j) /\ Total(unlock', j) = Unlocks(j)
  BY <1>1, <1>2, SMTT(30) DEF Locks, Unlocks
<1>11. \A j \in 0..1 : Locks(j)' = Total(lock', j) + 0 /\ Unlocks(j)' = Total(unlock', j) + 0
  BY <1>6 DEF Locks, Unlocks
<1>. QED
  BY <1>7, <1>8, <1>9, <1>10, <1>11
-----------------------------------------------------------------------------
(* Sections and counts.                                                    *)

\* What is used of the constants, and what the steps of synchronize() keep.
LEMMA FiniteConstants ==
    IsFiniteSet(Sections) /\ kMaxThreads \in Nat /\ MaxEntries \in Nat
BY RcuAssumption, Zenon

LEMMA GraceKeeps ==
    ASSUME Grace
    PROVE  UNCHANGED <<sect, entries>>
BY DEF Grace, SyncLock, SyncScanUnlock, SyncScanBarrier, SyncScanLock, SyncDrained, SyncFlip,
   SyncFlipBarrier, SyncEnd, readerVars

\* Sections are finitely many.
LEMMA InFacts ==
    \A st, i : IsFiniteSet(In(st, i)) /\ Cardinality(In(st, i)) \in Nat
<1>. TAKE st, i
<1>1. In(st, i) \in SUBSET Sections
  BY DEF In
<1>2. IsFiniteSet(In(st, i))
  BY <1>1, FiniteConstants, FS_Subset
<1>. QED
  BY <1>2, FS_CardinalityType

\* One section changes.
Changes(c, r) == sect' = [sect EXCEPT ![c] = r]

\* One section changes its state or its index.
LEMMA InChange ==
    ASSUME sect \in [Sections -> SectionType], NEW c \in Sections, NEW r, Changes(c, r)
    PROVE  \A st, i :
              /\ Cardinality(In(st, i)) \in Nat /\ Cardinality(In(st, i)') \in Nat
              /\ Cardinality(In(st, i)') + (IF sect[c].st = st /\ sect[c].idx = i THEN 1 ELSE 0)
                    = Cardinality(In(st, i)) + (IF r.st = st /\ r.idx = i THEN 1 ELSE 0)
<1>. TAKE st, i
<1>. DEFINE A == In(st, i)
            B == In(st, i)'
<1>1. A \in SUBSET Sections /\ B \in SUBSET Sections
  BY SMTT(30) DEF In
<1>2. IsFiniteSet(A) /\ IsFiniteSet(B)
  BY <1>1, FiniteConstants, FS_Subset
<1>3. /\ c \in A <=> sect[c].st = st /\ sect[c].idx = i
      /\ c \in B <=> r.st = st /\ r.idx = i
      /\ A \ {c} = B \ {c}
  BY DEF In, Changes
<1>. HIDE DEF A, B
<1>4. /\ Cardinality(A) \in Nat /\ Cardinality(B) \in Nat
      /\ Cardinality(A \ {c}) = IF c \in A THEN Cardinality(A) - 1 ELSE Cardinality(A)
      /\ Cardinality(B \ {c}) = IF c \in B THEN Cardinality(B) - 1 ELSE Cardinality(B)
  BY <1>2, FS_RemoveElement, FS_CardinalityType
<1>5. /\ Cardinality(A) \in Nat /\ Cardinality(B) \in Nat
      /\ Cardinality(B) + (IF c \in A THEN 1 ELSE 0) = Cardinality(A) + (IF c \in B THEN 1 ELSE 0)
  <2>1. Cardinality(A \ {c}) = Cardinality(B \ {c})
    BY <1>3, Zenon
  <2>. QED
    BY <1>4, <2>1
<1>. QED
  BY <1>3, <1>5, Zenon DEF A, B

\* The counters, buffers and sections stay, or stores only become visible.
LEMMA CountsKept ==
    ASSUME CountsOK, UNCHANGED <<sect, entries>>, StoresOK',
           \A j \in 0..1 : Locks(j)' = Locks(j) /\ Unlocks(j)' = Unlocks(j)
    PROVE  CountsOK'
<1>1. \A st, i : In(st, i)' = In(st, i)
  BY DEF In
<1>. QED
  BY <1>1 DEF CountsOK

LEMMA StoresSame ==
    ASSUME StoresOK, UNCHANGED <<lock, unlock, buf>>
    PROVE  StoresOK' /\ \A j : Locks(j)' = Locks(j) /\ Unlocks(j)' = Unlocks(j)
BY Zenon DEF StoresOK, Stores, Locks, Unlocks, Pend

LEMMA CountsSame ==
    ASSUME CountsOK, UNCHANGED <<sect, entries, lock, unlock, buf>>
    PROVE  CountsOK'
BY StoresSame, CountsKept, SMTT(30) DEF CountsOK

\* read_lock() counts before the section reads, read_unlock() after.
LEMMA ReaderCounts ==
    ASSUME GraceInv, NEW c \in Sections, Reader(c)
    PROVE  CountsOK' /\ Grows
<1>0. /\ Types /\ sect \in [Sections -> SectionType] /\ StoresOK /\ entries \in Nat
      /\ \A i \in 0..1 :
            /\ Locks(i) \in Nat /\ Unlocks(i) \in Nat
            /\ Locks(i) = Unlocks(i) + Cardinality(In("reading", i))
            /\ Locks(i) + Cardinality(In("entering", i)) <= entries
  BY PendFacts, FiniteConstants, SMTT(30) DEF GraceInv, Types, CountsOK
<1>1. sect[c].idx \in 0..1 /\ gp_idx_ \in 0..1
  BY <1>0, SMTT(30) DEF Types, SectionType
<1>2. UNCHANGED <<lock, unlock>> => Grows
  BY <1>0, SMTT(30) DEF Grows, StoresOK, Counter
<1>3. ASSUME NEW t \in Threads, ReadLockLoad(c, t) PROVE CountsOK' /\ Grows
  <2>. DEFINE r == [st |-> "entering", on |-> t, idx |-> gp_idx_, ref |-> NoPtr]
  <2>1. /\ sect[c].st = "idle" /\ r.st = "entering" /\ entries' = entries + 1
        /\ Changes(c, r) /\ UNCHANGED <<lock, unlock, buf>>
    BY <1>3 DEF ReadLockLoad, counterVars, Changes
  <2>. HIDE DEF r
  <2>2. StoresOK' /\ \A j : Locks(j)' = Locks(j) /\ Unlocks(j)' = Unlocks(j)
    BY <1>0, <2>1, StoresSame
  <2>3. ASSUME NEW i \in 0..1
        PROVE  /\ Cardinality(In("reading", i)') = Cardinality(In("reading", i))
               /\ Cardinality(In("entering", i)') <= Cardinality(In("entering", i)) + 1
               /\ Cardinality(In("entering", i)') \in Nat
               /\ Cardinality(In("entering", i)) \in Nat
    BY <1>0, <2>1, InChange, SMTT(30)
  <2>. QED
    BY <1>0, <1>2, <2>1, <2>2, <2>3, SMTT(30) DEF CountsOK
<1>4. CASE ReadLockBump(c)
  <2>. DEFINE r == [sect[c] EXCEPT !.st = "reading"]
              m == sect[c].idx
              t == sect[c].on
  <2>1. /\ sect[c].st = "entering" /\ r.st = "reading" /\ r.idx = m /\ entries' = entries
        /\ Changes(c, r) /\ Bump(t, slotOf[t], "lock", m)
    BY <1>0, <1>4 DEF ReadLockBump, SectionType, Changes
  <2>2. t \in Threads /\ slotOf[t] \in Slots
    BY <2>1 DEF GraceInv, SectionsOK
  <2>. HIDE DEF r
  <2>3. /\ StoresOK' /\ Grows
        /\ \A j \in 0..1 : /\ Locks(j)' = Locks(j) + IF j = m THEN 1 ELSE 0
                           /\ Unlocks(j)' = Unlocks(j)
    <3>1. /\ StoresOK' /\ Grows
          /\ \A j \in 0..1 : /\ Locks(j)' = Locks(j) + IF "lock" = "lock" /\ j = m THEN 1 ELSE 0
                             /\ Unlocks(j)' = Unlocks(j)
                                               + IF "lock" = "unlock" /\ j = m THEN 1 ELSE 0
      BY <1>0, <1>1, <2>1, <2>2, BumpCounts, Zenon
    <3>2. \A j \in 0..1 : Unlocks(j) \in Nat
      BY <1>0, SMTT(30)
    <3>. QED
      BY <3>1, <3>2, SMTT(30)
  <2>4. ASSUME NEW i \in 0..1
        PROVE  /\ Cardinality(In("reading", i)') = Cardinality(In("reading", i))
                                                    + IF i = m THEN 1 ELSE 0
               /\ Cardinality(In("entering", i)') + (IF i = m THEN 1 ELSE 0)
                    = Cardinality(In("entering", i))
               /\ Cardinality(In("reading", i)) \in Nat
               /\ Cardinality(In("entering", i)') \in Nat
    <3>0. sect \in [Sections -> SectionType] /\ Changes(c, r)
      BY <1>0, <2>1, SMTT(30)
    <3>1. \A st : /\ Cardinality(In(st, i)) \in Nat /\ Cardinality(In(st, i)') \in Nat
                  /\ Cardinality(In(st, i)')
                        + (IF sect[c].st = st /\ sect[c].idx = i THEN 1 ELSE 0)
                        = Cardinality(In(st, i)) + (IF r.st = st /\ r.idx = i THEN 1 ELSE 0)
      <4>1. \A st, k : /\ Cardinality(In(st, k)) \in Nat /\ Cardinality(In(st, k)') \in Nat
                       /\ Cardinality(In(st, k)')
                             + (IF sect[c].st = st /\ sect[c].idx = k THEN 1 ELSE 0)
                             = Cardinality(In(st, k)) + (IF r.st = st /\ r.idx = k THEN 1 ELSE 0)
        BY <3>0, InChange, SMTT(30)
      <4>. QED
        BY <4>1, Zenon
    <3>2. /\ Cardinality(In("reading", i)') + 0
                = Cardinality(In("reading", i)) + (IF i = m THEN 1 ELSE 0)
          /\ Cardinality(In("entering", i)') + (IF i = m THEN 1 ELSE 0)
                = Cardinality(In("entering", i)) + 0
      <4>1. /\ sect[c].st # "reading" /\ sect[c].st = "entering" /\ sect[c].idx = m
            /\ r.st = "reading" /\ r.st # "entering" /\ r.idx = m
        BY <2>1, SMTT(30)
      <4>. HIDE DEF m
      <4>2. CASE i = m
        BY <3>1, <4>1, <4>2, Zenon
      <4>3. CASE i # m
        BY <3>1, <4>1, <4>3, Zenon
      <4>. QED
        BY <4>2, <4>3, Zenon
    <3>. QED
      BY <3>1, <3>2, SMTT(30)
  <2>5. ASSUME NEW i \in 0..1
        PROVE  /\ Locks(i)' = Unlocks(i)' + Cardinality(In("reading", i)')
               /\ Locks(i)' + Cardinality(In("entering", i)') <= entries'
    <3>1. /\ Locks(i)' = Locks(i) + (IF i = m THEN 1 ELSE 0) /\ Unlocks(i)' = Unlocks(i)
          /\ entries' = entries
      BY <2>1, <2>3, Zenon
    <3>2. /\ Locks(i) \in Nat /\ Unlocks(i) \in Nat /\ entries \in Nat
          /\ Locks(i) = Unlocks(i) + Cardinality(In("reading", i))
          /\ Locks(i) + Cardinality(In("entering", i)) <= entries
      BY <1>0
    <3>3. /\ Cardinality(In("reading", i)') = Cardinality(In("reading", i))
                                                + IF i = m THEN 1 ELSE 0
          /\ Cardinality(In("entering", i)') + (IF i = m THEN 1 ELSE 0)
                = Cardinality(In("entering", i))
          /\ Cardinality(In("reading", i)) \in Nat /\ Cardinality(In("entering", i)') \in Nat
      BY <2>4, SMTT(30)
    <3>4. PICK d \in Nat : d = IF i = m THEN 1 ELSE 0
      OBVIOUS
    <3>. HIDE DEF m
    <3>5. /\ Locks(i)' = Locks(i) + d
          /\ Cardinality(In("reading", i)') = Cardinality(In("reading", i)) + d
          /\ Cardinality(In("entering", i)') + d = Cardinality(In("entering", i))
      BY <3>1, <3>3, <3>4, Zenon
    <3>. QED
      BY <3>1, <3>2, <3>3, <3>5, SMTT(30)
  <2>. QED
    BY <2>3, <2>5 DEF CountsOK
<1>5. CASE ReadPtr(c)
  <2>. DEFINE r == [sect[c] EXCEPT !.ref = cur]
  <2>1. /\ r.st = sect[c].st /\ r.idx = sect[c].idx /\ entries' = entries
        /\ Changes(c, r) /\ UNCHANGED <<lock, unlock, buf>>
    BY <1>0, <1>5 DEF ReadPtr, SectionType, counterVars, Changes
  <2>. HIDE DEF r
  <2>2. StoresOK' /\ \A j : Locks(j)' = Locks(j) /\ Unlocks(j)' = Unlocks(j)
    BY <1>0, <2>1, StoresSame, Zenon
  <2>3. \A st, i : Cardinality(In(st, i)') = Cardinality(In(st, i))
    BY <1>0, <2>1, InChange
  <2>. QED
    BY <1>0, <1>2, <2>1, <2>2, <2>3, Zenon DEF CountsOK
<1>6. ASSUME NEW t \in Threads, ReadUnlock(c, t) PROVE CountsOK' /\ Grows
  <2>. DEFINE m == sect[c].idx
  <2>1. PICK s \in Slots : Bump(t, s, "unlock", m)
    BY <1>6, Zenon DEF ReadUnlock
  <2>2. /\ sect[c].st = "reading" /\ IdleSection.st = "idle" /\ entries' = entries
        /\ Changes(c, IdleSection)
    BY <1>6, Zenon DEF ReadUnlock, IdleSection, Changes
  <2>3. /\ StoresOK' /\ Grows
        /\ \A j \in 0..1 : /\ Unlocks(j)' = Unlocks(j) + IF j = m THEN 1 ELSE 0
                           /\ Locks(j)' = Locks(j)
    BY <1>0, <1>1, <2>1, BumpCounts
  <2>4. ASSUME NEW i \in 0..1
        PROVE  /\ Cardinality(In("reading", i)') + (IF i = m THEN 1 ELSE 0)
                    = Cardinality(In("reading", i))
               /\ Cardinality(In("entering", i)') = Cardinality(In("entering", i))
               /\ Cardinality(In("reading", i)') \in Nat
    BY <1>0, <2>2, InChange, SMTT(30)
  <2>5. ASSUME NEW i \in 0..1
        PROVE  /\ Locks(i)' = Unlocks(i)' + Cardinality(In("reading", i)')
               /\ Locks(i)' + Cardinality(In("entering", i)') <= entries'
    BY <1>0, <2>2, <2>3, <2>4, SMTT(30)
  <2>. QED
    BY <2>3, <2>5, Zenon DEF CountsOK
<1>. QED
  BY <1>3, <1>4, <1>5, <1>6 DEF Reader

\* Only the barriers of a grace period change the counters.
LEMMA GraceCounts ==
    ASSUME GraceInv, Grace
    PROVE  CountsOK' /\ Grows
<1>0. CountsOK /\ StoresOK /\ lock \in Counter /\ unlock \in Counter
  BY DEF GraceInv, CountsOK, StoresOK
<1>1. UNCHANGED <<sect, entries>>
  BY GraceKeeps
<1>2. CASE HeavyBarrier
  <2>1. StoresOK' /\ Grows /\ \A j \in 0..1 : Locks(j)' = Locks(j) /\ Unlocks(j)' = Unlocks(j)
    BY <1>0, <1>2, BarrierCounts
  <2>. QED
    BY <1>0, <1>1, <2>1, CountsKept
<1>3. CASE UNCHANGED <<lock, unlock, buf>>
  <2>1. Grows
    BY <1>0, <1>3 DEF Grows, Counter
  <2>. QED
    BY <1>0, <1>1, <1>3, <2>1, CountsSame
<1>. QED
  BY <1>2, <1>3, SMTT(30) DEF Grace, SyncLock, SyncScanUnlock, SyncScanBarrier, SyncScanLock,
     SyncDrained, SyncFlip, SyncFlipBarrier, SyncEnd, readerVars, counterVars

LEMMA GraceRecords ==
    ASSUME NEW g \in GraceType, NEW k \in Nat, NEW n \in Nat
    PROVE  /\ [g EXCEPT !.unlocks = n, !.k = k] \in GraceType
           /\ [g EXCEPT !.locks = n, !.k = k] \in GraceType
BY Zenon DEF GraceType

LEMMA GraceTypes ==
    ASSUME GraceInv, Grace
    PROVE  Types'
<1>0. /\ Types /\ gp \in GraceType /\ gp_idx_ \in 0..1 /\ ScanIdx \in 0..1
      /\ sync \in [Callers -> {"no", "want", "in", "done"}]
      /\ waits \in [Callers -> (SUBSET Sections) \cup {NotWaiting}]
  BY SMTT(30) DEF Types, GraceInv, ScanIdx
<1>1. ASSUME NEW p \in Callers, SyncLock(p) PROVE Types'
  <2>1. gp' \in GraceType
    BY <1>0, <1>1, Zenon DEF SyncLock, StartScan, GraceType, UnlockPcs
  <2>2. sync' \in [Callers -> {"no", "want", "in", "done"}]
    BY <1>0, <1>1 DEF SyncLock
  <2>. QED
    BY <1>0, <1>1, <2>1, <2>2 DEF SyncLock, Types, cbVars
<1>2. CASE SyncScanUnlock
  <2>1. unlock[ScanOrder[gp.k]][ScanIdx] \in Nat
    BY <1>0, <1>2, ScanFacts, SMTT(30) DEF SyncScanUnlock, GraceInv, ScanOK, CountsOK, StoresOK,
       Counter, UnlockPcs
  <2>2. gp' \in GraceType
    <3>. DEFINE m == gp.unlocks + unlock[ScanOrder[gp.k]][ScanIdx]
    <3>1. m \in Nat /\ gp.k + 1 \in Nat
      BY <1>0, <2>1, SMTT(30) DEF GraceType
    <3>2. gp' = [gp EXCEPT !.unlocks = m, !.k = gp.k + 1]
      BY <1>2 DEF SyncScanUnlock
    <3>. HIDE DEF m
    <3>. QED
      BY <1>0, <3>1, <3>2, GraceRecords, Zenon
  <2>. QED
    BY <1>0, <1>2, <2>2 DEF SyncScanUnlock, Types, cbVars, readerVars
<1>3. CASE SyncScanBarrier
  <2>1. gp' \in GraceType
    BY <1>0, <1>3, Zenon DEF SyncScanBarrier, GraceType, LockPcs
  <2>. QED
    BY <1>0, <1>3, <2>1 DEF SyncScanBarrier, Types, cbVars
<1>4. CASE SyncScanLock
  <2>1. lock[ScanOrder[gp.k]][ScanIdx] \in Nat
    BY <1>0, <1>4, ScanFacts DEF SyncScanLock, GraceInv, ScanOK, CountsOK, StoresOK,
       Counter, LockPcs
  <2>2. gp' \in GraceType
    <3>. DEFINE m == gp.locks + lock[ScanOrder[gp.k]][ScanIdx]
    <3>1. m \in Nat /\ gp.k + 1 \in Nat
      BY <1>0, <2>1, SMTT(30) DEF GraceType
    <3>2. gp' = [gp EXCEPT !.locks = m, !.k = gp.k + 1]
      BY <1>4 DEF SyncScanLock
    <3>. HIDE DEF m
    <3>. QED
      BY <1>0, <3>1, <3>2, GraceRecords, Zenon
  <2>. QED
    BY <1>0, <1>4, <2>2 DEF SyncScanLock, Types, cbVars, readerVars
<1>5. CASE SyncDrained
  <2>1. gp' \in GraceType
    BY <1>0, <1>5, Zenon DEF SyncDrained, StartScan, GraceType, UnlockPcs
  <2>. QED
    BY <1>0, <1>5, <2>1 DEF SyncDrained, Types, cbVars, readerVars
<1>6. CASE SyncFlip
  <2>1. gp' \in GraceType /\ gp_idx_' \in 0..1
    BY <1>0, <1>6 DEF SyncFlip, GraceType
  <2>. QED
    BY <1>0, <1>6, <2>1 DEF SyncFlip, Types, cbVars, readerVars
<1>7. CASE SyncFlipBarrier
  <2>1. gp' \in GraceType
    BY <1>0, <1>7, Zenon DEF SyncFlipBarrier, StartScan, GraceType, UnlockPcs
  <2>. QED
    BY <1>0, <1>7, <2>1, SMTT(30) DEF SyncFlipBarrier, Types, cbVars
<1>8. CASE SyncEnd
  <2>1. gp' \in GraceType
    BY <1>8, SMTT(30) DEF SyncEnd, GraceType
  <2>2. sync' \in [Callers -> {"no", "want", "in", "done"}]
    BY <1>0, <1>8, Zenon DEF SyncEnd
  <2>3. waits' \in [Callers -> (SUBSET Sections) \cup {NotWaiting}]
    BY <1>0, <1>8, Zenon DEF SyncEnd
  <2>. QED
    BY <1>0, <1>8, <2>1, <2>2, <2>3, SMTT(30) DEF SyncEnd, Types, cbVars
<1>. QED
  BY <1>1, <1>2, <1>3, <1>4, <1>5, <1>6, <1>7, <1>8 DEF Grace

-----------------------------------------------------------------------------
(* Scans.                                                                  *)

\* The sections a synchronize() waits for are open.
LEMMA LeftFacts ==
    ASSUME Types, CallersOK, gp.pc # "idle"
    PROVE  /\ gp.by \in Callers /\ sync[gp.by] = "in" /\ waits[gp.by] \subseteq reading
           /\ \A i : /\ Left(i) \subseteq In("reading", i) /\ IsFiniteSet(Left(i))
                     /\ Cardinality(Left(i)) \in Nat
                     /\ Cardinality(Left(i)) <= Cardinality(In("reading", i))
<1>1. gp.by \in Callers /\ sync[gp.by] = "in" /\ waits[gp.by] \subseteq reading
  BY SMTT(30) DEF Types, CallersOK, GraceType
<1>2. ASSUME NEW i
      PROVE  /\ Left(i) \subseteq In("reading", i) /\ IsFiniteSet(Left(i))
             /\ Cardinality(Left(i)) \in Nat
             /\ Cardinality(Left(i)) <= Cardinality(In("reading", i))
  <2>1. Left(i) \in SUBSET In("reading", i)
    BY <1>1, Zenon DEF Left, In, reading
  <2>2. IsFiniteSet(In("reading", i))
    BY InFacts
  <2>3. IsFiniteSet(Left(i)) /\ Cardinality(Left(i)) <= Cardinality(In("reading", i))
    BY <2>1, <2>2, FS_Subset
  <2>. QED
    BY <2>1, <2>3, FS_CardinalityType, SMTT(30)
<1>. QED
  BY <1>1, <1>2, Zenon

\* A step that is no part of the grace period: counters only grow, and the
\* sections it waits for only become fewer.
LEMMA ScanKept ==
    ASSUME GraceInv, Types', CallersOK', CountsOK', Grows, UNCHANGED <<gp, gp_idx_>>,
           \A p \in Callers : sync[p] = "in" => waits'[p] \subseteq waits[p],
           \A d \in reading' : sect'[d].idx = sect[d].idx
    PROVE  ScanOK'
<1>0. /\ Types /\ CallersOK /\ ScanOK /\ ScanIdx \in 0..1 /\ ScanIdx' = ScanIdx
      /\ lock \in Counter /\ unlock \in Counter /\ lock' \in Counter /\ unlock' \in Counter
      /\ gp \in GraceType
  <2>1. Types /\ CallersOK /\ ScanOK /\ gp \in GraceType /\ gp_idx_ \in 0..1
    BY Zenon DEF GraceInv, Types
  <2>2. lock \in Counter /\ unlock \in Counter /\ lock' \in Counter /\ unlock' \in Counter
    BY Zenon DEF GraceInv, CountsOK, StoresOK
  <2>3. ScanIdx \in 0..1 /\ ScanIdx' = ScanIdx
    BY <2>1, SMTT(30) DEF ScanIdx
  <2>. QED
    BY <2>1, <2>2, <2>3
<1>1. CASE gp.pc = "idle"
  BY <1>1, Zenon DEF ScanOK, UnlockPcs, LockPcs
<1>2. CASE gp.pc # "idle"
  <2>1. gp.by \in Callers /\ sync[gp.by] = "in" /\ waits'[gp.by] \subseteq reading'
    <3>1. gp.by \in Callers /\ sync[gp.by] = "in"
      BY <1>0, <1>2, Zenon DEF CallersOK, GraceType
    <3>. QED
      BY <1>2, <3>1, Zenon DEF CallersOK
  <2>2. waits'[gp.by] \subseteq waits[gp.by]
    BY <2>1, SMTT(30)
  <2>3. ASSUME NEW i PROVE Left(i)' \in SUBSET Left(i)
    BY <2>1, <2>2, SMTT(30) DEF Left
  <2>4. ASSUME NEW i
        PROVE  /\ Cardinality(Left(i)') <= Cardinality(Left(i))
               /\ Cardinality(Left(i)') \in Nat /\ Cardinality(Left(i)) \in Nat
    <3>1. IsFiniteSet(Left(i)) /\ Cardinality(Left(i)) \in Nat
      BY <1>0, <1>2, LeftFacts, SMTT(30)
    <3>2. IsFiniteSet(Left(i)') /\ Cardinality(Left(i)') <= Cardinality(Left(i))
      BY <2>3, <3>1, FS_Subset, SMTT(30)
    <3>. QED
      BY <3>1, <3>2, FS_CardinalityType, Zenon
  <2>5. CASE gp.pc \in UnlockPcs
    <3>1. gp.k - 1 \in 0..N /\ gp.unlocks \in Nat /\ gp.unlocks <= Part(unlock, ScanIdx, gp.k - 1)
      <4>1. gp.k \in 1..N + 1 /\ gp.unlocks <= Part(unlock, ScanIdx, gp.k - 1)
        BY <1>0, <2>5, Zenon DEF ScanOK
      <4>2. gp.unlocks \in Nat
        BY <1>0, Zenon DEF GraceType
      <4>. QED
        BY <4>1, <4>2, NIsNat, SMTT(30)
    <3>2. /\ Part(unlock, ScanIdx, gp.k - 1) <= Part(unlock', ScanIdx, gp.k - 1)
          /\ Part(unlock, ScanIdx, gp.k - 1) \in Nat /\ Part(unlock', ScanIdx, gp.k - 1) \in Nat
      <4>1. \A s \in Slots : unlock[s][ScanIdx] <= unlock'[s][ScanIdx]
        BY <1>0, Zenon DEF Grows
      <4>. QED
        BY <1>0, <3>1, <4>1, Grown, TotalFacts, Zenon
    <3>3. gp.unlocks <= Part(unlock', ScanIdx, gp.k - 1)
      BY <3>1, <3>2, SMTT(30)
    <3>. QED
      BY <1>0, <2>3, <2>5, <3>3, Zenon DEF ScanOK, UnlockPcs, LockPcs
  <2>6. CASE gp.pc \in LockPcs
    <3>0. PICK j \in 0..1 : j = ScanIdx
      BY <1>0, SMTT(30)
    <3>1. /\ gp.k - 1 \in 0..N /\ gp.unlocks \in Nat /\ gp.locks \in Nat
          /\ gp.unlocks + Cardinality(Left(j)) + Part(lock, j, gp.k - 1)
                <= gp.locks + Total(lock, j)
      <4>1. gp.k \in 1..N + 1 /\ gp.unlocks + Cardinality(Left(j)) + Part(lock, j, gp.k - 1)
                                     <= gp.locks + Total(lock, j)
        BY <1>0, <2>6, <3>0, Zenon DEF ScanOK
      <4>2. gp.unlocks \in Nat /\ gp.locks \in Nat
        BY <1>0, Zenon DEF GraceType
      <4>. QED
        BY <4>1, <4>2, NIsNat, SMTT(30)
    <3>2. /\ Total(lock, j) - Part(lock, j, gp.k - 1) <= Total(lock', j) - Part(lock', j, gp.k - 1)
          /\ Part(lock, j, gp.k - 1) \in Nat /\ Part(lock', j, gp.k - 1) \in Nat
          /\ Total(lock, j) \in Nat /\ Total(lock', j) \in Nat
      <4>1. \A s \in Slots : lock[s][j] <= lock'[s][j]
        BY <3>0, SMTT(30) DEF Grows
      <4>. QED
        BY <1>0, <3>1, <4>1, Grown, TotalFacts, Zenon
    <3>3. /\ Cardinality(Left(j)') <= Cardinality(Left(j))
          /\ Cardinality(Left(j)') \in Nat /\ Cardinality(Left(j)) \in Nat
      BY <2>4, Zenon
    <3>4. gp.unlocks + Cardinality(Left(j)') + Part(lock', j, gp.k - 1)
              <= gp.locks + Total(lock', j)
      <4>1. gp.unlocks + Cardinality(Left(j)') + Part(lock, j, gp.k - 1) <= gp.locks + Total(lock, j)
        <5>1. \A u, c, d, q, x \in Nat : d <= c /\ u + c + q <= x => u + d + q <= x
          BY SMTT(30)
        <5>2. gp.locks + Total(lock, j) \in Nat
          BY <3>1, <3>2, SMTT(30)
        <5>. QED
          BY <3>1, <3>2, <3>3, <5>1, <5>2, Zenon
      <4>2. PICK q \in Nat, v \in Nat, r \in Nat, w \in Nat :
                /\ q = Part(lock, j, gp.k - 1) /\ v = Total(lock, j)
                /\ r = Part(lock', j, gp.k - 1) /\ w = Total(lock', j)
        BY <3>2, SMTT(30)
      <4>3. PICK a \in Nat, l \in Nat : a = gp.unlocks + Cardinality(Left(j)') /\ l = gp.locks
        BY <3>1, <3>3, SMTT(30)
      <4>4. a + q <= l + v /\ v - q <= w - r
        BY <3>2, <4>1, <4>2, <4>3, Zenon
      <4>5. a + r <= l + w
        BY <4>4
      <4>. QED
        BY <4>2, <4>3, <4>5, Zenon
    <3>. QED
      BY <1>0, <2>3, <2>6, <3>0, <3>4, Zenon DEF ScanOK, UnlockPcs, LockPcs
  <2>7. CASE gp.pc \in {"flip", "flipped", "end"}
    <3>1. Left(ScanIdx)' \subseteq Left(ScanIdx) /\ Left(gp_idx_)' \subseteq Left(gp_idx_)
      BY <1>0, <2>3, Zenon DEF Left
    <3>. QED
      BY <1>0, <2>2, <2>7, <3>1, Zenon DEF ScanOK, UnlockPcs, LockPcs
  <2>. QED
    BY <1>0, <1>2, <2>5, <2>6, <2>7, SMTT(30) DEF GraceType
<1>. QED
  BY <1>1, <1>2

LEMMA NextScanIdx ==
    ASSUME Types'
    PROVE  ScanIdx' \in 0..1
<1>1. gp_idx_' \in 0..1
  BY DEF Types
<1>2. ScanIdx' = 1 - gp_idx_'
  BY DEF ScanIdx
<1>3. \A i \in 0..1 : 1 - i \in 0..1
  OBVIOUS
<1>. QED
  BY <1>1, <1>2, <1>3, Zenon

\* A scan begins: nothing was read.
LEMMA ScanStarts ==
    ASSUME Types', CountsOK', gp'.pc \in UnlockPcs, gp'.k = 1, gp'.unlocks = 0,
           gp'.pc = "unlocks_after" => Left(gp_idx_)' = {}
    PROVE  ScanOK'
<1>1. Part(unlock', ScanIdx', 0) = 0
  <2>1. ScanIdx' \in 0..1 /\ unlock' \in Counter
    BY NextScanIdx DEF CountsOK, StoresOK
  <2>. QED
    BY <2>1, TotalFacts, Zenon
<1>2. gp'.k \in 1..N + 1 /\ gp'.k - 1 = 0
  BY NIsNat
<1>3. gp'.unlocks <= Part(unlock', ScanIdx', gp'.k - 1)
  <2>1. Part(unlock', ScanIdx', gp'.k - 1) = 0
    BY <1>1, <1>2, Zenon
  <2>2. gp'.unlocks = 0
    OBVIOUS
  <2>. QED
    BY <2>1, <2>2
<1>4. gp'.pc \notin LockPcs /\ gp'.pc \notin {"flip", "flipped", "locks_after", "end"}
  BY DEF UnlockPcs, LockPcs
<1>. QED
  BY <1>2, <1>3, <1>4, Zenon DEF ScanOK

\* The scan after each of its steps: the slots read so far, the barrier between
\* the unlocks and the locks, the test for equality and the flip.
LEMMA GraceScan ==
    ASSUME GraceInv, Grace, Types', CountsOK'
    PROVE  ScanOK'
<1>0. /\ Types /\ CallersOK /\ ScanOK /\ CountsOK /\ StoresOK /\ ScanIdx \in 0..1
      /\ lock \in Counter /\ unlock \in Counter /\ lock' \in Counter /\ unlock' \in Counter
      /\ gp \in GraceType /\ gp_idx_ \in 0..1 /\ gp.k \in Nat /\ gp.locks \in Nat
      /\ gp.unlocks \in Nat
  <2>1. /\ Types /\ CallersOK /\ ScanOK /\ CountsOK /\ StoresOK
        /\ gp \in GraceType /\ gp_idx_ \in 0..1
    BY Zenon DEF GraceInv, CountsOK, Types
  <2>2. lock \in Counter /\ unlock \in Counter /\ lock' \in Counter /\ unlock' \in Counter
    BY <2>1, Zenon DEF CountsOK, StoresOK
  <2>3. ScanIdx \in 0..1
    BY <2>1 DEF ScanIdx
  <2>4. gp.k \in Nat /\ gp.locks \in Nat /\ gp.unlocks \in Nat
    BY <2>1 DEF GraceType
  <2>. QED
    BY <2>1, <2>2, <2>3, <2>4
<1>01. gp.k \in Nat /\ gp.locks \in Nat /\ gp.unlocks \in Nat
  BY <1>0
<1>1. sect' = sect
  BY GraceKeeps
<1>2. ASSUME UNCHANGED waits, gp'.by = gp.by, NEW i PROVE Left(i)' = Left(i)
  BY <1>1, <1>2, SMTT(30) DEF Left
<1>3. ASSUME NEW p \in Callers, SyncLock(p) PROVE ScanOK'
  <2>1. gp'.pc = "unlocks_before" /\ gp'.k = 1 /\ gp'.unlocks = 0
    BY <1>0, <1>3 DEF SyncLock, StartScan, GraceType
  <2>. QED
    BY <2>1, ScanStarts DEF UnlockPcs
<1>4. CASE SyncScanUnlock
  <2>1. /\ gp.pc \in UnlockPcs /\ gp.k <= N /\ UNCHANGED <<unlock, gp_idx_, waits>>
        /\ gp'.unlocks = gp.unlocks + unlock[ScanOrder[gp.k]][ScanIdx] /\ gp'.k = gp.k + 1
        /\ gp'.pc = gp.pc /\ gp'.by = gp.by /\ ScanIdx' = ScanIdx
    BY <1>0, <1>4, ScanFacts DEF SyncScanUnlock, GraceType, UnlockPcs, counterVars, ScanIdx
  <2>2. gp.k \in 1..N /\ gp.unlocks <= Part(unlock, ScanIdx, gp.k - 1)
    <3>1. gp.k \in 1..N + 1 /\ gp.unlocks <= Part(unlock, ScanIdx, gp.k - 1)
      BY <1>0, <2>1, Zenon DEF ScanOK
    <3>2. gp.k <= N
      BY <2>1, SMTT(30)
    <3>. QED
      BY <3>1, <3>2, NIsNat
  <2>3. /\ Part(unlock, ScanIdx, gp.k) = Part(unlock, ScanIdx, gp.k - 1)
                                            + unlock[ScanOrder[gp.k]][ScanIdx]
        /\ Part(unlock, ScanIdx, gp.k - 1) \in Nat
        /\ unlock[ScanOrder[gp.k]][ScanIdx] \in Nat
    <3>1. ScanOrder[gp.k] \in Slots /\ gp.k - 1 \in 0..N
      BY <2>2, ScanFacts, NIsNat
    <3>2. unlock[ScanOrder[gp.k]][ScanIdx] \in Nat
      BY <1>0, <3>1, SMTT(30) DEF Counter
    <3>. QED
      BY <1>0, <2>2, <3>1, <3>2, TotalFacts, Zenon
  <2>4. gp'.unlocks <= Part(unlock, ScanIdx, gp.k) /\ gp'.k - 1 = gp.k /\ gp'.k \in 1..N + 1
    <3>1. gp'.unlocks = gp.unlocks + unlock[ScanOrder[gp.k]][ScanIdx] /\ gp'.k = gp.k + 1
      BY <2>1, SMTT(30)
    <3>2. gp'.k - 1 = gp.k /\ gp'.k \in 1..N + 1
      BY <1>01, <2>2, <3>1, NIsNat, SMTT(30)
    <3>3. \A u, q, x \in Nat : u <= q => u + x <= q + x
      OBVIOUS
    <3>4. gp.unlocks + unlock[ScanOrder[gp.k]][ScanIdx]
              <= Part(unlock, ScanIdx, gp.k - 1) + unlock[ScanOrder[gp.k]][ScanIdx]
      BY <1>01, <2>2, <2>3, <3>3, Zenon
    <3>. QED
      BY <2>3, <3>1, <3>2, <3>4, Zenon
  <2>5. gp.pc = "unlocks_after" => Left(gp_idx_)' = {}
    BY <1>0, <1>2, <2>1, Zenon DEF ScanOK
  <2>. QED
    BY <2>1, <2>4, <2>5, Zenon DEF ScanOK, UnlockPcs, LockPcs
<1>5. CASE SyncScanBarrier
  <2>1. /\ gp.pc \in UnlockPcs /\ gp.k > N /\ UNCHANGED <<gp_idx_, waits>> /\ HeavyBarrier
        /\ gp'.unlocks = gp.unlocks /\ gp'.locks = gp.locks /\ gp'.k = 1 /\ gp'.by = gp.by
        /\ gp'.pc = IF gp.pc = "unlocks_before" THEN "locks_before" ELSE "locks_after"
        /\ ScanIdx' = ScanIdx
    BY <1>0, <1>5, ScanFacts DEF SyncScanBarrier, GraceType, UnlockPcs, ScanIdx
  <2>2. PICK j \in 0..1 : j = ScanIdx
    BY <1>0
  <2>3. gp.k - 1 = N /\ gp.unlocks <= Total(unlock, j)
    <3>1. gp.k \in 1..N + 1 /\ gp.unlocks <= Part(unlock, j, gp.k - 1)
      BY <1>0, <2>1, <2>2, Zenon DEF ScanOK
    <3>2. gp.k > N
      BY <2>1
    <3>3. gp.k - 1 = N
      BY <3>1, <3>2, NIsNat
    <3>. QED
      BY <3>1, <3>3, Zenon DEF Total
  <2>4. /\ Total(lock', j) = Locks(j) /\ Total(unlock, j) <= Unlocks(j)
        /\ Total(unlock, j) \in Nat /\ Unlocks(j) \in Nat
        /\ Part(lock', j, 0) = 0
    BY <1>0, <2>1, BarrierCounts, PendFacts, TotalFacts, Zenon
  <2>5. /\ Locks(j) = Unlocks(j) + Cardinality(In("reading", j))
        /\ Cardinality(In("reading", j)) \in Nat
    BY <1>0, InFacts, Zenon DEF CountsOK
  <2>6. Cardinality(Left(j)) <= Cardinality(In("reading", j)) /\ Cardinality(Left(j)) \in Nat
    BY <1>0, <2>1, LeftFacts, Zenon DEF UnlockPcs
  <2>7. gp.unlocks + Cardinality(Left(j)) + 0 <= gp.locks + Total(lock', j)
    BY <1>0, <2>3, <2>4, <2>5, <2>6, SMTT(30)
  <2>8. Left(j)' = Left(j) /\ (gp.pc = "unlocks_after" => Left(gp_idx_)' = {})
    BY <1>0, <1>2, <2>1, Zenon DEF ScanOK
  <2>9. 1 \in 1..N + 1 /\ gp'.k - 1 = 0
    BY <2>1, NIsNat, SMTT(30)
  <2>. QED
    BY <2>1, <2>2, <2>4, <2>7, <2>8, <2>9, Zenon DEF ScanOK, UnlockPcs, LockPcs
<1>6. CASE SyncScanLock
  <2>1. /\ gp.pc \in LockPcs /\ gp.k <= N /\ UNCHANGED <<lock, gp_idx_, waits>>
        /\ gp'.locks = gp.locks + lock[ScanOrder[gp.k]][ScanIdx] /\ gp'.k = gp.k + 1
        /\ gp'.pc = gp.pc /\ gp'.by = gp.by /\ ScanIdx' = ScanIdx /\ gp'.unlocks = gp.unlocks
    BY <1>0, <1>6, ScanFacts DEF SyncScanLock, GraceType, LockPcs, counterVars, ScanIdx
  <2>2. PICK j \in 0..1 : j = ScanIdx
    BY <1>0
  <2>3. gp.k \in 1..N /\ gp.unlocks + Cardinality(Left(j)) + Part(lock, j, gp.k - 1)
                            <= gp.locks + Total(lock, j)
    <3>1. gp.k \in 1..N + 1 /\ gp.unlocks + Cardinality(Left(j)) + Part(lock, j, gp.k - 1)
                                   <= gp.locks + Total(lock, j)
      BY <1>0, <2>1, <2>2, Zenon DEF ScanOK
    <3>2. gp.k <= N
      BY <2>1, SMTT(30)
    <3>. QED
      BY <3>1, <3>2, NIsNat, SMTT(30)
  <2>4. /\ Part(lock, j, gp.k) = Part(lock, j, gp.k - 1) + lock[ScanOrder[gp.k]][j]
        /\ Part(lock, j, gp.k - 1) \in Nat /\ Total(lock, j) \in Nat
        /\ lock[ScanOrder[gp.k]][j] \in Nat
    <3>1. ScanOrder[gp.k] \in Slots /\ gp.k - 1 \in 0..N
      BY <2>3, ScanFacts, NIsNat, SMTT(30)
    <3>2. lock[ScanOrder[gp.k]][j] \in Nat
      BY <1>0, <3>1, SMTT(30) DEF Counter
    <3>. QED
      BY <1>0, <2>3, <3>1, <3>2, TotalFacts, Zenon
  <2>5. Cardinality(Left(j)) \in Nat
    BY <1>0, <2>1, LeftFacts, Zenon DEF LockPcs
  <2>6. /\ gp.unlocks + Cardinality(Left(j)) + Part(lock, j, gp.k) <= gp'.locks + Total(lock, j)
        /\ gp'.k - 1 = gp.k /\ gp'.k \in 1..N + 1
    <3>1. gp'.locks = gp.locks + lock[ScanOrder[gp.k]][j] /\ gp'.k = gp.k + 1
      BY <2>1, <2>2, Zenon
    <3>2. gp'.k - 1 = gp.k /\ gp'.k \in 1..N + 1
      BY <1>01, <2>3, <3>1, NIsNat, SMTT(30)
    <3>3. \A u, c, q, x, l, t \in Nat : u + c + q <= l + t => u + c + (q + x) <= (l + x) + t
      OBVIOUS
    <3>4. gp.unlocks + Cardinality(Left(j)) + (Part(lock, j, gp.k - 1) + lock[ScanOrder[gp.k]][j])
              <= (gp.locks + lock[ScanOrder[gp.k]][j]) + Total(lock, j)
      BY <1>01, <2>3, <2>4, <2>5, <3>3, Zenon
    <3>. QED
      BY <2>4, <3>1, <3>2, <3>4, Zenon
  <2>7. Left(j)' = Left(j) /\ (gp.pc = "locks_after" => Left(gp_idx_)' = {})
    BY <1>0, <1>2, <2>1, Zenon DEF ScanOK
  <2>. QED
    BY <2>1, <2>2, <2>6, <2>7, Zenon DEF ScanOK, UnlockPcs, LockPcs
<1>7. CASE SyncDrained
  <2>1. /\ gp.pc \in LockPcs /\ gp.k > N /\ UNCHANGED <<gp_idx_, waits>> /\ ScanIdx' = ScanIdx
        /\ gp'.by = gp.by /\ gp'.k = 1 /\ gp'.unlocks = 0
        /\ gp'.pc = IF gp.locks = gp.unlocks
                    THEN IF gp.pc = "locks_before" THEN "flip" ELSE "end"
                    ELSE IF gp.pc = "locks_before" THEN "unlocks_before" ELSE "unlocks_after"
    BY <1>0, <1>7, ScanFacts, SMTT(30) DEF SyncDrained, StartScan, GraceType, LockPcs, ScanIdx
  <2>2. gp.pc = "locks_after" => Left(gp_idx_)' = {} /\ Left(gp_idx_) = {}
    BY <1>0, <1>2, <2>1, Zenon DEF ScanOK
  <2>3. CASE gp.locks # gp.unlocks
    <3>1. gp'.pc \in UnlockPcs /\ (gp'.pc = "unlocks_after" => gp.pc = "locks_after")
      BY <2>1, <2>3, SMTT(30) DEF LockPcs, UnlockPcs
    <3>. QED
      BY <2>1, <2>2, <3>1, ScanStarts, Zenon
  <2>4. CASE gp.locks = gp.unlocks
    <3>1. PICK j \in 0..1 : j = ScanIdx
      BY <1>0
    <3>2. gp.k - 1 = N /\ gp.unlocks + Cardinality(Left(j)) + Total(lock, j)
                                <= gp.locks + Total(lock, j)
      <4>1. gp.k \in 1..N + 1 /\ gp.unlocks + Cardinality(Left(j)) + Part(lock, j, gp.k - 1)
                                     <= gp.locks + Total(lock, j)
        BY <1>0, <2>1, <3>1, Zenon DEF ScanOK
      <4>2. gp.k > N
        BY <2>1, SMTT(30)
      <4>3. gp.k - 1 = N
        BY <4>1, <4>2, NIsNat
      <4>. QED
        BY <4>1, <4>3, Zenon DEF Total
    <3>3. /\ IsFiniteSet(Left(j)) /\ Cardinality(Left(j)) \in Nat
          /\ waits[gp.by] \subseteq reading
      BY <1>0, <2>1, LeftFacts, Zenon DEF LockPcs
    <3>4. Total(lock, j) \in Nat
      BY <1>0, TotalFacts, Zenon
    <3>5. Cardinality(Left(j)) = 0
      <4>1. \A u, n, v \in Nat : u + n + v <= u + v => n = 0
        OBVIOUS
      <4>2. gp.unlocks + Cardinality(Left(j)) + Total(lock, j) <= gp.unlocks + Total(lock, j)
        BY <2>4, <3>2, Zenon
      <4>. QED
        BY <1>01, <3>3, <3>4, <4>1, <4>2, Zenon
    <3>6. Left(j) = {} /\ Left(j)' = {}
      BY <1>2, <2>1, <3>3, <3>5, FS_EmptySet, Zenon
    <3>7. CASE gp.pc = "locks_before"
      BY <2>1, <2>4, <3>1, <3>6, <3>7, Zenon DEF ScanOK, UnlockPcs, LockPcs
    <3>8. CASE gp.pc = "locks_after"
      <4>1. ASSUME NEW c \in waits[gp.by] PROVE FALSE
        <5>1. c \in Sections /\ sect[c].idx \in 0..1
          BY <1>0, <3>3, Zenon DEF reading, Types, SectionType
        <5>2. sect[c].idx = gp_idx_ \/ sect[c].idx = j
          <6>1. gp_idx_ \in 0..1 /\ j = 1 - gp_idx_
            BY <1>0, <3>1, SMTT(30) DEF ScanIdx
          <6>2. \A a, b \in 0..1 : a = b \/ a = 1 - b
            OBVIOUS
          <6>. QED
            BY <5>1, <6>1, <6>2, Zenon
        <5>. QED
          BY <2>2, <3>6, <3>8, <5>1, <5>2, Zenon DEF Left
      <4>2. waits'[gp'.by] = {} /\ gp'.pc = "end"
        BY <2>1, <2>4, <3>8, <4>1, SMTT(30)
      <4>. QED
        BY <4>2, Zenon DEF ScanOK, UnlockPcs, LockPcs
    <3>. QED
      BY <2>1, <3>7, <3>8, SMTT(30) DEF LockPcs
  <2>. QED
    BY <2>3, <2>4, SMTT(30)
<1>8. CASE SyncFlip
  <2>1. /\ gp.pc = "flip" /\ gp'.pc = "flipped" /\ gp'.by = gp.by /\ waits' = waits
        /\ gp_idx_' = ScanIdx
    BY <1>0, <1>8 DEF SyncFlip, GraceType, ScanIdx
  <2>2. PICK j \in 0..1 : j = ScanIdx
    BY <1>0
  <2>3. Left(j) = {} /\ Left(j)' = Left(j)
    BY <1>0, <1>2, <2>1, <2>2, Zenon DEF ScanOK
  <2>4. Left(gp_idx_)' = Left(j)'
    BY <2>1, <2>2 DEF Left
  <2>. QED
    BY <2>1, <2>3, <2>4, Zenon DEF ScanOK, UnlockPcs, LockPcs
<1>9. CASE SyncFlipBarrier
  <2>1. /\ gp.pc = "flipped" /\ gp'.pc = "unlocks_after" /\ gp'.by = gp.by /\ waits' = waits
        /\ gp_idx_' = gp_idx_ /\ gp'.k = 1 /\ gp'.unlocks = 0
    BY <1>0, <1>9 DEF SyncFlipBarrier, StartScan, GraceType
  <2>2. Left(gp_idx_)' = {}
    BY <1>0, <1>2, <2>1, Zenon DEF ScanOK
  <2>. QED
    BY <2>1, <2>2, ScanStarts, SMTT(30) DEF UnlockPcs
<1>10. CASE SyncEnd
  <2>1. gp'.pc = "idle"
    BY <1>10, SMTT(30) DEF SyncEnd
  <2>. QED
    BY <2>1, Zenon DEF ScanOK, UnlockPcs, LockPcs
<1>. QED
  BY <1>3, <1>4, <1>5, <1>6, <1>7, <1>8, <1>9, <1>10 DEF Grace
=============================================================================
