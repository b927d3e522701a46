------------------------------ MODULE ListsProofs ------------------------------
(***************************************************************************)
(* Proofs about Lists: an answered page is the window that was asked for,  *)
(* and what a walk over the pages shows, and shows twice.                  *)
(*                                                                         *)
(* Each rests on one fact about finite orders: in a sorted sequence of all *)
(* rows the i-th row is the one with i - 1 rows before it.  The walk's     *)
(* invariant speaks of ranks only: a row that never moved up and is not    *)
(* shown yet ranks behind the pages that were read, and one that is shown  *)
(* and neither came in nor moved down ranks within them.                   *)
(***************************************************************************)
EXTENDS Lists, FiniteSetTheorems, TLAPS

-----------------------------------------------------------------------------
(***************************************************************************)
(* Sorted sequences.                                                       *)
(***************************************************************************)
\* R is a strict total order on S.
Orders(R, S) ==
  /\ \A x \in S : <<x, x>> \notin R
  /\ \A x, y \in S : x = y \/ <<x, y>> \in R \/ <<y, x>> \in R
  /\ \A x, y, z \in S : <<x, y>> \in R /\ <<y, z>> \in R => <<x, z>> \in R

Below(R, S, x) == {y \in S : <<y, x>> \in R}

Increasing(R, s) == \A i, j \in DOMAIN s : i < j => <<s[i], s[j]>> \in R

LEMMA BelowCounts ==
  ASSUME NEW S, IsFiniteSet(S), NEW R, Orders(R, S), NEW x \in S
  PROVE  /\ IsFiniteSet(Below(R, S, x))
         /\ Cardinality(Below(R, S, x)) \in Nat
         /\ Cardinality(Below(R, S, x)) < Cardinality(S)
<1>1. Below(R, S, x) \in SUBSET S /\ x \notin Below(R, S, x) BY DEF Below, Orders
<1>2. /\ IsFiniteSet(Below(R, S, x)) /\ Cardinality(Below(R, S, x)) <= Cardinality(S)
      /\ Cardinality(S) = Cardinality(Below(R, S, x)) => S = Below(R, S, x)
  BY <1>1, FS_Subset
<1>3. Cardinality(Below(R, S, x)) \in Nat /\ Cardinality(S) \in Nat
  BY <1>2, FS_CardinalityType
<1> QED BY <1>1, <1>2, <1>3

\* Who comes later has more rows before it.
LEMMA BelowGrows ==
  ASSUME NEW S, IsFiniteSet(S), NEW R, Orders(R, S), NEW x \in S, NEW y \in S,
         <<x, y>> \in R
  PROVE  Cardinality(Below(R, S, x)) < Cardinality(Below(R, S, y))
<1>1. Below(R, S, x) \in SUBSET Below(R, S, y)
  BY DEF Below, Orders
<1>2. x \in Below(R, S, y) /\ x \notin Below(R, S, x) BY DEF Below, Orders
<1>3. /\ IsFiniteSet(Below(R, S, y))
      /\ Cardinality(Below(R, S, x)) \in Nat /\ Cardinality(Below(R, S, y)) \in Nat
  BY BelowCounts
<1>4. /\ Cardinality(Below(R, S, x)) <= Cardinality(Below(R, S, y))
      /\ Cardinality(Below(R, S, y)) = Cardinality(Below(R, S, x)) => Below(R, S, y) = Below(R, S, x)
  BY <1>1, <1>3, FS_Subset
<1> QED BY <1>2, <1>3, <1>4

\* There is a sorted sequence: each row goes where its rank is.
LEMMA SortedExists ==
  ASSUME NEW S, IsFiniteSet(S), NEW R, Orders(R, S)
  PROVE  \E s \in [1..Cardinality(S) -> S] : Increasing(R, s)
<1>1. PICK N : N = Cardinality(S) OBVIOUS
<1>2. N \in Nat BY <1>1, FS_CardinalityType
<1>3. PICK rank : rank = [x \in S |-> 1 + Cardinality(Below(R, S, x))] OBVIOUS
<1>4. ASSUME NEW x \in S PROVE rank[x] \in 1..N
  BY <1>1, <1>2, <1>3, BelowCounts
<1>5. ASSUME NEW x \in S, NEW y \in S, <<x, y>> \in R PROVE rank[x] < rank[y]
  BY <1>3, <1>5, BelowGrows, BelowCounts
<1>6. rank \in Injection(S, 1..N)
  <2>1. rank \in [S -> 1..N] BY <1>3, <1>4
  <2>2. ASSUME NEW x \in S, NEW y \in S, rank[x] = rank[y] PROVE x = y
    <3>1. rank[x] \in Int /\ rank[y] \in Int BY <1>4, <1>2
    <3>2. <<x, y>> \notin R /\ <<y, x>> \notin R BY <1>5, <2>2, <3>1
    <3> QED BY <3>2 DEF Orders
  <2> QED BY <2>1, <2>2 DEF Injection, IsInjective
<1>7. IsFiniteSet(1..N) /\ Cardinality(1..N) = N BY <1>2, FS_Interval
<1>8. rank \in Surjection(S, 1..N) BY <1>1, <1>6, <1>7, FS_Injection
<1>9. PICK s : s = [k \in 1..N |-> CHOOSE x \in S : rank[x] = k] OBVIOUS
<1>10. ASSUME NEW k \in 1..N PROVE s[k] \in S /\ rank[s[k]] = k
  <2>1. \E x \in S : rank[x] = k BY <1>8 DEF Surjection
  <2> QED BY <1>9, <2>1
<1>11. ASSUME NEW i \in 1..N, NEW j \in 1..N, i < j PROVE <<s[i], s[j]>> \in R
  <2>1. s[i] \in S /\ s[j] \in S /\ rank[s[i]] = i /\ rank[s[j]] = j BY <1>10
  <2>2. s[i] # s[j] BY <1>11, <2>1
  <2>3. <<s[j], s[i]>> \notin R BY <1>5, <1>11, <2>1
  <2> QED BY <2>1, <2>2, <2>3 DEF Orders
<1>12. s \in [1..N -> S] BY <1>9, <1>10
<1>13. Increasing(R, s) BY <1>11, <1>12 DEF Increasing
<1> QED BY <1>1, <1>12, <1>13

\* In it each row stands at its rank, and all rows are in it.
LEMMA SortedRanks ==
  ASSUME NEW S, IsFiniteSet(S), NEW R, Orders(R, S),
         NEW s \in [1..Cardinality(S) -> S], Increasing(R, s)
  PROVE  /\ \A i \in 1..Cardinality(S) : 1 + Cardinality(Below(R, S, s[i])) = i
         /\ \A x \in S : \E i \in 1..Cardinality(S) : s[i] = x
<1>1. PICK N : N = Cardinality(S) OBVIOUS
<1>2. N \in Nat BY <1>1, FS_CardinalityType
<1>3. ASSUME NEW i \in 1..N, NEW j \in 1..N, i < j PROVE <<s[i], s[j]>> \in R
  BY <1>1, <1>3 DEF Increasing
<1>4. ASSUME NEW i \in 1..N, NEW j \in 1..N, s[i] = s[j] PROVE i = j
  <2>1. s[i] \in S BY <1>1
  <2>2. ~(i < j) /\ ~(j < i) BY <1>3, <1>4, <2>1 DEF Orders
  <2> QED BY <1>2, <2>2
<1>5. s \in Injection(1..N, S) BY <1>1, <1>4 DEF Injection, IsInjective
<1>6. IsFiniteSet(1..N) /\ Cardinality(1..N) = N BY <1>2, FS_Interval
<1>7. s \in Surjection(1..N, S) BY <1>1, <1>5, <1>6, FS_Injection
<1>8. \A x \in S : \E i \in 1..N : s[i] = x BY <1>7 DEF Surjection
<1>9. ASSUME NEW i \in 1..N PROVE 1 + Cardinality(Below(R, S, s[i])) = i
  <2>1. PICK m : m = i - 1 OBVIOUS
  <2>2. m \in Nat /\ i = m + 1 /\ 1..m \subseteq 1..N BY <1>2, <2>1
  <2>3. PICK f : f = [j \in 1..m |-> s[j]] OBVIOUS
  <2>4. ASSUME NEW j \in 1..m PROVE f[j] = s[j] /\ s[j] \in Below(R, S, s[i])
    BY <1>1, <1>2, <1>3, <2>2, <2>3 DEF Below
  <2>5. ASSUME NEW x \in Below(R, S, s[i]) PROVE \E j \in 1..m : f[j] = x
    <3>1. x \in S /\ <<x, s[i]>> \in R /\ s[i] \in S BY <1>1 DEF Below
    <3>2. PICK j \in 1..N : s[j] = x BY <1>8, <3>1
    <3>3. j # i BY <3>1, <3>2 DEF Orders
    <3>4. ~(i < j)
      <4>1. SUFFICES ASSUME i < j PROVE FALSE OBVIOUS
      <4>2. <<s[i], x>> \in R BY <1>3, <3>2, <4>1
      <4> QED BY <3>1, <4>2 DEF Orders
    <3>5. j \in 1..m BY <1>2, <2>2, <3>3, <3>4
    <3> QED BY <2>4, <3>2, <3>5
  <2>6. f \in Bijection(1..m, Below(R, S, s[i]))
    <3>1. f \in [1..m -> Below(R, S, s[i])] BY <2>3, <2>4
    <3>2. \A j, k \in 1..m : f[j] = f[k] => j = k BY <1>4, <2>2, <2>4
    <3> QED BY <2>5, <3>1, <3>2 DEF Bijection, Injection, Surjection, IsInjective
  <2>7. Cardinality(Below(R, S, s[i])) = m
    BY <2>2, <2>6, FS_CountingElements DEF ExistsBijection
  <2> QED BY <2>2, <2>7
<1> QED BY <1>1, <1>8, <1>9

-----------------------------------------------------------------------------
(***************************************************************************)
(* The numbers.                                                            *)
(***************************************************************************)
\* 2 ^ n counts the subsets of 1..n.
LEMMA PowerCounts ==
  ASSUME NEW n \in Nat
  PROVE  /\ IsFiniteSet(SUBSET (1..n)) /\ Cardinality(SUBSET (1..n)) = 2 ^ n
         /\ 2 ^ n \in Nat
<1>1. IsFiniteSet(1..n) /\ Cardinality(1..n) = n BY FS_Interval
<1>2. IsFiniteSet(SUBSET (1..n)) /\ Cardinality(SUBSET (1..n)) = 2 ^ Cardinality(1..n)
  BY <1>1, FS_SUBSET
<1>3. Cardinality(SUBSET (1..n)) \in Nat BY <1>2, FS_CardinalityType
<1> QED BY <1>1, <1>2, <1>3

LEMMA WidthHolds ==
  /\ MaxInt \in Nat \ {0}
  /\ 2 ^ Width \in Nat /\ MaxInt < 2 ^ Width
<1>1. PICK w : w = Width - 1 OBVIOUS
<1>2. w \in Nat \ {0} /\ Width \in Nat /\ 1..w \subseteq 1..Width BY <1>1, ListsAssumption
<1>3. SUBSET (1..w) \in SUBSET SUBSET (1..Width) BY <1>2
<1>4. /\ 2 ^ w \in Nat /\ 2 ^ Width \in Nat
      /\ IsFiniteSet(SUBSET (1..w)) /\ Cardinality(SUBSET (1..w)) = 2 ^ w
      /\ IsFiniteSet(SUBSET (1..Width)) /\ Cardinality(SUBSET (1..Width)) = 2 ^ Width
  BY <1>2, PowerCounts
<1>5. 2 ^ w <= 2 ^ Width
  <2>1. Cardinality(SUBSET (1..w)) <= Cardinality(SUBSET (1..Width)) BY <1>3, <1>4, FS_Subset
  <2> QED BY <1>4, <2>1
<1>6. 2 ^ w # 0 /\ 2 ^ w # 1
  <2>1. {} \in SUBSET (1..w) /\ {1} \in SUBSET (1..w) BY <1>2
  <2>2. SUBSET (1..w) # {} BY <2>1
  <2>3. \A x : SUBSET (1..w) # {x}
    <3>1. SUFFICES ASSUME NEW x, SUBSET (1..w) = {x} PROVE FALSE OBVIOUS
    <3>2. {} = x /\ {1} = x BY <2>1, <3>1
    <3>3. 1 \in {1} /\ 1 \notin {} OBVIOUS
    <3> QED BY <3>2, <3>3
  <2> QED BY <1>4, <2>2, <2>3, FS_EmptySet, FS_Singleton
<1> QED BY <1>1, <1>4, <1>5, <1>6 DEF MaxInt

\* A number an int holds is not wrapped.
LEMMA Fits ==
  ASSUME NEW n \in 0..MaxInt
  PROVE  Wrapped(n) = n
<1>1. PICK m : m = 2 ^ Width OBVIOUS
<1>2. m \in Nat /\ MaxInt < m /\ MaxInt \in Nat BY <1>1, WidthHolds
<1>3. n % m = n BY <1>2
<1> QED BY <1>1, <1>2, <1>3 DEF Wrapped

-----------------------------------------------------------------------------
(***************************************************************************)
(* Ranks.                                                                  *)
(***************************************************************************)
\* ORDER BY as a set of pairs.
InOrder == {p \in Listed \X Listed : Before(p[1], p[2])}

RowsOK == list \in AllLists /\ rows \in [RowIds -> Scores \cup {Absent}]

LEMMA ListedFinite ==
  /\ Listed \in SUBSET RowIds /\ IsFiniteSet(Listed)
  /\ Cardinality(Listed) \in Nat /\ Cardinality(Listed) <= Cardinality(RowIds)
  /\ Cardinality(RowIds) \in Nat
<1>1. Listed \in SUBSET RowIds BY DEF Listed
<1>2. IsFiniteSet(RowIds) BY ListsAssumption
<1>3. IsFiniteSet(Listed) /\ Cardinality(Listed) <= Cardinality(RowIds)
  BY <1>1, <1>2, FS_Subset
<1> QED BY <1>1, <1>2, <1>3, FS_CardinalityType

LEMMA ListedOrdered ==
  ASSUME RowsOK
  PROVE  Orders(InOrder, Listed)
<1>0. RowIds \subseteq Nat /\ Scores \subseteq Int BY ListsAssumption
<1>1. ASSUME NEW x \in Listed PROVE x \in Int /\ rows[x] \in Int
  <2>1. x \in RowIds /\ rows[x] # Absent BY DEF Listed
  <2>2. rows[x] \in Scores BY <2>1 DEF RowsOK
  <2>3. x \in Nat BY <1>0, <2>1
  <2>4. x \in Int BY <2>3
  <2>5. rows[x] \in Int BY <1>0, <2>2, Zenon
  <2> QED BY <2>4, <2>5
<1>2. \A x, y \in Listed : <<x, y>> \in InOrder <=> Before(x, y) BY DEF InOrder
<1>3. CASE list = "beans"
  BY <1>1, <1>2, <1>3 DEF Orders, Before
<1>4. CASE list \in {"new", "recipes"}
  <2>1. \A x, y \in Listed : Before(x, y) <=> x > y BY <1>4 DEF Before
  <2>2. \A x, y \in Listed : <<x, y>> \in InOrder <=> x > y BY <1>2, <2>1
  <2> QED BY <1>1, <2>2 DEF Orders
<1>5. CASE list = "hot"
  BY <1>1, <1>2, <1>5 DEF Orders, Before
<1> QED BY <1>3, <1>4, <1>5 DEF RowsOK, AllLists

LEMMA RankIsBelow ==
  ASSUME NEW x \in Listed
  PROVE  Rank(x) = 1 + Cardinality(Below(InOrder, Listed, x))
<1>1. {y \in Listed : Before(y, x)} = Below(InOrder, Listed, x) BY DEF Below, InOrder
<1> QED BY <1>1 DEF Rank

LEMMA RankType ==
  ASSUME RowsOK, NEW x \in Listed
  PROVE  Rank(x) \in 1..Cardinality(Listed)
BY ListedFinite, ListedOrdered, RankIsBelow, BelowCounts

LEMMA RankInt == RowsOK => \A x \in Listed : Rank(x) \in Int
<1> SUFFICES ASSUME RowsOK, NEW x \in Listed PROVE Rank(x) \in Int OBVIOUS
<1> QED BY RankType, ListedFinite

\* The i-th of the sorted rows has rank i, and all are there.
LEMMA SortedRows ==
  ASSUME RowsOK
  PROVE  /\ Sorted \in [1..Cardinality(Listed) -> Listed]
         /\ \A i \in 1..Cardinality(Listed) : Rank(Sorted[i]) = i
         /\ \A x \in Listed : Sorted[Rank(x)] = x
<1> DEFINE N == Cardinality(Listed)
           Good(s) == \A i, j \in DOMAIN s : i < j => Before(s[i], s[j])
<1>1. ASSUME NEW s \in [1..N -> Listed] PROVE Good(s) <=> Increasing(InOrder, s)
  BY DEF Increasing, InOrder
<1>2. \E s \in [1..N -> Listed] : Increasing(InOrder, s)
  BY ListedFinite, ListedOrdered, SortedExists
<1>3. \E s \in [1..N -> Listed] : Good(s) BY <1>1, <1>2
<1>4. Sorted = CHOOSE s \in [1..N -> Listed] : Good(s) BY DEF Sorted
<1> HIDE DEF Good
<1>5. Sorted \in [1..N -> Listed] /\ Good(Sorted) BY <1>3, <1>4
<1>6. Increasing(InOrder, Sorted) BY <1>1, <1>5
<1>7. /\ \A i \in 1..N : 1 + Cardinality(Below(InOrder, Listed, Sorted[i])) = i
      /\ \A x \in Listed : \E i \in 1..N : Sorted[i] = x
  BY <1>5, <1>6, ListedFinite, ListedOrdered, SortedRanks
<1>8. \A i \in 1..N : Rank(Sorted[i]) = i BY <1>5, <1>7, RankIsBelow
<1>9. \A x \in Listed : Sorted[Rank(x)] = x BY <1>7, <1>8
<1> QED BY <1>5, <1>8, <1>9

\* What a SELECT gives is a stretch of the sorted rows.
LEMMA SelectsStretch ==
  ASSUME RowsOK, NEW p \in Nat, NEW s \in Nat \ {0}, NEW from \in Nat,
         from = IF Offset(p, s) > 0 THEN Offset(p, s) ELSE 0
  PROVE  /\ Select(p, s) \in Seq(RowIds) /\ Shown(Select(p, s)) \subseteq Listed
         /\ \A i \in DOMAIN Select(p, s) : Rank(Select(p, s)[i]) = from + i
         /\ \A x \in Listed :
              x \in Shown(Select(p, s)) <=> Rank(x) \in from + 1 .. from + s
<1>3. PICK N : N = Cardinality(Listed) OBVIOUS
<1>4. N \in Nat BY <1>3, ListedFinite
<1>6. PICK n : n = IF s < N - from THEN s ELSE N - from OBVIOUS
<1>7. n \in Int /\ n <= s /\ n <= N - from /\ (n = s \/ n = N - from) BY <1>4, <1>6
<1>8. Select(p, s) = [i \in 1..n |-> Sorted[from + i]]
  BY <1>3, <1>6 DEF Select
<1>9. PICK got : got = Select(p, s) OBVIOUS
<1>10. DOMAIN got = 1..n /\ \A i \in 1..n : got[i] = Sorted[from + i] BY <1>8, <1>9
<1>11. ASSUME NEW i \in 1..n
       PROVE  got[i] \in Listed /\ Rank(got[i]) = from + i
  <2>1. from + i \in 1..N BY <1>4, <1>7
  <2> QED BY <1>3, <1>10, <2>1, SortedRows
<1>12. ASSUME NEW x \in Listed
       PROVE  x \in Shown(got) <=> Rank(x) \in from + 1 .. from + s
  <2>1. Rank(x) \in 1..N /\ Sorted[Rank(x)] = x BY <1>3, RankType, SortedRows
  <2>2. ASSUME x \in Shown(got) PROVE Rank(x) \in from + 1 .. from + s
    <3>1. PICK i \in 1..n : got[i] = x BY <1>10, <2>2 DEF Shown
    <3> QED BY <1>7, <1>11, <3>1
  <2>3. ASSUME Rank(x) \in from + 1 .. from + s PROVE x \in Shown(got)
    <3>1. PICK i : i = Rank(x) - from OBVIOUS
    <3>2. i \in 1..n /\ from + i = Rank(x) BY <1>4, <1>7, <2>1, <2>3, <3>1
    <3> QED BY <1>10, <2>1, <3>2 DEF Shown
  <2> QED BY <2>2, <2>3
<1>13. got \in Seq(RowIds)
  <2>1. PICK m \in Nat : 1..n = 1..m
    <3>1. CASE n \in Nat BY <3>1
    <3>2. CASE n \notin Nat
      <4>1. 1..n = 1..0 BY <1>7, <3>2
      <4> QED BY <4>1
    <3> QED BY <3>1, <3>2
  <2>2. got \in [1..m -> RowIds] BY <1>8, <1>9, <1>11, <2>1, ListedFinite
  <2> QED BY <2>2 DEF Seq
<1>14. Shown(got) \subseteq Listed BY <1>10, <1>11 DEF Shown
<1> QED BY <1>9, <1>10, <1>11, <1>12, <1>13, <1>14

LEMMA WrappedType ==
  ASSUME NEW n \in Int
  PROVE  Wrapped(n) \in Int /\ Wrapped(n) <= MaxInt
<1>1. PICK m : m = 2 ^ Width OBVIOUS
<1>2. m \in Nat \ {0} /\ MaxInt \in Nat BY <1>1, WidthHolds
<1>3. PICK k : k = n % m OBVIOUS
<1>4. k \in 0..(m - 1) BY <1>2, <1>3
<1>5. Wrapped(n) = IF k > MaxInt THEN k - m ELSE k BY <1>1, <1>3 DEF Wrapped
<1> QED BY <1>2, <1>4, <1>5

LEMMA SelectsRows ==
  ASSUME RowsOK, NEW p \in Nat, NEW s \in Nat \ {0}
  PROVE  Select(p, s) \in Seq(RowIds) /\ Shown(Select(p, s)) \subseteq Listed
<1>1. (p - 1) * s \in Int OBVIOUS
<1>2. Offset(p, s) \in Int BY <1>1, WrappedType DEF Offset
<1>3. PICK from \in Nat : from = IF Offset(p, s) > 0 THEN Offset(p, s) ELSE 0 BY <1>2
<1> QED BY <1>3, SelectsStretch

\* The page a request selects, while its offset fits an int.
LEMMA SelectWindow ==
  ASSUME RowsOK, NEW p \in Nat \ {0}, NEW s \in Nat \ {0}, (p - 1) * s <= MaxInt
  PROVE  /\ \A i \in DOMAIN Select(p, s) : Rank(Select(p, s)[i]) = (p - 1) * s + i
         /\ \A x \in Listed :
              x \in Shown(Select(p, s)) <=> Rank(x) \in (p - 1) * s + 1 .. p * s
<1>1. PICK from : from = (p - 1) * s OBVIOUS
<1>2. from \in Nat /\ from <= MaxInt /\ MaxInt \in Nat /\ p * s = from + s
  BY <1>1, WidthHolds
<1>3. Offset(p, s) = from BY <1>1, <1>2, Fits DEF Offset
<1>4. from = IF Offset(p, s) > 0 THEN Offset(p, s) ELSE 0 BY <1>2, <1>3
<1> QED BY <1>1, <1>2, <1>4, SelectsStretch

-----------------------------------------------------------------------------
(***************************************************************************)
(* The walk.                                                               *)
(***************************************************************************)
\* How far into the list the pages read so far reach.
Read == IF pc = "answered" THEN page * size ELSE (page - 1) * size

WalkTrue ==
  /\ pc # "idle"
  /\ (page - 1) * size <= Cardinality(RowIds)
  /\ walk.stayed \subseteq Listed
  /\ \A x \in walk.stayed : Rank(x) <= Read => x \in walk.seen
  /\ \A x \in (walk.seen \cap Listed) \ walk.sunk : Rank(x) <= Read
  /\ pc = "select" /\ ~walk.torn => Cardinality(Listed) <= total
  /\ pc = "answered" /\ ~More /\ ~walk.torn => walk.stayed \subseteq walk.seen

WalkInv ==
  /\ ListsTypeOK
  /\ walk.on => WalkTrue
  /\ walk.twice \subseteq walk.sunk

LEMMA NumbersOK ==
  ASSUME ListsTypeOK
  PROVE  /\ RowsOK /\ page \in Nat \ {0} /\ size \in Nat \ {0} /\ page <= MaxInt
         /\ total \in Nat /\ MaxInt \in Nat /\ MaxSize \in Nat
         /\ page * size \in Nat /\ (page - 1) * size \in Nat
         /\ page * size = (page - 1) * size + size
<1>1. MaxInt \in Nat /\ MaxSize \in Nat BY WidthHolds, ListsAssumption
<1>2. page \in 1..MaxInt /\ size \in 1..MaxSize /\ total \in 0..Cardinality(RowIds)
  BY DEF ListsTypeOK
<1>3. Cardinality(RowIds) \in Nat BY ListedFinite
<1>4. page \in Nat \ {0} /\ size \in Nat \ {0} /\ page <= MaxInt /\ total \in Nat
  BY <1>1, <1>2, <1>3
<1>5. PICK p : p = page OBVIOUS
<1>6. PICK z : z = size OBVIOUS
<1>7. p * z \in Nat /\ (p - 1) * z \in Nat /\ p * z = (p - 1) * z + z
  BY <1>4, <1>5, <1>6
<1> QED BY <1>1, <1>4, <1>5, <1>6, <1>7 DEF RowsOK, ListsTypeOK

LEMMA RatedOK == Rated \subseteq Scores
BY ListsAssumption DEF Rated

\* While the rows stay, so does every rank.
LEMMA RanksStay ==
  ASSUME UNCHANGED <<list, rows>>
  PROVE  /\ Listed' = Listed
         /\ \A x : Rank(x)' = Rank(x)
<1>1. Listed' = Listed BY DEF Listed
<1>2. \A x, y : Before(x, y)' <=> Before(x, y) BY DEF Before
<1>3. ASSUME NEW x PROVE Rank(x)' = Rank(x)
  <2>1. {y \in Listed : Before(y, x)}' = {y \in Listed : Before(y, x)} BY <1>1, <1>2
  <2> QED BY <2>1 DEF Rank
<1> QED BY <1>1, <1>3

LEMMA WalkStart == Init => WalkInv
<1> SUFFICES ASSUME Init PROVE WalkInv OBVIOUS
<1>1. rows \in [RowIds -> Scores \cup {Absent}] BY RatedOK DEF Init
<1>2. 1 \in 1..MaxInt BY WidthHolds
<1>3. 1 \in 1..MaxSize
  <2>1. PICK l : l \in AllLists BY DEF AllLists
  <2>2. MaxSize \in Nat /\ DefaultSize[l] \in 1..MaxSize BY <2>1, ListsAssumption
  <2> QED BY <2>2
<1>4. 0 \in 0..Cardinality(RowIds) BY ListedFinite
<1>5. <<>> \in Seq(RowIds) OBVIOUS
<1>6. NoWalk \in Walk /\ NoWalk.on = FALSE /\ NoWalk.twice = {} BY DEF NoWalk, Walk
<1> QED BY <1>1, <1>2, <1>3, <1>4, <1>5, <1>6 DEF Init, WalkInv, ListsTypeOK

LEMMA AskKeeps ==
  ASSUME WalkInv, Ask
  PROVE  WalkInv'
<1>0. ListsTypeOK /\ MaxInt \in Nat /\ MaxSize \in Nat BY NumbersOK DEF WalkInv
<1>1. PICK p \in Texts, s \in Texts :
        /\ page' = PageOf(p) /\ size' = SizeOf(s)
        /\ walk' = [NoWalk EXCEPT !.on = PageOf(p) = 1, !.stayed = Listed]
  BY DEF Ask
<1>2. pc' = "count" /\ UNCHANGED <<list, rows, total, items>> BY DEF Ask
<1>3. p \in Int /\ s \in Int /\ p <= MaxInt BY <1>0, ListsAssumption
<1>4. page' \in 1..MaxInt BY <1>0, <1>1, <1>3, WidthHolds DEF PageOf
<1>5. size' \in 1..MaxSize
  <2>1. DefaultSize[list] \in 1..MaxSize BY <1>0, ListsAssumption DEF ListsTypeOK
  <2> QED BY <1>0, <1>1, <1>3, <2>1 DEF SizeOf
<1>6. /\ walk' \in Walk /\ walk'.on = (PageOf(p) = 1) /\ walk'.stayed = Listed
      /\ walk'.seen = {} /\ walk'.twice = {}
  BY <1>1, ListedFinite DEF NoWalk, Walk
<1>7. ListsTypeOK' BY <1>0, <1>2, <1>4, <1>5, <1>6 DEF ListsTypeOK
<1>8. ASSUME walk'.on PROVE WalkTrue'
  <2>1. page' = 1 BY <1>1, <1>6, <1>8
  <2>2. size' \in Int BY <1>0, <1>5
  <2>3. (page' - 1) * size' = 0
    <3>1. \A z \in Int : 0 * z = 0 OBVIOUS
    <3>2. page' - 1 = 0 BY <2>1
    <3> QED BY <2>2, <3>1, <3>2, Zenon
  <2>4. Read' = 0 BY <1>2, <2>3 DEF Read
  <2>5. Listed' = Listed /\ \A x : Rank(x)' = Rank(x) BY <1>2, RanksStay
  <2>6. \A x \in Listed' : ~(Rank(x)' <= Read')
    <3>1. \A x \in Listed : Rank(x) \in 1..Cardinality(Listed) BY <1>0, NumbersOK, RankType
    <3> QED BY <2>4, <2>5, <3>1, ListedFinite
  <2>7. (page' - 1) * size' <= Cardinality(RowIds) BY <2>3, ListedFinite
  <2> QED BY <1>2, <1>6, <2>5, <2>6, <2>7 DEF WalkTrue
<1> QED BY <1>6, <1>7, <1>8 DEF WalkInv

LEMMA CountKeeps ==
  ASSUME WalkInv, Count
  PROVE  WalkInv'
<1>0. ListsTypeOK BY DEF WalkInv
<1>1. /\ pc = "count" /\ pc' = "select" /\ total' = Cardinality(Listed)
      /\ UNCHANGED <<list, rows, page, size, items, walk>>
  BY DEF Count
<1>2. Listed' = Listed /\ \A x : Rank(x)' = Rank(x) BY <1>1, RanksStay
<1>3. Read' = Read BY <1>1 DEF Read
<1>4. total' \in 0..Cardinality(RowIds) BY <1>1, ListedFinite
<1>5. ListsTypeOK' BY <1>0, <1>1, <1>4 DEF ListsTypeOK
<1>6. walk'.on => WalkTrue' BY <1>1, <1>2, <1>3, ListedFinite DEF WalkInv, WalkTrue
<1> QED BY <1>1, <1>5, <1>6 DEF WalkInv

LEMMA FetchKeeps ==
  ASSUME WalkInv, Fetch
  PROVE  WalkInv'
<1>0. ListsTypeOK BY DEF WalkInv
<1>1. /\ pc = "select" /\ pc' = "answered" /\ items' = Select(page, size)
      /\ UNCHANGED <<list, rows, page, size, total>>
  BY DEF Fetch
<1>2. Listed' = Listed /\ \A x : Rank(x)' = Rank(x) BY <1>1, RanksStay
<1>3. /\ RowsOK /\ page \in Nat \ {0} /\ size \in Nat \ {0}
      /\ page * size \in Nat /\ (page - 1) * size \in Nat /\ total \in Nat
      /\ page * size = (page - 1) * size + size
  BY <1>0, NumbersOK
<1>4. Read = (page - 1) * size /\ Read' = page * size BY <1>1 DEF Read
<1>5. Select(page, size) \in Seq(RowIds) /\ Shown(Select(page, size)) \subseteq Listed
  BY <1>3, SelectsRows
<1>6. CASE ~walk.on
  <2>1. walk' = walk BY <1>6 DEF Fetch
  <2>2. ListsTypeOK' BY <1>0, <1>1, <1>5, <2>1 DEF ListsTypeOK
  <2> QED BY <1>6, <2>1, <2>2 DEF WalkInv
<1>7. CASE walk.on
  <2>1. PICK shown : shown = Shown(Select(page, size)) OBVIOUS
  <2>2. walk' = [walk EXCEPT !.seen = walk.seen \cup shown,
                             !.twice = walk.twice \cup (walk.seen \cap shown)]
    BY <1>1, <1>7, <2>1 DEF Fetch
  <2>3. shown \subseteq Listed /\ shown \subseteq RowIds BY <1>5, <2>1, ListedFinite
  <2>4. /\ walk' \in Walk /\ walk'.on = walk.on /\ walk'.stayed = walk.stayed
        /\ walk'.sunk = walk.sunk /\ walk'.torn = walk.torn
        /\ walk'.seen = walk.seen \cup shown
        /\ walk'.twice = walk.twice \cup (walk.seen \cap shown)
    BY <1>0, <2>2, <2>3 DEF ListsTypeOK, Walk
  <2>5. ListsTypeOK' BY <1>0, <1>1, <1>5, <2>4 DEF ListsTypeOK
  <2>6. WalkTrue BY <1>7 DEF WalkInv
  <2>7. \A x \in Listed : x \in shown <=> Rank(x) \in Read + 1 .. Read'
    <3>1. (page - 1) * size <= MaxInt
      <4>1. (page - 1) * size <= Cardinality(RowIds) /\ Cardinality(RowIds) <= MaxInt
            /\ Cardinality(RowIds) \in Nat /\ MaxInt \in Nat
        BY <2>6, ListsAssumption, ListedFinite, WidthHolds DEF WalkTrue
      <4> QED BY <1>3, <4>1
    <3> QED BY <1>3, <1>4, <2>1, <3>1, SelectWindow
  <2>8. \A x \in Listed : Rank(x) \in 1..Cardinality(Listed) BY <1>3, RankType
  <2>9. Read \in Nat /\ Read' \in Nat /\ Cardinality(Listed) \in Nat BY <1>3, <1>4, ListedFinite
  <2>10. ASSUME NEW x \in walk.stayed, Rank(x) <= Read' PROVE x \in walk'.seen
    <3>1. x \in Listed /\ Rank(x) \in Int BY <2>6, <2>8 DEF WalkTrue
    <3>2. CASE Rank(x) <= Read BY <2>4, <2>6, <3>2 DEF WalkTrue
    <3>3. CASE ~(Rank(x) <= Read)
      <4>1. Rank(x) \in Read + 1 .. Read' BY <2>9, <2>10, <3>1, <3>3
      <4> QED BY <2>4, <2>7, <3>1, <4>1
    <3> QED BY <3>2, <3>3
  <2>11. ASSUME NEW x \in Listed, x \in walk'.seen, x \notin walk.sunk PROVE Rank(x) <= Read'
    <3>1. Rank(x) \in Int /\ Read <= Read' BY <1>3, <1>4, <2>8
    <3>2. CASE x \in shown BY <2>7, <2>9, <3>1, <3>2
    <3>3. CASE x \in walk.seen
      <4>1. Rank(x) <= Read BY <2>6, <2>11, <3>3 DEF WalkTrue
      <4> QED BY <2>9, <3>1, <4>1
    <3> QED BY <2>4, <2>11, <3>2, <3>3
  <2>12. ASSUME ~More', ~walk.torn PROVE walk.stayed \subseteq walk'.seen
    <3>1. total <= Read' BY <1>1, <1>3, <1>4, <2>12 DEF More
    <3>2. Cardinality(Listed) <= total BY <1>1, <2>6, <2>12 DEF WalkTrue
    <3>3. ASSUME NEW x \in walk.stayed PROVE Rank(x) <= Read'
      <4>1. Rank(x) \in 1..Cardinality(Listed) BY <2>6, <2>8, <3>3 DEF WalkTrue
      <4> QED BY <1>3, <2>9, <3>1, <3>2, <4>1
    <3> QED BY <2>10, <3>3
  <2>13. WalkTrue'
    BY <1>1, <1>2, <2>4, <2>6, <2>10, <2>11, <2>12 DEF WalkTrue
  <2>14. ASSUME NEW x \in walk.seen, x \in shown PROVE x \in walk.sunk
    <3>1. x \in Listed /\ Rank(x) \in Int /\ Rank(x) \in Read + 1 .. Read' BY <2>3, <2>7, <2>8, <2>14
    <3> QED BY <2>6, <2>9, <2>14, <3>1 DEF WalkTrue
  <2> QED BY <2>4, <2>5, <2>13, <2>14 DEF WalkInv
<1> QED BY <1>6, <1>7

LEMMA TurnKeeps ==
  ASSUME WalkInv, Turn
  PROVE  WalkInv'
<1>0. ListsTypeOK /\ walk.on /\ WalkTrue BY DEF WalkInv, Turn
<1>1. /\ pc = "answered" /\ pc' = "count" /\ page' = page + 1 /\ total' = 0 /\ items' = <<>>
      /\ walk' = [walk EXCEPT !.torn = FALSE] /\ UNCHANGED <<list, rows, size>>
      /\ page * size < total
  BY DEF Turn, More
<1>2. Listed' = Listed /\ \A x : Rank(x)' = Rank(x) BY <1>1, RanksStay
<1>3. /\ page \in Nat \ {0} /\ size \in Nat \ {0} /\ page * size \in Nat /\ MaxInt \in Nat
  BY <1>0, NumbersOK
<1>4. /\ total \in Nat /\ total <= Cardinality(RowIds) /\ Cardinality(RowIds) \in Nat
      /\ Cardinality(RowIds) <= MaxInt
  BY <1>0, ListedFinite, ListsAssumption DEF ListsTypeOK
<1>5. page <= page * size
  <2>1. PICK p : p = page OBVIOUS
  <2>2. PICK z : z = size OBVIOUS
  <2>3. p <= p * z BY <1>3, <2>1, <2>2
  <2> QED BY <2>1, <2>2, <2>3
<1>6. page' \in 1..MaxInt BY <1>1, <1>3, <1>4, <1>5
<1>7. (page' - 1) * size' = page * size BY <1>1, <1>3
<1>8. Read' = Read BY <1>1, <1>7 DEF Read
<1>9. /\ walk' \in Walk /\ walk'.on = walk.on /\ walk'.stayed = walk.stayed
      /\ walk'.sunk = walk.sunk /\ walk'.seen = walk.seen /\ walk'.twice = walk.twice
  BY <1>0, <1>1 DEF ListsTypeOK, Walk
<1>10. ListsTypeOK' BY <1>0, <1>1, <1>4, <1>6, <1>9 DEF ListsTypeOK
<1>11. (page' - 1) * size' <= Cardinality(RowIds) BY <1>1, <1>3, <1>4, <1>7
<1>12. WalkTrue' BY <1>0, <1>1, <1>2, <1>8, <1>9, <1>11 DEF WalkTrue
<1> QED BY <1>9, <1>10, <1>12 DEF WalkInv

LEMMA LeaveKeeps ==
  ASSUME WalkInv, Leave
  PROVE  WalkInv'
<1>0. ListsTypeOK BY DEF WalkInv
<1>1. MaxSize \in Nat /\ size \in 1..MaxSize BY <1>0, ListsAssumption DEF ListsTypeOK
<1>2. 1 \in 1..MaxInt /\ 1 \in 1..MaxSize BY <1>1, WidthHolds
<1>3. 0 \in 0..Cardinality(RowIds) /\ <<>> \in Seq(RowIds) BY ListedFinite
<1>4. NoWalk \in Walk /\ NoWalk.on = FALSE /\ NoWalk.twice = {} BY DEF NoWalk, Walk
<1>5. /\ pc' = "idle" /\ page' = 1 /\ size' = 1 /\ total' = 0 /\ items' = <<>>
      /\ walk' = NoWalk /\ UNCHANGED <<list, rows>>
  BY DEF Leave
<1>6. ListsTypeOK' BY <1>0, <1>2, <1>3, <1>4, <1>5 DEF ListsTypeOK
<1> QED BY <1>4, <1>5, <1>6 DEF WalkInv

\* A row is written: who was shown and not moved down ranks no later than
\* before, who never moved up no earlier.
LEMMA WriteKeeps ==
  ASSUME WalkInv, NEW w \in RowIds, Write(w)
  PROVE  WalkInv'
<1>0. ListsTypeOK BY DEF WalkInv
<1>1. PICK v \in Rated \cup {Absent} : rows' = [rows EXCEPT ![w] = v] BY DEF Write
<1>2. UNCHANGED <<list, pc, page, size, total, items>> BY DEF Write
<1>3. rows' \in [RowIds -> Scores \cup {Absent}] BY <1>0, <1>1, RatedOK DEF ListsTypeOK
<1>4. RowsOK /\ RowsOK' BY <1>0, <1>2, <1>3 DEF ListsTypeOK, RowsOK
<1>5. Listed \subseteq RowIds /\ Listed' \subseteq RowIds BY DEF Listed
<1>6. CASE ~walk.on
  <2>1. walk' = walk BY <1>6 DEF Write
  <2>2. ListsTypeOK' BY <1>0, <1>2, <1>3, <2>1 DEF ListsTypeOK
  <2> QED BY <1>6, <2>1, <2>2 DEF WalkInv
<1>7. CASE walk.on
  <2>0. WalkTrue BY <1>7 DEF WalkInv
  <2>1. PICK calm : calm = {y \in Listed \cap Listed' : Rank(y)' >= Rank(y)} OBVIOUS
  <2>2. PICK down : down = (Listed' \ Listed) \cup {y \in Listed \cap Listed' : Rank(y)' > Rank(y)}
    OBVIOUS
  <2>3. PICK tears \in BOOLEAN : tears = (pc = "select" /\ rows[w] = Absent) OBVIOUS
  <2>4. walk' = [walk EXCEPT !.stayed = walk.stayed \cap calm, !.sunk = walk.sunk \cup down,
                             !.torn = walk.torn \/ tears]
    BY <1>7, <2>1, <2>2, <2>3 DEF Write
  <2>5. calm \subseteq RowIds /\ down \subseteq RowIds BY <1>5, <2>1, <2>2
  <2>6. /\ walk' \in Walk /\ walk'.on = walk.on /\ walk'.stayed = walk.stayed \cap calm
        /\ walk'.sunk = walk.sunk \cup down /\ walk'.torn = (walk.torn \/ tears)
        /\ walk'.seen = walk.seen /\ walk'.twice = walk.twice
    BY <1>0, <2>4, <2>5 DEF ListsTypeOK, Walk
  <2>7. ListsTypeOK' BY <1>0, <1>2, <1>3, <2>6 DEF ListsTypeOK
  <2>8. Read' = Read /\ More' = More /\ Read \in Nat
    <3>1. page * size \in Nat /\ (page - 1) * size \in Nat BY <1>0, NumbersOK
    <3> QED BY <1>2, <3>1 DEF Read, More
  <2>9. \A x \in Listed : Rank(x) \in Int
    BY <1>4, RankType, ListedFinite
  <2>10. \A x \in Listed' : Rank(x)' \in Int
    <3>1. (RowsOK => \A x \in Listed : Rank(x) \in Int)' BY RankInt, PTL
    <3> QED BY <1>4, <3>1
  <2>11. walk'.stayed \subseteq Listed' BY <2>1, <2>6
  <2>12. ASSUME NEW x \in walk'.stayed, Rank(x)' <= Read' PROVE x \in walk'.seen
    <3>1. x \in walk.stayed /\ x \in Listed /\ x \in Listed' /\ Rank(x)' >= Rank(x)
      BY <2>1, <2>6, <2>12
    <3>2. Rank(x) <= Read BY <2>8, <2>9, <2>10, <2>12, <3>1
    <3> QED BY <2>0, <2>6, <3>1, <3>2 DEF WalkTrue
  <2>13. ASSUME NEW x \in (walk'.seen \cap Listed') \ walk'.sunk PROVE Rank(x)' <= Read'
    <3>1. x \in Listed /\ ~(Rank(x)' > Rank(x)) /\ x \in walk.seen /\ x \notin walk.sunk
      BY <2>2, <2>6, <2>13
    <3>2. Rank(x) <= Read BY <2>0, <3>1 DEF WalkTrue
    <3> QED BY <2>8, <2>9, <2>10, <2>13, <3>1, <3>2
  <2>14. ASSUME pc = "select", ~walk'.torn PROVE Cardinality(Listed') <= total'
    <3>1. rows[w] # Absent /\ ~walk.torn BY <2>3, <2>6, <2>14
    <3>2. Listed' \subseteq Listed BY <1>0, <1>1, <3>1 DEF Listed, ListsTypeOK
    <3>3. IsFiniteSet(Listed) /\ Cardinality(Listed) \in Nat BY ListedFinite
    <3>4. IsFiniteSet(Listed') /\ Cardinality(Listed') <= Cardinality(Listed)
      BY <3>2, <3>3, FS_Subset
    <3>5. Cardinality(Listed') \in Nat BY <3>4, FS_CardinalityType
    <3>6. Cardinality(Listed) <= total BY <2>0, <2>14, <3>1 DEF WalkTrue
    <3>7. total \in Nat BY <1>0, NumbersOK
    <3> QED BY <1>2, <3>3, <3>4, <3>5, <3>6, <3>7
  <2>15. ASSUME pc = "answered", ~More, ~walk'.torn PROVE walk'.stayed \subseteq walk'.seen
    BY <2>0, <2>6, <2>15 DEF WalkTrue
  <2>16. WalkTrue'
    BY <1>2, <2>0, <2>8, <2>11, <2>12, <2>13, <2>14, <2>15 DEF WalkTrue
  <2> QED BY <2>6, <2>7, <2>16 DEF WalkInv
<1> QED BY <1>6, <1>7

LEMMA WalkNext ==
  ASSUME WalkInv, [Next]_vars
  PROVE  WalkInv'
<1>1. CASE UNCHANGED vars
  <2>1. Listed' = Listed /\ \A x : Rank(x)' = Rank(x) BY <1>1, RanksStay DEF vars
  <2>2. ListsTypeOK' BY <1>1 DEF vars, ListsTypeOK, WalkInv
  <2>3. Read' = Read /\ More' = More BY <1>1 DEF vars, Read, More
  <2> QED BY <1>1, <2>1, <2>2, <2>3 DEF vars, WalkInv, WalkTrue
<1> QED BY <1>1, AskKeeps, CountKeeps, FetchKeeps, TurnKeeps, LeaveKeeps, WriteKeeps DEF Next

LEMMA WalkAlways == Spec => []WalkInv
BY WalkStart, WalkNext, PTL DEF Spec

-----------------------------------------------------------------------------
(***************************************************************************)
(* The theorems.                                                           *)
(***************************************************************************)
\* Whatever texts a client sends as page and page_size, on whatever table: the
\* numbers a list request is made with are in range (note_handler.go and
\* bean_handler.go List), and what it answers is made of rows.
THEOREM ListsTypeCorrect == Spec => []ListsTypeOK
<1>1. WalkInv => ListsTypeOK BY DEF WalkInv
<1> QED BY <1>1, WalkAlways, PTL

\* Whatever rows there are, and for every sort: the page a client gets is a
\* window of the list, and the one it asked for when the offset fits an int
\* (Offset and Limit of the three List queries).
THEOREM PagesAreWindows == Spec => PageIsTheWindow
<1> DEFINE WindowAt(from) ==
      /\ (page - 1) * size <= MaxInt => from = (page - 1) * size
      /\ \A i \in DOMAIN items' : Rank(items'[i]) = from + i
      /\ \A x \in Listed :
           Rank(x) \in from + 1 .. from + size => x \in Shown(items')
    Window == pc = "select" /\ pc' = "answered" => \E from \in 0..MaxInt : WindowAt(from)
<1>1. ASSUME WalkInv, [Next]_vars PROVE Window
  <2>1. SUFFICES ASSUME pc = "select", pc' = "answered"
                 PROVE  \E from \in 0..MaxInt : WindowAt(from)
    OBVIOUS
  <2>2. Fetch BY <1>1, <2>1 DEF Next, vars, Ask, Count, Turn, Leave, Write
  <2>3. items' = Select(page, size) BY <2>2 DEF Fetch
  <2>4. /\ RowsOK /\ page \in Nat \ {0} /\ size \in Nat \ {0}
        /\ MaxInt \in Nat /\ (page - 1) * size \in Nat
    BY <1>1, NumbersOK DEF WalkInv
  <2>5. Offset(page, size) \in Int /\ Offset(page, size) <= MaxInt
    BY <2>4, WrappedType DEF Offset
  <2>6. PICK from : from = IF Offset(page, size) > 0 THEN Offset(page, size) ELSE 0
    OBVIOUS
  <2>7. from \in 0..MaxInt /\ from \in Nat BY <2>4, <2>5, <2>6
  <2>8. (page - 1) * size <= MaxInt => from = (page - 1) * size
    <3>1. PICK n : n = (page - 1) * size OBVIOUS
    <3>2. n \in Nat /\ (n <= MaxInt => Offset(page, size) = n)
      BY <2>4, <3>1, Fits DEF Offset
    <3> QED BY <2>6, <3>1, <3>2
  <2>9. /\ \A i \in DOMAIN items' : Rank(items'[i]) = from + i
        /\ \A x \in Listed : Rank(x) \in from + 1 .. from + size => x \in Shown(items')
    BY <2>3, <2>4, <2>6, <2>7, SelectsStretch
  <2> QED BY <2>7, <2>8, <2>9
<1> QED BY <1>1, WalkAlways, PTL DEF Spec, PageIsTheWindow

\* However many rows and pages, whatever is written meanwhile: who turns the
\* pages to the end has seen every row that was there all along and never moved
\* up, unless one came in under the last page; and saw twice only what came in
\* or moved down.
THEOREM WalksShowAllOnce == Spec => []WalkShowsAllOnce
<1>1. WalkInv => WalkShowsAllOnce BY DEF WalkInv, WalkTrue, WalkShowsAllOnce
<1> QED BY <1>1, WalkAlways, PTL
=============================================================================
