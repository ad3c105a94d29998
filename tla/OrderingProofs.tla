---------------------------- MODULE OrderingProofs ----------------------------
(***************************************************************************)
(* Facts about sorted rows and least elements that the proofs about lists, *)
(* pages and rankings share.                                               *)
(***************************************************************************)
EXTENDS Ordering, FiniteSetTheorems, WellFoundedInduction, TLAPS

NatLess == {p \in Nat \X Nat : p[1] < p[2]}

\* The order of the naturals is well-founded.
LEMMA NatLessWellFounded == IsWellFoundedOn(NatLess, Nat)
<1>1. OpToRel(<, Nat) = NatLess
  BY DEF OpToRel, NatLess
<1>2. QED
  BY <1>1, NatLessThanWellFounded, Zenon

\* Every nonempty set of naturals has a least element.
LEMMA LeastExists ==
  ASSUME NEW S, S \subseteq Nat, S # {}
  PROVE  \E x \in S : \A y \in S : x <= y
<1>1. PICK x \in S : \A y \in S : ~ (<<y, x>> \in NatLess)
  BY NatLessWellFounded, WFMin, Zenon
<1>2. ASSUME NEW y \in S PROVE x <= y
  <2>1. x \in Nat /\ y \in Nat /\ ~ (<<y, x>> \in NatLess)
    BY <1>1
  <2>2. QED
    BY <2>1 DEF NatLess
<1>3. QED
  BY <1>2

\* The row after another has more rows before it, and none has all.
LEMMA RankGrows ==
  ASSUME NEW S, IsFiniteSet(S), NEW R, TotalOrder(R, S), NEW a \in S
  PROVE  /\ Rank(S, R, a) \in 0..(Cardinality(S) - 1)
         /\ \A b \in S : <<a, b>> \in R => Rank(S, R, a) < Rank(S, R, b)
<1> DEFINE Before(x) == {y \in S : <<y, x>> \in R}
<1>1. ASSUME NEW x \in S, NEW T \in SUBSET S, Before(x) \subseteq T, x \in T
      PROVE  Cardinality(Before(x)) < Cardinality(T) /\ Cardinality(Before(x)) \in Nat
  <2>1. x \notin Before(x)
    BY DEF TotalOrder
  <2>2. IsFiniteSet(T) /\ IsFiniteSet(Before(x))
    BY FS_Subset
  <2>3. Cardinality(Before(x)) <= Cardinality(T) /\ Before(x) # T
    BY <1>1, <2>1, <2>2, FS_Subset
  <2>4. Cardinality(Before(x)) # Cardinality(T)
    BY <1>1, <2>2, <2>3, FS_Subset
  <2>5. Cardinality(T) \in Nat /\ Cardinality(Before(x)) \in Nat
    BY <2>2, FS_CardinalityType
  <2>6. QED
    BY <2>3, <2>4, <2>5
<1>2. Rank(S, R, a) \in 0..(Cardinality(S) - 1)
  <2>1. Cardinality(Before(a)) < Cardinality(S) /\ Cardinality(Before(a)) \in Nat
    BY <1>1
  <2>2. Cardinality(S) \in Nat
    BY FS_CardinalityType
  <2>3. QED
    BY <2>1, <2>2 DEF Rank
<1>3. ASSUME NEW b \in S, <<a, b>> \in R PROVE Rank(S, R, a) < Rank(S, R, b)
  <2>1. Before(a) \subseteq Before(b) /\ a \in Before(b)
    BY <1>3 DEF TotalOrder
  <2>2. QED
    BY <1>1, <2>1 DEF Rank
<1>4. QED
  BY <1>2, <1>3
\* Sorting returns every row once, each before those that come after it.
LEMMA SortedRows ==
  ASSUME NEW S, IsFiniteSet(S), NEW R, TotalOrder(R, S)
  PROVE  /\ OrderedBy(S, R) \in [1..Cardinality(S) -> S]
         /\ \A x \in S : \E i \in 1..Cardinality(S) : OrderedBy(S, R)[i] = x
         /\ \A i, j \in 1..Cardinality(S) : i < j => <<OrderedBy(S, R)[i], OrderedBy(S, R)[j]>> \in R
<1> DEFINE n == Cardinality(S)
           ranks == 0..(n - 1)
           rank == [x \in S |-> Rank(S, R, x)]
           f == OrderedBy(S, R)
<1>1. n \in Nat
  BY FS_CardinalityType
<1>2. ASSUME NEW x \in S, NEW y \in S, x # y PROVE rank[x] # rank[y]
  <2>1. <<x, y>> \in R \/ <<y, x>> \in R
    BY <1>2 DEF TotalOrder
  <2>2. Rank(S, R, x) < Rank(S, R, y) \/ Rank(S, R, y) < Rank(S, R, x)
    BY <2>1, RankGrows
  <2>3. Rank(S, R, x) \in ranks /\ Rank(S, R, y) \in ranks
    BY RankGrows
  <2>4. QED
    BY <2>2, <2>3
<1>3. rank \in [S -> ranks]
  BY RankGrows
<1>4. rank \in Injection(S, ranks)
  BY <1>2, <1>3, Zenon DEF Injection, IsInjective
<1>5. IsFiniteSet(ranks) /\ Cardinality(ranks) = n
  <2>1. 0 \in Int /\ n - 1 \in Int
    BY <1>1
  <2>2. IsFiniteSet(0..(n - 1)) /\ Cardinality(0..(n - 1)) = IF 0 > n - 1 THEN 0 ELSE (n - 1) - 0 + 1
    BY <2>1, FS_Interval
  <2>3. QED
    BY <1>1, <2>2
<1>6. rank \in Surjection(S, ranks)
  BY <1>4, <1>5, FS_Injection
<1>7. ASSUME NEW i \in 1..n
      PROVE  f[i] \in S /\ Rank(S, R, f[i]) = i - 1
  <2>1. i - 1 \in ranks
    BY <1>1
  <2>2. PICK x \in S : rank[x] = i - 1
    BY <1>6, <2>1 DEF Surjection
  <2>3. f[i] = CHOOSE y \in S : Rank(S, R, y) = i - 1
    BY DEF OrderedBy
  <2>4. QED
    BY <2>2, <2>3
<1>8. f \in [1..n -> S]
  BY <1>7 DEF OrderedBy
<1>9. ASSUME NEW x \in S PROVE \E i \in 1..n : f[i] = x
  <2>1. Rank(S, R, x) \in 0..(n - 1)
    BY RankGrows
  <2>2. Rank(S, R, x) + 1 \in 1..n
    BY <1>1, <2>1
  <2>3. PICK i \in 1..n : i = Rank(S, R, x) + 1
    BY <2>2
  <2>4. Rank(S, R, f[i]) = Rank(S, R, x) /\ f[i] \in S
    BY <1>7, <2>1, <2>3
  <2>5. rank[f[i]] = rank[x]
    BY <2>4
  <2>6. f[i] = x
    BY <1>2, <2>4, <2>5
  <2>7. QED
    BY <2>6
<1>10. ASSUME NEW i \in 1..n, NEW j \in 1..n, i < j PROVE <<f[i], f[j]>> \in R
  <2>1. /\ f[i] \in S /\ f[j] \in S
        /\ Rank(S, R, f[i]) < Rank(S, R, f[j])
        /\ Rank(S, R, f[i]) \in Int /\ Rank(S, R, f[j]) \in Int
    BY <1>1, <1>7, <1>10
  <2>2. f[i] # f[j]
    BY <2>1
  <2>3. <<f[i], f[j]>> \in R \/ <<f[j], f[i]>> \in R
    BY <2>1, <2>2 DEF TotalOrder
  <2>4. ASSUME <<f[j], f[i]>> \in R PROVE FALSE
    <3>1. Rank(S, R, f[j]) < Rank(S, R, f[i])
      BY <2>1, <2>4, RankGrows
    <3>2. QED
      BY <2>1, <3>1
  <2>5. QED
    BY <2>3, <2>4
<1>11. QED
  BY <1>8, <1>9, <1>10

\* The first n rows: sorted, and a row that is not among them comes after all
\* of them, of which there are n.
AreFirst(rows, S, R, n) ==
  /\ rows \in Seq(S) /\ Len(rows) <= n /\ Len(rows) <= Cardinality(S)
  /\ \A i, j \in 1..Len(rows) : i < j => <<rows[i], rows[j]>> \in R
  /\ \A x \in S : \/ \E i \in 1..Len(rows) : rows[i] = x
                  \/ /\ Len(rows) = n
                     /\ \A i \in 1..n : <<rows[i], x>> \in R

\* That is what ORDER BY and LIMIT return.
LEMMA LimitedRows ==
  ASSUME NEW S, IsFiniteSet(S), NEW R, TotalOrder(R, S), NEW n \in Nat
  PROVE  AreFirst(FirstRows(S, R, n), S, R, n)
<1> DEFINE rows == FirstRows(S, R, n)
           c == Cardinality(S)
           m == IF c < n THEN c ELSE n
<1>1. PICK f : f = OrderedBy(S, R)
  OBVIOUS
<1>2. c \in Nat /\ m \in Nat /\ m <= c /\ m <= n
  BY FS_CardinalityType
<1>3. /\ f \in [1..c -> S]
      /\ \A x \in S : \E i \in 1..c : f[i] = x
      /\ \A i, j \in 1..c : i < j => <<f[i], f[j]>> \in R
  BY <1>1, SortedRows
<1>4. rows = SubSeq(f, 1, m)
  BY <1>1 DEF FirstRows
<1> HIDE DEF rows, c, m
<1>5. f \in Seq(S) /\ Len(f) = c
  BY <1>2, <1>3
<1>6. rows \in Seq(S) /\ Len(rows) = m /\ \A i \in 1..m : rows[i] = f[i]
  BY <1>2, <1>4, <1>5
<1>7. ASSUME NEW x \in S PROVE \/ \E i \in 1..m : rows[i] = x
                               \/ m = n /\ \A i \in 1..n : <<rows[i], x>> \in R
  <2>1. PICK k \in 1..c : f[k] = x
    BY <1>3
  <2>2. CASE k <= m
    <3>1. k \in 1..m /\ rows[k] = x
      BY <1>2, <1>6, <2>1, <2>2
    <3>2. QED
      BY <3>1
  <2>3. CASE m < k
    <3>1. m = n
      BY <1>2, <2>3 DEF m
    <3>2. ASSUME NEW i \in 1..n PROVE <<rows[i], x>> \in R
      <4>1. i \in 1..c /\ i < k /\ rows[i] = f[i]
        BY <1>2, <1>6, <2>3, <3>1
      <4>2. QED
        BY <1>3, <2>1, <4>1
    <3>3. QED
      BY <3>1, <3>2
  <2>4. QED
    BY <1>2, <2>2, <2>3
<1>8. ASSUME NEW i \in 1..m, NEW j \in 1..m, i < j PROVE <<rows[i], rows[j]>> \in R
  BY <1>2, <1>3, <1>6, <1>8
<1>9. m <= Cardinality(S)
  BY <1>2 DEF c
<1>10. AreFirst(rows, S, R, n)
  BY <1>2, <1>6, <1>7, <1>8, <1>9 DEF AreFirst
<1>11. QED
  BY <1>10 DEF rows
-----------------------------------------------------------------------------
(* Pages *)

\* What a page of the rows S is: sorted, and what is not on it comes after the
\* cursor that leads on, its last row.
IsPage(p, S, R) ==
  /\ p.rows \in Seq(S) /\ p.next \in S \cup {<<>>}
  /\ \A i, j \in 1..Len(p.rows) : i < j => <<p.rows[i], p.rows[j]>> \in R
  /\ p.next # <<>> => Len(p.rows) > 0 /\ p.next = p.rows[Len(p.rows)]
  /\ \A x \in S : x \in Range(p.rows) \/ (p.next # <<>> /\ <<p.next, x>> \in R)

\* A page is got by asking for one row more than fits.
LEMMA PageOfRows ==
  ASSUME NEW S, IsFiniteSet(S), <<>> \notin S, NEW R, TotalOrder(R, S), NEW limit \in Nat \ {0},
         NEW p, p = NextPage(FirstRows(S, R, limit + 1), limit)
  PROVE  IsPage(p, S, R)
<1>1. PICK rows : rows = FirstRows(S, R, limit + 1)
  OBVIOUS
<1>2. PICK n \in Nat : n = limit + 1
  OBVIOUS
<1>22. rows = FirstRows(S, R, n)
  BY <1>1, <1>2
<1>3. /\ rows \in Seq(S) /\ Len(rows) <= limit + 1
      /\ \A i, j \in 1..Len(rows) : i < j => <<rows[i], rows[j]>> \in R
      /\ \A x \in S : \/ \E i \in 1..Len(rows) : rows[i] = x
                      \/ /\ Len(rows) = limit + 1
                         /\ \A i \in 1..(limit + 1) : <<rows[i], x>> \in R
  <2>1. AreFirst(rows, S, R, n)
    BY <1>22, LimitedRows
  <2>2. QED
    BY <1>2, <2>1 DEF AreFirst
<1>4. Len(rows) \in Nat /\ (\A i \in 1..Len(rows) : rows[i] \in S)
  BY <1>3
<1>5. CASE Len(rows) > limit
  <2>1. Len(rows) = limit + 1
    BY <1>3, <1>4, <1>5
  <2>2. PICK few : few = SubSeq(rows, 1, limit)
    OBVIOUS
  <2>3. few \in Seq(S) /\ Len(few) = limit /\ \A i \in 1..limit : few[i] = rows[i]
    BY <1>3, <2>1, <2>2
  <2>4. p.rows = few /\ p.next = rows[limit] /\ p.next \in S /\ p.next # <<>>
    BY <1>1, <1>4, <1>5, <2>1, <2>2 DEF NextPage
  <2>5. ASSUME NEW x \in S PROVE x \in Range(few) \/ <<p.next, x>> \in R
    <3>1. ASSUME NEW i \in 1..(limit + 1), rows[i] = x PROVE x \in Range(few) \/ <<p.next, x>> \in R
      <4>1. CASE i <= limit
        BY <2>3, <3>1, <4>1 DEF Range
      <4>2. CASE i = limit + 1
        BY <1>3, <2>1, <2>4, <3>1, <4>2
      <4>3. QED
        BY <4>1, <4>2
    <3>2. QED
      BY <1>3, <2>1, <2>4, <3>1
  <2>6. \A i, j \in 1..Len(few) : i < j => <<few[i], few[j]>> \in R
    BY <1>3, <2>1, <2>3
  <2>7. QED
    BY <2>3, <2>4, <2>5, <2>6 DEF IsPage
<1>6. CASE Len(rows) <= limit
  <2>1. p.rows = rows /\ p.next = <<>>
    BY <1>1, <1>4, <1>6 DEF NextPage
  <2>2. \A x \in S : x \in Range(rows)
    BY <1>3, <1>4, <1>6 DEF Range
  <2>3. QED
    BY <1>3, <2>1, <2>2 DEF IsPage
<1>7. QED
  BY <1>4, <1>5, <1>6

\* One list after another.
Appended(both, s, t, T, R) ==
  /\ both \in Seq(T) /\ Len(both) = Len(s) + Len(t)
  /\ \A i \in 1..Len(s) : both[i] = s[i]
  /\ \A i \in 1..Len(t) : both[Len(s) + i] = t[i]
  /\ Range(both) = Range(s) \cup Range(t)
  /\ \A i, j \in 1..Len(both) : i < j => <<both[i], both[j]>> \in R

\* A position in a list is not the beginning of it, which is the empty cursor.
LEMMA PairNotEmpty == ASSUME NEW A, NEW B, NEW x \in A \X B PROVE x # <<>>
OBVIOUS

\* Rows that come after the last one seen are added in order.
LEMMA SortedAppend ==
  ASSUME NEW T, NEW R, TotalOrder(R, T), NEW s \in Seq(T), NEW t \in Seq(T), NEW both, both = s \o t,
         \A i, j \in 1..Len(s) : i < j => <<s[i], s[j]>> \in R,
         \A i, j \in 1..Len(t) : i < j => <<t[i], t[j]>> \in R,
         Len(s) > 0 => \A i \in 1..Len(t) : <<s[Len(s)], t[i]>> \in R
  PROVE  Appended(both, s, t, T, R)
<1>1. /\ both \in Seq(T) /\ Len(both) = Len(s) + Len(t)
      /\ \A i \in 1..Len(s) : both[i] = s[i]
      /\ \A i \in 1..Len(t) : both[Len(s) + i] = t[i]
      /\ Len(s) \in Nat /\ Len(t) \in Nat
  OBVIOUS
<1>2. ASSUME NEW j \in 1..Len(both), j > Len(s) PROVE \E k \in 1..Len(t) : j = Len(s) + k /\ both[j] = t[k]
  <2>1. j - Len(s) \in 1..Len(t)
    BY <1>1, <1>2
  <2>2. QED
    BY <1>1, <2>1
<1>3. ASSUME NEW i \in 1..Len(both), NEW j \in 1..Len(both), i < j PROVE <<both[i], both[j]>> \in R
  <2>1. CASE j <= Len(s)
    <3>1. i \in 1..Len(s) /\ j \in 1..Len(s)
      BY <1>1, <1>3, <2>1
    <3>2. QED
      BY <1>1, <1>3, <3>1
  <2>2. CASE i > Len(s)
    <3>1. PICK a \in 1..Len(t) : i = Len(s) + a /\ both[i] = t[a]
      BY <1>2, <2>2
    <3>2. j > Len(s)
      BY <1>1, <1>3, <2>2
    <3>3. PICK b \in 1..Len(t) : j = Len(s) + b /\ both[j] = t[b]
      BY <1>2, <3>2
    <3>4. a < b
      BY <1>1, <1>3, <3>1, <3>3
    <3>5. QED
      BY <3>1, <3>3, <3>4
  <2>3. CASE i <= Len(s) /\ j > Len(s)
    <3>1. PICK b \in 1..Len(t) : j = Len(s) + b /\ both[j] = t[b]
      BY <1>2, <2>3
    <3>2. /\ i \in 1..Len(s) /\ Len(s) \in 1..Len(s) /\ both[i] = s[i]
          /\ s[i] \in T /\ s[Len(s)] \in T /\ t[b] \in T /\ <<s[Len(s)], t[b]>> \in R
      BY <1>1, <2>3
    <3>3. CASE i = Len(s)
      BY <3>1, <3>2, <3>3
    <3>4. CASE i < Len(s)
      <4>1. <<s[i], s[Len(s)]>> \in R
        BY <3>2, <3>4
      <4>2. <<s[i], t[b]>> \in R
        BY <3>2, <4>1 DEF TotalOrder
      <4>3. QED
        BY <3>1, <3>2, <4>2
    <3>5. i = Len(s) \/ i < Len(s)
      BY <1>1, <2>3
    <3>6. QED
      BY <3>3, <3>4, <3>5, Zenon
  <2>4. j <= Len(s) \/ i > Len(s) \/ (i <= Len(s) /\ j > Len(s))
    BY <1>1
  <2>5. QED
    BY <2>1, <2>2, <2>3, <2>4, Zenon
<1>4. ASSUME NEW x PROVE x \in Range(both) <=> x \in Range(s) \cup Range(t)
  <2>1. ASSUME NEW i \in 1..Len(both) PROVE both[i] \in Range(s) \cup Range(t)
    <3>1. CASE i <= Len(s)
      <4>1. i \in 1..Len(s)
        BY <1>1, <3>1
      <4>2. both[i] = s[i] /\ s[i] \in Range(s)
        BY <1>1, <4>1 DEF Range
      <4>3. QED
        BY <4>2
    <3>2. CASE i > Len(s)
      <4>1. PICK k \in 1..Len(t) : both[i] = t[k]
        BY <1>2, <3>2
      <4>2. t[k] \in Range(t)
        BY <1>1 DEF Range
      <4>3. QED
        BY <4>1, <4>2
    <3>3. i \in Nat /\ Len(s) \in Nat
      BY <1>1
    <3>4. QED
      BY <3>1, <3>2, <3>3
  <2>2. ASSUME NEW i \in 1..Len(s) PROVE s[i] \in Range(both)
    <3>1. i \in 1..Len(both) /\ both[i] = s[i]
      BY <1>1
    <3>2. QED
      BY <1>1, <3>1 DEF Range
  <2>3. ASSUME NEW i \in 1..Len(t) PROVE t[i] \in Range(both)
    <3>1. PICK k : k = Len(s) + i
      OBVIOUS
    <3>2. k \in 1..Len(both) /\ both[k] = t[i]
      BY <1>1, <3>1
    <3>3. k \in DOMAIN both
      BY <1>1, <3>2
    <3>4. QED
      BY <3>2, <3>3, Zenon DEF Range
  <2>4. DOMAIN both = 1..Len(both) /\ DOMAIN s = 1..Len(s) /\ DOMAIN t = 1..Len(t)
    BY <1>1
  <2>5. QED
    BY <2>1, <2>2, <2>3, <2>4, Zenon DEF Range
<1>5. Range(both) = Range(s) \cup Range(t)
  BY <1>4
<1>6. QED
  BY <1>1, <1>3, <1>5 DEF Appended
-----------------------------------------------------------------------------
(* A client that follows the cursors *)

FirstTurn == [rows |-> <<>>, after |-> <<>>, end |-> FALSE]
\* One more page.
TurnPage(page, acc) == [rows |-> acc.rows \o page[acc.after].rows,
                        after |-> page[acc.after].next,
                        end |-> page[acc.after].next = <<>>]
TurnOf(page, f, k) == IF k = 0 THEN FirstTurn ELSE IF f[k - 1].end THEN f[k - 1] ELSE TurnPage(page, f[k - 1])
PagesTurned(page, f, m) == f = [k \in 0..m |-> TurnOf(page, f, k)]

\* The recursion has a solution.
LEMMA TurnsExist ==
  ASSUME NEW page, NEW m \in Nat
  PROVE  \E f : PagesTurned(page, f, m)
<1> DEFINE Bad == {n \in Nat : ~ \E f : PagesTurned(page, f, n)}
<1> SUFFICES ASSUME Bad # {} PROVE FALSE
  OBVIOUS
<1>1. PICK n \in Bad : \A k \in Bad : n <= k
  <2>1. Bad \subseteq Nat
    OBVIOUS
  <2> HIDE DEF Bad
  <2>2. QED
    BY <2>1, LeastExists
<1>2. CASE n = 0
  <2>1. PICK f : f = [k \in 0..0 |-> FirstTurn]
    OBVIOUS
  <2>2. f = [k \in 0..0 |-> TurnOf(page, f, k)]
    BY <2>1 DEF TurnOf
  <2>3. QED
    BY <1>2, <2>2 DEF PagesTurned
<1>3. CASE n # 0
  <2>1. n - 1 \in Nat /\ n - 1 \notin Bad
    BY <1>1, <1>3
  <2>2. PICK f : PagesTurned(page, f, n - 1)
    BY <2>1
  <2>3. PICK g : g = [k \in 0..n |-> IF k = n THEN TurnOf(page, f, n) ELSE f[k]]
    OBVIOUS
  <2>4. ASSUME NEW k \in 0..n PROVE g[k] = TurnOf(page, g, k)
    <3>1. \A i \in 0..(n - 1) : g[i] = f[i]
      BY <2>3
    <3>2. k = 0 \/ g[k - 1] = f[k - 1]
      BY <3>1
    <3>3. TurnOf(page, g, k) = TurnOf(page, f, k)
      BY <3>2 DEF TurnOf
    <3>4. CASE k = n
      BY <2>3, <3>3, <3>4
    <3>5. CASE k # n
      <4>1. k \in 0..(n - 1)
        BY <3>5
      <4>2. f[k] = TurnOf(page, f, k)
        BY <2>2, <4>1, Zenon DEF PagesTurned
      <4>3. QED
        BY <3>1, <3>3, <4>1, <4>2
    <3>6. QED
      BY <3>4, <3>5
  <2>5. g = [k \in 0..n |-> TurnOf(page, g, k)]
    <3>1. g = [k \in 0..n |-> g[k]]
      BY <2>3
    <3>2. QED
      BY <2>4, <3>1
  <2>6. QED
    BY <2>5 DEF PagesTurned
<1>4. QED
  BY <1>2, <1>3

\* The rows of a list after a cursor.
Rest(S, R, after) == {x \in S : after = <<>> \/ <<after, x>> \in R}

\* What a client has after k pages: rows in order, and what it does not have
\* comes after its cursor.
AtTurn(acc, k, S, R) ==
  /\ acc.rows \in Seq(S) /\ acc.after \in S \cup {<<>>} /\ acc.end \in BOOLEAN
  /\ \A i, j \in 1..Len(acc.rows) : i < j => <<acc.rows[i], acc.rows[j]>> \in R
  /\ acc.end => S \subseteq Range(acc.rows)
  /\ ~acc.end => /\ Len(acc.rows) >= k
                 /\ IF Len(acc.rows) = 0 THEN acc.after = <<>> ELSE acc.after = acc.rows[Len(acc.rows)]
                 /\ \A x \in S : x \in Range(acc.rows) \/ x \in Rest(S, R, acc.after)

LEMMA TurnGoesOn ==
  ASSUME NEW S, <<>> \notin S, NEW R, TotalOrder(R, S), NEW k \in Nat,
         NEW acc, AtTurn(acc, k, S, R), ~acc.end,
         NEW page, IsPage(page[acc.after], Rest(S, R, acc.after), R)
  PROVE  AtTurn(TurnPage(page, acc), k + 1, S, R)
<1>1. PICK p : p = page[acc.after]
  OBVIOUS
<1>2. PICK rest : rest = Rest(S, R, acc.after)
  OBVIOUS
<1>3. PICK both : both = acc.rows \o p.rows
  OBVIOUS
<1>4. PICK end : end = (p.next = <<>>)
  OBVIOUS
<1>5. PICK new : new = TurnPage(page, acc)
  OBVIOUS
<1>6. new.rows = both /\ new.after = p.next /\ new.end = end
  BY <1>1, <1>3, <1>4, <1>5 DEF TurnPage
<1>7. rest \subseteq S
  BY <1>2 DEF Rest
<1>8. /\ p.rows \in Seq(rest) /\ p.next \in rest \cup {<<>>}
      /\ \A i, j \in 1..Len(p.rows) : i < j => <<p.rows[i], p.rows[j]>> \in R
      /\ p.next # <<>> => Len(p.rows) > 0 /\ p.next = p.rows[Len(p.rows)]
      /\ \A x \in rest : x \in Range(p.rows) \/ (p.next # <<>> /\ <<p.next, x>> \in R)
  BY <1>1, <1>2 DEF IsPage
<1>9. /\ acc.rows \in Seq(S) /\ Len(acc.rows) >= k
      /\ \A i, j \in 1..Len(acc.rows) : i < j => <<acc.rows[i], acc.rows[j]>> \in R
      /\ Len(acc.rows) # 0 => acc.after = acc.rows[Len(acc.rows)]
      /\ \A x \in S : x \in Range(acc.rows) \/ x \in rest
  BY <1>2 DEF AtTurn
<1>10. p.rows \in Seq(S) /\ Len(p.rows) \in Nat /\ Len(acc.rows) \in Nat
  <2>1. \A i \in 1..Len(p.rows) : p.rows[i] \in S
    BY <1>7, <1>8
  <2>2. QED
    BY <1>8, <1>9, <2>1
<1>11. Len(acc.rows) > 0 => \A i \in 1..Len(p.rows) : <<acc.rows[Len(acc.rows)], p.rows[i]>> \in R
  <2> SUFFICES ASSUME Len(acc.rows) > 0, NEW i \in 1..Len(p.rows) PROVE <<acc.rows[Len(acc.rows)], p.rows[i]>> \in R
    OBVIOUS
  <2>1. acc.after = acc.rows[Len(acc.rows)] /\ acc.after \in S
    BY <1>9
  <2>2. p.rows[i] \in rest
    BY <1>8
  <2>3. acc.after # <<>>
    BY <2>1
  <2>4. <<acc.after, p.rows[i]>> \in R
    BY <1>2, <2>2, <2>3, Zenon DEF Rest
  <2>5. QED
    BY <2>1, <2>4
<1>12. /\ both \in Seq(S) /\ Len(both) = Len(acc.rows) + Len(p.rows)
       /\ \A i \in 1..Len(p.rows) : both[Len(acc.rows) + i] = p.rows[i]
       /\ Range(both) = Range(acc.rows) \cup Range(p.rows)
       /\ \A i, j \in 1..Len(both) : i < j => <<both[i], both[j]>> \in R
  <2>1. PICK s : s = acc.rows
    OBVIOUS
  <2>2. PICK t : t = p.rows
    OBVIOUS
  <2>3. /\ s \in Seq(S) /\ t \in Seq(S) /\ both = s \o t
        /\ \A i, j \in 1..Len(s) : i < j => <<s[i], s[j]>> \in R
        /\ \A i, j \in 1..Len(t) : i < j => <<t[i], t[j]>> \in R
        /\ Len(s) > 0 => \A i \in 1..Len(t) : <<s[Len(s)], t[i]>> \in R
    BY <1>3, <1>8, <1>9, <1>10, <1>11, <2>1, <2>2
  <2>4. /\ both \in Seq(S) /\ Len(both) = Len(s) + Len(t)
        /\ \A i \in 1..Len(t) : both[Len(s) + i] = t[i]
        /\ Range(both) = Range(s) \cup Range(t)
        /\ \A i, j \in 1..Len(both) : i < j => <<both[i], both[j]>> \in R
    <3>1. Appended(both, s, t, S, R)
      BY <2>3, SortedAppend
    <3>2. QED
      BY <3>1 DEF Appended
  <2>5. QED
    BY <2>1, <2>2, <2>4
<1>13. end => S \subseteq Range(both)
  BY <1>4, <1>8, <1>9, <1>12
<1>14. ASSUME ~end
       PROVE  /\ Len(both) >= k + 1 /\ p.next = both[Len(both)]
              /\ \A x \in S : x \in Range(both) \/ x \in Rest(S, R, p.next)
  <2>1. Len(p.rows) > 0 /\ p.next = p.rows[Len(p.rows)]
    BY <1>4, <1>8, <1>14
  <2>2. PICK m \in 1..Len(p.rows) : m = Len(p.rows)
    BY <1>10, <2>1
  <2>3. Len(both) >= k + 1 /\ p.next = both[Len(both)]
    <3>1. Len(both) = Len(acc.rows) + m /\ both[Len(acc.rows) + m] = p.rows[m]
      BY <1>12, <2>2
    <3>2. Len(both) >= k + 1
      <4>1. PICK a \in Nat, b \in Nat : a = Len(acc.rows) /\ b = Len(p.rows)
        BY <1>10
      <4>2. Len(both) = a + m /\ a >= k /\ m > 0
        BY <1>9, <2>1, <2>2, <3>1, <4>1, Zenon
      <4>3. m \in Nat
        BY <1>10, <2>2
      <4>4. QED
        BY <4>2, <4>3
    <3>3. p.rows[m] = p.next /\ both[Len(both)] = p.rows[m]
      BY <2>1, <2>2, <3>1, Zenon
    <3>4. QED
      BY <3>2, <3>3
  <2>4. ASSUME NEW x \in S PROVE x \in Range(both) \/ x \in Rest(S, R, p.next)
    BY <1>8, <1>9, <1>12 DEF Rest
  <2>5. QED
    BY <2>3, <2>4
<1>15. p.next \in S \cup {<<>>} /\ end \in BOOLEAN /\ Len(both) \in Nat
  <2>1. p.next \in S \cup {<<>>}
    BY <1>7, <1>8
  <2>2. end \in BOOLEAN
    BY <1>4, Zenon
  <2>3. Len(both) \in Nat
    <3>1. PICK a \in Nat, b \in Nat : a = Len(acc.rows) /\ b = Len(p.rows)
      BY <1>10
    <3>2. Len(both) = a + b
      BY <1>12, <3>1, Zenon
    <3>3. QED
      BY <3>2
  <2>4. QED
    BY <2>1, <2>2, <2>3, Zenon
<1>16. AtTurn(new, k + 1, S, R)
  <2>1. ~end => Len(both) # 0
    BY <1>14, <1>15
  <2>2. QED
    BY <1>6, <1>12, <1>13, <1>14, <1>15, <2>1 DEF AtTurn
<1>17. QED
  BY <1>5, <1>16

\* Following the cursors to the end gives every row once, in order.
LEMMA WalkEnumerates ==
  ASSUME NEW S, IsFiniteSet(S), <<>> \notin S, NEW R, TotalOrder(R, S),
         NEW page, \A a \in S \cup {<<>>} : IsPage(page[a], Rest(S, R, a), R),
         NEW n \in Nat, Cardinality(S) <= n, NEW rows, rows = Walk(page, n)
  PROVE  rows \in Seq(S) /\ Range(rows) = S /\ Len(rows) = Cardinality(S)
<1>1. PICK f : PagesTurned(page, f, n) /\ rows = f[n].rows
  <2> DEFINE g == CHOOSE turn : PagesTurned(page, turn, n)
  <2>1. PagesTurned(page, g, n)
    BY TurnsExist, Zenon
  <2>2. Walk(page, n) = g[n].rows
    BY Zenon DEF Walk, PagesTurned, TurnOf, FirstTurn, TurnPage
  <2> HIDE DEF g
  <2>3. QED
    BY <2>1, <2>2
<1>2. \A k \in 0..n : f[k] = TurnOf(page, f, k)
  BY <1>1, Zenon DEF PagesTurned
<1>3. AtTurn(FirstTurn, 0, S, R)
  BY DEF AtTurn, FirstTurn, Rest
<1>4. ASSUME NEW k \in Nat, NEW acc, AtTurn(acc, k, S, R), acc.end PROVE AtTurn(acc, k + 1, S, R)
  BY <1>4 DEF AtTurn
<1>5. AtTurn(f[n], n, S, R)
  <2> DEFINE Bad == {k \in 0..n : ~AtTurn(f[k], k, S, R)}
  <2> SUFFICES ASSUME Bad # {} PROVE FALSE
    OBVIOUS
  <2>1. PICK k \in Bad : \A m \in Bad : k <= m
    <3>1. Bad \subseteq Nat
      OBVIOUS
    <3> HIDE DEF Bad
    <3>2. QED
      BY <3>1, LeastExists
  <2>2. CASE k = 0
    BY <1>2, <1>3, <2>1, <2>2 DEF TurnOf
  <2>3. CASE k # 0
    <3>1. PICK m \in Nat : m = k - 1
      BY <2>3
    <3>2. k = m + 1 /\ m \in 0..n /\ m \notin Bad
      BY <2>1, <2>3, <3>1
    <3>3. AtTurn(f[m], m, S, R)
      BY <3>2
    <3>4. f[k] = IF f[m].end THEN f[m] ELSE TurnPage(page, f[m])
      BY <1>2, <2>3, <3>1 DEF TurnOf
    <3>5. CASE f[m].end
      BY <1>4, <3>2, <3>3, <3>4, <3>5
    <3>6. CASE ~f[m].end
      <4>1. f[m].after \in S \cup {<<>>}
        BY <3>3 DEF AtTurn
      <4>2. AtTurn(TurnPage(page, f[m]), m + 1, S, R)
        BY <3>3, <3>6, <4>1, TurnGoesOn
      <4>3. QED
        BY <3>2, <3>4, <3>6, <4>2
    <3>7. QED
      BY <3>5, <3>6
  <2>4. QED
    BY <2>2, <2>3
<1>6. /\ rows \in Seq(S)
      /\ \A i, j \in 1..Len(rows) : i < j => <<rows[i], rows[j]>> \in R
      /\ S \subseteq Range(rows) \/ Len(rows) >= n
  BY <1>1, <1>5 DEF AtTurn
<1>7. Len(rows) \in Nat /\ Cardinality(S) \in Nat /\ DOMAIN rows = 1..Len(rows) /\ rows \in [1..Len(rows) -> S]
  BY <1>6, FS_CardinalityType
<1>8. rows \in Injection(1..Len(rows), S)
  <2>1. ASSUME NEW i \in 1..Len(rows), NEW j \in 1..Len(rows), rows[i] = rows[j] PROVE i = j
    <3>1. rows[i] \in S /\ <<rows[i], rows[i]>> \notin R
      BY <1>7 DEF TotalOrder
    <3>2. ~(i < j) /\ ~(j < i)
      BY <1>6, <2>1, <3>1
    <3>3. QED
      BY <1>7, <3>2
  <2>2. QED
    BY <1>7, <2>1, Zenon DEF Injection, IsInjective
<1>9. Cardinality(1..Len(rows)) = Len(rows)
  <2>1. 1 \in Int /\ Len(rows) \in Int
    BY <1>7
  <2>2. Cardinality(1..Len(rows)) = IF 1 > Len(rows) THEN 0 ELSE Len(rows) - 1 + 1
    BY <2>1, FS_Interval
  <2>3. QED
    BY <1>7, <2>2
<1>10. /\ Len(rows) <= Cardinality(S)
       /\ Len(rows) = Cardinality(S) <=> rows \in Surjection(1..Len(rows), S)
  BY <1>8, <1>9, FS_Injection
<1>11. Range(rows) = S <=> rows \in Surjection(1..Len(rows), S)
  <2>1. Range(rows) \subseteq S
    BY <1>7 DEF Range
  <2>2. rows \in Surjection(1..Len(rows), S) <=> \A x \in S : \E i \in 1..Len(rows) : rows[i] = x
    BY <1>7, Zenon DEF Surjection
  <2>3. (\A x \in S : \E i \in 1..Len(rows) : rows[i] = x) <=> S \subseteq Range(rows)
    BY <1>7, Zenon DEF Range
  <2>4. QED
    BY <2>1, <2>2, <2>3
<1>12. Range(rows) \subseteq S
  BY <1>7 DEF Range
<1>13. QED
  <2>1. CASE S \subseteq Range(rows)
    BY <1>6, <1>10, <1>11, <1>12, <2>1
  <2>2. CASE Len(rows) >= n
    <3>1. Len(rows) = Cardinality(S)
      BY <1>7, <1>10, <2>2
    <3>2. QED
      BY <1>6, <1>10, <1>11, <3>1
  <2>3. QED
    BY <1>6, <2>1, <2>2
=============================================================================
