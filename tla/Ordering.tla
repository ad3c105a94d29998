------------------------------- MODULE Ordering -------------------------------
(***************************************************************************)
(* What SELECT ... ORDER BY ... LIMIT returns of a set of rows.  The order *)
(* is given as a relation on the rows, total when the query names a key    *)
(* that tells the rows apart.                                              *)
(***************************************************************************)
EXTENDS Integers, FiniteSets, Sequences

TotalOrder(R, S) ==
  /\ \A a \in S : <<a, a>> \notin R
  /\ \A a, b \in S : a # b => <<a, b>> \in R \/ <<b, a>> \in R
  /\ \A a, b, c \in S : <<a, b>> \in R /\ <<b, c>> \in R => <<a, c>> \in R

\* How many rows come before a row.
Rank(S, R, x) == Cardinality({y \in S : <<y, x>> \in R})

\* ORDER BY: the i-th row is the one that i - 1 others come before.
OrderedBy(S, R) == [i \in 1..Cardinality(S) |-> CHOOSE x \in S : Rank(S, R, x) = i - 1]

\* LIMIT: the first n rows.
FirstRows(S, R, n) == SubSeq(OrderedBy(S, R), 1, IF Cardinality(S) < n THEN Cardinality(S) ELSE n)

\* page: one look-ahead row says there is more; the cursor is the last row returned.
NextPage(rows, limit) ==
  IF Len(rows) > limit THEN [rows |-> SubSeq(rows, 1, limit), next |-> rows[limit]]
                       ELSE [rows |-> rows, next |-> <<>>]

\* The rows a client has that follows the cursors, for n pages or to the end;
\* page[c] is the page after cursor c.
Walk(page, n) ==
  LET turn[k \in 0..n] ==
        IF k = 0 THEN [rows |-> <<>>, after |-> <<>>, end |-> FALSE]
        ELSE IF turn[k - 1].end THEN turn[k - 1]
        ELSE [rows |-> turn[k - 1].rows \o page[turn[k - 1].after].rows,
              after |-> page[turn[k - 1].after].next,
              end |-> page[turn[k - 1].after].next = <<>>]
  IN turn[n].rows
=============================================================================
