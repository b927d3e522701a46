------------------------------- MODULE MCLists -------------------------------
(***************************************************************************)
(* Three rows, pages of at most two, ints of five bits: -16..15.            *)
(***************************************************************************)
EXTENDS Lists

Rows3       == 1..3
TwoScores   == {1, 2}
Sizes       == [l \in AllLists |-> IF l = "beans" THEN 1 ELSE 2]
ClientTexts == {-16, 0, 1, 2, 3, 9, 10, 15}

\* The second note is liked most, whatever its score.
SecondLiked == [x \in Rows3 |-> IF x = 2 THEN 1 ELSE 0]
=============================================================================
