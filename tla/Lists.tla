-------------------------------- MODULE Lists --------------------------------
(***************************************************************************)
(* GET /notes, /beans and /recipes: a client reads a list page by page     *)
(* while other requests write to the table.  A page is two statements, a   *)
(* COUNT and a SELECT with OFFSET and LIMIT, with no transaction around    *)
(* them.  One client is enough: readers do not disturb one another.        *)
(***************************************************************************)
EXTENDS Integers, FiniteSets, Sequences

CONSTANTS
  RowIds,       \* ids of rows, whether they are in the table or not
  Scores,       \* overall scores
  Width,        \* bits of an int: 64 on the server
  MaxSize,      \* the longest page: 100
  DefaultSize,  \* per list, the page length when none or a bad one is asked
  Texts,        \* what Atoi makes of the page and page_size clients send
  LikeCount,    \* likes of each row, had the code looked: HotByLikesOrRecency
  Absent        \* no row, or one that does not pass the filter

VARIABLES
  list,         \* which list the client reads, with which sort
  rows,         \* the rows that pass its filter
  pc, page, size, total, items,   \* the request under way, then its answer
  walk          \* history of a reading that began at page 1: see Walk

vars == <<list, rows, pc, page, size, total, items, walk>>

AllLists == {"new", "hot", "beans", "recipes"}
MaxInt   == 2 ^ (Width - 1) - 1
Listed   == {x \in RowIds : rows[x] # Absent}

\* seen, twice: rows shown so far, and more than once; stayed: rows that were
\* in the list ever since and never moved up in it; sunk: rows that came into
\* the list or moved down in it; torn: a row came in after the last COUNT.
Walk == [on : BOOLEAN, seen : SUBSET RowIds, twice : SUBSET RowIds,
         stayed : SUBSET RowIds, sunk : SUBSET RowIds, torn : BOOLEAN]
NoWalk == [on |-> FALSE, seen |-> {}, twice |-> {}, stayed |-> {}, sunk |-> {},
           torn |-> FALSE]

\* Atoi gives 0 for no number and the nearest int for one out of range.
ASSUME ListsAssumption ==
  /\ RowIds \subseteq Nat /\ IsFiniteSet(RowIds) /\ Cardinality(RowIds) <= MaxInt
  /\ Scores \subseteq Int /\ Scores # {}
  /\ Width \in Nat /\ Width > 1
  /\ MaxSize \in Nat
  /\ DefaultSize \in [AllLists -> 1..MaxSize]
  /\ Texts \subseteq (-MaxInt - 1)..MaxInt
  /\ LikeCount \in [RowIds -> Nat]

(***************************************************************************)
(* The numbers.                                                            *)
(***************************************************************************)
Wrapped(n) == LET m == n % 2 ^ Width IN IF m > MaxInt THEN m - 2 ^ Width ELSE m

PageOf(text) == IF text < 1 THEN 1 ELSE text

\* Mutant: page_size is not bounded from above.
MutSizeOf(text) == IF text < 1 THEN DefaultSize[list] ELSE text

SizeOf(text) == IF text < 1 \/ text > MaxSize THEN DefaultSize[list] ELSE text

\* Mutant: pages are counted from 0.
MutOffset(p, s) == Wrapped(p * s)

Offset(p, s) == Wrapped((p - 1) * s)

(***************************************************************************)
(* The statements.                                                         *)
(***************************************************************************)
\* ORDER BY of the three repositories.
Before(x, y) ==
  CASE list = "beans" -> x < y
    [] list \in {"new", "recipes"} -> x > y
    [] list = "hot" -> rows[x] > rows[y] \/ (rows[x] = rows[y] /\ x > y)

Sorted == CHOOSE s \in [1..Cardinality(Listed) -> Listed] :
            \A i, j \in DOMAIN s : i < j => Before(s[i], s[j])

\* gorm leaves an OFFSET out that is not above 0: a product that wrapped
\* around to a negative int selects the first page.
Select(p, s) ==
  LET from == IF Offset(p, s) > 0 THEN Offset(p, s) ELSE 0
      left == Cardinality(Listed) - from
  IN [i \in 1..(IF s < left THEN s ELSE left) |-> Sorted[from + i]]

\* Only the hot list looks at the scores.
Rated == IF list = "hot" THEN Scores ELSE {CHOOSE v \in Scores : TRUE}

Init ==
  /\ list \in AllLists
  /\ rows \in [RowIds -> Rated \cup {Absent}]
  /\ pc = "idle" /\ page = 1 /\ size = 1 /\ total = 0 /\ items = <<>>
  /\ walk = NoWalk

\* A first request.
Ask ==
  /\ pc = "idle"
  /\ pc' = "count"
  /\ \E p, s \in Texts :
       /\ page' = PageOf(p)
       /\ size' = SizeOf(s)
       /\ walk' = [NoWalk EXCEPT !.on = PageOf(p) = 1, !.stayed = Listed]
  /\ UNCHANGED <<list, rows, total, items>>

\* Mutant: the page is cut before it is counted.
MutCount ==
  /\ pc = "count"
  /\ pc' = "select"
  /\ total' = Len(Select(page, size))
  /\ UNCHANGED <<list, rows, page, size, items, walk>>

Count ==
  /\ pc = "count"
  /\ pc' = "select"
  /\ total' = Cardinality(Listed)
  /\ UNCHANGED <<list, rows, page, size, items, walk>>

Shown(s) == {s[i] : i \in DOMAIN s}

Fetch ==
  /\ pc = "select"
  /\ pc' = "answered"
  /\ items' = Select(page, size)
  /\ walk' = IF walk.on
             THEN [walk EXCEPT !.seen = @ \cup Shown(items'),
                               !.twice = @ \cup (walk.seen \cap Shown(items'))]
             ELSE walk
  /\ UNCHANGED <<list, rows, page, size, total>>

\* The pager offers a next page of the same size as long as total says there
\* is one.
More == page * size < total

Turn ==
  /\ pc = "answered"
  /\ walk.on
  /\ More
  /\ pc' = "count"
  /\ page' = page + 1
  /\ total' = 0 /\ items' = <<>>
  /\ walk' = [walk EXCEPT !.torn = FALSE]
  /\ UNCHANGED <<list, rows, size>>

\* The client turns to something else, or a statement failed: 500.
Leave ==
  /\ pc # "idle"
  /\ pc' = "idle"
  /\ page' = 1 /\ size' = 1 /\ total' = 0 /\ items' = <<>>
  /\ walk' = NoWalk
  /\ UNCHANGED <<list, rows>>

Rank(x) == 1 + Cardinality({y \in Listed : Before(y, x)})

\* Another request writes row x: created or inserted again by Save, its score
\* or what the filter looks at changed, or deleted.
Write(x) ==
  /\ \E v \in (Rated \cup {Absent}) \ {rows[x]} : rows' = [rows EXCEPT ![x] = v]
  /\ UNCHANGED <<list, pc, page, size, total, items>>
  /\ walk' =
       IF ~walk.on THEN walk
       ELSE LET kept == Listed \cap Listed' IN
            [walk EXCEPT
               !.stayed = @ \cap {y \in kept : Rank(y)' >= Rank(y)},
               !.sunk = @ \cup (Listed' \ Listed) \cup {y \in kept : Rank(y)' > Rank(y)},
               !.torn = @ \/ (pc = "select" /\ rows[x] = Absent)]

Next == Ask \/ Count \/ Fetch \/ Turn \/ Leave \/ \E x \in RowIds : Write(x)

Spec == Init /\ [][Next]_vars

-----------------------------------------------------------------------------
(***************************************************************************)
(* Properties.                                                             *)
(***************************************************************************)
\* Types, and the numbers a request is made with: page from 1, size from 1 to
\* MaxSize whatever was sent (note_handler.go, bean_handler.go List).
ListsTypeOK ==
  /\ list \in AllLists
  /\ rows \in [RowIds -> Scores \cup {Absent}]
  /\ pc \in {"idle", "count", "select", "answered"}
  /\ page \in 1..MaxInt /\ size \in 1..MaxSize
  /\ total \in 0..Cardinality(RowIds)
  /\ items \in Seq(RowIds)
  /\ walk \in Walk

\* An answered page is a window of the list, item by item and no row too few,
\* and the one the client asked for whenever (page - 1) * size fits an int; for
\* a page number so large that the product wraps around it is a window from
\* somewhere else in the list (the Offset and Limit of the three List queries).
PageIsTheWindow ==
  [][pc = "select" /\ pc' = "answered" =>
       \E from \in 0..MaxInt :
         /\ (page - 1) * size <= MaxInt => from = (page - 1) * size
         /\ \A i \in DOMAIN items' : Rank(items'[i]) = from + i
         /\ \A x \in Listed :
              Rank(x) \in from + 1 .. from + size => x \in Shown(items')]_vars

\* Who turns pages until the pager offers no more has seen every row that was
\* there all along and never moved up, unless one came in between the last
\* page's COUNT and its SELECT; and none twice that did not come in or move
\* down meanwhile (the OFFSET pages of the three List queries).
WalkShowsAllOnce ==
  /\ walk.on /\ pc = "answered" /\ ~More /\ ~walk.torn => walk.stayed \subseteq walk.seen
  /\ walk.twice \subseteq walk.sunk

-----------------------------------------------------------------------------
(***************************************************************************)
(* What the repository says and the code does not do.                      *)
(***************************************************************************)
Descending(key) == \A i, j \in DOMAIN items : i < j => key[items[i]] >= key[items[j]]

\* "List filters notes by roast/origin/keyword, ordered by like count or
\* recency" (tasting_note_repository.go:42): a page of hot notes has the most
\* liked, or else the latest, first.
HotByLikesOrRecency ==
  list = "hot" /\ pc = "answered" =>
    Descending(LikeCount) \/ Descending([x \in RowIds |-> x])
=============================================================================
