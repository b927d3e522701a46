----------------------------- MODULE MCCommunity -----------------------------
(***************************************************************************)
(* Workloads for TLC.  Each is a small set of requests chosen so that the  *)
(* races of one part of the community happen; users and slots are model    *)
(* values, and slots are permuted where no liveness property is checked.   *)
(***************************************************************************)
EXTENDS CommunityBoard, TLC

CONSTANTS ann, bob, r1, r2, r3

TwoUsers  == {ann, bob}
TwoReqs   == {r1, r2}
ThreeReqs == {r1, r2, r3}
Symmetry  == Permutations(Reqs)

Plain   == [roast |-> "light", tags |-> "", aroma |-> 1, overall |-> 1, image |-> "a.png"]
Unrated == [roast |-> "dark", tags |-> "[a]", aroma |-> 3, overall |-> 0, image |-> "b.png"]
Rated   == [roast |-> "dark", tags |-> "[a]", aroma |-> 2, overall |-> 2, image |-> ""]
Burnt   == [Plain EXCEPT !.roast = "burnt"]
NotJson == [Plain EXCEPT !.tags = "nutty"]

Ask(op, u, id, b) == [op |-> op, user |-> u, id |-> id, ok |-> TRUE, body |-> b]
Bad(op, u, id)    == [Ask(op, u, id, Plain) EXCEPT !.ok = FALSE]

\* Both users write and delete the notes of either, and one comments on them.
\* The other sends what the handlers, the service and the database turn away.
NoteCalls ==
  {Ask("CreateNote", u, 1, b) : u \in Users, b \in {Plain, Unrated}}
  \cup {Ask("UpdateNote", u, n, b) : u \in Users, n \in NoteIds, b \in {Rated, Unrated}}
  \cup {Ask("DeleteNote", u, n, Plain) : u \in Users, n \in NoteIds}
  \cup {Ask("AddComment", bob, n, Plain) : n \in NoteIds}
  \cup {Ask(op, ann, 1, b) : op \in {"CreateNote", "UpdateNote"}, b \in {Burnt, NotJson}}
  \cup {Bad(op, ann, 1) : op \in NoteOps \cup CommentOps}

\* Comments and likes given, taken back and given again, on a note that is
\* edited and may go away.
TalkCalls ==
  {Ask("CreateNote", ann, 1, Plain), Ask("UpdateNote", ann, 1, Rated),
   Ask("DeleteNote", ann, 1, Plain), Ask("GetNote", bob, 1, Plain),
   Ask("AddComment", bob, 1, Plain)}
  \cup {Ask(op, u, 1, Plain) : op \in {"DeleteComment", "Like", "Unlike"}, u \in Users}
  \cup {Bad(op, ann, 1) : op \in LikeOps}
=============================================================================
