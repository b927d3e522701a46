--------------------------- MODULE CommunityBoard ---------------------------
(***************************************************************************)
(* The services implement the like board.  The marks on the board are the  *)
(* rows of the likes table, ids aside; a call to Like or Unlike is its     *)
(* request slot; an unlike between its two statements has "seen" the like  *)
(* as long as the id it found is still in the table.                       *)
(***************************************************************************)
EXTENDS Community

BoardOf == {likes[l] : l \in LikeIds} \ {Absent}

PhaseOf(s) ==
  IF s.pc = "done" THEN "done"
  ELSE IF s.pc # "delete" THEN "open"
  ELSE IF likes[s.like] # Absent THEN "seen" ELSE "moot"

\* What the status of an answered call tells the caller about the like.
ToldOf(s) ==
  IF s.pc # "done" THEN "pending"
  ELSE IF s.status = 201 THEN "added"
  ELSE IF s.status = 200 THEN "removed"
  ELSE IF s.status = 409 THEN "present"
  ELSE IF s.status = 404 /\ s.call.op = "Unlike" THEN "absent"
  ELSE "none"

BoardCall(s) ==
  IF s.pc = "idle" \/ s.call.op \notin LikeOps THEN Absent
  ELSE [op |-> s.call.op, mark |-> [user |-> s.call.user, note |-> s.call.id],
        phase |-> PhaseOf(s), told |-> ToldOf(s)]

\* A free slot's mark is no call.
ASSUME BoardAssumption ==
  Absent \notin [op : LikeOps, mark : LikeRow,
                 phase : {"open", "seen", "moot", "done"},
                 told : {"added", "present", "removed", "absent", "none", "pending"}]

Board == INSTANCE LikeBoard WITH
  Callers <- Reqs, Marks <- LikeRow, Free <- Absent,
  board <- BoardOf, call <- [r \in Reqs |-> BoardCall(req[r])]

\* Every behaviour of the services, seen through the mapping, is one of the
\* like board: a like answered 201 was not there and now is, 409 and 404 are
\* told only of what was so, and an unlike overtaken by another never takes
\* away the like its user gave again (like_service.go Like, Unlike).
\* A 500 leaves the caller unsure, but the call has taken effect once or not
\* at all.
ImplementsBoard == Board!BoardSpec
=============================================================================
