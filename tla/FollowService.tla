---------------------------- MODULE FollowService ----------------------------
(***************************************************************************)
(* Follows: handler/follow_handler.go over service/follow_service.go over  *)
(* repository/user_follow_repository.go.  Nobody looks the users up, and   *)
(* user_follows has no foreign key in either schema.                       *)
(***************************************************************************)
EXTENDS DirectoryState

Follow(r, c, t) ==
  /\ c.op = "Follow"
  /\ \/ ~c.ok /\ Reject(r, c, t, 400)
     \/ c.ok /\ c.id = t.id /\ Reject(r, c, t, 422)
     \/ c.ok /\ c.id # t.id /\ Enter(r, c, t, "insert", Absent)

\* Mutant: ON CONFLICT DO NOTHING, answered as if the row were new.
MutInsertFollow(r) ==
  /\ At(r, "Follow", "insert")
  /\ follows' = follows \cup {<<req[r].as.id, req[r].call.id>>}
  /\ Written(r, 201)

\* The pair is the primary key.
InsertFollow(r) ==
  /\ At(r, "Follow", "insert")
  /\ LET pair == <<req[r].as.id, req[r].call.id>> IN
       \/ pair \in follows /\ Answer(r, 409) /\ UNCHANGED follows
       \/ pair \notin follows /\ follows' = follows \cup {pair} /\ Written(r, 201)

Unfollow(r, c, t) ==
  /\ c.op = "Unfollow"
  /\ \/ ~c.ok /\ Reject(r, c, t, 400)
     \/ c.ok /\ Enter(r, c, t, "delete", Absent)

\* Mutant: RowsAffected is not looked at.
MutDeleteFollow(r) ==
  /\ At(r, "Unfollow", "delete")
  /\ LET pair == <<req[r].as.id, req[r].call.id>> IN
       /\ follows' = follows \ {pair}
       /\ \E s \in Outcomes(200) : Finish(r, s, pair \in follows)

DeleteFollow(r) ==
  /\ At(r, "Unfollow", "delete")
  /\ LET pair == <<req[r].as.id, req[r].call.id>> IN
       \/ pair \notin follows /\ Answer(r, 404) /\ UNCHANGED follows
       \/ pair \in follows /\ follows' = follows \ {pair} /\ Written(r, 200)

FollowArrival(r, c, t) == Follow(r, c, t) \/ Unfollow(r, c, t)
FollowProgress(r)      == InsertFollow(r) \/ DeleteFollow(r)
=============================================================================
