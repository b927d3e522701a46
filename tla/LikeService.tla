----------------------------- MODULE LikeService -----------------------------
(***************************************************************************)
(* Likes: handler/like_handler.go over service/like_service.go over        *)
(* repository/like_repository.go, one action per statement.                *)
(***************************************************************************)
EXTENDS CommunityState

\* The likes of a (user, note) pair; the unique index keeps at most one.
LikesBy(u, n) == {l \in LikeIds : likes[l] # Absent /\ likes[l].user = u
                                                    /\ likes[l].note = n}

(***************************************************************************)
(* POST /notes/:id/like: look the note up, then insert.                    *)
(***************************************************************************)
Like(r, c) ==
  /\ c.op = "Like"
  /\ likeSeq + Cardinality(Inserting("Like")) < MaxLikes
  /\ \/ ~c.ok /\ Reject(r, c, 400)
     \/ c.ok /\ Enter(r, c, "find", Absent)
  /\ UNCHANGED <<noteVars, commentVars, likeVars>>

FindNoteToLike(r) ==
  /\ At(r, "Like", "find")
  /\ \/ notes[req[r].call.id] = Absent /\ Answer(r, 404)
     \/ notes[req[r].call.id] # Absent /\ Goto(r, "insert")
  /\ UNCHANGED <<noteVars, commentVars, likeVars>>

\* Mutant: the unique index of (user_id, note_id) is missing.
MutInsertLikeTwice(r) ==
  /\ At(r, "Like", "insert")
  /\ likeSeq < MaxLikes
  /\ likeSeq' = likeSeq + 1
  /\ likes' = [likes EXCEPT ![likeSeq + 1] =
                 [user |-> req[r].call.user, note |-> req[r].call.id]]
  /\ Written(r, 201)
  /\ UNCHANGED <<noteVars, commentVars>>

\* No foreign key in either schema: a like of a note deleted since the lookup
\* goes in.  The unique index is what refuses a second like, whose id is used
\* up with it.
InsertLike(r) ==
  /\ At(r, "Like", "insert")
  /\ likeSeq < MaxLikes
  /\ likeSeq' = likeSeq + 1
  /\ LET c == req[r].call IN
       \/ /\ LikesBy(c.user, c.id) # {}
          /\ Answer(r, 409)
          /\ UNCHANGED likes
       \/ /\ LikesBy(c.user, c.id) = {}
          /\ likes' = [likes EXCEPT ![likeSeq + 1] =
                         [user |-> c.user, note |-> c.id]]
          /\ Written(r, 201)
  /\ UNCHANGED <<noteVars, commentVars>>

(***************************************************************************)
(* DELETE /notes/:id/like: find the caller's like, then delete it by id.   *)
(***************************************************************************)
Unlike(r, c) ==
  /\ c.op = "Unlike"
  /\ \/ ~c.ok /\ Reject(r, c, 400)
     \/ c.ok /\ Enter(r, c, "find", Absent)
  /\ UNCHANGED <<noteVars, commentVars, likeVars>>

\* Mutant: the like is looked up by note alone.
MutFindLikeOfAnyone(r) ==
  /\ At(r, "Unlike", "find")
  /\ \E l \in LikeIds :
       /\ likes[l] # Absent /\ likes[l].note = req[r].call.id
       /\ req' = [req EXCEPT ![r] = [@ EXCEPT !.pc = "delete", !.like = l]]
  /\ UNCHANGED <<noteVars, commentVars, likeVars>>

FindLike(r) ==
  /\ At(r, "Unlike", "find")
  /\ LET c == req[r].call IN
       \/ LikesBy(c.user, c.id) = {} /\ Answer(r, 404)
       \/ \E l \in LikesBy(c.user, c.id) :
            req' = [req EXCEPT ![r] = [@ EXCEPT !.pc = "delete", !.like = l]]
  /\ UNCHANGED <<noteVars, commentVars, likeVars>>

\* Mutant: the like is deleted by user and note, not by the id found.
MutDeleteLikeByPair(r) ==
  /\ At(r, "Unlike", "delete")
  /\ likes' = [l \in LikeIds |->
       IF l \in LikesBy(req[r].call.user, req[r].call.id) THEN Absent ELSE likes[l]]
  /\ Written(r, 200)
  /\ UNCHANGED <<likeSeq, noteVars, commentVars>>

\* RowsAffected is not looked at: the answer is 200 even when another request
\* removed the row in between.
DeleteLike(r) ==
  /\ At(r, "Unlike", "delete")
  /\ likes' = [likes EXCEPT ![req[r].like] = Absent]
  /\ \E s \in Outcomes(200) : Finish(r, s, likes[req[r].like] # Absent)
  /\ UNCHANGED <<likeSeq, noteVars, commentVars>>

\* A statement fails before it took effect (one that fails after is in
\* Written).  Whatever the error of the note lookup is, the service answers
\* 404; every other error is answered 500.
LikeStatementFails(r) ==
  /\ Faults
  /\ req[r].pc \in Statements /\ req[r].call.op \in LikeOps
  /\ Answer(r, IF At(r, "Like", "find") THEN 404 ELSE 500)
  /\ UNCHANGED <<noteVars, commentVars, likeVars>>

LikeArrival(r, c) == Like(r, c) \/ Unlike(r, c)

LikeProgress(r) ==
  \/ FindNoteToLike(r) \/ InsertLike(r)
  \/ FindLike(r)       \/ DeleteLike(r)
=============================================================================
