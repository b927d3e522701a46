--------------------------- MODULE CommentService ---------------------------
(***************************************************************************)
(* Comments: handler/comment_handler.go over service/comment_service.go    *)
(* over repository/comment_repository.go, one action per statement.        *)
(***************************************************************************)
EXTENDS CommunityState

(***************************************************************************)
(* POST /notes/:id/comments: look the note up, then insert.                *)
(***************************************************************************)
AddComment(r, c) ==
  /\ c.op = "AddComment"
  /\ commentSeq + Cardinality(Inserting("AddComment")) < MaxComments
  /\ \/ ~c.ok /\ Reject(r, c, 400)
     \/ c.ok /\ Enter(r, c, "find", Absent)
  /\ UNCHANGED <<noteVars, commentVars, likeVars>>

\* Mutant: the note is not looked up.
MutFindNoteToCommentNot(r) ==
  /\ At(r, "AddComment", "find")
  /\ Goto(r, "insert")
  /\ UNCHANGED <<noteVars, commentVars, likeVars>>

FindNoteToComment(r) ==
  /\ At(r, "AddComment", "find")
  /\ \/ notes[req[r].call.id] = Absent /\ Answer(r, 404)
     \/ notes[req[r].call.id] # Absent /\ Goto(r, "insert")
  /\ UNCHANGED <<noteVars, commentVars, likeVars>>

\* The note may be gone by now: the foreign key, where there is one, refuses
\* the row, whose id is used up with it, and the service has no answer for
\* that but 500.
InsertComment(r) ==
  /\ At(r, "AddComment", "insert")
  /\ commentSeq < MaxComments
  /\ commentSeq' = commentSeq + 1
  /\ LET c == req[r].call IN
       \/ /\ CommentFK /\ notes[c.id] = Absent
          /\ Answer(r, 500)
          /\ UNCHANGED comments
       \/ /\ ~CommentFK \/ notes[c.id] # Absent
          /\ comments' = [comments EXCEPT ![commentSeq + 1] =
                            [user |-> c.user, note |-> c.id]]
          /\ Written(r, 201)
  /\ UNCHANGED <<removals, noteVars, likeVars>>

(***************************************************************************)
(* DELETE /comments/:id                                                    *)
(***************************************************************************)
DeleteComment(r, c) ==
  /\ c.op = "DeleteComment"
  /\ \/ ~c.ok /\ Reject(r, c, 400)
     \/ c.ok /\ Enter(r, c, "find", Absent)
  /\ UNCHANGED <<noteVars, commentVars, likeVars>>

FindCommentToDelete(r) ==
  /\ At(r, "DeleteComment", "find")
  /\ LET c == req[r].call  row == comments[c.id] IN
       \/ row = Absent /\ Answer(r, 404)
       \/ row # Absent /\ row.user # c.user /\ Answer(r, 403)
       \/ row # Absent /\ row.user = c.user /\ Goto(r, "delete")
  /\ UNCHANGED <<noteVars, commentVars, likeVars>>

\* Mutant: RowsAffected is not looked at.
MutDeleteCommentRowUnchecked(r) ==
  /\ At(r, "DeleteComment", "delete")
  /\ comments' = [comments EXCEPT ![req[r].call.id] = Absent]
  /\ removals' = [removals EXCEPT ![req[r].call.id] = @ + 1]
  /\ Written(r, 200)
  /\ UNCHANGED <<commentSeq, noteVars, likeVars>>

\* The repository turns "no row deleted" into ErrNotFound, which the service
\* wraps: the second of two deletes that overlap is answered 500.
DeleteCommentRow(r) ==
  /\ At(r, "DeleteComment", "delete")
  /\ LET k == req[r].call.id IN
       \/ /\ comments[k] = Absent
          /\ Answer(r, 500)
          /\ UNCHANGED commentVars
       \/ /\ comments[k] # Absent
          /\ comments' = [comments EXCEPT ![k] = Absent]
          /\ removals' = [removals EXCEPT ![k] = @ + 1]
          /\ Written(r, 200)
          /\ UNCHANGED commentSeq
  /\ UNCHANGED <<noteVars, likeVars>>

\* A statement fails before it took effect (one that fails after is in
\* Written).  Whatever the error of the note lookup is, the service answers
\* 404; every other error is answered 500.
CommentStatementFails(r) ==
  /\ Faults
  /\ req[r].pc \in Statements /\ req[r].call.op \in CommentOps
  /\ Answer(r, IF At(r, "AddComment", "find") THEN 404 ELSE 500)
  /\ UNCHANGED <<noteVars, commentVars, likeVars>>

CommentArrival(r, c) == AddComment(r, c) \/ DeleteComment(r, c)

CommentProgress(r) ==
  \/ FindNoteToComment(r)   \/ InsertComment(r)
  \/ FindCommentToDelete(r) \/ DeleteCommentRow(r)
=============================================================================
