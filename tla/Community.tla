------------------------------ MODULE Community ------------------------------
(***************************************************************************)
(* The note, comment and like services over one database, serving          *)
(* concurrent requests.                                                    *)
(***************************************************************************)
EXTENDS NoteService, CommentService, LikeService

Init ==
  /\ notes = [n \in NoteIds |-> Absent]       /\ noteSeq = 0
  /\ comments = [k \in CommentIds |-> Absent] /\ commentSeq = 0
  /\ likes = [l \in LikeIds |-> Absent]       /\ likeSeq = 0
  /\ req = [r \in Reqs |-> Idle]
  /\ born = [n \in NoteIds |-> Absent]
  /\ erased = {}
  /\ removals = [k \in CommentIds |-> 0]

Arrive(r) ==
  \E c \in Calls : NoteArrival(r, c) \/ CommentArrival(r, c) \/ LikeArrival(r, c)

Progress(r) == NoteProgress(r) \/ CommentProgress(r) \/ LikeProgress(r)

\* The answer reaches the client and the goroutine ends.
Reply(r) ==
  /\ req[r].pc = "done"
  /\ req' = [req EXCEPT ![r] = Idle]
  /\ UNCHANGED <<noteVars, commentVars, likeVars>>

StatementFails(r) ==
  NoteStatementFails(r) \/ CommentStatementFails(r) \/ LikeStatementFails(r)

\* The process dies between two statements and is started again: what is in
\* memory is gone, the tables stay.
Restart ==
  /\ Faults
  /\ req # [r \in Reqs |-> Idle]
  /\ req' = [r \in Reqs |-> Idle]
  /\ UNCHANGED <<noteVars, commentVars, likeVars>>

Next ==
  \/ \E r \in Reqs : Arrive(r) \/ Progress(r) \/ Reply(r) \/ StatementFails(r)
  \/ Restart

\* Go schedules every goroutine and Postgres ends every statement (no
\* statement waits on a lock held across statements), so a request that has a
\* step to take takes it.  Clients owe nothing: no fairness on Arrive.
Fairness == \A r \in Reqs : WF_vars(Progress(r) \/ Reply(r))

Spec == Init /\ [][Next]_vars /\ Fairness

-----------------------------------------------------------------------------
(***************************************************************************)
(* Safety.                                                                 *)
(***************************************************************************)
\* Types: every table holds rows under its ids, every slot is a request.
TablesOK ==
  /\ notes \in [NoteIds -> NoteRow \cup {Absent}]
  /\ comments \in [CommentIds -> CommentRow \cup {Absent}]
  /\ likes \in [LikeIds -> LikeRow \cup {Absent}]
  /\ noteSeq \in 0..MaxNotes
  /\ commentSeq \in 0..MaxComments
  /\ likeSeq \in 0..MaxLikes
  /\ born \in [NoteIds -> BirthRow \cup {Absent}]
  /\ erased \subseteq NoteIds
  /\ removals \in [CommentIds -> Nat]

TypeOK == TablesOK /\ req \in [Reqs -> Slot]

\* A note keeps for life the owner and the photo it was created with, through
\* every interleaving of full-row saves, deletes and the rows that gorm's
\* Save inserts again (note_service.go Update, note_handler.go Update).
OwnerPinned ==
  \A n \in NoteIds : notes[n] # Absent =>
    /\ born[n] # Absent
    /\ notes[n].user = born[n].user
    /\ notes[n].image = born[n].image

\* Why OwnerPinned is inductive: nothing is stored or born above the sequence,
\* and a copy of a row an update still holds bears the same owner and photo,
\* even when the row itself is gone by now.
Saving(r) == At(r, "UpdateNote", "save") \/ At(r, "UpdateNote", "upsert")

BornBySequence ==
  \A n \in NoteIds : /\ n > noteSeq => notes[n] = Absent
                     /\ n <= noteSeq => born[n] # Absent

HeldRowsPinned ==
  \A r \in Reqs : Saving(r) =>
    LET n == req[r].call.id IN
      /\ n <= noteSeq
      /\ req[r].row # Absent
      /\ req[r].row.user = born[n].user
      /\ req[r].row.image = born[n].image

\* The scores of a stored note all come from one request: a patch takes all
\* of them or none, and a stale full-row save puts back a whole old set, never
\* a mixture (note_service.go Update, lines 83-88).
ScoresTogether ==
  \A n \in NoteIds : notes[n] # Absent =>
    \E c \in Calls : /\ notes[n].aroma = c.body.aroma
                     /\ notes[n].overall = c.body.overall

\* Only a request of its owner changes or removes a note, even when that
\* request checked the owner long before it writes (note_service.go Update,
\* Delete).
OnlyOwnerWrites ==
  [][\A n \in NoteIds : notes[n] # Absent /\ notes'[n] # notes[n] =>
       \E r \in Reqs : /\ req[r].pc \in {"save", "upsert", "delete"}
                       /\ req[r].call.op \in NoteOps
                       /\ req[r].call.id = n
                       /\ req[r].call.user = notes[n].user
                       /\ req'[r].status \in Outcomes(200)]_vars

\* A deleted note can come back only out of the memory of an update that was
\* already under way: once no request holds a copy of the row, the id is free
\* for ever (tasting_note_repository.go Update, Delete).
HeldBy(n) == {r \in Reqs : Saving(r) /\ req[r].call.id = n}

GoneForGood ==
  [][\A n \in 1..noteSeq :
       notes[n] = Absent /\ HeldBy(n) = {} => notes'[n] = Absent]_vars

\* What the client is told is what happened, as far as the server can know:
\* a request refused for a reason of its own (4xx) changed no table, one
\* answered 500 changed one only if the outcome of its statement got lost, and
\* one answered 200 or 201 did change one, but for reads and for an unlike that
\* another unlike overtook (the order of checks and writes in the three
\* services; RowsAffected in Delete).
AnswerTellsEffect ==
  \A r \in Reqs : req[r].pc = "done" =>
    /\ req[r].wrote => req[r].status \in {200, 201} \cup {s \in {500} : Faults}
    /\ req[r].status \in {200, 201} =>
         req[r].wrote \/ req[r].call.op \in {"GetNote", "Unlike"}

\* Comments and likes point at notes that exist or once did, never at an id
\* not handed out yet, which a later note would inherit them with
\* (comment_service.go Create, like_service.go Like: the lookup).
RefsWereCreated ==
  /\ \A k \in CommentIds : comments[k] # Absent => comments[k].note \in 1..noteSeq
  /\ \A l \in LikeIds : likes[l] # Absent => likes[l].note \in 1..noteSeq

\* However many deletes of a comment overlap, one is told it removed it
\* (comment_repository.go Delete: RowsAffected).
RemovedOnce == \A k \in CommentIds : removals[k] <= 1

\* Only the user who gave a like takes it back: a like disappears in a step
\* that answers an Unlike of that user for that note, although Delete goes by
\* the like's id alone (like_service.go Unlike).
OnlyLikerUnlikes ==
  [][\A l \in LikeIds : likes[l] # Absent /\ likes'[l] # likes[l] =>
       \E r \in Reqs : /\ At(r, "Unlike", "delete")
                       /\ req[r].call.user = likes[l].user
                       /\ req[r].call.id = likes[l].note
                       /\ req'[r].status \in Outcomes(200)]_vars

-----------------------------------------------------------------------------
(***************************************************************************)
(* Liveness: no request is stuck; its slot comes free again whatever the   *)
(* other requests do, the two-statement save included.                     *)
(***************************************************************************)
EveryRequestEnds ==
  \A r \in Reqs : req[r].pc # "idle" ~> req[r].pc = "idle"

-----------------------------------------------------------------------------
(***************************************************************************)
(* What the repository says and the code does not do.                      *)
(***************************************************************************)
\* "Delete removes a note owned by the user" (note_service.go:96): once that
\* is answered 200, the note stays away.
ErasedStayErased == \A n \in erased : notes[n] = Absent

\* "Delete one's own notes" (README.md:126): while the statements themselves
\* succeed, an owner whose note is there when the DELETE is sent is not
\* refused.
OwnerCanDelete ==
  [][\A r \in Reqs :
       /\ At(r, "DeleteNote", "delete")
       /\ notes[req[r].call.id] # Absent
       /\ req'[r].pc = "done"
       => req'[r].status = 200]_vars
=============================================================================
