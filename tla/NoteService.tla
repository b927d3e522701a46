----------------------------- MODULE NoteService -----------------------------
(***************************************************************************)
(* Tasting notes: handler/note_handler.go over service/note_service.go     *)
(* over repository/tasting_note_repository.go, one action per statement.   *)
(***************************************************************************)
EXTENDS CommunityState

(***************************************************************************)
(* What the code computes in memory.                                       *)
(***************************************************************************)
\* Mutant: Create forgets the default of flavor_tags.
MutNewNoteRawTags(c) ==
  [user |-> c.user, roast |-> c.body.roast, tags |-> c.body.tags,
   aroma |-> c.body.aroma, overall |-> c.body.overall,
   image |-> c.body.image]

\* The row POST /notes inserts: the caller owns it, and an empty flavor_tags
\* becomes the empty JSON list.
NewNote(c) ==
  [user |-> c.user, roast |-> c.body.roast,
   tags |-> IF c.body.tags = "" THEN "[]" ELSE c.body.tags,
   aroma |-> c.body.aroma, overall |-> c.body.overall,
   image |-> c.body.image]

\* Mutant: the patch takes the photo along, empty or not.
MutPatchedImage(row, b) ==
  [row EXCEPT !.roast = b.roast, !.image = b.image,
     !.aroma   = IF b.overall > 0 THEN b.aroma ELSE @,
     !.overall = IF b.overall > 0 THEN b.overall ELSE @]

\* Mutant: each score is patched on its own, when it is set.
MutPatchedScores(row, b) ==
  [row EXCEPT !.roast = b.roast,
     !.aroma   = IF b.aroma > 0 THEN b.aroma ELSE @,
     !.overall = IF b.overall > 0 THEN b.overall ELSE @]

\* The row PUT /notes/:id saves: the row it read, with the fields the handler
\* passes on laid over it.  The handler passes on no brew method, recipe or
\* image; the four scores go together, and only when there is an overall one.
Patched(row, b) ==
  [row EXCEPT
     !.roast   = b.roast,
     !.tags    = IF b.tags = "" THEN @ ELSE b.tags,
     !.aroma   = IF b.overall > 0 THEN b.aroma ELSE @,
     !.overall = IF b.overall > 0 THEN b.overall ELSE @]

\* Likes of a note, as CountByNote counts them: rows, whoever they belong to.
CountByNote(n) ==
  Cardinality({l \in LikeIds : likes[l] # Absent /\ likes[l].note = n})

\* Comments that reference a note.
CommentsOf(n) ==
  {k \in CommentIds : comments[k] # Absent /\ comments[k].note = n}

(***************************************************************************)
(* POST /notes                                                             *)
(***************************************************************************)
CreateNote(r, c) ==
  /\ c.op = "CreateNote"
  /\ noteSeq + Cardinality(Inserting("CreateNote")) < MaxNotes
  /\ \/ ~c.ok /\ Reject(r, c, 400)
     \/ c.ok /\ c.body.roast \notin RoastLevels /\ Reject(r, c, 422)
     \/ /\ c.ok
        /\ c.body.roast \in RoastLevels
        /\ Enter(r, c, "insert", NewNote(c))
  /\ UNCHANGED <<noteVars, commentVars, likeVars>>

InsertNote(r) ==
  /\ At(r, "CreateNote", "insert")
  /\ \/ /\ ~IsJson(req[r].row.tags)
        /\ Answer(r, 500)
        /\ UNCHANGED noteVars
     \/ /\ IsJson(req[r].row.tags)
        /\ noteSeq < MaxNotes
        /\ noteSeq' = noteSeq + 1
        /\ notes' = [notes EXCEPT ![noteSeq + 1] = req[r].row]
        /\ born' = [born EXCEPT ![noteSeq + 1] =
                      [user |-> req[r].row.user, image |-> req[r].row.image]]
        /\ Written(r, 201)
        /\ UNCHANGED erased
  /\ UNCHANGED <<commentVars, likeVars>>

(***************************************************************************)
(* GET /notes/:id: the note, then a second statement for its like count.   *)
(***************************************************************************)
GetNote(r, c) ==
  /\ c.op = "GetNote"
  /\ \/ ~c.ok /\ Reject(r, c, 400)
     \/ c.ok /\ Enter(r, c, "find", Absent)
  /\ UNCHANGED <<noteVars, commentVars, likeVars>>

GetFind(r) ==
  /\ At(r, "GetNote", "find")
  /\ LET row == notes[req[r].call.id] IN
       \/ row = Absent /\ Answer(r, 404)
       \/ row # Absent /\ Hold(r, "count", row)
  /\ UNCHANGED <<noteVars, commentVars, likeVars>>

GetCount(r) ==
  /\ At(r, "GetNote", "count")
  /\ req' = [req EXCEPT ![r] =
               [@ EXCEPT !.pc = "done", !.status = 200, !.row = Absent,
                         !.count = CountByNote(req[r].call.id)]]
  /\ UNCHANGED <<noteVars, commentVars, likeVars>>

(***************************************************************************)
(* PUT /notes/:id: read the row, patch it in memory, write all of it back. *)
(***************************************************************************)
UpdateNote(r, c) ==
  /\ c.op = "UpdateNote"
  /\ \/ ~c.ok /\ Reject(r, c, 400)
     \/ c.ok /\ Enter(r, c, "find", Absent)
  /\ UNCHANGED <<noteVars, commentVars, likeVars>>

\* Mutant: an update of a note that is not there creates it.
MutUpdateFindCreates(r) ==
  /\ At(r, "UpdateNote", "find")
  /\ notes[req[r].call.id] = Absent
  /\ req[r].call.id <= noteSeq
  /\ notes' = [notes EXCEPT ![req[r].call.id] = NewNote(req[r].call)]
  /\ Written(r, 200)
  /\ UNCHANGED <<noteSeq, born, erased, commentVars, likeVars>>

\* A note that is not there is answered 500: the service wraps ErrNotFound.
UpdateFind(r) ==
  /\ At(r, "UpdateNote", "find")
  /\ LET c == req[r].call  row == notes[c.id] IN
       \/ row = Absent /\ Answer(r, 500)
       \/ row # Absent /\ row.user # c.user /\ Answer(r, 403)
       \/ /\ row # Absent
          /\ row.user = c.user
          /\ c.body.roast \notin RoastLevels
          /\ Answer(r, 422)
       \/ /\ row # Absent
          /\ row.user = c.user
          /\ c.body.roast \in RoastLevels
          /\ Hold(r, "save", Patched(row, c.body))
  /\ UNCHANGED <<noteVars, commentVars, likeVars>>

\* Mutant: an update that matches no row is tried again until it does.
MutSaveUpdateRetries(r) ==
  /\ At(r, "UpdateNote", "save")
  /\ notes[req[r].call.id] # Absent
  /\ notes' = [notes EXCEPT ![req[r].call.id] = req[r].row]
  /\ Written(r, 200)
  /\ UNCHANGED <<noteSeq, born, erased, commentVars, likeVars>>

\* gorm's Save, first statement: UPDATE every column WHERE id.  When it
\* matches no row, Save goes on to a second statement.
SaveUpdate(r) ==
  /\ At(r, "UpdateNote", "save")
  /\ LET row == req[r].row  n == req[r].call.id IN
       \/ /\ ~IsJson(row.tags)
          /\ Answer(r, 500)
          /\ UNCHANGED notes
       \/ /\ IsJson(row.tags)
          /\ notes[n] # Absent
          /\ notes' = [notes EXCEPT ![n] = row]
          /\ Written(r, 200)
       \/ /\ IsJson(row.tags)
          /\ notes[n] = Absent
          /\ Goto(r, "upsert")
          /\ UNCHANGED notes
  /\ UNCHANGED <<noteSeq, born, erased, commentVars, likeVars>>

\* gorm's Save, second statement: INSERT under the old id, ON CONFLICT (id)
\* DO UPDATE every column.
SaveInsert(r) ==
  /\ At(r, "UpdateNote", "upsert")
  /\ notes' = [notes EXCEPT ![req[r].call.id] = req[r].row]
  /\ Written(r, 200)
  /\ UNCHANGED <<noteSeq, born, erased, commentVars, likeVars>>

(***************************************************************************)
(* DELETE /notes/:id                                                       *)
(***************************************************************************)
DeleteNote(r, c) ==
  /\ c.op = "DeleteNote"
  /\ \/ ~c.ok /\ Reject(r, c, 400)
     \/ c.ok /\ Enter(r, c, "find", Absent)
  /\ UNCHANGED <<noteVars, commentVars, likeVars>>

\* Mutant: the owner is not checked before a delete.
MutDeleteFindAnyone(r) ==
  /\ At(r, "DeleteNote", "find")
  /\ \/ notes[req[r].call.id] = Absent /\ Answer(r, 500)
     \/ notes[req[r].call.id] # Absent /\ Goto(r, "delete")
  /\ UNCHANGED <<noteVars, commentVars, likeVars>>

DeleteFind(r) ==
  /\ At(r, "DeleteNote", "find")
  /\ LET c == req[r].call  row == notes[c.id] IN
       \/ row = Absent /\ Answer(r, 500)
       \/ row # Absent /\ row.user # c.user /\ Answer(r, 403)
       \/ row # Absent /\ row.user = c.user /\ Goto(r, "delete")
  /\ UNCHANGED <<noteVars, commentVars, likeVars>>

\* Mutant: RowsAffected is not looked at.
MutDeleteRowUnchecked(r) ==
  /\ At(r, "DeleteNote", "delete")
  /\ notes' = [notes EXCEPT ![req[r].call.id] = Absent]
  /\ \E s \in Outcomes(200) : Finish(r, s, notes[req[r].call.id] # Absent)
  /\ UNCHANGED <<noteSeq, born, erased, commentVars, likeVars>>

\* Likes and comments of the note stay; under init.sql's foreign key a note
\* with comments cannot go.
DeleteRow(r) ==
  /\ At(r, "DeleteNote", "delete")
  /\ LET n == req[r].call.id IN
       \/ /\ notes[n] = Absent
          /\ Answer(r, 500)
          /\ UNCHANGED <<notes, erased>>
       \/ /\ notes[n] # Absent
          /\ CommentFK /\ CommentsOf(n) # {}
          /\ Answer(r, 500)
          /\ UNCHANGED <<notes, erased>>
       \/ /\ notes[n] # Absent
          /\ ~CommentFK \/ CommentsOf(n) = {}
          /\ notes' = [notes EXCEPT ![n] = Absent]
          /\ erased' = erased \cup {n}
          /\ Written(r, 200)
  /\ UNCHANGED <<noteSeq, born, commentVars, likeVars>>

\* A statement may fail before it took effect, for reasons of its own
\* (connection lost, timeout; a failure after it took effect is in Written).
\* The service wraps the error, which is answered 500, but Get drops the error
\* of its count and answers with a count of 0.
NoteStatementFails(r) ==
  /\ Faults
  /\ req[r].pc \in Statements /\ req[r].call.op \in NoteOps
  /\ Answer(r, IF req[r].pc = "count" THEN 200 ELSE 500)
  /\ UNCHANGED <<noteVars, commentVars, likeVars>>

NoteArrival(r, c) ==
  CreateNote(r, c) \/ GetNote(r, c) \/ UpdateNote(r, c) \/ DeleteNote(r, c)

\* The steps a request under way takes by itself.
NoteProgress(r) ==
  \/ InsertNote(r)
  \/ GetFind(r)    \/ GetCount(r)
  \/ UpdateFind(r) \/ SaveUpdate(r) \/ SaveInsert(r)
  \/ DeleteFind(r) \/ DeleteRow(r)
=============================================================================
