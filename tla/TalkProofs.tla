----------------------------- MODULE TalkProofs -----------------------------
(***************************************************************************)
(* More proofs about Community: who may write and delete, what is told to  *)
(* the client, and what comments and likes refer to.  A request decides on *)
(* one statement and acts with a later one, so each proof rests on what    *)
(* stays true of a request between the two, whatever the others do.        *)
(***************************************************************************)
EXTENDS CommunityProofs

\* What a request between two statements may rely on: the note it looked up
\* was created, the note it is about to write was born to its own caller, and
\* the like it is about to delete is its caller's, or gone.
NoteWasFound(r) ==
  At(r, "AddComment", "insert") \/ At(r, "Like", "insert")
    => req[r].call.id <= noteSeq

NoteIsMine(r) ==
  Saving(r) \/ At(r, "DeleteNote", "delete") =>
    /\ req[r].call.id <= noteSeq
    /\ born[req[r].call.id].user = req[r].call.user

LikeIsMine(r) ==
  At(r, "Unlike", "delete") =>
    /\ req[r].like \in LikeIds
    /\ req[r].like <= likeSeq
    /\ likes[req[r].like] # Absent =>
         /\ likes[req[r].like].user = req[r].call.user
         /\ likes[req[r].like].note = req[r].call.id

\* What the answer says is what happened, and nothing was written before it.
Told(r) ==
  /\ req[r].pc = "count" => req[r].call.op = "GetNote"
  /\ req[r].pc = "delete" => req[r].call.op # "Like"
  /\ req[r].pc # "done" => req[r].wrote = FALSE
  /\ req[r].pc = "done" =>
       /\ req[r].wrote => req[r].status \in {200, 201} \cup {s \in {500} : Faults}
       /\ req[r].status \in {200, 201} =>
            req[r].wrote \/ req[r].call.op \in {"GetNote", "Unlike"}

Relied(r) == NoteWasFound(r) /\ NoteIsMine(r) /\ LikeIsMine(r) /\ Told(r)

\* Comments and likes follow their sequences and point at created notes.
CommentsTrue ==
  \A k \in CommentIds :
    /\ k > commentSeq => comments[k] = Absent /\ removals[k] = 0
    /\ comments[k] # Absent => removals[k] = 0 /\ comments[k].note \in 1..noteSeq
    /\ removals[k] \in {0, 1}

LikesTrue ==
  \A l \in LikeIds :
    /\ l > likeSeq => likes[l] = Absent
    /\ likes[l] # Absent => likes[l].note \in 1..noteSeq

OneEach ==
  \A l, m \in LikeIds :
    /\ likes[l] # Absent /\ likes[m] # Absent
    /\ likes[l].user = likes[m].user
    /\ likes[l].note = likes[m].note
    => l = m

TalkInv ==
  /\ PinInv /\ CommentsTrue /\ LikesTrue /\ OneEach
  /\ \A r \in Reqs : Relied(r)

(***************************************************************************)
(* Who writes which table.                                                 *)
(***************************************************************************)
\* A request that arrives writes no table.
LEMMA ArriveWritesNothing ==
  ASSUME NEW r \in Reqs, Arrive(r)
  PROVE  UNCHANGED <<noteVars, commentVars, likeVars>>
BY DEF Arrive, NoteArrival, CommentArrival, LikeArrival, CreateNote, GetNote,
  UpdateNote, DeleteNote, AddComment, DeleteComment, Like, Unlike

\* Nor does a statement that fails.
LEMMA FailWritesNothing ==
  ASSUME NEW r \in Reqs, StatementFails(r)
  PROVE  UNCHANGED <<noteVars, commentVars, likeVars>>
BY DEF StatementFails, NoteStatementFails, CommentStatementFails, LikeStatementFails

\* Every table is written by its own service, statement by statement.
LEMMA Writers ==
  ASSUME [Next]_vars
  PROVE  /\ \/ UNCHANGED noteVars
            \/ \E r \in Reqs : InsertNote(r) \/ SaveUpdate(r)
                                 \/ SaveInsert(r) \/ DeleteRow(r)
         /\ \/ UNCHANGED commentVars
            \/ \E r \in Reqs : InsertComment(r) \/ DeleteCommentRow(r)
         /\ \/ UNCHANGED likeVars
            \/ \E r \in Reqs : InsertLike(r) \/ DeleteLike(r)
<1>1. CASE UNCHANGED vars BY <1>1 DEF vars, noteVars, commentVars, likeVars
<1>2. CASE Restart BY <1>2 DEF Restart
<1>3. ASSUME NEW r \in Reqs, Arrive(r) \/ StatementFails(r) \/ Reply(r)
      PROVE  UNCHANGED <<noteVars, commentVars, likeVars>>
  BY Zenon, <1>3, ArriveWritesNothing, FailWritesNothing DEF Reply
<1>4. ASSUME NEW r \in Reqs, NoteProgress(r)
      PROVE  /\ UNCHANGED <<commentVars, likeVars>>
             /\ \/ UNCHANGED noteVars
                \/ InsertNote(r) \/ SaveUpdate(r) \/ SaveInsert(r) \/ DeleteRow(r)
  BY Zenon, <1>4 DEF NoteProgress, InsertNote, GetFind, GetCount, UpdateFind, SaveUpdate,
    SaveInsert, DeleteFind, DeleteRow
<1>5. ASSUME NEW r \in Reqs, CommentProgress(r)
      PROVE  /\ UNCHANGED <<noteVars, likeVars>>
             /\ UNCHANGED commentVars \/ InsertComment(r) \/ DeleteCommentRow(r)
  BY Zenon, <1>5 DEF CommentProgress, FindNoteToComment, InsertComment,
    FindCommentToDelete, DeleteCommentRow
<1>6. ASSUME NEW r \in Reqs, LikeProgress(r)
      PROVE  /\ UNCHANGED <<noteVars, commentVars>>
             /\ UNCHANGED likeVars \/ InsertLike(r) \/ DeleteLike(r)
  BY Zenon, <1>6 DEF LikeProgress, FindNoteToLike, InsertLike, FindLike, DeleteLike
<1> QED BY <1>1, <1>2, <1>3, <1>4, <1>5, <1>6 DEF Next, Progress

\* The sequences only grow, a birth is never rewritten, and a like once given
\* out keeps its row until it goes.
LEMMA Grown ==
  ASSUME TypeInv, [Next]_vars
  PROVE  /\ noteSeq \in Nat /\ noteSeq' \in Nat /\ noteSeq <= noteSeq'
         /\ likeSeq \in Nat /\ likeSeq' \in Nat /\ likeSeq <= likeSeq'
         /\ \A n \in NoteIds : n <= noteSeq => born'[n] = born[n]
         /\ \A l \in LikeIds : l <= likeSeq => likes'[l] \in {likes[l], Absent}
<1>0. TablesOK /\ TablesOK' BY TypeNext DEF TypeInv, TypeOK
<1>1. noteSeq \in Nat /\ noteSeq' \in Nat /\ likeSeq \in Nat /\ likeSeq' \in Nat
  BY <1>0, BoundsAssumption DEF TablesOK
<1>2. noteSeq <= noteSeq' /\ \A n \in NoteIds : n <= noteSeq => born'[n] = born[n]
  <2>1. CASE UNCHANGED noteVars BY <1>1, <2>1 DEF noteVars
  <2>2. ASSUME NEW r \in Reqs, InsertNote(r), ~UNCHANGED noteVars
        PROVE  noteSeq <= noteSeq' /\ \A n \in NoteIds : n <= noteSeq => born'[n] = born[n]
    <3>1. /\ noteSeq' = noteSeq + 1
          /\ born' = [born EXCEPT ![noteSeq + 1] =
                        [user |-> req[r].row.user, image |-> req[r].row.image]]
      BY <2>2, Zenon DEF InsertNote
    <3>2. \A n \in NoteIds : n \in Nat BY BoundsAssumption DEF NoteIds
    <3>3. \A n \in NoteIds : n # noteSeq + 1 => born'[n] = born[n]
      BY <1>0, <3>1 DEF TablesOK
    <3> QED BY <1>1, <3>1, <3>2, <3>3
  <2>3. ASSUME NEW r \in Reqs, SaveUpdate(r) \/ SaveInsert(r) \/ DeleteRow(r)
        PROVE  UNCHANGED <<noteSeq, born>>
    BY <2>3 DEF SaveUpdate, SaveInsert, DeleteRow
  <2> QED BY <1>1, <2>1, <2>2, <2>3, Writers
<1>3. likeSeq <= likeSeq' /\ \A l \in LikeIds : l <= likeSeq => likes'[l] \in {likes[l], Absent}
  <2>1. CASE UNCHANGED likeVars BY <1>1, <2>1 DEF likeVars
  <2>2. ASSUME NEW r \in Reqs, InsertLike(r), ~UNCHANGED likeVars
        PROVE  likeSeq <= likeSeq'
               /\ \A l \in LikeIds : l <= likeSeq => likes'[l] \in {likes[l], Absent}
    BY <1>0, <1>1, <2>2 DEF InsertLike, TablesOK, LikeIds
  <2>3. ASSUME NEW r \in Reqs, DeleteLike(r)
        PROVE  likeSeq <= likeSeq'
               /\ \A l \in LikeIds : l <= likeSeq => likes'[l] \in {likes[l], Absent}
    BY <1>0, <1>1, <2>3 DEF DeleteLike, TablesOK
  <2> QED BY <1>1, <2>1, <2>2, <2>3, Writers
<1> QED BY <1>1, <1>2, <1>3

-----------------------------------------------------------------------------
(***************************************************************************)
(* What a request relies on stays true.                                    *)
(***************************************************************************)
\* The ids a request under way names are ids of tables.
LEMMA IdsTyped ==
  ASSUME TypeInv, NEW r \in Reqs, req[r].pc # "idle"
  PROVE  /\ req[r].call \in Calls
         /\ req[r].call.id \in Nat
         /\ req[r].call.op # "DeleteComment" => req[r].call.id \in NoteIds
         /\ req[r].call.op = "DeleteComment" => req[r].call.id \in CommentIds
BY CallType, BoundsAssumption DEF TypeInv, SlotOK, NoteIds, CommentIds

\* While it takes no step itself: the tables only change the way Grown says.
LEMMA OthersRely ==
  ASSUME TalkInv, [Next]_vars, NEW q \in Reqs, req'[q] = req[q]
  PROVE  Relied(q)'
<1>0. TypeInv /\ Relied(q) BY DEF TalkInv, PinInv
<1>1. NoteWasFound(q)'
  <2>1. SUFFICES ASSUME At(q, "AddComment", "insert") \/ At(q, "Like", "insert")
                 PROVE  req[q].call.id <= noteSeq'
    BY DEF NoteWasFound, At
  <2>2. req[q].call.id \in Nat BY <1>0, <2>1, IdsTyped DEF At
  <2>3. req[q].call.id <= noteSeq BY <1>0, <2>1 DEF Relied, NoteWasFound
  <2> QED BY <1>0, <2>2, <2>3, Grown
<1>2. NoteIsMine(q)'
  <2>1. SUFFICES ASSUME Saving(q) \/ At(q, "DeleteNote", "delete")
                 PROVE  /\ req[q].call.id <= noteSeq'
                        /\ born'[req[q].call.id].user = req[q].call.user
    BY DEF NoteIsMine, At, Saving
  <2>2. req[q].call.id \in Nat /\ req[q].call.id \in NoteIds
    BY <1>0, <2>1, IdsTyped DEF At, Saving
  <2>3. req[q].call.id <= noteSeq /\ born[req[q].call.id].user = req[q].call.user
    BY <1>0, <2>1 DEF Relied, NoteIsMine
  <2> QED BY <1>0, <2>2, <2>3, Grown
<1>3. LikeIsMine(q)'
  <2>1. SUFFICES ASSUME At(q, "Unlike", "delete")
                 PROVE  /\ req[q].like \in LikeIds
                        /\ req[q].like <= likeSeq'
                        /\ likes'[req[q].like] # Absent =>
                             /\ likes'[req[q].like].user = req[q].call.user
                             /\ likes'[req[q].like].note = req[q].call.id
    BY DEF LikeIsMine, At
  <2>2. /\ req[q].like \in LikeIds /\ req[q].like <= likeSeq
        /\ likes[req[q].like] # Absent =>
             /\ likes[req[q].like].user = req[q].call.user
             /\ likes[req[q].like].note = req[q].call.id
    BY <1>0, <2>1 DEF Relied, LikeIsMine
  <2>3. req[q].like \in Nat BY <2>2, BoundsAssumption DEF LikeIds
  <2> QED BY <1>0, <2>2, <2>3, Grown
<1>4. Told(q)' BY <1>0 DEF Relied, Told
<1> QED BY <1>1, <1>2, <1>3, <1>4 DEF Relied

\* A slot that is free relies on nothing.
LEMMA IdleRelies ==
  ASSUME NEW q \in Reqs, req'[q] = Idle
  PROVE  Relied(q)'
BY DEF Relied, NoteWasFound, NoteIsMine, LikeIsMine, Told, At, Saving, Idle

\* A request that has answered relies on nothing either, if it told the truth.
LEMMA DoneRelies ==
  ASSUME NEW q \in Reqs, req'[q].pc = "done", Told(q)'
  PROVE  Relied(q)'
BY DEF Relied, NoteWasFound, NoteIsMine, LikeIsMine, At, Saving

\* What an answer says of its writing.
LEMMA FinishTells ==
  ASSUME TypeInv, NEW r \in Reqs, NEW s, NEW w \in BOOLEAN, Finish(r, s, w)
  PROVE  /\ req'[r].pc = "done" /\ req'[r].call = req[r].call
         /\ req'[r].status = s /\ req'[r].wrote = w
<1>0. req \in [Reqs -> Slot] BY DEF TypeInv, TypeOK
<1>1. req'[r] = [pc |-> "done", call |-> req[r].call, row |-> Absent, like |-> 0,
                 count |-> req[r].count, status |-> s, wrote |-> w]
  BY <1>0 DEF Finish, Slot
<1> QED BY <1>1

LEMMA AnswerTells ==
  ASSUME TypeInv, NEW r \in Reqs, NEW s, Answer(r, s)
  PROVE  /\ req'[r].pc = "done" /\ req'[r].call = req[r].call
         /\ req'[r].status = s /\ req'[r].wrote = FALSE
<1>1. Finish(r, s, FALSE) BY Zenon DEF Answer
<1> QED BY <1>1, FinishTells, Zenon

LEMMA WrittenTells ==
  ASSUME TypeInv, NEW r \in Reqs, NEW s, Written(r, s)
  PROVE  /\ req'[r].pc = "done" /\ req'[r].call = req[r].call
         /\ req'[r].status \in Outcomes(s) /\ req'[r].wrote
<1>1. PICK st \in Outcomes(s) : Finish(r, st, TRUE) BY Zenon DEF Written
<1>2. /\ req'[r].pc = "done" /\ req'[r].call = req[r].call
      /\ req'[r].status = st /\ req'[r].wrote = TRUE
  BY <1>1, FinishTells, Zenon
<1> QED BY <1>1, <1>2

\* A refusal that wrote nothing is told truly.
LEMMA RefusedRelies ==
  ASSUME TypeInv, NEW r \in Reqs, NEW s \in Statuses \ {200, 201}, Answer(r, s)
  PROVE  Relied(r)'
<1>1. /\ req'[r].pc = "done" /\ req'[r].status = s /\ req'[r].wrote = FALSE
  BY AnswerTells, Zenon
<1>2. Told(r)' BY <1>1 DEF Told
<1> QED BY <1>1, <1>2, DoneRelies

\* So is success after a write, or a failure after it.
LEMMA WrittenRelies ==
  ASSUME TypeInv, NEW r \in Reqs, NEW s \in {200, 201}, Written(r, s)
  PROVE  Relied(r)'
<1>1. /\ req'[r].pc = "done" /\ req'[r].status \in Outcomes(s) /\ req'[r].wrote
  <2>1. /\ req'[r].pc = "done" /\ req'[r].call = req[r].call
        /\ req'[r].status \in Outcomes(s) /\ req'[r].wrote
    BY WrittenTells
  <2> QED BY <2>1
<1>2. Told(r)' BY <1>1 DEF Told, Outcomes
<1> QED BY <1>1, <1>2, DoneRelies

\* So is the success of a read, or of an unlike that another overtook.
LEMMA ReadRelies ==
  ASSUME TypeInv, NEW r \in Reqs, NEW s, Answer(r, s),
         req[r].call.op \in {"GetNote", "Unlike"}
  PROVE  Relied(r)'
<1>1. /\ req'[r].pc = "done" /\ req'[r].call = req[r].call /\ req'[r].wrote = FALSE
  BY AnswerTells, Zenon
<1>2. Told(r)' BY <1>1 DEF Told
<1> QED BY <1>1, <1>2, DoneRelies

\* A request that goes on to another statement keeps call, like and history.
LEMMA GoesOn ==
  ASSUME TypeInv, NEW r \in Reqs, NEW pc, NEW row, Goto(r, pc) \/ Hold(r, pc, row)
  PROVE  /\ req'[r].pc = pc /\ req'[r].call = req[r].call
         /\ req'[r].like = req[r].like /\ req'[r].wrote = req[r].wrote
BY ZenonT(60) DEF TypeInv, TypeOK, Slot, Goto, Hold

\* Arrivals rely on nothing yet.
LEMMA ArriveRelies ==
  ASSUME TalkInv, NEW r \in Reqs, Arrive(r)
  PROVE  Relied(r)'
<1>0. req \in [Reqs -> Slot] BY DEF TalkInv, PinInv, TypeInv, TypeOK
<1>1. PICK c \in Calls : NoteArrival(r, c) \/ CommentArrival(r, c) \/ LikeArrival(r, c)
  BY DEF Arrive
<1>2. \/ Reject(r, c, 400) \/ Reject(r, c, 422)
      \/ Enter(r, c, "find", Absent)
      \/ c.op = "CreateNote" /\ Enter(r, c, "insert", NewNote(c))
  BY <1>1 DEF NoteArrival, CommentArrival, LikeArrival, CreateNote, GetNote,
    UpdateNote, DeleteNote, AddComment, DeleteComment, Like, Unlike
<1>3. CASE Reject(r, c, 400) \/ Reject(r, c, 422)
  <2>1. req'[r].pc = "done" /\ req'[r].status \in {400, 422} /\ req'[r].wrote = FALSE
    <3>1. PICK s \in {400, 422} : Reject(r, c, s) BY <1>3
    <3>2. req'[r] = [Idle EXCEPT !.pc = "done", !.call = c, !.status = s]
      BY <1>0, <3>1 DEF Reject
    <3>3. req'[r].pc = "done" /\ req'[r].status = s BY <3>2 DEF Idle
    <3>4. req'[r].wrote = Idle.wrote BY <3>2 DEF Idle
    <3> QED BY <3>3, <3>4 DEF Idle
  <2>2. Told(r)' BY <2>1 DEF Told
  <2> QED BY <2>1, <2>2, DoneRelies
<1>4. CASE Enter(r, c, "find", Absent)
  <2>1. req'[r].pc = "find" /\ req'[r].wrote = FALSE BY <1>0, <1>4 DEF Enter, Idle
  <2> QED BY <2>1 DEF Relied, NoteWasFound, NoteIsMine, LikeIsMine, Told, At, Saving
<1>5. CASE c.op = "CreateNote" /\ Enter(r, c, "insert", NewNote(c))
  <2>1. req'[r].pc = "insert" /\ req'[r].call = c /\ req'[r].wrote = FALSE
    BY <1>0, <1>5 DEF Enter, Idle
  <2> QED
    BY <1>5, <2>1 DEF Relied, NoteWasFound, NoteIsMine, LikeIsMine, Told, At, Saving
<1> QED BY <1>2, <1>3, <1>4, <1>5

\* The statements of the note handlers: an owner who is checked stays the
\* owner, for the birth of a note is never rewritten.
LEMMA NoteRelies ==
  ASSUME TalkInv, NEW r \in Reqs, NoteProgress(r), [Next]_vars
  PROVE  Relied(r)'
<1> USE DEF Statuses
<1>0. /\ PinInv /\ TypeInv /\ Relied(r) /\ req \in [Reqs -> Slot]
      /\ OwnerPinned
  BY DEF TalkInv, PinInv, TypeInv, TypeOK
<1>1. CASE InsertNote(r)
  BY <1>0, <1>1, RefusedRelies, WrittenRelies DEF InsertNote
<1>2. CASE GetFind(r)
  <2>1. Answer(r, 404) \/ Hold(r, "count", notes[req[r].call.id]) BY <1>2 DEF GetFind
  <2>2. CASE Hold(r, "count", notes[req[r].call.id])
    <3>1. /\ req'[r].pc = "count" /\ req'[r].call.op = "GetNote"
          /\ req'[r].wrote = FALSE
      BY <1>0, <1>2, <2>2, GoesOn DEF GetFind, At, Relied, Told
    <3> QED BY <3>1 DEF Relied, NoteWasFound, NoteIsMine, LikeIsMine, Told, At, Saving
  <2> QED BY <1>0, <2>1, <2>2, RefusedRelies
<1>3. CASE GetCount(r)
  <2>1. req'[r] = [req[r] EXCEPT !.pc = "done", !.status = 200, !.row = Absent,
                                 !.count = CountByNote(req[r].call.id)]
    BY <1>0, <1>3 DEF GetCount
  <2>2. req'[r].pc = "done" /\ req'[r].status = 200 /\ req'[r].call = req[r].call
    BY <1>0, <2>1 DEF Slot
  <2>3. Told(r)' BY <1>3, <2>2 DEF GetCount, At, Told
  <2> QED BY <2>2, <2>3, DoneRelies
<1>4. CASE UpdateFind(r)
  <2> DEFINE n == req[r].call.id
  <2>1. CASE Answer(r, 500) \/ Answer(r, 403) \/ Answer(r, 422)
    BY <1>0, <2>1, RefusedRelies
  <2>2. CASE /\ notes[n] # Absent /\ notes[n].user = req[r].call.user
             /\ Hold(r, "save", Patched(notes[n], req[r].call.body))
    <3>1. n \in NoteIds BY <1>0, <1>4, IdsTyped DEF UpdateFind, At
    <3>2. n <= noteSeq /\ born[n].user = req[r].call.user
      BY <1>0, <2>2, <3>1, Births DEF OwnerPinned
    <3>3. /\ req'[r].pc = "save" /\ req'[r].call = req[r].call
          /\ req'[r].wrote = FALSE /\ req[r].call.op = "UpdateNote"
      <4>1. req[r].wrote = FALSE /\ req[r].call.op = "UpdateNote"
        BY <1>0, <1>4 DEF UpdateFind, At, Relied, Told
      <4>2. /\ req'[r].pc = "save" /\ req'[r].call = req[r].call
            /\ req'[r].wrote = req[r].wrote
        BY <1>0, <2>2, GoesOn
      <4> QED BY <4>1, <4>2
    <3>4. n \in Nat /\ n <= noteSeq' /\ born'[n].user = req[r].call.user
      BY <1>0, <3>1, <3>2, Grown, BoundsAssumption DEF NoteIds
    <3> QED
      BY <3>3, <3>4 DEF Relied, NoteWasFound, NoteIsMine, LikeIsMine, Told, At, Saving
  <2> QED BY <1>4, <2>1, <2>2 DEF UpdateFind
<1>5. CASE SaveUpdate(r)
  <2>1. CASE Answer(r, 500) BY <1>0, <2>1, RefusedRelies
  <2>2. CASE Written(r, 200) BY <1>0, <2>2, WrittenRelies
  <2>3. CASE Goto(r, "upsert")
    <3>1. /\ req'[r].pc = "upsert" /\ req'[r].call = req[r].call
          /\ req'[r].wrote = FALSE /\ req[r].call.op = "UpdateNote"
      <4>1. req[r].wrote = FALSE /\ req[r].call.op = "UpdateNote"
        BY <1>0, <1>5 DEF SaveUpdate, At, Relied, Told
      <4>2. /\ req'[r].pc = "upsert" /\ req'[r].call = req[r].call
            /\ req'[r].wrote = req[r].wrote
        BY <1>0, <2>3, GoesOn
      <4> QED BY <4>1, <4>2
    <3>2. /\ req[r].call.id <= noteSeq
          /\ born[req[r].call.id].user = req[r].call.user
      BY <1>0, <1>5 DEF SaveUpdate, Saving, Relied, NoteIsMine
    <3>3. UNCHANGED <<noteSeq, born>> BY <1>5 DEF SaveUpdate
    <3> QED
      BY <3>1, <3>2, <3>3
      DEF Relied, NoteWasFound, NoteIsMine, LikeIsMine, Told, At, Saving
  <2> QED BY <1>5, <2>1, <2>2, <2>3 DEF SaveUpdate
<1>6. CASE SaveInsert(r) BY <1>0, <1>6, WrittenRelies DEF SaveInsert
<1>7. CASE DeleteFind(r)
  <2> DEFINE n == req[r].call.id
  <2>1. CASE Answer(r, 500) \/ Answer(r, 403) BY <1>0, <2>1, RefusedRelies
  <2>2. CASE /\ notes[n] # Absent /\ notes[n].user = req[r].call.user
             /\ Goto(r, "delete")
    <3>1. n \in NoteIds BY <1>0, <1>7, IdsTyped DEF DeleteFind, At
    <3>2. n <= noteSeq /\ born[n].user = req[r].call.user
      BY <1>0, <2>2, <3>1, Births DEF OwnerPinned
    <3>3. /\ req'[r].pc = "delete" /\ req'[r].call = req[r].call
          /\ req'[r].wrote = FALSE /\ req[r].call.op = "DeleteNote"
      <4>1. req[r].wrote = FALSE /\ req[r].call.op = "DeleteNote"
        BY <1>0, <1>7 DEF DeleteFind, At, Relied, Told
      <4>2. /\ req'[r].pc = "delete" /\ req'[r].call = req[r].call
            /\ req'[r].wrote = req[r].wrote
        BY <1>0, <2>2, GoesOn
      <4> QED BY <4>1, <4>2
    <3>4. UNCHANGED <<noteSeq, born>> BY <1>7 DEF DeleteFind, noteVars
    <3> QED
      BY <3>2, <3>3, <3>4
      DEF Relied, NoteWasFound, NoteIsMine, LikeIsMine, Told, At, Saving
  <2> QED BY <1>7, <2>1, <2>2 DEF DeleteFind
<1>8. CASE DeleteRow(r) BY <1>0, <1>8, RefusedRelies, WrittenRelies DEF DeleteRow
<1> QED
  BY <1>1, <1>2, <1>3, <1>4, <1>5, <1>6, <1>7, <1>8 DEF NoteProgress

\* The statements of the comment handlers.
LEMMA CommentRelies ==
  ASSUME TalkInv, NEW r \in Reqs, CommentProgress(r)
  PROVE  Relied(r)'
<1> USE DEF Statuses
<1>0. PinInv /\ TypeInv /\ Relied(r) BY DEF TalkInv, PinInv
<1>1. CASE FindNoteToComment(r)
  <2>1. CASE Answer(r, 404) BY <1>0, <2>1, RefusedRelies
  <2>2. CASE notes[req[r].call.id] # Absent /\ Goto(r, "insert")
    <3>1. req[r].call.id \in NoteIds BY <1>0, <1>1, IdsTyped DEF FindNoteToComment, At
    <3>2. req[r].call.id <= noteSeq BY <1>0, <2>2, <3>1, Births
    <3>3. /\ req'[r].pc = "insert" /\ req'[r].call = req[r].call
          /\ req'[r].wrote = FALSE /\ req[r].call.op = "AddComment"
      <4>1. req[r].wrote = FALSE /\ req[r].call.op = "AddComment"
        BY <1>0, <1>1 DEF FindNoteToComment, At, Relied, Told
      <4>2. /\ req'[r].pc = "insert" /\ req'[r].call = req[r].call
            /\ req'[r].wrote = req[r].wrote
        BY <1>0, <2>2, GoesOn
      <4> QED BY <4>1, <4>2
    <3>4. UNCHANGED noteSeq BY <1>1 DEF FindNoteToComment, noteVars
    <3> QED
      BY <3>2, <3>3, <3>4
      DEF Relied, NoteWasFound, NoteIsMine, LikeIsMine, Told, At, Saving
  <2> QED BY <1>1, <2>1, <2>2 DEF FindNoteToComment
<1>2. CASE InsertComment(r)
  BY <1>0, <1>2, RefusedRelies, WrittenRelies DEF InsertComment
<1>3. CASE FindCommentToDelete(r)
  <2>1. CASE Answer(r, 404) \/ Answer(r, 403) BY <1>0, <2>1, RefusedRelies
  <2>2. CASE Goto(r, "delete")
    <3>1. /\ req'[r].pc = "delete" /\ req'[r].call = req[r].call
          /\ req'[r].wrote = FALSE /\ req[r].call.op = "DeleteComment"
      <4>1. req[r].wrote = FALSE /\ req[r].call.op = "DeleteComment"
        BY <1>0, <1>3 DEF FindCommentToDelete, At, Relied, Told
      <4>2. /\ req'[r].pc = "delete" /\ req'[r].call = req[r].call
            /\ req'[r].wrote = req[r].wrote
        BY <1>0, <2>2, GoesOn
      <4> QED BY <4>1, <4>2
    <3> QED BY <3>1 DEF Relied, NoteWasFound, NoteIsMine, LikeIsMine, Told, At, Saving
  <2> QED BY <1>3, <2>1, <2>2 DEF FindCommentToDelete
<1>4. CASE DeleteCommentRow(r)
  BY <1>0, <1>4, RefusedRelies, WrittenRelies DEF DeleteCommentRow
<1> QED BY <1>1, <1>2, <1>3, <1>4 DEF CommentProgress

\* The statements of the like handlers.
LEMMA LikeRelies ==
  ASSUME TalkInv, NEW r \in Reqs, LikeProgress(r)
  PROVE  Relied(r)'
<1> USE DEF Statuses
<1>0. PinInv /\ TypeInv /\ Relied(r) /\ req \in [Reqs -> Slot] /\ LikesTrue
  BY DEF TalkInv, PinInv, TypeInv, TypeOK
<1>1. CASE FindNoteToLike(r)
  <2>1. CASE Answer(r, 404) BY <1>0, <2>1, RefusedRelies
  <2>2. CASE notes[req[r].call.id] # Absent /\ Goto(r, "insert")
    <3>1. req[r].call.id \in NoteIds BY <1>0, <1>1, IdsTyped DEF FindNoteToLike, At
    <3>2. req[r].call.id <= noteSeq BY <1>0, <2>2, <3>1, Births
    <3>3. /\ req'[r].pc = "insert" /\ req'[r].call = req[r].call
          /\ req'[r].wrote = FALSE /\ req[r].call.op = "Like"
      <4>1. req[r].wrote = FALSE /\ req[r].call.op = "Like"
        BY <1>0, <1>1 DEF FindNoteToLike, At, Relied, Told
      <4>2. /\ req'[r].pc = "insert" /\ req'[r].call = req[r].call
            /\ req'[r].wrote = req[r].wrote
        BY <1>0, <2>2, GoesOn
      <4> QED BY <4>1, <4>2
    <3>4. UNCHANGED noteSeq BY <1>1 DEF FindNoteToLike, noteVars
    <3> QED
      BY <3>2, <3>3, <3>4
      DEF Relied, NoteWasFound, NoteIsMine, LikeIsMine, Told, At, Saving
  <2> QED BY <1>1, <2>1, <2>2 DEF FindNoteToLike
<1>2. CASE InsertLike(r)
  BY <1>0, <1>2, RefusedRelies, WrittenRelies DEF InsertLike
<1>3. CASE FindLike(r)
  <2>1. CASE Answer(r, 404) BY <1>0, <2>1, RefusedRelies
  <2>2. ASSUME NEW l \in LikesBy(req[r].call.user, req[r].call.id),
               req' = [req EXCEPT ![r] = [@ EXCEPT !.pc = "delete", !.like = l]]
        PROVE  Relied(r)'
    <3>1. /\ l \in LikeIds /\ likes[l] # Absent
          /\ likes[l].user = req[r].call.user /\ likes[l].note = req[r].call.id
      BY DEF LikesBy
    <3>2. l \in Nat /\ likeSeq \in Nat
      BY <1>0, <3>1, BoundsAssumption DEF LikeIds, TypeInv, TypeOK, TablesOK
    <3>3. l <= likeSeq BY <1>0, <3>1, <3>2 DEF LikesTrue
    <3>4. UNCHANGED <<likes, likeSeq>> BY <1>3 DEF FindLike, likeVars
    <3>5. req'[r] = [req[r] EXCEPT !.pc = "delete", !.like = l] BY <1>0, <2>2
    <3>6. /\ req'[r].pc = "delete" /\ req'[r].call = req[r].call /\ req'[r].like = l
      BY <1>0, <3>5 DEF Slot
    <3>7. req'[r].wrote = req[r].wrote BY <1>0, <3>5 DEF Slot
    <3>8. req[r].call.op = "Unlike" /\ req[r].wrote = FALSE
      BY <1>0, <1>3 DEF FindLike, At, Relied, Told
    <3> QED
      BY <3>1, <3>3, <3>4, <3>6, <3>7, <3>8
      DEF Relied, NoteWasFound, NoteIsMine, LikeIsMine, Told, At, Saving
  <2> QED BY <1>3, <2>1, <2>2 DEF FindLike
<1>4. CASE DeleteLike(r)
  <2>1. req[r].call.op = "Unlike" BY <1>4 DEF DeleteLike, At
  <2>2. ASSUME NEW st \in Outcomes(200), Answer(r, st) PROVE Relied(r)'
    BY <1>0, <2>1, <2>2, ReadRelies
  <2>3. CASE Written(r, 200) BY <1>0, <2>3, WrittenRelies
  <2> QED BY <1>4, <2>2, <2>3, UnlikeAnswers
<1> QED BY <1>1, <1>2, <1>3, <1>4 DEF LikeProgress

\* A failing statement: only a count that fails is answered 200, and that is
\* a read.
LEMMA FailRelies ==
  ASSUME TalkInv, NEW r \in Reqs, StatementFails(r)
  PROVE  Relied(r)'
<1> USE DEF Statuses
<1>0. TypeInv /\ Relied(r) BY DEF TalkInv, PinInv
<1>1. \/ Answer(r, 404) \/ Answer(r, 500)
      \/ req[r].pc = "count" /\ Answer(r, 200)
  BY DEF StatementFails, NoteStatementFails, CommentStatementFails,
    LikeStatementFails
<1>2. CASE Answer(r, 404) \/ Answer(r, 500) BY <1>0, <1>2, RefusedRelies
<1>3. CASE req[r].pc = "count" /\ Answer(r, 200)
  <2>1. req[r].call.op = "GetNote" BY <1>0, <1>3 DEF Relied, Told
  <2> QED BY <1>0, <1>3, <2>1, ReadRelies
<1> QED BY <1>1, <1>2, <1>3

\* In every step a slot moves by its own request, is freed, or stays.
LEMMA Movers ==
  ASSUME req \in [Reqs -> Slot], [Next]_vars, NEW q \in Reqs
  PROVE  \/ req'[q] = req[q] \/ req'[q] = Idle
         \/ Arrive(q) \/ Progress(q) \/ StatementFails(q)
<1>1. CASE UNCHANGED vars BY <1>1 DEF vars
<1>2. CASE Restart BY <1>2 DEF Restart
<1>3. ASSUME NEW r \in Reqs, Reply(r)
      PROVE  req'[q] = req[q] \/ req'[q] = Idle
  BY <1>3 DEF Reply
<1>4. ASSUME NEW r \in Reqs, r # q, Arrive(r) PROVE req'[q] = req[q]
  <2>1. PICK c \in Calls : NoteArrival(r, c) \/ CommentArrival(r, c) \/ LikeArrival(r, c)
    BY <1>4 DEF Arrive
  <2>2. \/ Reject(r, c, 400) \/ Reject(r, c, 422)
        \/ Enter(r, c, "find", Absent) \/ Enter(r, c, "insert", NewNote(c))
    BY <2>1 DEF NoteArrival, CommentArrival, LikeArrival, CreateNote, GetNote,
      UpdateNote, DeleteNote, AddComment, DeleteComment, Like, Unlike
  <2> QED BY <1>4, <2>2 DEF Reject, Enter
<1>5. ASSUME NEW r \in Reqs, r # q, NEW s, NEW pc, NEW row,
             Answer(r, s) \/ Written(r, s) \/ Goto(r, pc) \/ Hold(r, pc, row)
      PROVE  req'[q] = req[q]
  BY <1>5 DEF Answer, Written, Finish, Goto, Hold
<1>6. ASSUME NEW r \in Reqs, r # q, NoteProgress(r) PROVE req'[q] = req[q]
  <2>1. CASE GetCount(r) BY <1>6, <2>1 DEF GetCount
  <2>2. CASE ~GetCount(r)
    <3>1. \/ \E s : Answer(r, s) \/ Written(r, s)
          \/ \E pc : Goto(r, pc) \/ \E row : Hold(r, pc, row)
      BY <1>6, <2>2 DEF NoteProgress, InsertNote, GetFind, UpdateFind, SaveUpdate,
        SaveInsert, DeleteFind, DeleteRow
    <3> QED BY <1>5, <1>6, <3>1
  <2> QED BY <2>1, <2>2
<1>7. ASSUME NEW r \in Reqs, r # q, CommentProgress(r) PROVE req'[q] = req[q]
  <2>1. \/ \E s : Answer(r, s) \/ Written(r, s)
        \/ \E pc : Goto(r, pc)
    BY <1>7 DEF CommentProgress, FindNoteToComment, InsertComment,
      FindCommentToDelete, DeleteCommentRow
  <2> QED BY <1>5, <1>7, <2>1
<1>8. ASSUME NEW r \in Reqs, r # q, LikeProgress(r) PROVE req'[q] = req[q]
  <2>1. CASE FindLike(r) BY <1>8, <2>1 DEF FindLike, Answer, Finish
  <2>2. CASE DeleteLike(r) BY <1>8, <2>2 DEF DeleteLike, Finish
  <2>3. CASE FindNoteToLike(r) \/ InsertLike(r)
    BY <1>5, <1>8, <2>3 DEF FindNoteToLike, InsertLike
  <2> QED BY <1>8, <2>1, <2>2, <2>3 DEF LikeProgress
<1>9. ASSUME NEW r \in Reqs, r # q, StatementFails(r) PROVE req'[q] = req[q]
  <2>1. \E s : Answer(r, s)
    BY <1>9 DEF StatementFails, NoteStatementFails, CommentStatementFails,
      LikeStatementFails
  <2> QED BY <1>5, <1>9, <2>1
<1> QED
  BY <1>1, <1>2, <1>3, <1>4, <1>6, <1>7, <1>8, <1>9 DEF Next, Progress

\* So every request's reliance survives every step.
LEMMA RelyNext ==
  ASSUME TalkInv, [Next]_vars
  PROVE  \A q \in Reqs : Relied(q)'
<1> TAKE q \in Reqs
<1>1. req \in [Reqs -> Slot] BY DEF TalkInv, PinInv, TypeInv, TypeOK
<1>2. CASE req'[q] = req[q] BY <1>2, OthersRely
<1>3. CASE req'[q] = Idle BY <1>3, IdleRelies
<1>4. CASE Arrive(q) BY <1>4, ArriveRelies
<1>5. CASE Progress(q) BY <1>5, NoteRelies, CommentRelies, LikeRelies DEF Progress
<1>6. CASE StatementFails(q) BY <1>6, FailRelies
<1> QED BY <1>1, <1>2, <1>3, <1>4, <1>5, <1>6, Movers

-----------------------------------------------------------------------------
(***************************************************************************)
(* What the tables of comments and likes refer to.                         *)
(***************************************************************************)
\* A comment goes in under the next id, for a note that was found, and goes
\* out once.
LEMMA CommentsNext ==
  ASSUME TalkInv, [Next]_vars
  PROVE  CommentsTrue'
<1>0. /\ TypeInv /\ TablesOK /\ TablesOK' /\ CommentsTrue
      /\ noteSeq \in Nat /\ noteSeq' \in Nat /\ noteSeq <= noteSeq'
      /\ commentSeq \in Nat
  BY TypeNext, Grown, BoundsAssumption DEF TalkInv, PinInv, TypeInv, TypeOK, TablesOK
<1>1. CASE UNCHANGED commentVars BY <1>0, <1>1 DEF CommentsTrue, commentVars
<1>2. ASSUME NEW r \in Reqs, InsertComment(r), UNCHANGED comments
      PROVE  CommentsTrue'
  <2>1. commentSeq' = commentSeq + 1 /\ UNCHANGED <<comments, removals>>
    BY <1>2 DEF InsertComment
  <2>2. \A k \in CommentIds : k \in Nat BY BoundsAssumption DEF CommentIds
  <2> QED BY <1>0, <2>1, <2>2 DEF CommentsTrue
<1>3. ASSUME NEW r \in Reqs, InsertComment(r), ~UNCHANGED comments
      PROVE  CommentsTrue'
  <2>1. /\ commentSeq' = commentSeq + 1 /\ commentSeq + 1 \in CommentIds
        /\ comments' = [comments EXCEPT ![commentSeq + 1] =
                          [user |-> req[r].call.user, note |-> req[r].call.id]]
        /\ UNCHANGED removals
    BY <1>0, <1>3, BoundsAssumption DEF InsertComment, CommentIds
  <2>2. req[r].call.id \in NoteIds /\ req[r].call.id <= noteSeq
    BY <1>0, <1>3, IdsTyped DEF InsertComment, At, TalkInv, Relied, NoteWasFound
  <2>3. req[r].call.id \in 1..noteSeq'
    BY <1>0, <2>2, BoundsAssumption DEF NoteIds
  <2>4. ASSUME NEW k \in CommentIds
        PROVE  /\ k > commentSeq' => comments'[k] = Absent /\ removals'[k] = 0
               /\ comments'[k] # Absent =>
                    removals'[k] = 0 /\ comments'[k].note \in 1..noteSeq'
               /\ removals'[k] \in {0, 1}
    <3>1. k \in Nat BY BoundsAssumption DEF CommentIds
    <3>2. CASE k = commentSeq + 1
      <4>1. comments'[k].note = req[r].call.id BY <1>0, <2>1, <3>2 DEF TablesOK
      <4>2. removals[k] = 0 BY <1>0, <3>1, <3>2 DEF CommentsTrue
      <4> QED BY <1>0, <2>1, <2>3, <3>2, <4>1, <4>2
    <3>3. CASE k # commentSeq + 1
      <4>1. comments'[k] = comments[k] /\ removals'[k] = removals[k]
        BY <1>0, <2>1, <3>3 DEF TablesOK
      <4> QED BY <1>0, <2>1, <3>1, <3>3, <4>1 DEF CommentsTrue
    <3> QED BY <3>2, <3>3
  <2> QED BY <2>4 DEF CommentsTrue
<1>4. ASSUME NEW r \in Reqs, DeleteCommentRow(r), ~UNCHANGED commentVars
      PROVE  CommentsTrue'
  <2> DEFINE d == req[r].call.id
  <2>1. /\ comments[d] # Absent /\ UNCHANGED commentSeq
        /\ comments' = [comments EXCEPT ![d] = Absent]
        /\ removals' = [removals EXCEPT ![d] = @ + 1]
    BY <1>4 DEF DeleteCommentRow
  <2>2. d \in CommentIds BY <1>0, <1>4, IdsTyped DEF DeleteCommentRow, At
  <2>3. removals[d] = 0 /\ d \in Nat /\ d <= commentSeq
    BY <1>0, <2>1, <2>2, BoundsAssumption DEF CommentsTrue, CommentIds
  <2>4. comments'[d] = Absent /\ removals'[d] = 1
    BY <1>0, <2>1, <2>2, <2>3 DEF TablesOK
  <2>5. \A k \in CommentIds : k # d =>
          comments'[k] = comments[k] /\ removals'[k] = removals[k]
    BY <1>0, <2>1 DEF TablesOK
  <2> QED BY <1>0, <2>1, <2>3, <2>4, <2>5 DEF CommentsTrue
<1> QED BY <1>1, <1>3, <1>4, <1>2, Writers

\* A like goes in under the next id, for a note that was found, and only
\* when its user has none on that note.
LEMMA LikesNext ==
  ASSUME TalkInv, [Next]_vars
  PROVE  LikesTrue' /\ OneEach'
<1>0. /\ TypeInv /\ TablesOK /\ TablesOK' /\ LikesTrue /\ OneEach
      /\ noteSeq \in Nat /\ noteSeq' \in Nat /\ noteSeq <= noteSeq'
      /\ likeSeq \in Nat
  BY TypeNext, Grown, BoundsAssumption DEF TalkInv, PinInv, TypeInv, TypeOK, TablesOK
<1>1. CASE UNCHANGED likeVars BY <1>0, <1>1 DEF LikesTrue, OneEach, likeVars
<1>2. ASSUME NEW r \in Reqs, InsertLike(r), UNCHANGED likes
      PROVE  LikesTrue' /\ OneEach'
  <2>1. likeSeq' = likeSeq + 1 BY <1>2 DEF InsertLike
  <2>2. \A l \in LikeIds : l \in Nat BY BoundsAssumption DEF LikeIds
  <2>3. LikesTrue' BY <1>0, <1>2, <2>1, <2>2 DEF LikesTrue
  <2>4. OneEach' BY <1>0, <1>2 DEF OneEach
  <2> QED BY <2>3, <2>4
<1>3. ASSUME NEW r \in Reqs, InsertLike(r), ~UNCHANGED likes
      PROVE  LikesTrue' /\ OneEach'
  <2> DEFINE u == req[r].call.user  n == req[r].call.id  s == likeSeq + 1
  <2>1. /\ likeSeq' = s /\ s \in LikeIds
        /\ likes' = [likes EXCEPT ![s] = [user |-> u, note |-> n]]
        /\ LikesBy(u, n) = {}
    BY <1>0, <1>3, BoundsAssumption DEF InsertLike, LikeIds
  <2>2. n \in NoteIds /\ n <= noteSeq
    BY <1>0, <1>3, IdsTyped DEF InsertLike, At, TalkInv, Relied, NoteWasFound
  <2>3. n \in 1..noteSeq' BY <1>0, <2>2, BoundsAssumption DEF NoteIds
  <2>4. /\ likes'[s].user = u /\ likes'[s].note = n
        /\ \A l \in LikeIds : l # s => likes'[l] = likes[l]
    BY <1>0, <2>1 DEF TablesOK
  <2>5. \A l \in LikeIds : l \in Nat BY BoundsAssumption DEF LikeIds
  <2>6. LikesTrue' BY <1>0, <2>1, <2>3, <2>4, <2>5 DEF LikesTrue
  <2>7. \A l \in LikeIds : likes[l] # Absent => ~(likes[l].user = u /\ likes[l].note = n)
    BY <2>1 DEF LikesBy
  <2>8. OneEach'
    <3> HIDE DEF u, n, s
    <3> QED BY <1>0, <2>4, <2>7 DEF OneEach
  <2> QED BY <2>6, <2>8
<1>4. ASSUME NEW r \in Reqs, DeleteLike(r)
      PROVE  LikesTrue' /\ OneEach'
  <2>1. UNCHANGED likeSeq /\ \A l \in LikeIds : likes'[l] \in {likes[l], Absent}
    BY <1>0, <1>4 DEF DeleteLike, TablesOK
  <2> QED BY <1>0, <2>1 DEF LikesTrue, OneEach
<1> QED BY <1>1, <1>3, <1>4, <1>2, Writers

\* Nothing is referred to or relied on at first.
LEMMA TalkInit == Init => TalkInv
<1> SUFFICES ASSUME Init PROVE TalkInv OBVIOUS
<1>1. PinInv BY PinInit
<1>2. CommentsTrue BY DEF Init, CommentsTrue
<1>3. LikesTrue /\ OneEach BY DEF Init, LikesTrue, OneEach
<1>4. \A r \in Reqs : Relied(r)
  BY DEF Init, Idle, Relied, NoteWasFound, NoteIsMine, LikeIsMine, Told, At, Saving
<1> QED BY <1>1, <1>2, <1>3, <1>4 DEF TalkInv

LEMMA TalkInvariant == Spec => []TalkInv
<1>1. ASSUME TalkInv, [Next]_vars PROVE TalkInv'
  BY <1>1, PinNext, CommentsNext, LikesNext, RelyNext DEF TalkInv
<1> QED BY <1>1, TalkInit, PTL DEF Spec

-----------------------------------------------------------------------------
(***************************************************************************)
(* The theorems.                                                           *)
(***************************************************************************)
\* However the statements of requests interleave, fail, have their outcome lost
\* or are cut off by a restart: no request answered 4xx has changed a table, one
\* answered 500 has only where outcomes get lost, and every success of a writing
\* request but an unlike has.
THEOREM AnswersTellTheEffect == Spec => []AnswerTellsEffect
<1>1. TalkInv => AnswerTellsEffect
  BY DEF TalkInv, Relied, Told, AnswerTellsEffect
<1> QED BY <1>1, TalkInvariant, PTL

\* No comment or like ever points at a note id not handed out yet.
THEOREM ReferencesWereCreated == Spec => []RefsWereCreated
<1>1. TalkInv => RefsWereCreated
  BY DEF TalkInv, CommentsTrue, LikesTrue, RefsWereCreated
<1> QED BY <1>1, TalkInvariant, PTL

\* Of any number of overlapping deletes of a comment, at most one removes it.
THEOREM CommentsGoOnce == Spec => []RemovedOnce
<1>1. TalkInv => RemovedOnce BY DEF TalkInv, CommentsTrue, RemovedOnce
<1> QED BY <1>1, TalkInvariant, PTL

\* A like goes only by an unlike of the user who gave it, although the delete
\* statement names nothing but the id found earlier.
THEOREM OnlyTheLikerUnlikes == Spec => OnlyLikerUnlikes
<1> DEFINE Step ==
      \A l \in LikeIds : likes[l] # Absent /\ likes'[l] # likes[l] =>
        \E r \in Reqs : /\ At(r, "Unlike", "delete")
                        /\ req[r].call.user = likes[l].user
                        /\ req[r].call.id = likes[l].note
                        /\ req'[r].status \in Outcomes(200)
<1>1. ASSUME TalkInv, [Next]_vars PROVE Step
  <2>0. /\ TypeInv /\ TablesOK /\ likeSeq \in Nat /\ LikesTrue
        /\ \A r \in Reqs : LikeIsMine(r)
    BY <1>1, BoundsAssumption
    DEF TalkInv, PinInv, TypeInv, TypeOK, TablesOK, Relied
  <2>1. CASE UNCHANGED likeVars BY <2>1 DEF likeVars
  <2>2. ASSUME NEW r \in Reqs, InsertLike(r), ~UNCHANGED likeVars,
               NEW l \in LikeIds, likes[l] # Absent
        PROVE  likes'[l] = likes[l]
    <3>1. l # likeSeq + 1
      <4>1. likeSeq + 1 > likeSeq BY <2>0
      <4> QED BY <2>0, <2>2, <4>1 DEF LikesTrue
    <3> QED BY <2>0, <2>2, <3>1 DEF InsertLike, TablesOK
  <2>3. ASSUME NEW r \in Reqs, DeleteLike(r), NEW l \in LikeIds,
               likes[l] # Absent, likes'[l] # likes[l]
        PROVE  /\ At(r, "Unlike", "delete")
               /\ req[r].call.user = likes[l].user
               /\ req[r].call.id = likes[l].note
               /\ req'[r].status \in Outcomes(200)
    <3>1. At(r, "Unlike", "delete") BY <2>3 DEF DeleteLike
    <3>2. req[r].like = l BY <2>0, <2>3 DEF DeleteLike, TablesOK
    <3>3. ASSUME NEW st \in Outcomes(200), Answer(r, st) PROVE req'[r].status = st
      BY <2>0, <3>3, AnswerTells, Zenon
    <3>4. req'[r].status \in Outcomes(200)
      BY <2>0, <2>3, <3>3, UnlikeAnswers, WrittenTells
    <3> QED BY <2>0, <2>3, <3>1, <3>2, <3>4 DEF LikeIsMine
  <2> QED BY <1>1, <2>1, <2>2, <2>3, Writers
<1> HIDE DEF Step
<1>2. ASSUME TalkInv, [Next]_vars PROVE [Step]_vars BY <1>1, <1>2
<1> QED BY <1>2, TalkInvariant, PTL DEF Spec, OnlyLikerUnlikes, Step

\* A note changes or goes only by a request of its owner that is told so,
\* although the owner was checked two statements earlier.
THEOREM OnlyTheOwnerWrites == Spec => OnlyOwnerWrites
<1> DEFINE Step ==
      \A n \in NoteIds : notes[n] # Absent /\ notes'[n] # notes[n] =>
        \E r \in Reqs : /\ req[r].pc \in {"save", "upsert", "delete"}
                        /\ req[r].call.op \in NoteOps
                        /\ req[r].call.id = n
                        /\ req[r].call.user = notes[n].user
                        /\ req'[r].status \in Outcomes(200)
<1>1. ASSUME TalkInv, [Next]_vars PROVE Step
  <2>0. /\ TypeInv /\ TablesOK /\ noteSeq \in Nat /\ BornBySequence /\ OwnerPinned
        /\ \A r \in Reqs : NoteIsMine(r)
    BY <1>1, BoundsAssumption
    DEF TalkInv, PinInv, TypeInv, TypeOK, TablesOK, Relied
  <2>1. CASE UNCHANGED noteVars BY <2>1 DEF noteVars
  <2>2. ASSUME NEW r \in Reqs, InsertNote(r), ~UNCHANGED noteVars,
               NEW n \in NoteIds, notes[n] # Absent
        PROVE  notes'[n] = notes[n]
    <3>1. n # noteSeq + 1
      <4>1. noteSeq + 1 > noteSeq BY <2>0
      <4> QED BY <2>0, <2>2, <4>1 DEF BornBySequence
    <3> QED BY <2>0, <2>2, <3>1 DEF InsertNote, TablesOK
  <2>3. ASSUME NEW r \in Reqs, SaveUpdate(r) \/ SaveInsert(r) \/ DeleteRow(r),
               NEW n \in NoteIds, notes[n] # Absent, notes'[n] # notes[n]
        PROVE  /\ req[r].pc \in {"save", "upsert", "delete"}
               /\ req[r].call.op \in NoteOps
               /\ req[r].call.id = n
               /\ req[r].call.user = notes[n].user
               /\ req'[r].status \in Outcomes(200)
    <3>1. Saving(r) \/ At(r, "DeleteNote", "delete")
      BY <2>3 DEF SaveUpdate, SaveInsert, DeleteRow, Saving
    <3>2. req[r].call.id = n
      BY <2>0, <2>3 DEF SaveUpdate, SaveInsert, DeleteRow, TablesOK
    <3>3. Written(r, 200) BY <2>3 DEF SaveUpdate, SaveInsert, DeleteRow
    <3>4. req'[r].status \in Outcomes(200) BY <2>0, <3>3, WrittenTells
    <3>5. req[r].call.user = notes[n].user
      BY <2>0, <2>3, <3>1, <3>2 DEF NoteIsMine, OwnerPinned
    <3> QED BY <3>1, <3>2, <3>4, <3>5 DEF Saving, At, NoteOps
  <2> QED BY <1>1, <2>1, <2>2, <2>3, Writers
<1> HIDE DEF Step
<1>2. ASSUME TalkInv, [Next]_vars PROVE [Step]_vars BY <1>1, <1>2
<1> QED BY <1>2, TalkInvariant, PTL DEF Spec, OnlyOwnerWrites, Step

-----------------------------------------------------------------------------
(***************************************************************************)
(* The scores of a note come from one request.                             *)
(***************************************************************************)
\* The rows in memory must be as good as the stored ones: a save that held
\* its copy for long puts it back whole.
OneScore(row) ==
  row # Absent =>
    \E c \in Calls : row.aroma = c.body.aroma /\ row.overall = c.body.overall

ScoreInv ==
  /\ TypeInv
  /\ \A n \in NoteIds : OneScore(notes[n])
  /\ \A r \in Reqs : OneScore(req[r].row)

\* A patch takes over both scores of its body, or none.
LEMMA PatchScores ==
  ASSUME NEW row \in NoteRow, OneScore(row), NEW c \in Calls,
         c.body.roast \in RoastLevels
  PROVE  OneScore(Patched(row, c.body))
<1>1. row # Absent BY AbsentAssumption
<1>2. CASE c.body.overall > 0
  <2>1. /\ Patched(row, c.body).aroma = c.body.aroma
        /\ Patched(row, c.body).overall = c.body.overall
    BY <1>2 DEF Patched, NoteRow
  <2> QED BY <2>1 DEF OneScore
<1>3. CASE ~(c.body.overall > 0)
  <2>1. /\ Patched(row, c.body).aroma = row.aroma
        /\ Patched(row, c.body).overall = row.overall
    BY <1>3 DEF Patched, NoteRow
  <2> QED BY <1>1, <2>1 DEF OneScore
<1> QED BY <1>2, <1>3

\* What a slot holds after an answer, a move or a hold.
LEMMA RowsHeld ==
  ASSUME TypeInv, NEW r \in Reqs, NEW s, NEW pc, NEW row
  PROVE  /\ Answer(r, s) \/ Written(r, s) => req'[r].row = Absent
         /\ Goto(r, pc) => req'[r].row = req[r].row
         /\ Hold(r, pc, row) => req'[r].row = row
<1>0. req[r] \in Slot BY DEF TypeInv, TypeOK
<1>1. ASSUME NEW st, NEW w, Finish(r, st, w) PROVE req'[r].row = Absent
  BY <1>0, <1>1 DEF Finish, Slot, TypeInv, TypeOK
<1>2. Answer(r, s) \/ Written(r, s) => req'[r].row = Absent
  BY <1>1, Zenon DEF Answer, Written
<1>3. Goto(r, pc) => req'[r].row = req[r].row
  BY <1>0 DEF Goto, Slot, TypeInv, TypeOK
<1>4. Hold(r, pc, row) => req'[r].row = row
  BY <1>0 DEF Hold, Slot, TypeInv, TypeOK
<1> QED BY <1>2, <1>3, <1>4

\* A request that steps holds a row of one score, or none.
LEMMA SlotScores ==
  ASSUME ScoreInv, NEW r \in Reqs, Arrive(r) \/ Progress(r) \/ StatementFails(r)
  PROVE  OneScore(req'[r].row)
<1>0. TypeInv /\ TablesOK /\ req \in [Reqs -> Slot] /\ OneScore(req[r].row)
  BY DEF ScoreInv, TypeInv, TypeOK
<1>1. OneScore(Absent) BY DEF OneScore
<1>2. CASE Arrive(r)
  <2>1. PICK c \in Calls : NoteArrival(r, c) \/ CommentArrival(r, c) \/ LikeArrival(r, c)
    BY <1>2 DEF Arrive
  <2>2. \/ Reject(r, c, 400) \/ Reject(r, c, 422)
        \/ Enter(r, c, "find", Absent) \/ Enter(r, c, "insert", NewNote(c))
    BY <2>1 DEF NoteArrival, CommentArrival, LikeArrival, CreateNote, GetNote,
      UpdateNote, DeleteNote, AddComment, DeleteComment, Like, Unlike
  <2>5. ASSUME NEW s, Reject(r, c, s) PROVE req'[r].row = Absent
    BY <1>0, <2>5 DEF Reject, Idle
  <2>6. ASSUME NEW pc, NEW row, Enter(r, c, pc, row) PROVE req'[r].row = row
    BY <1>0, <2>6 DEF Enter, Idle
  <2>3. req'[r].row \in {Absent, NewNote(c)} BY <2>2, <2>5, <2>6
  <2>4. NewNote(c).aroma = c.body.aroma /\ NewNote(c).overall = c.body.overall
    BY DEF NewNote
  <2> QED BY <1>1, <2>3, <2>4 DEF OneScore
<1>3. ASSUME NEW s, Answer(r, s) \/ Written(r, s) PROVE OneScore(req'[r].row)
  BY <1>0, <1>1, <1>3, RowsHeld
<1>4. ASSUME NEW pc, Goto(r, pc) PROVE OneScore(req'[r].row)
  BY <1>0, <1>4, RowsHeld
<1>5. CASE NoteProgress(r)
  <2> DEFINE n == req[r].call.id
  <2>1. CASE GetFind(r)
    <3>1. n \in NoteIds BY <1>0, <2>1, IdsTyped DEF GetFind, At
    <3>2. Answer(r, 404) \/ Hold(r, "count", notes[n]) BY <2>1 DEF GetFind
    <3> QED BY <1>0, <1>3, <3>1, <3>2, RowsHeld DEF ScoreInv
  <2>2. CASE GetCount(r)
    <3>1. req'[r] = [req[r] EXCEPT !.pc = "done", !.status = 200, !.row = Absent,
                                   !.count = CountByNote(n)]
      BY <1>0, <2>2 DEF GetCount
    <3>2. req'[r].row = Absent BY <1>0, <3>1 DEF Slot
    <3> QED BY <1>1, <3>2
  <2>3. CASE UpdateFind(r)
    <3>1. n \in NoteIds /\ req[r].call \in Calls
      BY <1>0, <2>3, IdsTyped DEF UpdateFind, At
    <3>2. \/ \E s : Answer(r, s)
          \/ /\ notes[n] # Absent /\ req[r].call.body.roast \in RoastLevels
             /\ Hold(r, "save", Patched(notes[n], req[r].call.body))
      BY <2>3 DEF UpdateFind
    <3>3. CASE /\ notes[n] # Absent /\ req[r].call.body.roast \in RoastLevels
               /\ Hold(r, "save", Patched(notes[n], req[r].call.body))
      <4>1. notes[n] \in NoteRow /\ OneScore(notes[n])
        BY <1>0, <3>1, <3>3 DEF ScoreInv, TablesOK
      <4> QED BY <1>0, <3>1, <3>3, <4>1, PatchScores, RowsHeld
    <3> QED BY <1>3, <3>2, <3>3
  <2>4. CASE InsertNote(r) \/ SaveUpdate(r) \/ SaveInsert(r) \/ DeleteFind(r) \/ DeleteRow(r)
    <3>1. (\E s : Answer(r, s) \/ Written(r, s)) \/ \E pc : Goto(r, pc)
      BY <2>4 DEF InsertNote, SaveUpdate, SaveInsert, DeleteFind, DeleteRow
    <3> QED BY <1>3, <1>4, <3>1
  <2> QED BY <1>5, <2>1, <2>2, <2>3, <2>4 DEF NoteProgress
<1>6. CASE CommentProgress(r)
  <2>1. (\E s : Answer(r, s) \/ Written(r, s)) \/ \E pc : Goto(r, pc)
    BY <1>6 DEF CommentProgress, FindNoteToComment, InsertComment,
      FindCommentToDelete, DeleteCommentRow
  <2> QED BY <1>3, <1>4, <2>1
<1>7. CASE LikeProgress(r)
  <2>1. CASE FindNoteToLike(r) \/ InsertLike(r)
    <3>1. (\E s : Answer(r, s) \/ Written(r, s)) \/ \E pc : Goto(r, pc)
      BY <2>1 DEF FindNoteToLike, InsertLike
    <3> QED BY <1>3, <1>4, <3>1
  <2>2. CASE DeleteLike(r)
    <3>1. \E s : Answer(r, s) \/ Written(r, s) BY <2>2, UnlikeAnswers
    <3> QED BY <1>3, <3>1
  <2>3. ASSUME NEW l,
               req' = [req EXCEPT ![r] = [@ EXCEPT !.pc = "delete", !.like = l]]
        PROVE  OneScore(req'[r].row)
    BY <1>0, <2>3 DEF Slot
  <2>4. CASE FindLike(r) BY <1>3, <2>3, <2>4 DEF FindLike
  <2> QED BY <1>7, <2>1, <2>2, <2>4 DEF LikeProgress
<1>8. CASE StatementFails(r)
  <2>1. \E s : Answer(r, s)
    BY <1>8 DEF StatementFails, NoteStatementFails, CommentStatementFails,
      LikeStatementFails
  <2> QED BY <1>3, <2>1
<1> QED BY <1>2, <1>5, <1>6, <1>7, <1>8 DEF Progress

\* A stored row is the one that was there, or the one a request held.
LEMMA TableScores ==
  ASSUME ScoreInv, [Next]_vars, NEW n \in NoteIds
  PROVE  OneScore(notes'[n])
<1>0. TablesOK /\ OneScore(notes[n]) /\ \A r \in Reqs : OneScore(req[r].row)
  BY DEF ScoreInv, TypeInv, TypeOK
<1>1. ASSUME NEW r \in Reqs, InsertNote(r) \/ SaveUpdate(r) \/ SaveInsert(r) \/ DeleteRow(r)
      PROVE  notes'[n] \in {notes[n], req[r].row, Absent}
  <2>1. CASE InsertNote(r) BY <1>0, <2>1 DEF InsertNote, TablesOK, noteVars
  <2>2. CASE SaveUpdate(r) BY <1>0, <2>2 DEF SaveUpdate, TablesOK
  <2>3. CASE SaveInsert(r) BY <1>0, <2>3 DEF SaveInsert, TablesOK
  <2>4. CASE DeleteRow(r) BY <1>0, <2>4 DEF DeleteRow, TablesOK
  <2> QED BY <1>1, <2>1, <2>2, <2>3, <2>4
<1>2. CASE UNCHANGED noteVars BY <1>0, <1>2 DEF noteVars
<1>3. OneScore(Absent) BY DEF OneScore
<1> QED BY <1>0, <1>1, <1>2, <1>3, Writers

\* The sub-scores and the overall score of a stored note always come from one
\* request, however many updates of the note overlap.
THEOREM ScoresOfOneRequest == Spec => []ScoresTogether
<1>1. Init => ScoreInv
  <2> SUFFICES ASSUME Init PROVE ScoreInv OBVIOUS
  <2> QED BY TypeInit DEF Init, ScoreInv, OneScore, Idle
<1>2. ASSUME ScoreInv, [Next]_vars PROVE ScoreInv'
  <2>1. TypeInv' /\ req \in [Reqs -> Slot]
    BY <1>2, TypeNext DEF ScoreInv, TypeInv, TypeOK
  <2>2. ASSUME NEW q \in Reqs PROVE OneScore(req'[q].row)
    <3>1. OneScore(Idle.row) /\ OneScore(req[q].row)
      BY <1>2 DEF Idle, OneScore, ScoreInv
    <3> QED BY <1>2, <2>1, <3>1, Movers, SlotScores
  <2>3. \A n \in NoteIds : OneScore(notes'[n]) BY <1>2, TableScores
  <2> QED BY <2>1, <2>2, <2>3 DEF ScoreInv, OneScore
<1>3. ScoreInv => ScoresTogether BY DEF ScoreInv, OneScore, ScoresTogether
<1> QED BY <1>1, <1>2, <1>3, PTL DEF Spec
=============================================================================
