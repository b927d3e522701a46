-------------------------- MODULE CommunityProofs --------------------------
(***************************************************************************)
(* Proofs about Community, for any users, workload, number of requests and *)
(* bounds, with or without foreign key and faults.                         *)
(***************************************************************************)
EXTENDS Community, FiniteSetTheorems, TLAPS

\* A slot that is not idle carries a request of the workload, and holds what
\* the statement it is about to send needs.
SlotOK ==
  \A r \in Reqs :
    /\ req[r].pc # "idle" => req[r].call \in Calls
    /\ At(r, "CreateNote", "insert") => req[r].row # Absent
    /\ At(r, "UpdateNote", "save") \/ At(r, "UpdateNote", "upsert")
         => req[r].row # Absent

TypeInv == TypeOK /\ SlotOK

(***************************************************************************)
(* How the moves of a request slot are typed.                              *)
(***************************************************************************)
\* A call of the workload names ids of the tables.
LEMMA CallType ==
  ASSUME NEW c \in Calls
  PROVE  /\ c \in Call
         /\ c.op # "DeleteComment" => c.id \in NoteIds
         /\ c.op = "DeleteComment" => c.id \in CommentIds
         /\ c.user \in Users
         /\ c # NoCall
BY CallsAssumption, NoCallAssumption DEF TargetIds, Call

\* Entering with a row, or with none, keeps slots typed.
LEMMA EnterType ==
  ASSUME TypeInv, NEW r \in Reqs, NEW c \in Calls, NEW pc \in Statements,
         NEW row \in NoteRow \cup {Absent},
         c.op = "CreateNote" => row # Absent,
         pc \notin {"save", "upsert"},
         Enter(r, c, pc, row)
  PROVE  req' \in [Reqs -> Slot] /\ SlotOK'
<1> USE DEF TypeInv, TypeOK, SlotOK, Slot, Idle, Statements, At
<1>1. req'[r] \in Slot BY AbsentAssumption DEF Enter
<1>2. req' \in [Reqs -> Slot] BY <1>1 DEF Enter
<1>3. SlotOK' BY AbsentAssumption DEF Enter
<1> QED BY <1>2, <1>3

\* So does rejecting a request.
LEMMA RejectType ==
  ASSUME TypeInv, NEW r \in Reqs, NEW c \in Calls, NEW s \in Statuses,
         Reject(r, c, s)
  PROVE  req' \in [Reqs -> Slot] /\ SlotOK'
<1> USE DEF TypeInv, TypeOK, SlotOK, Slot, Idle, Statements, At
<1>1. req'[r] \in Slot BY DEF Reject
<1>2. req' \in [Reqs -> Slot] BY <1>1 DEF Reject
<1>3. SlotOK' BY DEF Reject
<1> QED BY <1>2, <1>3

\* What an answer does to the slots: the one that answers keeps its call and
\* drops what it held, the others keep everything.
LEMMA AnswerMove ==
  ASSUME req \in [Reqs -> Slot], NEW r \in Reqs, NEW s \in Statuses,
         Answer(r, s) \/ Written(r, s)
  PROVE  /\ \E st \in Statuses, w \in BOOLEAN :
              req'[r] = [pc |-> "done", call |-> req[r].call, row |-> Absent,
                         like |-> 0, count |-> req[r].count, status |-> st, wrote |-> w]
         /\ req'[r].pc = "done" /\ req'[r].call = req[r].call
         /\ req'[r].status \in Outcomes(s)
         /\ \A q \in Reqs : q # r => req'[q] = req[q]
         /\ req' = [req EXCEPT ![r] = req'[r]]
<1>1. PICK st \in Outcomes(s), w \in BOOLEAN : Finish(r, st, w)
  BY DEF Answer, Written, Outcomes
<1>2. st \in Statuses BY DEF Outcomes, Statuses
<1>3. req'[r] = [pc |-> "done", call |-> req[r].call, row |-> Absent, like |-> 0,
                 count |-> req[r].count, status |-> st, wrote |-> w]
  BY <1>1 DEF Finish, Slot
<1>4. \A q \in Reqs : q # r => req'[q] = req[q] BY <1>1 DEF Finish
<1>5. req' = [req EXCEPT ![r] = req'[r]] BY <1>1, <1>3 DEF Finish
<1> QED BY <1>2, <1>3, <1>4, <1>5

\* So answering a request keeps slots typed.
LEMMA AnswerType ==
  ASSUME TypeInv, NEW r \in Reqs, req[r].pc # "idle", NEW s \in Statuses,
         Answer(r, s) \/ Written(r, s)
  PROVE  req' \in [Reqs -> Slot] /\ SlotOK'
<1>0. req \in [Reqs -> Slot] BY DEF TypeInv, TypeOK
<1>1. PICK st \in Statuses, w \in BOOLEAN :
        req'[r] = [pc |-> "done", call |-> req[r].call, row |-> Absent, like |-> 0,
                   count |-> req[r].count, status |-> st, wrote |-> w]
  BY <1>0, AnswerMove
<1>2. /\ \A q \in Reqs : q # r => req'[q] = req[q]
      /\ req' = [req EXCEPT ![r] = req'[r]]
  BY <1>0, AnswerMove
<1> USE DEF TypeInv, TypeOK, SlotOK, Slot, Statements, At
<1>3. req'[r] \in Slot BY <1>1
<1>4. req' \in [Reqs -> Slot] BY <1>2, <1>3
<1>5. SlotOK' BY <1>1, <1>2
<1> QED BY <1>4, <1>5

\* An unlike that sent its DELETE is answered, whatever the DELETE found.
LEMMA UnlikeAnswers ==
  ASSUME NEW r \in Reqs, DeleteLike(r)
  PROVE  Written(r, 200) \/ \E st \in Outcomes(200) : st \in {200, 500} /\ Answer(r, st)
<1>1. PICK st \in Outcomes(200) : Finish(r, st, likes[req[r].like] # Absent)
  BY DEF DeleteLike
<1>2. st \in {200, 500} BY DEF Outcomes
<1>3. CASE likes[req[r].like] = Absent
  <2>1. (likes[req[r].like] # Absent) = FALSE BY <1>3
  <2>2. Finish(r, st, FALSE) BY <1>1, <2>1, Zenon
  <2> QED BY <1>2, <2>2 DEF Answer
<1>4. CASE likes[req[r].like] # Absent
  <2>1. (likes[req[r].like] # Absent) = TRUE BY <1>4
  <2>2. Finish(r, st, TRUE) BY <1>1, <2>1, Zenon
  <2> QED BY <1>1, <2>2 DEF Written
<1> QED BY <1>3, <1>4

\* So does going on to a statement that needs no row in hand.
LEMMA GotoType ==
  ASSUME TypeInv, NEW r \in Reqs, NEW pc \in Statements,
         req[r].pc # "idle", Goto(r, pc),
         req[r].call.op = "CreateNote" => req[r].row # Absent,
         pc = "save" => req[r].row # Absent,
         pc = "upsert" => req[r].row # Absent
  PROVE  req' \in [Reqs -> Slot] /\ SlotOK'
<1> USE DEF TypeInv, TypeOK, SlotOK, Slot, Statements, At
<1>1. req'[r] \in Slot BY DEF Goto
<1>2. req' \in [Reqs -> Slot] BY <1>1 DEF Goto
<1>3. SlotOK' BY DEF Goto
<1> QED BY <1>2, <1>3

\* So does holding the id of the like to delete.
LEMMA FoundType ==
  ASSUME TypeInv, NEW r \in Reqs, NEW l \in LikeIds, At(r, "Unlike", "find"),
         req' = [req EXCEPT ![r] = [@ EXCEPT !.pc = "delete", !.like = l]]
  PROVE  req' \in [Reqs -> Slot] /\ SlotOK'
<1> DEFINE s == req[r]  t == req'[r]
<1>0. req \in [Reqs -> Slot] /\ SlotOK /\ s \in Slot BY DEF TypeInv, TypeOK
<1>1. t = [s EXCEPT !.pc = "delete", !.like = l] BY <1>0
<1>2. \A q \in Reqs : q # r => req'[q] = req[q] BY <1>0
<1>3. t \in Slot /\ t.pc = "delete" /\ t.call = s.call
  <2> HIDE DEF s, t
  <2>1. /\ t.pc = "delete" /\ t.call = s.call /\ t.row = s.row
        /\ t.like = l /\ t.count = s.count /\ t.status = s.status
    BY <1>0, <1>1 DEF Slot
  <2>2. t.wrote = s.wrote BY <1>0, <1>1 DEF Slot
  <2>3. t = [pc |-> t.pc, call |-> t.call, row |-> t.row, like |-> t.like,
             count |-> t.count, status |-> t.status, wrote |-> t.wrote]
    BY <1>0, <1>1 DEF Slot
  <2>4. s.wrote \in BOOLEAN BY <1>0 DEF Slot
  <2>5. /\ s.call \in Calls \cup {NoCall} /\ s.row \in NoteRow \cup {Absent}
        /\ s.count \in Nat /\ s.status \in Statuses \cup {0}
    BY <1>0 DEF Slot
  <2> QED BY <2>1, <2>2, <2>3, <2>4, <2>5 DEF Slot, Statements
<1>4. req' \in [Reqs -> Slot] BY <1>0, <1>3
<1>5. SlotOK' BY <1>0, <1>2, <1>3 DEF SlotOK, At
<1> QED BY <1>4, <1>5

\* And so does answering with a like count.
LEMMA CountedType ==
  ASSUME TypeInv, NEW r \in Reqs, NEW k \in Nat, At(r, "GetNote", "count"),
         req' = [req EXCEPT ![r] =
                   [@ EXCEPT !.pc = "done", !.status = 200, !.row = Absent,
                             !.count = k]]
  PROVE  req' \in [Reqs -> Slot] /\ SlotOK'
<1> DEFINE s == req[r]  t == req'[r]
<1>0. req \in [Reqs -> Slot] /\ SlotOK /\ s \in Slot BY DEF TypeInv, TypeOK
<1>1. t = [s EXCEPT !.pc = "done", !.status = 200, !.row = Absent, !.count = k]
  BY <1>0
<1>2. \A q \in Reqs : q # r => req'[q] = req[q] BY <1>0
<1>3. t \in Slot /\ t.pc = "done" /\ t.call = s.call
  <2> HIDE DEF s, t
  <2>1. /\ t.pc = "done" /\ t.call = s.call /\ t.row = Absent
        /\ t.like = s.like /\ t.count = k /\ t.status = 200
    BY <1>0, <1>1 DEF Slot
  <2>2. t.wrote = s.wrote BY <1>0, <1>1 DEF Slot
  <2>3. t = [pc |-> t.pc, call |-> t.call, row |-> t.row, like |-> t.like,
             count |-> t.count, status |-> t.status, wrote |-> t.wrote]
    BY <1>0, <1>1 DEF Slot
  <2>4. s.wrote \in BOOLEAN BY <1>0 DEF Slot
  <2>5. s.call \in Calls \cup {NoCall} /\ s.like \in LikeIds \cup {0}
    BY <1>0 DEF Slot
  <2> QED BY <2>1, <2>2, <2>3, <2>4, <2>5 DEF Slot, Statuses, Statements
<1>4. req' \in [Reqs -> Slot] BY <1>0, <1>3
<1>5. SlotOK' BY <1>0, <1>2, <1>3 DEF SlotOK, At
<1> QED BY <1>4, <1>5

\* So does holding a row.
LEMMA HoldType ==
  ASSUME TypeInv, NEW r \in Reqs, NEW pc \in Statements,
         NEW row \in NoteRow, req[r].pc # "idle", Hold(r, pc, row)
  PROVE  req' \in [Reqs -> Slot] /\ SlotOK'
<1> USE DEF TypeInv, TypeOK, SlotOK, Slot, Statements, At
<1>1. row # Absent BY AbsentAssumption
<1>2. req'[r] \in Slot BY DEF Hold
<1>3. req' \in [Reqs -> Slot] BY <1>2 DEF Hold
<1>4. SlotOK' BY <1>1 DEF Hold
<1> QED BY <1>3, <1>4

-----------------------------------------------------------------------------
(***************************************************************************)
(* Type correctness, one step per action of each service.                  *)
(***************************************************************************)
\* The tables and the history stay typed when nothing writes them.
LEMMA TablesUnchanged ==
  ASSUME TablesOK, UNCHANGED <<noteVars, commentVars, likeVars>>
  PROVE  TablesOK'
BY DEF TablesOK, noteVars, commentVars, likeVars

\* A request for which the handler has come to its first statement.
LEMMA ArrivalType ==
  ASSUME TypeInv, NEW r \in Reqs, NEW c \in Calls,
         NoteArrival(r, c) \/ CommentArrival(r, c) \/ LikeArrival(r, c)
  PROVE  TypeInv'
<1> USE DEF Statuses, Statements
<1>1. TablesOK'
  BY TablesUnchanged
  DEF TypeInv, TypeOK, NoteArrival, CommentArrival, LikeArrival, CreateNote, GetNote, UpdateNote,
      DeleteNote, AddComment, DeleteComment, Like, Unlike
<1>2. CASE c.op # "CreateNote"
  <2>1. \/ Reject(r, c, 400)
        \/ Enter(r, c, "find", Absent)
    BY <1>2 DEF NoteArrival, CommentArrival, LikeArrival, CreateNote, GetNote,
      UpdateNote, DeleteNote, AddComment, DeleteComment, Like, Unlike
  <2> QED BY <1>1, <1>2, <2>1, RejectType, EnterType DEF TypeInv, TypeOK
<1>3. CASE c.op = "CreateNote"
  <2>1. CreateNote(r, c)
    BY <1>3 DEF NoteArrival, CommentArrival, LikeArrival, GetNote, UpdateNote,
      DeleteNote, AddComment, DeleteComment, Like, Unlike
  <2>2. CASE Reject(r, c, 400) \/ Reject(r, c, 422)
    BY <1>1, <2>2, RejectType DEF TypeInv, TypeOK
  <2>3. CASE c.body.roast \in RoastLevels /\ Enter(r, c, "insert", NewNote(c))
    <3>1. NewNote(c) \in NoteRow
      BY <2>3, CallType DEF NewNote, NoteRow, Call, NoteBody, TagTexts
    <3>2. NewNote(c) # Absent BY <3>1, AbsentAssumption
    <3> QED BY <1>1, <2>3, <3>1, <3>2, EnterType DEF TypeInv, TypeOK
  <2> QED BY <2>1, <2>2, <2>3 DEF CreateNote
<1> QED BY <1>2, <1>3

\* The patched row is a row.
LEMMA PatchedType ==
  ASSUME NEW row \in NoteRow, NEW c \in Calls, c.body.roast \in RoastLevels
  PROVE  /\ Patched(row, c.body) \in NoteRow
         /\ Patched(row, c.body).user = row.user
         /\ Patched(row, c.body).image = row.image
<1>1. c.body \in NoteBody BY CallType DEF Call
<1>2. c.body.tags \in TagTexts /\ c.body.aroma \in Nat /\ c.body.overall \in Nat
  BY <1>1 DEF NoteBody
<1>3. CASE c.body.overall > 0
  BY <1>2, <1>3 DEF Patched, NoteRow, TagTexts
<1>4. CASE ~(c.body.overall > 0)
  BY <1>2, <1>4 DEF Patched, NoteRow, TagTexts
<1> QED BY <1>3, <1>4

\* The statements of the note handlers.
LEMMA NoteProgressType ==
  ASSUME TypeInv, NEW r \in Reqs, NoteProgress(r)
  PROVE  TypeInv'
<1> USE DEF Statuses, Statements
<1>0. /\ TablesOK /\ SlotOK /\ req \in [Reqs -> Slot] /\ req[r] \in Slot
      /\ req[r].pc # "idle" => req[r].call \in Calls
  BY DEF TypeInv, TypeOK, SlotOK
<1>1. CASE InsertNote(r)
  <2>1. req[r].row \in NoteRow BY <1>0, <1>1 DEF InsertNote, SlotOK, Slot
  <2>2. TablesOK'
    <3>1. CASE UNCHANGED noteVars
      BY <1>0, <1>1, <3>1, TablesUnchanged DEF InsertNote
    <3>2. CASE ~UNCHANGED noteVars
      <4>1. noteSeq + 1 \in NoteIds /\ noteSeq + 1 \in 0..MaxNotes
        BY <1>0, <1>1, <3>2, BoundsAssumption DEF InsertNote, TablesOK, NoteIds
      <4>2. [user |-> req[r].row.user, image |-> req[r].row.image] \in BirthRow
        BY <2>1 DEF NoteRow, BirthRow
      <4> QED
        BY <1>0, <1>1, <2>1, <3>2, <4>1, <4>2
        DEF InsertNote, TablesOK, commentVars, likeVars
    <3> QED BY <3>1, <3>2
  <2>3. req' \in [Reqs -> Slot] /\ SlotOK'
    BY <1>1, AnswerType DEF InsertNote, At
  <2> QED BY <2>2, <2>3 DEF TypeInv, TypeOK
<1>2. CASE GetFind(r)
  <2>1. TablesOK' BY <1>0, <1>2, TablesUnchanged DEF GetFind
  <2>2. notes[req[r].call.id] \in NoteRow \cup {Absent}
    BY <1>0, <1>2, CallType DEF GetFind, At, TablesOK
  <2>3. req' \in [Reqs -> Slot] /\ SlotOK'
    BY <1>2, <2>2, AnswerType, HoldType DEF GetFind, At
  <2> QED BY <2>1, <2>3 DEF TypeInv, TypeOK
<1>3. CASE GetCount(r)
  <2>1. TablesOK' BY <1>0, <1>3, TablesUnchanged DEF GetCount
  <2>2. CountByNote(req[r].call.id) \in Nat
    <3>1. IsFiniteSet(LikeIds) BY BoundsAssumption, FS_Interval DEF LikeIds
    <3>2. \A n : IsFiniteSet({l \in LikeIds : likes[l] # Absent /\ likes[l].note = n})
      BY <3>1, FS_Subset
    <3> QED BY <3>2, FS_CardinalityType DEF CountByNote
  <2>3. req' \in [Reqs -> Slot] /\ SlotOK'
    BY <1>3, <2>2, CountedType DEF GetCount
  <2> QED BY <2>1, <2>3 DEF TypeInv, TypeOK
<1>4. CASE UpdateFind(r)
  <2>1. TablesOK' BY <1>0, <1>4, TablesUnchanged DEF UpdateFind
  <2>2. notes[req[r].call.id] \in NoteRow \cup {Absent}
    BY <1>0, <1>4, CallType DEF UpdateFind, At, TablesOK
  <2>3. req' \in [Reqs -> Slot] /\ SlotOK'
    BY <1>0, <1>4, <2>2, AnswerType, HoldType, PatchedType
    DEF UpdateFind, At
  <2> QED BY <2>1, <2>3 DEF TypeInv, TypeOK
<1>5. CASE SaveUpdate(r)
  <2>1. req[r].row \in NoteRow BY <1>0, <1>5 DEF SaveUpdate, SlotOK, Slot
  <2>2. TablesOK'
    BY <1>0, <1>5, <2>1 DEF SaveUpdate, TablesOK, commentVars, likeVars
  <2>3. req[r].row # Absent BY <2>1, AbsentAssumption
  <2>4. req' \in [Reqs -> Slot] /\ SlotOK'
    BY <1>5, <2>3, AnswerType, GotoType DEF SaveUpdate, At
  <2> QED BY <2>2, <2>4 DEF TypeInv, TypeOK
<1>6. CASE SaveInsert(r)
  <2>1. req[r].row \in NoteRow BY <1>0, <1>6 DEF SaveInsert, SlotOK, Slot
  <2>2. TablesOK'
    BY <1>0, <1>6, <2>1 DEF SaveInsert, TablesOK, commentVars, likeVars
  <2>3. req' \in [Reqs -> Slot] /\ SlotOK'
    BY <1>6, AnswerType DEF SaveInsert, At
  <2> QED BY <2>2, <2>3 DEF TypeInv, TypeOK
<1>7. CASE DeleteFind(r)
  <2>1. TablesOK' BY <1>0, <1>7, TablesUnchanged DEF DeleteFind
  <2>2. req' \in [Reqs -> Slot] /\ SlotOK'
    BY <1>7, AnswerType, GotoType DEF DeleteFind, At
  <2> QED BY <2>1, <2>2 DEF TypeInv, TypeOK
<1>8. CASE DeleteRow(r)
  <2>1. req[r].call.id \in NoteIds BY <1>0, <1>8, CallType DEF DeleteRow, At
  <2>2. TablesOK'
    BY <1>0, <1>8, <2>1 DEF DeleteRow, TablesOK, commentVars, likeVars
  <2>3. req' \in [Reqs -> Slot] /\ SlotOK'
    BY <1>8, AnswerType DEF DeleteRow, At
  <2> QED BY <2>2, <2>3 DEF TypeInv, TypeOK
<1> QED
  BY <1>1, <1>2, <1>3, <1>4, <1>5, <1>6, <1>7, <1>8 DEF NoteProgress

\* The statements of the comment handlers.
LEMMA CommentProgressType ==
  ASSUME TypeInv, NEW r \in Reqs, CommentProgress(r)
  PROVE  TypeInv'
<1> USE DEF Statuses, Statements
<1>0. /\ TablesOK /\ SlotOK /\ req \in [Reqs -> Slot] /\ req[r] \in Slot
      /\ req[r].pc # "idle" => req[r].call \in Calls
  BY DEF TypeInv, TypeOK, SlotOK
<1>1. CASE FindNoteToComment(r)
  <2>1. TablesOK' BY <1>0, <1>1, TablesUnchanged DEF FindNoteToComment
  <2>2. req' \in [Reqs -> Slot] /\ SlotOK'
    BY <1>1, AnswerType, GotoType DEF FindNoteToComment, At
  <2> QED BY <2>1, <2>2 DEF TypeInv, TypeOK
<1>2. CASE InsertComment(r)
  <2>1. req' \in [Reqs -> Slot] /\ SlotOK'
    BY <1>2, AnswerType DEF InsertComment, At
  <2>2. TablesOK'
    <3>1. CASE UNCHANGED commentVars
      BY <1>0, <1>2, <3>1, TablesUnchanged DEF InsertComment
    <3>2. CASE ~UNCHANGED commentVars
      <4>1. commentSeq + 1 \in CommentIds /\ commentSeq + 1 \in 0..MaxComments
        BY <1>0, <1>2, <3>2, BoundsAssumption DEF InsertComment, TablesOK, CommentIds
      <4>2. [user |-> req[r].call.user, note |-> req[r].call.id] \in CommentRow
        BY <1>0, <1>2, CallType DEF InsertComment, At, CommentRow
      <4> QED
        BY <1>0, <1>2, <3>2, <4>1, <4>2 DEF InsertComment, TablesOK, noteVars, likeVars
    <3> QED BY <3>1, <3>2
  <2> QED BY <2>1, <2>2 DEF TypeInv, TypeOK
<1>3. CASE FindCommentToDelete(r)
  <2>1. TablesOK' BY <1>0, <1>3, TablesUnchanged DEF FindCommentToDelete
  <2>2. req' \in [Reqs -> Slot] /\ SlotOK'
    BY <1>3, AnswerType, GotoType DEF FindCommentToDelete, At
  <2> QED BY <2>1, <2>2 DEF TypeInv, TypeOK
<1>4. CASE DeleteCommentRow(r)
  <2>1. TablesOK'
    BY <1>0, <1>4 DEF DeleteCommentRow, TablesOK, noteVars, commentVars, likeVars
  <2>2. req' \in [Reqs -> Slot] /\ SlotOK'
    BY <1>4, AnswerType DEF DeleteCommentRow, At
  <2> QED BY <2>1, <2>2 DEF TypeInv, TypeOK
<1> QED BY <1>1, <1>2, <1>3, <1>4 DEF CommentProgress

\* The statements of the like handlers.
LEMMA LikeProgressType ==
  ASSUME TypeInv, NEW r \in Reqs, LikeProgress(r)
  PROVE  TypeInv'
<1> USE DEF Statuses, Statements
<1>0. /\ TablesOK /\ SlotOK /\ req \in [Reqs -> Slot] /\ req[r] \in Slot
      /\ req[r].pc # "idle" => req[r].call \in Calls
  BY DEF TypeInv, TypeOK, SlotOK
<1>1. CASE FindNoteToLike(r)
  <2>1. TablesOK' BY <1>0, <1>1, TablesUnchanged DEF FindNoteToLike
  <2>2. req' \in [Reqs -> Slot] /\ SlotOK'
    BY <1>1, AnswerType, GotoType DEF FindNoteToLike, At
  <2> QED BY <2>1, <2>2 DEF TypeInv, TypeOK
<1>2. CASE InsertLike(r)
  <2>1. req' \in [Reqs -> Slot] /\ SlotOK'
    BY <1>2, AnswerType DEF InsertLike, At
  <2>2. TablesOK'
    <3>1. CASE UNCHANGED likeVars
      BY <1>0, <1>2, <3>1, TablesUnchanged DEF InsertLike
    <3>2. CASE ~UNCHANGED likeVars
      <4>1. likeSeq + 1 \in LikeIds /\ likeSeq + 1 \in 0..MaxLikes
        BY <1>0, <1>2, <3>2, BoundsAssumption DEF InsertLike, TablesOK, LikeIds
      <4>2. [user |-> req[r].call.user, note |-> req[r].call.id] \in LikeRow
        BY <1>0, <1>2, CallType DEF InsertLike, At, LikeRow
      <4> QED
        BY <1>0, <1>2, <3>2, <4>1, <4>2 DEF InsertLike, TablesOK, noteVars, commentVars
    <3> QED BY <3>1, <3>2
  <2> QED BY <2>1, <2>2 DEF TypeInv, TypeOK
<1>3. CASE FindLike(r)
  <2>1. TablesOK' BY <1>0, <1>3, TablesUnchanged DEF FindLike
  <2>2. req' \in [Reqs -> Slot] /\ SlotOK'
    <3>0. At(r, "Unlike", "find") /\ req[r].pc # "idle"
      BY <1>3, Zenon DEF FindLike, At
    <3>1. CASE Answer(r, 404) BY <3>0, <3>1, AnswerType
    <3>2. CASE ~Answer(r, 404)
      <4>1. PICK l \in LikeIds :
              req' = [req EXCEPT ![r] = [@ EXCEPT !.pc = "delete", !.like = l]]
        BY <1>3, <3>2 DEF FindLike, LikesBy
      <4> QED BY <3>0, <4>1, FoundType
    <3> QED BY <3>1, <3>2
  <2> QED BY <2>1, <2>2 DEF TypeInv, TypeOK
<1>4. CASE DeleteLike(r)
  <2>1. TablesOK'
    BY <1>0, <1>4 DEF DeleteLike, TablesOK, noteVars, commentVars, likeVars
  <2>2. \E st \in Statuses : Answer(r, st) \/ Written(r, st) BY <1>4, UnlikeAnswers
  <2>3. req' \in [Reqs -> Slot] /\ SlotOK'
    BY <1>4, <2>2, AnswerType DEF DeleteLike, At
  <2> QED BY <2>1, <2>3 DEF TypeInv, TypeOK
<1> QED BY <1>1, <1>2, <1>3, <1>4 DEF LikeProgress

\* Answering the client, failing, and starting again write no table.
LEMMA ReplyType ==
  ASSUME TypeInv, NEW r \in Reqs, Reply(r)
  PROVE  TypeInv'
<1>1. TablesOK' BY TablesUnchanged DEF Reply, TypeInv, TypeOK
<1>2. Idle \in Slot BY DEF Idle, Slot
<1>3. req' \in [Reqs -> Slot] BY <1>2 DEF Reply, TypeInv, TypeOK
<1>4. SlotOK' BY DEF Reply, TypeInv, TypeOK, SlotOK, At, Idle
<1> QED BY <1>1, <1>3, <1>4 DEF TypeInv, TypeOK

\* A failing statement keeps the types.
LEMMA FailType ==
  ASSUME TypeInv, NEW r \in Reqs, StatementFails(r)
  PROVE  TypeInv'
<1>1. TablesOK'
  BY TablesUnchanged
  DEF StatementFails, NoteStatementFails, CommentStatementFails,
      LikeStatementFails, TypeInv, TypeOK
<1>2. req[r].pc # "idle"
  BY DEF StatementFails, NoteStatementFails, CommentStatementFails,
      LikeStatementFails, Statements
<1>3. Answer(r, 200) \/ Answer(r, 404) \/ Answer(r, 500)
  BY DEF StatementFails, NoteStatementFails, CommentStatementFails,
      LikeStatementFails
<1>4. req' \in [Reqs -> Slot] /\ SlotOK' BY <1>2, <1>3, AnswerType DEF Statuses
<1> QED BY <1>1, <1>4 DEF TypeInv, TypeOK

\* A restart keeps the types: every slot is idle again.
LEMMA RestartType ==
  ASSUME TypeInv, Restart
  PROVE  TypeInv'
<1>1. TablesOK' BY TablesUnchanged DEF Restart, TypeInv, TypeOK
<1>2. Idle \in Slot BY DEF Idle, Slot
<1>3. req' \in [Reqs -> Slot] BY <1>2 DEF Restart
<1>4. SlotOK' BY DEF Restart, SlotOK, At, Idle
<1> QED BY <1>1, <1>3, <1>4 DEF TypeInv, TypeOK

\* The initial state has the types.
LEMMA TypeInit == Init => TypeInv
<1>1. ASSUME Init PROVE TablesOK
  BY <1>1, BoundsAssumption DEF Init, TablesOK
<1>2. Idle \in Slot BY DEF Idle, Slot
<1>3. ASSUME Init PROVE SlotOK BY <1>3 DEF Init, SlotOK, At, Idle
<1> QED BY <1>1, <1>2, <1>3 DEF TypeInv, TypeOK, Init

\* Every step keeps the types.
LEMMA TypeNext ==
  ASSUME TypeInv, [Next]_vars
  PROVE  TypeInv'
<1>1. CASE UNCHANGED vars
  BY <1>1 DEF TypeInv, TypeOK, TablesOK, SlotOK, At, vars
<1>2. ASSUME NEW r \in Reqs, Arrive(r) PROVE TypeInv'
  BY <1>2, ArrivalType DEF Arrive
<1>3. ASSUME NEW r \in Reqs, Progress(r) PROVE TypeInv'
  BY <1>3, NoteProgressType, CommentProgressType, LikeProgressType DEF Progress
<1>4. ASSUME NEW r \in Reqs, Reply(r) PROVE TypeInv' BY <1>4, ReplyType
<1>5. ASSUME NEW r \in Reqs, StatementFails(r) PROVE TypeInv' BY <1>5, FailType
<1>6. CASE Restart BY <1>6, RestartType
<1> QED BY <1>1, <1>2, <1>3, <1>4, <1>5, <1>6 DEF Next

\* The types hold for ever.
LEMMA TypeInvariant == Spec => []TypeInv
BY TypeInit, TypeNext, PTL DEF Spec

\* The tables and the request slots hold what they should, whatever the
\* interleaving, failures and restarts.
THEOREM TypeCorrect == Spec => []TypeOK
BY TypeInvariant, PTL DEF TypeInv

-----------------------------------------------------------------------------
(***************************************************************************)
(* Owner and photo of a note, for life.                                    *)
(*                                                                         *)
(* OwnerPinned alone is not inductive: an update writes back a copy it     *)
(* read long ago, perhaps of a row that is gone.  PinInv adds that such a  *)
(* copy bears the owner and photo of the note's birth, that its id has     *)
(* been handed out, and that births follow the sequence.                   *)
(***************************************************************************)
PinInv == TypeInv /\ BornBySequence /\ OwnerPinned /\ HeldRowsPinned

\* What BornBySequence says of one id.
LEMMA Births ==
  ASSUME PinInv, NEW n \in NoteIds
  PROVE  /\ notes[n] # Absent => n <= noteSeq
         /\ n <= noteSeq => born[n] # Absent
<1>1. n \in Nat /\ noteSeq \in Nat
  BY BoundsAssumption DEF PinInv, TypeInv, TypeOK, TablesOK, NoteIds
<1>2. BornBySequence BY DEF PinInv
<1>3. /\ n > noteSeq => notes[n] = Absent
      /\ n <= noteSeq => born[n] # Absent
  BY <1>2, Zenon DEF BornBySequence
<1> QED BY <1>1, <1>3

\* A step that writes no note, hands out no note id and makes no request
\* hold another copy keeps PinInv.
LEMMA QuietStep ==
  ASSUME PinInv, TypeInv', UNCHANGED <<notes, noteSeq, born>>,
         \A q \in Reqs : Saving(q)' =>
           /\ Saving(q)
           /\ req'[q].call = req[q].call
           /\ req'[q].row = req[q].row
  PROVE  PinInv'
<1>1. BornBySequence' BY DEF PinInv, BornBySequence
<1>2. OwnerPinned' BY DEF PinInv, OwnerPinned
<1>3. HeldRowsPinned' BY DEF PinInv, HeldRowsPinned
<1> QED BY <1>1, <1>2, <1>3 DEF PinInv

\* The moves that make no request start saving, or change what it saves.
LEMMA ArriveHoldsNothing ==
  ASSUME TypeInv, NEW r \in Reqs, NEW c \in Calls, NEW s \in Statuses, NEW row,
         NEW pc \in Statements \ {"save", "upsert"},
         Reject(r, c, s) \/ Enter(r, c, pc, row)
  PROVE  \A q \in Reqs : Saving(q)' =>
           Saving(q) /\ req'[q].call = req[q].call /\ req'[q].row = req[q].row
BY DEF TypeInv, TypeOK, Reject, Enter, Saving, At, Idle

\* After an answer only other requests may still be saving.
LEMMA AnswerHoldsNothing ==
  ASSUME TypeInv, NEW r \in Reqs, NEW s \in Statuses, Answer(r, s) \/ Written(r, s)
  PROVE  \A q \in Reqs : Saving(q)' =>
           q # r /\ Saving(q) /\ req'[q].call = req[q].call /\ req'[q].row = req[q].row
BY AnswerMove DEF Saving, At, TypeInv, TypeOK

\* A request that moves on takes no row in hand it did not hold for a save.
LEMMA GotoHoldsNothing ==
  ASSUME TypeInv, NEW r \in Reqs, NEW pc \in Statements, Goto(r, pc),
         pc \notin {"save", "upsert"} \/ Saving(r)
  PROVE  \A q \in Reqs : Saving(q)' =>
           Saving(q) /\ req'[q].call = req[q].call /\ req'[q].row = req[q].row
<1>1. /\ req'[r].pc = pc /\ req'[r].call = req[r].call
      /\ req'[r].row = req[r].row
  BY DEF TypeInv, TypeOK, Slot, Goto
<1>2. \A q \in Reqs : q # r => req'[q] = req[q] BY DEF TypeInv, TypeOK, Goto
<1> QED BY <1>1, <1>2 DEF Saving, At

\* A request that keeps a row for a statement other than a save is not saving.
LEMMA HoldHoldsNothing ==
  ASSUME TypeInv, NEW r \in Reqs, NEW pc \in Statements \ {"save", "upsert"},
         NEW row, Hold(r, pc, row)
  PROVE  \A q \in Reqs : Saving(q)' =>
           Saving(q) /\ req'[q].call = req[q].call /\ req'[q].row = req[q].row
<1>1. req'[r].pc = pc BY DEF TypeInv, TypeOK, Slot, Hold
<1>2. \A q \in Reqs : q # r => req'[q] = req[q] BY DEF TypeInv, TypeOK, Hold
<1> QED BY <1>1, <1>2 DEF Saving, At

\* A request that arrives keeps the pinning.
LEMMA PinArrive ==
  ASSUME PinInv, NEW r \in Reqs, Arrive(r)
  PROVE  PinInv'
<1>1. PICK c \in Calls :
        NoteArrival(r, c) \/ CommentArrival(r, c) \/ LikeArrival(r, c)
  BY DEF Arrive
<1>2. TypeInv' BY <1>1, ArrivalType DEF PinInv
<1>3. UNCHANGED <<notes, noteSeq, born>>
  BY <1>1 DEF NoteArrival, CommentArrival, LikeArrival, CreateNote, GetNote,
    UpdateNote, DeleteNote, AddComment, DeleteComment, Like, Unlike, noteVars
<1>4. \/ Reject(r, c, 400) \/ Reject(r, c, 422)
      \/ Enter(r, c, "find", Absent) \/ Enter(r, c, "insert", NewNote(c))
  BY <1>1 DEF NoteArrival, CommentArrival, LikeArrival, CreateNote, GetNote,
    UpdateNote, DeleteNote, AddComment, DeleteComment, Like, Unlike
<1>5. \A q \in Reqs : Saving(q)' =>
        Saving(q) /\ req'[q].call = req[q].call /\ req'[q].row = req[q].row
  BY <1>4, ArriveHoldsNothing DEF PinInv, Statuses, Statements
<1> QED BY <1>2, <1>3, <1>5, QuietStep

\* Every step of the note service keeps the pinning.
LEMMA PinNote ==
  ASSUME PinInv, NEW r \in Reqs, NoteProgress(r)
  PROVE  PinInv'
<1> USE DEF Statuses, Statements
<1>0. /\ TypeInv /\ TypeInv'
      /\ TablesOK /\ SlotOK /\ req \in [Reqs -> Slot] /\ req[r] \in Slot
      /\ req[r].pc # "idle" => req[r].call \in Calls
  BY NoteProgressType DEF PinInv, TypeInv, TypeOK, SlotOK
<1>1. CASE InsertNote(r)
  <2>1. CASE UNCHANGED noteVars
    <3>1. Answer(r, 500) \/ Written(r, 201) BY <1>1 DEF InsertNote
    <3> QED BY <1>0, <2>1, <3>1, AnswerHoldsNothing, QuietStep DEF noteVars
  <2>2. CASE ~UNCHANGED noteVars
    <3>1. /\ noteSeq + 1 \in NoteIds
          /\ noteSeq' = noteSeq + 1
          /\ notes' = [notes EXCEPT ![noteSeq + 1] = req[r].row]
          /\ born' = [born EXCEPT ![noteSeq + 1] =
                        [user |-> req[r].row.user, image |-> req[r].row.image]]
          /\ Written(r, 201)
      BY <1>0, <1>1, <2>2, BoundsAssumption DEF InsertNote, TablesOK, NoteIds
    <3>2. [user |-> req[r].row.user, image |-> req[r].row.image] # Absent
      <4>1. req[r].row \in NoteRow BY <1>0, <1>1 DEF InsertNote, SlotOK, Slot
      <4>2. [user |-> req[r].row.user, image |-> req[r].row.image] \in BirthRow
        BY <4>1 DEF NoteRow, BirthRow
      <4> QED BY <4>2, AbsentAssumption
    <3>3. \A n \in NoteIds : n # noteSeq + 1 =>
            notes'[n] = notes[n] /\ born'[n] = born[n]
      BY <1>0, <3>1 DEF TablesOK
    <3>4. BornBySequence'
      BY <1>0, <3>1, <3>2, <3>3 DEF PinInv, BornBySequence, TablesOK, NoteIds
    <3>5. OwnerPinned'
      BY <1>0, <3>1, <3>2, <3>3 DEF PinInv, OwnerPinned, TablesOK
    <3>6. HeldRowsPinned'
      <4>1. \A q \in Reqs : Saving(q)' =>
              Saving(q) /\ req'[q].call = req[q].call /\ req'[q].row = req[q].row
        BY <1>0, <3>1, AnswerHoldsNothing
      <4>2. \A q \in Reqs : Saving(q) => req[q].call.id \in NoteIds
        BY <1>0, CallType DEF Saving, At, SlotOK
      <4> QED
        <5> SUFFICES ASSUME NEW q \in Reqs, Saving(q)'
                     PROVE  /\ req'[q].call.id <= noteSeq'
                            /\ req'[q].row # Absent
                            /\ req'[q].row.user = born'[req'[q].call.id].user
                            /\ req'[q].row.image = born'[req'[q].call.id].image
          BY DEF HeldRowsPinned
        <5> DEFINE m == req[q].call.id
        <5>1. /\ Saving(q) /\ req'[q].call = req[q].call
              /\ req'[q].row = req[q].row
          BY <4>1
        <5>2. /\ m <= noteSeq /\ req[q].row # Absent
              /\ req[q].row.user = born[m].user /\ req[q].row.image = born[m].image
          BY <5>1 DEF PinInv, HeldRowsPinned
        <5>3. m \in NoteIds /\ m \in Nat /\ noteSeq \in Nat
          BY <1>0, <4>2, <5>1, BoundsAssumption DEF TablesOK, NoteIds
        <5>4. m # noteSeq + 1 /\ m <= noteSeq + 1 BY <5>2, <5>3
        <5> QED BY <3>1, <3>3, <5>1, <5>2, <5>3, <5>4
    <3> QED BY <1>0, <3>4, <3>5, <3>6 DEF PinInv
  <2> QED BY <2>1, <2>2
<1>2. CASE GetFind(r) \/ GetCount(r) \/ DeleteFind(r)
  <2>1. UNCHANGED <<notes, noteSeq, born>>
    BY <1>2 DEF GetFind, GetCount, DeleteFind, noteVars
  <2>2. \A q \in Reqs : Saving(q)' =>
          Saving(q) /\ req'[q].call = req[q].call /\ req'[q].row = req[q].row
    <3>1. CASE GetFind(r)
      <4>1. Answer(r, 404) \/ Hold(r, "count", notes[req[r].call.id])
        BY <3>1 DEF GetFind
      <4> QED BY <1>0, <4>1, AnswerHoldsNothing, HoldHoldsNothing
    <3>2. CASE GetCount(r)
      BY <1>0, <3>2 DEF GetCount, Saving, At, Slot
    <3>3. CASE DeleteFind(r)
      <4>1. Answer(r, 500) \/ Answer(r, 403) \/ Goto(r, "delete")
        BY <3>3 DEF DeleteFind
      <4> QED BY <1>0, <4>1, AnswerHoldsNothing, GotoHoldsNothing
    <3> QED BY <1>2, <3>1, <3>2, <3>3
  <2> QED BY <1>0, <2>1, <2>2, QuietStep
<1>3. CASE UpdateFind(r)
  <2>1. UNCHANGED <<notes, noteSeq, born>> BY <1>3 DEF UpdateFind, noteVars
  <2>2. CASE Answer(r, 500) \/ Answer(r, 403) \/ Answer(r, 422)
    BY <1>0, <2>1, <2>2, AnswerHoldsNothing, QuietStep
  <2>3. CASE /\ notes[req[r].call.id] # Absent
             /\ req[r].call.body.roast \in RoastLevels
             /\ Hold(r, "save", Patched(notes[req[r].call.id], req[r].call.body))
    <3> DEFINE n == req[r].call.id
               new == Patched(notes[n], req[r].call.body)
    <3>1. n \in NoteIds /\ req[r].call \in Calls
      BY <1>0, <1>3, CallType DEF UpdateFind, At
    <3>2. notes[n] \in NoteRow BY <1>0, <2>3, <3>1 DEF TablesOK
    <3>3. /\ new \in NoteRow /\ new # Absent
          /\ new.user = notes[n].user /\ new.image = notes[n].image
      BY <2>3, <3>1, <3>2, PatchedType, AbsentAssumption
    <3>4. /\ n <= noteSeq
          /\ new.user = born[n].user /\ new.image = born[n].image
      <4> HIDE DEF n, new
      <4>1. notes[n] # Absent BY <2>3 DEF n
      <4>3. n <= noteSeq BY <3>1, <4>1, Births
      <4> QED BY <3>1, <3>3, <4>1, <4>3 DEF PinInv, OwnerPinned
    <3>5. req'[r].call = req[r].call /\ req'[r].row = new
      <4> HIDE DEF new
      <4> QED BY <1>0, <2>3 DEF Hold, Slot, new
    <3>6. \A q \in Reqs : q # r => req'[q] = req[q] BY <1>0, <2>3 DEF Hold
    <3>7. HeldRowsPinned'
      BY <2>1, <3>3, <3>4, <3>5, <3>6 DEF PinInv, HeldRowsPinned, Saving, At
    <3>8. BornBySequence' /\ OwnerPinned'
      BY <2>1 DEF PinInv, BornBySequence, OwnerPinned
    <3> QED BY <1>0, <3>7, <3>8 DEF PinInv
  <2> QED BY <1>3, <2>2, <2>3 DEF UpdateFind
<1>4. CASE SaveUpdate(r) \/ SaveInsert(r)
  <2> DEFINE n == req[r].call.id
  <2>1. Saving(r) BY <1>4 DEF SaveUpdate, SaveInsert, Saving
  <2>2. n \in NoteIds BY <1>0, <2>1, CallType DEF Saving, At
  <2>3. UNCHANGED <<noteSeq, born>> BY <1>4 DEF SaveUpdate, SaveInsert
  <2>4. \A q \in Reqs : Saving(q)' =>
          Saving(q) /\ req'[q].call = req[q].call /\ req'[q].row = req[q].row
    <3>1. Answer(r, 500) \/ Written(r, 200) \/ Goto(r, "upsert")
      BY <1>4 DEF SaveUpdate, SaveInsert
    <3>2. CASE Answer(r, 500) \/ Written(r, 200)
      BY <1>0, <3>2, AnswerHoldsNothing
    <3>3. CASE Goto(r, "upsert") BY <1>0, <2>1, <3>3, GotoHoldsNothing
    <3> QED BY <3>1, <3>2, <3>3
  <2>5. CASE UNCHANGED notes BY <1>0, <2>3, <2>4, <2>5, QuietStep
  <2>6. CASE notes' = [notes EXCEPT ![n] = req[r].row]
    <3>1. /\ n <= noteSeq
          /\ req[r].row.user = born[n].user /\ req[r].row.image = born[n].image
      BY <2>1 DEF PinInv, HeldRowsPinned
    <3>6. born[n] # Absent BY <2>2, <3>1, Births
    <3>2. notes'[n] = req[r].row /\ \A m \in NoteIds : m # n => notes'[m] = notes[m]
      BY <1>0, <2>2, <2>6 DEF TablesOK
    <3>3. BornBySequence'
      BY <1>0, <2>2, <2>3, <3>1, <3>2 DEF PinInv, BornBySequence, TablesOK, NoteIds
    <3>4. OwnerPinned' BY <2>3, <3>1, <3>2, <3>6 DEF PinInv, OwnerPinned
    <3>5. HeldRowsPinned' BY <2>3, <2>4 DEF PinInv, HeldRowsPinned
    <3> QED BY <1>0, <3>3, <3>4, <3>5 DEF PinInv
  <2> QED BY <1>4, <2>5, <2>6 DEF SaveUpdate, SaveInsert
<1>5. CASE DeleteRow(r)
  <2> DEFINE n == req[r].call.id
  <2>1. n \in NoteIds BY <1>0, <1>5, CallType DEF DeleteRow, At
  <2>2. UNCHANGED <<noteSeq, born>> BY <1>5 DEF DeleteRow
  <2>3. \A m \in NoteIds : notes'[m] \in {notes[m], Absent}
    BY <1>0, <1>5, <2>1 DEF DeleteRow, TablesOK
  <2>4. Answer(r, 500) \/ Written(r, 200) BY <1>5 DEF DeleteRow
  <2>5. BornBySequence' /\ OwnerPinned'
    BY <2>2, <2>3 DEF PinInv, BornBySequence, OwnerPinned
  <2>6. HeldRowsPinned'
    BY <1>0, <2>2, <2>4, AnswerHoldsNothing DEF PinInv, HeldRowsPinned
  <2> QED BY <1>0, <2>5, <2>6 DEF PinInv
<1> QED BY <1>1, <1>2, <1>3, <1>4, <1>5 DEF NoteProgress

\* The comment and like services touch no note and save none.
LEMMA PinOthers ==
  ASSUME PinInv, NEW r \in Reqs, CommentProgress(r) \/ LikeProgress(r)
  PROVE  PinInv'
<1> USE DEF Statuses, Statements
<1>1. TypeInv /\ TypeInv' /\ req \in [Reqs -> Slot] /\ req[r] \in Slot
  BY CommentProgressType, LikeProgressType DEF PinInv, TypeInv, TypeOK
<1>2. UNCHANGED <<notes, noteSeq, born>>
  BY DEF CommentProgress, FindNoteToComment, InsertComment,
    FindCommentToDelete, DeleteCommentRow, LikeProgress, FindNoteToLike,
    InsertLike, FindLike, DeleteLike, noteVars
<1>3. \/ \E st \in Statuses : Answer(r, st) \/ Written(r, st)
      \/ Goto(r, "insert") \/ Goto(r, "delete")
      \/ FindLike(r)
  <2>1. DeleteLike(r) => \E st \in Statuses : Answer(r, st) \/ Written(r, st)
    BY UnlikeAnswers
  <2> QED
    BY <2>1 DEF CommentProgress, FindNoteToComment, InsertComment,
      FindCommentToDelete, DeleteCommentRow, LikeProgress, FindNoteToLike, InsertLike
<1>4. FindLike(r) => \A q \in Reqs : Saving(q)' =>
        Saving(q) /\ req'[q].call = req[q].call /\ req'[q].row = req[q].row
  <2> SUFFICES ASSUME FindLike(r), ~Answer(r, 404)
               PROVE  \A q \in Reqs : Saving(q)' =>
        Saving(q) /\ req'[q].call = req[q].call /\ req'[q].row = req[q].row
    BY <1>1, AnswerHoldsNothing
  <2>1. \A q \in Reqs : q # r => req'[q] = req[q] BY <1>1 DEF FindLike
  <2>2. PICK l \in LikeIds :
          req' = [req EXCEPT ![r] = [@ EXCEPT !.pc = "delete", !.like = l]]
    BY DEF FindLike, LikesBy
  <2>3. req'[r].pc = "delete" BY <1>1, <2>2 DEF Slot
  <2> QED BY <2>1, <2>3 DEF Saving, At
<1>5. \A q \in Reqs : Saving(q)' =>
        Saving(q) /\ req'[q].call = req[q].call /\ req'[q].row = req[q].row
  BY <1>1, <1>3, <1>4, AnswerHoldsNothing, GotoHoldsNothing
<1> QED BY <1>1, <1>2, <1>5, QuietStep

\* Every step keeps the pinning.
LEMMA PinNext ==
  ASSUME PinInv, [Next]_vars
  PROVE  PinInv'
<1>0. TypeInv /\ TypeInv' BY TypeNext DEF PinInv
<1>1. CASE UNCHANGED vars
  BY <1>0, <1>1, QuietStep DEF vars, Saving, At
<1>2. ASSUME NEW r \in Reqs, Reply(r) PROVE PinInv'
  <2>1. UNCHANGED <<notes, noteSeq, born>> BY <1>2 DEF Reply, noteVars
  <2>2. \A q \in Reqs : Saving(q)' =>
          Saving(q) /\ req'[q].call = req[q].call /\ req'[q].row = req[q].row
    BY <1>0, <1>2 DEF Reply, TypeInv, TypeOK, Saving, At, Idle
  <2> QED BY <1>0, <2>1, <2>2, QuietStep
<1>3. ASSUME NEW r \in Reqs, StatementFails(r) PROVE PinInv'
  <2>1. UNCHANGED <<notes, noteSeq, born>>
    BY <1>3 DEF StatementFails, NoteStatementFails, CommentStatementFails,
      LikeStatementFails, noteVars
  <2>2. Answer(r, 200) \/ Answer(r, 404) \/ Answer(r, 500)
    BY <1>3 DEF StatementFails, NoteStatementFails, CommentStatementFails,
      LikeStatementFails
  <2>3. \A q \in Reqs : Saving(q)' =>
          Saving(q) /\ req'[q].call = req[q].call /\ req'[q].row = req[q].row
    BY <1>0, <2>2, AnswerHoldsNothing DEF Statuses
  <2> QED BY <1>0, <2>1, <2>3, QuietStep
<1>4. CASE Restart
  <2>1. UNCHANGED <<notes, noteSeq, born>> BY <1>4 DEF Restart, noteVars
  <2>2. \A q \in Reqs : ~Saving(q)' BY <1>4 DEF Restart, Saving, At, Idle
  <2> QED BY <1>0, <2>1, <2>2, QuietStep
<1> QED
  BY <1>1, <1>2, <1>3, <1>4, PinArrive, PinNote, PinOthers DEF Next, Progress

\* There is nothing to pin at first.
LEMMA PinInit == Init => PinInv
<1>1. ASSUME Init PROVE BornBySequence
  BY <1>1 DEF Init, BornBySequence, NoteIds
<1>2. ASSUME Init PROVE OwnerPinned BY <1>2 DEF Init, OwnerPinned
<1>3. ASSUME Init PROVE HeldRowsPinned
  BY <1>3 DEF Init, HeldRowsPinned, Saving, At, Idle
<1> QED BY <1>1, <1>2, <1>3, TypeInit DEF PinInv

\* No interleaving of updates, deletes and the rows Save inserts again gives
\* a note to another user or changes its photo.
THEOREM NotesStayWithTheirOwner == Spec => []OwnerPinned
<1>1. Spec => []PinInv BY PinInit, PinNext, PTL DEF Spec
<1> QED BY <1>1, PTL DEF PinInv

-----------------------------------------------------------------------------
(***************************************************************************)
(* A deleted note comes back only out of an update's memory.               *)
(***************************************************************************)
\* Every way a row can appear: the next id of the sequence, or a save.
LEMMA HowNotesChange ==
  ASSUME TypeInv, [Next]_vars, NEW n \in 1..noteSeq, notes[n] = Absent,
         HeldBy(n) = {}
  PROVE  notes'[n] = Absent
<1>0. /\ TablesOK /\ SlotOK /\ req \in [Reqs -> Slot]
      /\ n \in NoteIds /\ n \in Nat /\ noteSeq \in Nat /\ n # noteSeq + 1
  BY BoundsAssumption DEF TypeInv, TypeOK, TablesOK, NoteIds
<1>1. CASE UNCHANGED notes BY <1>1
<1>2. ASSUME NEW r \in Reqs, InsertNote(r) PROVE notes'[n] = Absent
  BY <1>0, <1>2 DEF InsertNote, TablesOK, noteVars
<1>3. ASSUME NEW r \in Reqs, SaveUpdate(r) PROVE notes'[n] = Absent
  BY <1>0, <1>3 DEF SaveUpdate, TablesOK
<1>4. ASSUME NEW r \in Reqs, SaveInsert(r) PROVE notes'[n] = Absent
  <2>1. req[r].call.id # n BY <1>4 DEF HeldBy, Saving, SaveInsert
  <2> QED BY <1>0, <1>4, <2>1 DEF SaveInsert, TablesOK
<1>5. ASSUME NEW r \in Reqs, DeleteRow(r) PROVE notes'[n] = Absent
  BY <1>0, <1>5 DEF DeleteRow, TablesOK
<1>6. ASSUME NEW r \in Reqs,
             \/ Arrive(r) \/ GetFind(r) \/ GetCount(r) \/ UpdateFind(r)
             \/ DeleteFind(r) \/ CommentProgress(r) \/ LikeProgress(r)
             \/ Reply(r) \/ StatementFails(r) \/ Restart
      PROVE  UNCHANGED notes
  <2>1. Arrive(r) => UNCHANGED notes
    BY DEF Arrive, NoteArrival, CommentArrival, LikeArrival, CreateNote, GetNote,
      UpdateNote, DeleteNote, AddComment, DeleteComment, Like, Unlike, noteVars
  <2> QED
    BY <1>6, <2>1 DEF GetFind, GetCount, UpdateFind, DeleteFind,
      CommentProgress, FindNoteToComment, InsertComment,
      FindCommentToDelete, DeleteCommentRow, LikeProgress, FindNoteToLike,
      InsertLike, FindLike, DeleteLike, Reply, Restart, StatementFails,
      NoteStatementFails, CommentStatementFails, LikeStatementFails, noteVars
<1>7. CASE Restart BY <1>7 DEF Restart, noteVars
<1>8. CASE UNCHANGED vars BY <1>8 DEF vars
<1> QED
  BY <1>1, <1>2, <1>3, <1>4, <1>5, <1>6, <1>7, <1>8 DEF Next, Progress, NoteProgress

\* Once a note is gone and no update holds a copy of it, it is gone for good.
THEOREM DeletedNotesStayAway == Spec => GoneForGood
<1>1. ASSUME TypeInv, [Next]_vars
      PROVE  [\A n \in 1..noteSeq :
                notes[n] = Absent /\ HeldBy(n) = {} => notes'[n] = Absent]_vars
  BY <1>1, HowNotesChange
<1> QED BY <1>1, TypeInvariant, PTL DEF Spec, GoneForGood
=============================================================================
