--------------------------- MODULE CommunityState ---------------------------
(***************************************************************************)
(* The shared state of the tasting-note community: the three Postgres      *)
(* tables the note, comment and like services work on, and the requests    *)
(* in flight.  Every HTTP request runs in a goroutine of its own, holds no *)
(* lock and opens no transaction that spans statements, so the unit of     *)
(* interleaving is ONE database statement: an action below is everything a *)
(* handler does between two statements, together with the second of them.  *)
(***************************************************************************)
EXTENDS Naturals, FiniteSets

CONSTANTS
  Users,        \* authenticated accounts (JWT subjects)
  Reqs,         \* request slots of the server, reused by later requests
  Calls,        \* the requests clients may send, a subset of Call
  MaxNotes, MaxComments, MaxLikes,  \* how many ids the sequences hand out
  Absent,       \* no row under this id / no row in hand
  NoCall,       \* the slot is free
  CommentFK,    \* TRUE: init.sql's fk_comment_note exists; FALSE: AutoMigrate
  Faults        \* TRUE: statements may fail, their outcomes may get lost on
                \* the way back, and the process may restart

VARIABLES
  notes, noteSeq,         \* tasting_notes and its id sequence
  comments, commentSeq,   \* comments
  likes, likeSeq,         \* likes
  req,                    \* what each request slot is doing
  born, erased, removals  \* history, read by properties only: see below

NoteIds    == 1..MaxNotes
CommentIds == 1..MaxComments
LikeIds    == 1..MaxLikes

(***************************************************************************)
(* Data, cut down to what the code and the properties tell apart.          *)
(***************************************************************************)
RoastLevels == {"light", "medium", "dark"}
RoastNames  == RoastLevels \cup {"burnt"}     \* one name that is not a level

\* tags stands for the optional text columns: "" leaves them alone, and
\* flavor_tags is a JSON column, which refuses a text that is not JSON.
TagTexts   == {"", "[]", "[a]", "nutty"}
IsJson(t)  == t \in {"[]", "[a]"}

\* What the client sends.  aroma stands for the three sub-scores, image for
\* brew_method, brew_recipe_id and image_url.
NoteBody == [roast : RoastNames, tags : TagTexts,
             aroma : Nat, overall : Nat, image : STRING]

NoteRow == [user : Users, roast : RoastLevels, tags : TagTexts \ {""},
            aroma : Nat, overall : Nat, image : STRING]

\* What history keeps of a note's creation.
BirthRow == [user : Users, image : STRING]

CommentRow == [user : Users, note : NoteIds]
LikeRow    == [user : Users, note : NoteIds]

(***************************************************************************)
(* A request: who sends it, on which row, and whether its path id and JSON *)
(* body pass ParseUint and ShouldBindJSON (ok).                            *)
(***************************************************************************)
NoteOps    == {"CreateNote", "GetNote", "UpdateNote", "DeleteNote"}
CommentOps == {"AddComment", "DeleteComment"}
LikeOps    == {"Like", "Unlike"}

Call ==
  [op : NoteOps \cup CommentOps \cup LikeOps, user : Users, id : Nat,
   ok : BOOLEAN, body : NoteBody]

\* Every id a client names is one the tables could hold.
TargetIds(c) == IF c.op = "DeleteComment" THEN CommentIds ELSE NoteIds

ASSUME BoundsAssumption ==
  MaxNotes \in Nat /\ MaxComments \in Nat /\ MaxLikes \in Nat
ASSUME FlagsAssumption == CommentFK \in BOOLEAN /\ Faults \in BOOLEAN
ASSUME CallsAssumption ==
  Calls \subseteq Call /\ \A c \in Calls : c.id \in TargetIds(c)
ASSUME AbsentAssumption ==
  /\ Absent \notin NoteRow /\ Absent \notin BirthRow
  /\ Absent \notin CommentRow /\ Absent \notin LikeRow
ASSUME NoCallAssumption == NoCall \notin Call

(***************************************************************************)
(* A request slot: the statement it is about to send, the note it holds in *)
(* memory, the like id it found, the like count it read, and once "done"   *)
(* the HTTP status of its answer.  wrote is history: the request changed a *)
(* table.                                                                  *)
(***************************************************************************)
Statements == {"insert", "find", "save", "upsert", "delete", "count"}
Statuses   == {200, 201, 400, 403, 404, 409, 422, 500}

Slot ==
  [pc : {"idle", "done"} \cup Statements, call : Calls \cup {NoCall},
   row : NoteRow \cup {Absent}, like : LikeIds \cup {0}, count : Nat,
   status : Statuses \cup {0}, wrote : BOOLEAN]

Idle == [pc |-> "idle", call |-> NoCall, row |-> Absent, like |-> 0,
         count |-> 0, status |-> 0, wrote |-> FALSE]

noteVars    == <<notes, noteSeq, born, erased>>
commentVars == <<comments, commentSeq, removals>>
likeVars    == <<likes, likeSeq>>
vars == <<notes, noteSeq, comments, commentSeq, likes, likeSeq,
          req, born, erased, removals>>

(***************************************************************************)
(* Moves of a request slot.                                                *)
(***************************************************************************)
\* The handler starts on call c: it binds the request, holds row, and is
\* about to send its first statement.
Enter(r, c, pc, row) ==
  /\ req[r] = Idle
  /\ req' = [req EXCEPT ![r] =
               [Idle EXCEPT !.pc = pc, !.call = c, !.row = row]]

\* The handler answers before any statement.
Reject(r, c, status) ==
  /\ req[r] = Idle
  /\ req' = [req EXCEPT ![r] =
               [Idle EXCEPT !.pc = "done", !.call = c, !.status = status]]

At(r, op, pc) == req[r].pc = pc /\ req[r].call.op = op

Goto(r, pc) == req' = [req EXCEPT ![r] = [@ EXCEPT !.pc = pc]]

Hold(r, pc, row) ==
  req' = [req EXCEPT ![r] = [@ EXCEPT !.pc = pc, !.row = row]]

\* The handler writes its answer and drops what it held.
Finish(r, status, wrote) ==
  req' = [req EXCEPT ![r] = [@ EXCEPT !.pc = "done", !.status = status,
            !.wrote = wrote, !.row = Absent, !.like = 0]]

Answer(r, status) == Finish(r, status, FALSE)

(***************************************************************************)
(* A statement that changed a table has been committed when its outcome is *)
(* on the way back.  If the connection is lost then, or the statement      *)
(* times out, the repository returns an error all the same, the service    *)
(* wraps it like any other and the client is told 500.                     *)
(***************************************************************************)
Outcomes(status) == {status} \cup {s \in {500} : Faults}

Written(r, status) == \E s \in Outcomes(status) : Finish(r, s, TRUE)

\* Requests that may still take an id from the sequence of op's table.
Inserting(op) ==
  {r \in Reqs : req[r].pc \in {"find", "insert"} /\ req[r].call.op = op}

=============================================================================
