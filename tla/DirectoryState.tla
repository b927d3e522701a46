--------------------------- MODULE DirectoryState ---------------------------
(***************************************************************************)
(* The shared state of the account side of the service: the tables users,  *)
(* user_follows, coffee_beans and brew_recipes, the tokens clients hold,   *)
(* and the requests in flight.  As in CommunityState no handler holds a    *)
(* lock or a transaction across statements, so an action is everything a   *)
(* handler does from one database statement up to and with the next.       *)
(*                                                                         *)
(* An action of a service names the variables of that service; Directory   *)
(* adds that it leaves the tables of the other services alone.             *)
(***************************************************************************)
EXTENDS Naturals, FiniteSets

CONSTANTS
  Reqs,         \* request slots of the server
  Workloads,    \* what may happen in a behaviour: see DirectoryWorkloads
  MaxUsers, MaxBeans, MaxRecipes,   \* how many ids the sequences hand out
  Absent,       \* no row
  NoCall,       \* the slot is free
  Nobody        \* no token

VARIABLES
  users, userSeq, follows,    \* users with its id sequence; user_follows
  beans, beanSeq,             \* coffee_beans
  recipes, recipeSeq,         \* brew_recipes
  live,     \* tokens clients received and that have not expired
  req,      \* what each request slot is doing
  userFK,   \* TRUE: init.sql's fk_recipe_user exists; FALSE: AutoMigrate
  offered,  \* the workload of this behaviour
  epoch,    \* history: how often the data was reset
  fresh     \* history: slots whose copy of a row is still the stored row

UserIds   == 1..MaxUsers
BeanIds   == 1..MaxBeans
RecipeIds == 1..MaxRecipes

Roles     == {"user", "admin"}
Processes == {"washed", "natural", "honey", "anaerobic"}
IsJson(t) == t \in {"[]", "[a]"}      \* "nutty" is a text that is not JSON

\* avatar stands for itself; bean tags stand for origin and description too.
UserRow == [name : STRING, email : STRING, pw : STRING, role : Roles,
            bio : STRING, avatar : STRING]
BeanRow == [name : STRING, process : Processes, tags : STRING]

\* era is history: the reset count of the token that wrote the recipe.
RecipeRow == [user : UserIds, steps : STRING, era : Nat]

\* What a token says, with the reset count of the day it was issued (history).
Claims == [id : UserIds, name : STRING, role : Roles, era : Nat]

(***************************************************************************)
(* Calls.  ok: the path id and the JSON body pass ParseUint and            *)
(* ShouldBindJSON.  body holds the fields of every request, "" when unset. *)
(***************************************************************************)
UserOps   == {"Register", "Login", "GetMe", "UpdateProfile", "Profile"}
FollowOps == {"Follow", "Unfollow"}
BeanOps   == {"CreateBean", "UpdateBean", "DeleteBean"}
RecipeOps == {"CreateRecipe", "GetRecipe"}
TokenOps  == {"GetMe", "UpdateProfile", "CreateRecipe"} \cup FollowOps \cup BeanOps

Body == [name : STRING, email : STRING, pw : STRING, bio : STRING,
         avatar : STRING, process : STRING, tags : STRING]
Call == [op : UserOps \cup FollowOps \cup BeanOps \cup RecipeOps,
         id : Nat, ok : BOOLEAN, body : Body]

TargetIds(c) == CASE c.op \in BeanOps   -> BeanIds
                  [] c.op \in RecipeOps -> RecipeIds
                  [] OTHER              -> UserIds

\* A workload: the calls clients make, how often the operator resets the
\* data, and whether statements may fail, their outcomes get lost and the
\* process die.

ASSUME DirectoryBounds ==
  MaxUsers \in Nat \ {0} /\ MaxBeans \in Nat \ {0} /\ MaxRecipes \in Nat
ASSUME DirectoryWorkloads ==
  \A w \in Workloads :
    /\ w.calls \subseteq Call /\ w.resets \in Nat /\ w.faults \in BOOLEAN
    /\ \A c \in w.calls : c.id \in TargetIds(c)
ASSUME DirectoryAbsent ==
  Absent \notin UserRow /\ Absent \notin BeanRow /\ Absent \notin RecipeRow
\* True by what STRING is; the provers take literals for uninterpreted values.
ASSUME DirectoryLiterals ==
  {"", "[]", "[a]", "admin", "admin@mail", "secret", "sidamo"} \subseteq STRING
ASSUME DirectoryNobody == Nobody \notin Claims /\ NoCall \notin Call

(***************************************************************************)
(* A request slot: the statement it is about to send, the claims of its    *)
(* token (for Register and Login: of the token it answers with), the row   *)
(* it holds, and when it is "done" its HTTP status.  wrote is history.     *)
(***************************************************************************)
DbSteps == {"insert", "find", "save", "upsert", "delete", "stats"}

Idle == [pc |-> "idle", call |-> NoCall, as |-> Nobody, row |-> Absent,
         status |-> 0, wrote |-> FALSE]

userVars   == <<users, userSeq>>
beanVars   == <<beans, beanSeq>>
recipeVars == <<recipes, recipeSeq>>
tables     == <<users, userSeq, follows, beans, beanSeq, recipes, recipeSeq>>
vars == <<users, userSeq, follows, beans, beanSeq, recipes, recipeSeq,
          live, req, userFK, offered, epoch, fresh>>

At(r, op, pc) == req[r].pc = pc /\ req[r].call.op = op

Enter(r, c, t, pc, row) ==
  req' = [req EXCEPT ![r] = [Idle EXCEPT !.pc = pc, !.call = c, !.as = t, !.row = row]]

Reject(r, c, t, status) ==
  req' = [req EXCEPT ![r] = [Idle EXCEPT !.pc = "done", !.call = c, !.as = t,
                                         !.status = status]]

Goto(r, pc)      == req' = [req EXCEPT ![r] = [@ EXCEPT !.pc = pc]]
Hold(r, pc, row) == req' = [req EXCEPT ![r] = [@ EXCEPT !.pc = pc, !.row = row]]

Finish(r, status, wrote) ==
  req' = [req EXCEPT ![r] = [@ EXCEPT !.pc = "done", !.status = status,
                                      !.wrote = wrote, !.row = Absent]]
Answer(r, status) == Finish(r, status, FALSE)

\* A statement that changed a table may have its outcome lost on the way back:
\* the service wraps that error like any other and the client is told 500.
Outcomes(status) == {status} \cup {s \in {500} : offered.faults}

Written(r, status) == \E s \in Outcomes(status) : Finish(r, s, TRUE)

\* GenerateToken: the answer carries a token that says what row u says.
AnswerWithToken(r, status, wrote, u, row) ==
  req' = [req EXCEPT ![r] =
    [@ EXCEPT !.pc = "done", !.status = status, !.wrote = wrote, !.row = Absent,
       !.as = [id |-> u, name |-> row.name, role |-> row.role, era |-> epoch]]]

\* Requests that may still take an id from the sequence op inserts with.
Inserting(op) == {r \in Reqs : req[r].pc = "insert" /\ req[r].call.op = op}

\* A write to row i of the table op updates: copies of it in other slots are
\* copies of what was.
Overtaken(op, i) ==
  {r \in Reqs : /\ req[r].pc \in {"save", "upsert"}
                /\ req[r].call.op = op
                /\ i = IF op = "UpdateProfile" THEN req[r].as.id ELSE req[r].call.id}

(***************************************************************************)
(* The middleware in front of the handlers: AuthRequired, then RequireRole *)
(* on the routes of the bean library.  The role is the one of the token.   *)
(***************************************************************************)
\* Mutant: any token may edit the bean library.
MutAdmitted(c, t) ==
  IF c.op \in TokenOps THEN t \in live ELSE t = Nobody

Admitted(c, t) ==
  IF c.op \in TokenOps
  THEN t \in live /\ (c.op \in BeanOps => t.role = "admin")
  ELSE t = Nobody

\* No token, or one whose time has come: the client finds out by a 401.
AuthRequired(r, c, t) ==
  /\ c.op \in TokenOps
  /\ \/ t = Nobody /\ UNCHANGED live
     \/ t \in live /\ live' = live \ {t}
  /\ Reject(r, c, Nobody, 401)

RequireRole(r, c, t) ==
  /\ c.op \in BeanOps
  /\ t \in live
  /\ t.role # "admin"
  /\ Reject(r, c, t, 403)
  /\ UNCHANGED live
=============================================================================
