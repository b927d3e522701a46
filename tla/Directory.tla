------------------------------ MODULE Directory ------------------------------
(***************************************************************************)
(* Accounts, follows, the bean library and recipes behind their            *)
(* middleware, serving concurrent requests, with the tokens clients keep   *)
(* from one request to the next and from one database to the next.         *)
(***************************************************************************)
EXTENDS UserService, FollowService, BeanService, RecipeService

SeedUser == [name |-> "admin", email |-> "admin@mail", pw |-> "secret",
             role |-> "admin", bio |-> "", avatar |-> ""]
SeedBean == [name |-> "sidamo", process |-> "washed", tags |-> "[a]"]

\* The seed of either schema, cut down to an admin and a bean.
SeededUsers == [u \in UserIds |-> IF u = 1 THEN SeedUser ELSE Absent]
SeededBeans == [b \in BeanIds |-> IF b = 1 THEN SeedBean ELSE Absent]

Init ==
  /\ users = SeededUsers /\ userSeq = 1
  /\ beans = SeededBeans /\ beanSeq = 1
  /\ follows = {}
  /\ recipes = [k \in RecipeIds |-> Absent] /\ recipeSeq = 0
  /\ live = {}
  /\ req = [r \in Reqs |-> Idle]
  /\ userFK \in BOOLEAN
  /\ offered \in Workloads
  /\ epoch = 0
  /\ fresh = {}

Settings == <<userFK, offered>>
history  == <<epoch, fresh>>

Accepted(r, c, t) ==
  /\ Admitted(c, t)
  /\ \/ UserArrival(r, c, t) \/ FollowArrival(r, c, t)
     \/ BeanArrival(r, c, t) \/ RecipeArrival(r, c, t)
  /\ UNCHANGED live

\* A client sends what it likes, with any token it holds or none.
Arrive(r) ==
  /\ req[r].pc = "idle"
  /\ \E c \in offered.calls, t \in live \cup {Nobody} :
       AuthRequired(r, c, t) \/ RequireRole(r, c, t) \/ Accepted(r, c, t)
  /\ UNCHANGED <<tables, Settings, history>>

Progress(r) ==
  /\ \/ UserProgress(r)   /\ UNCHANGED <<follows, beanVars, recipeVars>>
     \/ FollowProgress(r) /\ UNCHANGED <<userVars, beanVars, recipeVars, fresh>>
     \/ BeanProgress(r)   /\ UNCHANGED <<userVars, follows, recipeVars>>
     \/ RecipeProgress(r) /\ UNCHANGED <<userVars, follows, beanVars, fresh>>
  /\ UNCHANGED <<live, Settings, epoch>>

Granted(r) == req[r].call.op \in {"Register", "Login"} /\ req[r].status \in {200, 201}

\* The answer reaches the client, which keeps the token there may be in it.
Reply(r) ==
  /\ req[r].pc = "done"
  /\ live' = IF Granted(r) THEN live \cup {req[r].as} ELSE live
  /\ req' = [req EXCEPT ![r] = Idle]
  /\ UNCHANGED <<tables, Settings, history>>

\* A statement fails before it took effect (one that fails after is in
\* Written): the services wrap the error, which the handlers answer 500, and
\* Profile shows zeros.
StatementFails(r) ==
  /\ offered.faults
  /\ req[r].pc \in DbSteps
  /\ Answer(r, IF req[r].pc = "stats" THEN 200 ELSE 500)
  /\ fresh' = fresh \ {r}
  /\ UNCHANGED <<tables, live, Settings, epoch>>

\* The process dies between two statements and is started again.
Restart ==
  /\ offered.faults
  /\ req # [r \in Reqs |-> Idle]
  /\ req' = [r \in Reqs |-> Idle]
  /\ fresh' = {}
  /\ UNCHANGED <<tables, live, Settings, epoch>>

\* docker compose down -v and up again (README.md:105): a database seeded
\* anew, while clients keep their tokens and the server its secret.
Reset ==
  /\ epoch < offered.resets
  /\ epoch' = epoch + 1
  /\ users' = SeededUsers /\ userSeq' = 1
  /\ beans' = SeededBeans /\ beanSeq' = 1
  /\ follows' = {}
  /\ recipes' = [k \in RecipeIds |-> Absent] /\ recipeSeq' = 0
  /\ req' = [r \in Reqs |-> Idle]
  /\ fresh' = {}
  /\ UNCHANGED <<live, Settings>>

Next ==
  \/ \E r \in Reqs : Arrive(r) \/ Progress(r) \/ Reply(r) \/ StatementFails(r)
  \/ Restart
  \/ Reset

Spec == Init /\ [][Next]_vars

-----------------------------------------------------------------------------
(***************************************************************************)
(* Safety.                                                                 *)
(***************************************************************************)
Slot == [pc : DbSteps \cup {"idle", "done"}, call : Call \cup {NoCall},
         as : Claims \cup {Nobody},
         row : UserRow \cup BeanRow \cup RecipeRow \cup {Absent},
         status : Nat, wrote : BOOLEAN]

\* Types: every table holds rows under its ids, every slot is a request.
DirectoryTypeOK ==
  /\ users \in [UserIds -> UserRow \cup {Absent}]         /\ userSeq \in 1..MaxUsers
  /\ beans \in [BeanIds -> BeanRow \cup {Absent}]         /\ beanSeq \in 1..MaxBeans
  /\ recipes \in [RecipeIds -> RecipeRow \cup {Absent}]   /\ recipeSeq \in 0..MaxRecipes
  /\ follows \subseteq UserIds \X UserIds
  /\ live \subseteq Claims
  /\ req \in [Reqs -> Slot]
  /\ userFK \in BOOLEAN
  /\ offered \in Workloads
  /\ epoch \in 0..offered.resets
  /\ fresh \subseteq Reqs

\* However registrations, bean creations, renames and full-row saves overlap,
\* no two accounts share a user name or an email, and no two beans a name
\* (nobody looks before the INSERT: user_service.go, bean_service.go).
NamesUnique ==
  /\ \A u, v \in UserIds :
       /\ users[u] # Absent /\ users[v] # Absent
       /\ users[u].name = users[v].name \/ users[u].email = users[v].email
       => u = v
  /\ \A a, b \in BeanIds :
       beans[a] # Absent /\ beans[b] # Absent /\ beans[a].name = beans[b].name => a = b

\* An account keeps for life its name, email, password and role, although
\* every profile update writes all of them back from a copy read earlier
\* (user_service.go UpdateProfile, user_repository.go Update).
SameAccount(old, new) ==
  new.name = old.name /\ new.email = old.email /\ new.pw = old.pw /\ new.role = old.role

IdentityPinned ==
  [][epoch' = epoch =>
       \A u \in UserIds : users[u] # Absent =>
         users'[u] # Absent /\ SameAccount(users[u], users'[u])]_vars

\* Until the data is reset, a token a client holds or is about to be handed
\* says what is true of an account: its id has a row, of that name and role
\* (user_service.go GenerateToken calls; nothing revokes a token).
Handed == {req[r].as : r \in {k \in Reqs : req[k].pc = "done" /\ Granted(k)}}

TokensSpeakTrue ==
  \A t \in live \cup Handed : t.era = epoch =>
    /\ users[t.id] # Absent
    /\ users[t.id].name = t.name
    /\ users[t.id].role = t.role

\* An update that no other write to its row overlapped does what the request
\* asks and nothing else: named fields get the value named, the others keep
\* theirs.  Overlapped ones may undo each other (UpdateProfile, Update).
Keeps(old, new, fields, body) ==
  \A f \in fields : new[f] = IF body[f] = "" THEN old[f] ELSE body[f]

AloneItDoesWhatItSays ==
  [][\A r \in fresh : req'[r].pc = "done" /\ req'[r].status = 200 =>
       \/ /\ req[r].call.op = "UpdateProfile"
          /\ Keeps(users[req[r].as.id], users'[req[r].as.id],
                   {"bio", "avatar"}, req[r].call.body)
       \/ /\ req[r].call.op = "UpdateBean"
          /\ Keeps(beans[req[r].call.id], beans'[req[r].call.id],
                   {"name", "process", "tags"}, req[r].call.body)]_vars

\* A row of users changes only by a request whose token, when it is one of
\* this database, speaks of that very account; one from before a reset writes
\* to whoever has the id now (user_handler.go UpdateProfile).
ProfileOfItsOwn ==
  [][epoch' = epoch =>
       \A u \in UserIds : users[u] # Absent /\ users'[u] # users[u] =>
         \E r \in Reqs : /\ At(r, "UpdateProfile", "save")
                         /\ req[r].as.id = u
                         /\ req[r].as.era = epoch => req[r].as.name = users[u].name]_vars

\* The library changes only by admins: the token says so, and when it is one
\* of this database the account's row does too (router/beans.go, rbac.go).
BeansByAdmins ==
  [][epoch' = epoch /\ beans' # beans =>
       \E r \in Reqs : /\ req[r].pc \in {"insert", "save", "upsert", "delete"}
                       /\ req[r].call.op \in BeanOps
                       /\ req'[r].status \in Outcomes(200) \cup Outcomes(201)
                       /\ req[r].as.role = "admin"
                       /\ req[r].as.era = epoch => users[req[r].as.id].role = "admin"]_vars

\* A deleted bean comes back only out of the memory of an update that was
\* under way, never by a new bean under its id (coffee_bean_repository.go
\* Update, Delete).
BeanHeldBy(b) ==
  {r \in Reqs : (At(r, "UpdateBean", "save") \/ At(r, "UpdateBean", "upsert"))
                /\ req[r].call.id = b}

BeanGoneForGood ==
  [][epoch' = epoch =>
       \A b \in 1..beanSeq :
         beans[b] = Absent /\ BeanHeldBy(b) = {} => beans'[b] = Absent]_vars

\* What the client is told is what happened to the tables, as far as the
\* server can know: a refusal (4xx) changed nothing, a 500 did only if the
\* outcome of its statement got lost, and the success of a call that writes
\* did what only it could (the order of checks and statements in the four
\* services; RowsAffected in Delete).
WriteOps == {"Register", "UpdateProfile", "CreateRecipe"} \cup FollowOps \cup BeanOps

DirectoryAnswers ==
  \A r \in Reqs : req[r].pc = "done" =>
    /\ req[r].status \in {200, 201} /\ req[r].call.op \in WriteOps => req[r].wrote
    /\ req[r].wrote =>
         /\ req[r].call.op \in WriteOps
         /\ req[r].status \in {200, 201} \cup {s \in {500} : offered.faults}

\* The author of a recipe has an account, unless a schema without the foreign
\* key met a token from before a reset (recipe_service.go Create: no lookup).
AuthorsExist ==
  \A k \in RecipeIds : recipes[k] # Absent =>
    users[recipes[k].user] # Absent \/ (~userFK /\ recipes[k].era # epoch)

\* No request is ever stuck: one that has a statement to send can send it and
\* is done with the answer, whatever the others did meanwhile, the row gorm's
\* Save no longer finds included.  Every request has at most three statements.
NoneStuck ==
  \A r \in Reqs : req[r].pc \in DbSteps => ENABLED Progress(r)
=============================================================================
