----------------------------- MODULE UserService -----------------------------
(***************************************************************************)
(* Accounts: handler/user_handler.go over service/user_service.go over     *)
(* repository/user_repository.go, one action per statement.                *)
(***************************************************************************)
EXTENDS DirectoryState

Named(n) == {u \in UserIds : users[u] # Absent /\ users[u].name = n}

\* Mutant: email has no unique index.
MutTaken(row) == Named(row.name) # {}

\* The unique indexes of users refuse the row.
Taken(row) ==
  Named(row.name) # {} \/ \E u \in UserIds : users[u] # Absent /\ users[u].email = row.email

\* The account POST /users/register asks for: nobody registers as an admin.
NewUser(b) == [name |-> b.name, email |-> b.email, pw |-> b.pw, role |-> "user",
               bio |-> b.bio, avatar |-> ""]

\* Mutant: a field left out of the request is cleared.
MutPatchedUser(row, b) == [row EXCEPT !.bio = b.bio, !.avatar = b.avatar]

\* Mutant: the row is built anew from the request, with the default role.
MutPatchedUserRole(row, b) == [row EXCEPT !.bio = b.bio, !.role = "user"]

PatchedUser(row, b) ==
  [row EXCEPT !.bio    = IF b.bio = "" THEN @ ELSE b.bio,
              !.avatar = IF b.avatar = "" THEN @ ELSE b.avatar]

(***************************************************************************)
(* POST /users/register.  Binding counts the characters of a password,     *)
(* bcrypt its bytes: a "long" one binds and cannot be hashed.              *)
(***************************************************************************)
Register(r, c, t) ==
  /\ c.op = "Register"
  /\ userSeq + Cardinality(Inserting("Register")) < MaxUsers
  /\ \/ ~c.ok /\ Reject(r, c, t, 400)
     \/ c.ok /\ c.body.pw = "long" /\ Reject(r, c, t, 500)
     \/ c.ok /\ c.body.pw # "long" /\ Enter(r, c, t, "insert", NewUser(c.body))

\* Mutant: the token is made before the row has its id.
MutInsertUser(r) ==
  /\ At(r, "Register", "insert")
  /\ userSeq' = userSeq + 1
  /\ LET row == req[r].row IN
       \/ Taken(row) /\ Answer(r, 409) /\ UNCHANGED users
       \/ /\ ~Taken(row)
          /\ users' = [users EXCEPT ![userSeq + 1] = row]
          /\ AnswerWithToken(r, 201, TRUE, userSeq, row)
  /\ UNCHANGED fresh

\* A refused INSERT has taken its id from the sequence all the same.  When the
\* outcome of one that went in gets lost, no token is made.
InsertUser(r) ==
  /\ At(r, "Register", "insert")
  /\ userSeq < MaxUsers
  /\ userSeq' = userSeq + 1
  /\ LET row == req[r].row IN
       \/ Taken(row) /\ Answer(r, 409) /\ UNCHANGED users
       \/ /\ ~Taken(row)
          /\ users' = [users EXCEPT ![userSeq + 1] = row]
          /\ \/ AnswerWithToken(r, 201, TRUE, userSeq + 1, row)
             \/ offered.faults /\ Finish(r, 500, TRUE)
  /\ UNCHANGED fresh

(***************************************************************************)
(* POST /users/login: by user name only.                                   *)
(***************************************************************************)
Login(r, c, t) ==
  /\ c.op = "Login"
  /\ \/ ~c.ok /\ Reject(r, c, t, 400)
     \/ c.ok /\ Enter(r, c, t, "find", Absent)

LoginFind(r) ==
  /\ At(r, "Login", "find")
  /\ LET b == req[r].call.body IN
       \/ (\A u \in Named(b.name) : users[u].pw # b.pw) /\ Answer(r, 401)
       \/ \E u \in Named(b.name) : /\ users[u].pw = b.pw
                                   /\ AnswerWithToken(r, 200, FALSE, u, users[u])
  /\ UNCHANGED <<userVars, fresh>>

(***************************************************************************)
(* GET /users/me                                                           *)
(***************************************************************************)
GetMe(r, c, t) == c.op = "GetMe" /\ Enter(r, c, t, "find", Absent)

GetByID(r) ==
  /\ At(r, "GetMe", "find")
  /\ Answer(r, IF users[req[r].as.id] = Absent THEN 404 ELSE 200)
  /\ UNCHANGED <<userVars, fresh>>

(***************************************************************************)
(* PUT /users/me: read the row, patch it in memory, write all of it back.  *)
(***************************************************************************)
UpdateProfile(r, c, t) ==
  /\ c.op = "UpdateProfile"
  /\ \/ ~c.ok /\ Reject(r, c, t, 400)
     \/ c.ok /\ Enter(r, c, t, "find", Absent)

ProfileToUpdate(r) ==
  /\ At(r, "UpdateProfile", "find")
  /\ LET row == users[req[r].as.id] IN
       \/ row = Absent /\ Answer(r, 500) /\ UNCHANGED fresh
       \/ /\ row # Absent
          /\ Hold(r, "save", PatchedUser(row, req[r].call.body))
          /\ fresh' = fresh \cup {r}
  /\ UNCHANGED userVars

\* Mutant: the save goes to the row of the path, not of the token.
MutSaveUser(r) ==
  /\ At(r, "UpdateProfile", "save")
  /\ users' = [users EXCEPT ![req[r].call.id] = req[r].row]
  /\ Written(r, 200)
  /\ fresh' = fresh \ Overtaken("UpdateProfile", req[r].as.id)
  /\ UNCHANGED userSeq

\* gorm's Save: UPDATE every column WHERE id.  No statement deletes a user, so
\* it finds its row and Save has no second statement to send.
SaveUser(r) ==
  /\ At(r, "UpdateProfile", "save")
  /\ users' = [users EXCEPT ![req[r].as.id] = req[r].row]
  /\ Written(r, 200)
  /\ fresh' = fresh \ Overtaken("UpdateProfile", req[r].as.id)
  /\ UNCHANGED userSeq

(***************************************************************************)
(* GET /users/:id/profile: the user, then six more queries whose errors    *)
(* are dropped.                                                            *)
(***************************************************************************)
Profile(r, c, t) ==
  /\ c.op = "Profile"
  /\ \/ ~c.ok /\ Reject(r, c, t, 400)
     \/ c.ok /\ Enter(r, c, t, "find", Absent)

ProfileFind(r) ==
  /\ At(r, "Profile", "find")
  /\ \/ users[req[r].call.id] = Absent /\ Answer(r, 404)
     \/ users[req[r].call.id] # Absent /\ Goto(r, "stats")
  /\ UNCHANGED <<userVars, fresh>>

ProfileStats(r) ==
  /\ At(r, "Profile", "stats")
  /\ Answer(r, 200)
  /\ UNCHANGED <<userVars, fresh>>

UserArrival(r, c, t) ==
  \/ Register(r, c, t) \/ Login(r, c, t) \/ GetMe(r, c, t)
  \/ UpdateProfile(r, c, t) \/ Profile(r, c, t)

UserProgress(r) ==
  \/ InsertUser(r) \/ LoginFind(r) \/ GetByID(r)
  \/ ProfileToUpdate(r) \/ SaveUser(r) \/ ProfileFind(r) \/ ProfileStats(r)
=============================================================================
