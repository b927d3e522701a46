--------------------------- MODULE DirectoryProofs ---------------------------
(***************************************************************************)
(* Proofs about Directory, for any workloads, number of requests and       *)
(* bounds, with either schema, with resets and with faults.                *)
(*                                                                         *)
(* What the invariant says of a token or a slot is an operator on values:  *)
(* the users us, the reset count e and the calls cs are parameters, so     *)
(* that a lemma can speak of those before and those after a step.          *)
(* The last parts prove the refinement of Registry.                        *)
(***************************************************************************)
EXTENDS DirectoryRegistry, FiniteSetTheorems, TLAPS

\* A token says the truth about an account of its own database.
TokenTrue(t, us, e) ==
  /\ t \in Claims
  /\ t.era <= e
  /\ t.era = e => us[t.id] # Absent /\ us[t.id].name = t.name /\ us[t.id].role = t.role

\* What a slot knows about the rest of the state.
SlotCalled(s, cs) == s.pc # "idle" => s.call \in cs

SlotToken(s, us, e) ==
  /\ s.pc \in DbSteps /\ s.call.op \in TokenOps =>
       /\ TokenTrue(s.as, us, e)
       /\ s.call.op \in BeanOps => s.as.role = "admin"
  /\ s.pc = "done" /\ s.call.op \in {"Register", "Login"} /\ s.status \in {200, 201} =>
       TokenTrue(s.as, us, e)

SlotRow(s, us, e) ==
  /\ s.pc = "insert" /\ s.call.op = "Register" => s.row \in UserRow
  /\ s.pc = "save" /\ s.call.op = "UpdateProfile" =>
       /\ s.row \in UserRow
       /\ us[s.as.id] # Absent
       /\ SameAccount(us[s.as.id], s.row)
  /\ s.pc = "insert" /\ s.call.op = "CreateBean" => s.row \in BeanRow
  /\ s.pc \in {"save", "upsert"} /\ s.call.op = "UpdateBean" => s.row \in BeanRow
  /\ s.pc = "insert" /\ s.call.op = "CreateRecipe" =>
       /\ s.row \in RecipeRow
       /\ s.row.era <= e
       /\ s.row.era = e => us[s.row.user] # Absent
  /\ s.pc = "stats" => s.call.op = "Profile"

SlotTrue(s, us, e, cs) == SlotCalled(s, cs) /\ SlotToken(s, us, e) /\ SlotRow(s, us, e)

SlotsTrue ==
  /\ req \in [Reqs -> Slot]
  /\ \A r \in Reqs : SlotTrue(req[r], users, epoch, offered.calls)

TablesOK ==
  /\ users \in [UserIds -> UserRow \cup {Absent}]         /\ userSeq \in 1..MaxUsers
  /\ beans \in [BeanIds -> BeanRow \cup {Absent}]         /\ beanSeq \in 1..MaxBeans
  /\ recipes \in [RecipeIds -> RecipeRow \cup {Absent}]   /\ recipeSeq \in 0..MaxRecipes
  /\ follows \subseteq UserIds \X UserIds

SettingsOK ==
  /\ userFK \in BOOLEAN
  /\ offered \in Workloads
  /\ epoch \in 0..offered.resets
  /\ fresh \subseteq Reqs

\* Ids above the sequence have no account yet, and tokens tell the truth.
UsersBySequence == \A u \in UserIds : u > userSeq => users[u] = Absent
TokensTrue      == \A t \in live : TokenTrue(t, users, epoch)

Inv == TablesOK /\ SettingsOK /\ SlotsTrue /\ UsersBySequence /\ TokensTrue

-----------------------------------------------------------------------------
(***************************************************************************)
(* What a step may do to the accounts so that tokens stay true.            *)
(***************************************************************************)
Kept(us, vs) ==
  \A u \in UserIds : us[u] # Absent => vs[u] # Absent /\ SameAccount(us[u], vs[u])

\* A token that was true stays true.
LEMMA TokenKept ==
  ASSUME NEW t, NEW us, NEW vs, NEW e, TokenTrue(t, us, e), Kept(us, vs)
  PROVE  TokenTrue(t, vs, e)
BY DEF TokenTrue, Kept, SameAccount, Claims

\* A slot that was true stays true.
LEMMA SlotKept ==
  ASSUME NEW s \in Slot, NEW us, NEW vs, NEW e \in Nat, NEW cs \in SUBSET Call,
         SlotTrue(s, us, e, cs), Kept(us, vs)
  PROVE  SlotTrue(s, vs, e, cs)
<1>1. SlotToken(s, vs, e)
  BY TokenKept DEF SlotTrue, SlotToken
<1>2. SlotRow(s, vs, e)
  <2>1. s.pc = "save" /\ s.call.op = "UpdateProfile" =>
          /\ s.row \in UserRow /\ vs[s.as.id] # Absent /\ SameAccount(vs[s.as.id], s.row)
    <3>1. SUFFICES ASSUME s.pc = "save", s.call.op = "UpdateProfile"
                   PROVE  s.row \in UserRow /\ vs[s.as.id] # Absent
                          /\ SameAccount(vs[s.as.id], s.row)
      OBVIOUS
    <3>2. s.as.id \in UserIds
      BY <3>1 DEF SlotTrue, SlotToken, TokenTrue, Claims, DbSteps, TokenOps
    <3>3. s.row \in UserRow /\ us[s.as.id] # Absent /\ SameAccount(us[s.as.id], s.row)
      BY <3>1 DEF SlotTrue, SlotRow
    <3> QED BY <3>2, <3>3 DEF Kept, SameAccount
  <2>2. s.pc = "insert" /\ s.call.op = "CreateRecipe" =>
          (s.row.era = e => vs[s.row.user] # Absent)
    BY DEF SlotTrue, SlotRow, Kept, RecipeRow
  <2> QED BY <2>1, <2>2 DEF SlotTrue, SlotRow
<1> QED BY <1>1, <1>2 DEF SlotTrue

\* The calls of the workload of a behaviour.
LEMMA OfferedCalls ==
  ASSUME offered \in Workloads
  PROVE  /\ offered.calls \subseteq Call /\ offered.resets \in Nat
         /\ \A c \in offered.calls : c.id \in TargetIds(c)
BY DirectoryWorkloads

-----------------------------------------------------------------------------
(***************************************************************************)
(* The moves of a request slot: what they leave in it.                     *)
(***************************************************************************)
AnyRow == UserRow \cup BeanRow \cup RecipeRow \cup {Absent}

\* The slot of r after a step that leaves the others alone.
Moved(r, s) == s \in Slot /\ req' \in [Reqs -> Slot] /\ req'[r] = s
               /\ \A q \in Reqs : q # r => req'[q] = req[q]

LEMMA EnterSlot ==
  ASSUME req \in [Reqs -> Slot], NEW r \in Reqs, NEW c \in Call,
         NEW t \in Claims \cup {Nobody}, NEW pc \in DbSteps, NEW row \in AnyRow,
         Enter(r, c, t, pc, row)
  PROVE  Moved(r, [pc |-> pc, call |-> c, as |-> t, row |-> row, status |-> 0,
                   wrote |-> FALSE])
<1>1. req'[r] = [pc |-> pc, call |-> c, as |-> t, row |-> row, status |-> 0,
                 wrote |-> FALSE]
  BY DEF Enter, Idle
<1>2. req'[r] \in Slot BY <1>1 DEF Slot, AnyRow
<1> QED BY <1>1, <1>2 DEF Enter, Moved

LEMMA RejectSlot ==
  ASSUME req \in [Reqs -> Slot], NEW r \in Reqs, NEW c \in Call,
         NEW t \in Claims \cup {Nobody}, NEW status \in Nat,
         Reject(r, c, t, status)
  PROVE  Moved(r, [pc |-> "done", call |-> c, as |-> t, row |-> Absent,
                   status |-> status, wrote |-> FALSE])
<1>1. req'[r] = [pc |-> "done", call |-> c, as |-> t, row |-> Absent,
                 status |-> status, wrote |-> FALSE]
  BY DEF Reject, Idle
<1>2. req'[r] \in Slot BY <1>1 DEF Slot
<1> QED BY <1>1, <1>2 DEF Reject, Moved

\* The slot of r with another statement to send and another row.
HeldSlot(r, pc, row) ==
  [pc |-> pc, call |-> req[r].call, as |-> req[r].as, row |-> row,
   status |-> req[r].status, wrote |-> req[r].wrote]

LEMMA GotoSlot ==
  ASSUME req \in [Reqs -> Slot], NEW r \in Reqs, NEW pc \in DbSteps, Goto(r, pc)
  PROVE  Moved(r, HeldSlot(r, pc, req[r].row)) /\ req[r].row \in AnyRow
<1>1. req'[r] = HeldSlot(r, pc, req[r].row) BY DEF Goto, HeldSlot, Slot
<1>2. req'[r] \in Slot /\ req[r].row \in AnyRow
  BY <1>1 DEF HeldSlot, Slot, AnyRow
<1> QED BY <1>1, <1>2 DEF Goto, Moved

LEMMA HoldSlot ==
  ASSUME req \in [Reqs -> Slot], NEW r \in Reqs, NEW pc \in DbSteps,
         NEW row \in AnyRow, Hold(r, pc, row)
  PROVE  Moved(r, HeldSlot(r, pc, row))
<1>1. req'[r] = HeldSlot(r, pc, row) BY DEF Hold, HeldSlot, Slot
<1>2. req'[r] \in Slot BY <1>1 DEF HeldSlot, Slot, AnyRow
<1> QED BY <1>1, <1>2 DEF Hold, Moved

LEMMA FinishSlot ==
  ASSUME req \in [Reqs -> Slot], NEW r \in Reqs, NEW status \in Nat,
         NEW w \in BOOLEAN, Finish(r, status, w)
  PROVE  Moved(r, [pc |-> "done", call |-> req[r].call, as |-> req[r].as, row |-> Absent,
                   status |-> status, wrote |-> w])
<1>1. req'[r] = [pc |-> "done", call |-> req[r].call, as |-> req[r].as, row |-> Absent,
                 status |-> status, wrote |-> w]
  BY DEF Finish, Slot
<1>2. req'[r] \in Slot BY <1>1 DEF Slot
<1> QED BY <1>1, <1>2 DEF Finish, Moved

LEMMA TokenSlot ==
  ASSUME req \in [Reqs -> Slot], NEW r \in Reqs, NEW status \in Nat,
         NEW w \in BOOLEAN, NEW u \in UserIds, NEW row \in UserRow, epoch \in Nat,
         AnswerWithToken(r, status, w, u, row)
  PROVE  Moved(r, [pc |-> "done", call |-> req[r].call,
                   as |-> [id |-> u, name |-> row.name, role |-> row.role, era |-> epoch],
                   row |-> Absent, status |-> status, wrote |-> w])
<1> DEFINE t == [id |-> u, name |-> row.name, role |-> row.role, era |-> epoch]
<1>1. t \in Claims BY DEF Claims, UserRow
<1>2. req'[r] = [pc |-> "done", call |-> req[r].call, as |-> t, row |-> Absent,
                 status |-> status, wrote |-> w]
  BY ZenonT(60) DEF AnswerWithToken, Slot
<1> HIDE DEF t
<1>3. req'[r] \in Slot BY <1>1, <1>2 DEF Slot
<1>4. /\ req' \in [Reqs -> Slot]
      /\ \A q \in Reqs : q # r => req'[q] = req[q]
  BY <1>3 DEF AnswerWithToken, t
<1> QED BY <1>2, <1>3, <1>4 DEF Moved, t

\* A move keeps SlotsTrue when it leaves its own slot true.
LEMMA MovedKeeps ==
  ASSUME SlotsTrue, SettingsOK, UNCHANGED <<epoch, offered>>, Kept(users, users'),
         NEW r \in Reqs, NEW s, Moved(r, s), SlotTrue(s, users', epoch, offered.calls)
  PROVE  SlotsTrue'
<1>1. epoch \in Nat /\ offered.calls \in SUBSET Call BY OfferedCalls DEF SettingsOK
<1>2. ASSUME NEW q \in Reqs
      PROVE  SlotTrue(req'[q], users', epoch', offered'.calls)
  <2>1. CASE q = r BY <2>1 DEF Moved
  <2>2. CASE q # r
    BY <1>1, <2>2, SlotKept DEF Moved, SlotsTrue
  <2> QED BY <2>1, <2>2
<1> QED BY <1>2 DEF SlotsTrue, Moved

\* When no table is written, the tables keep all that is said of them.
LEMMA QuietTables ==
  ASSUME TablesOK, UsersBySequence, UNCHANGED tables
  PROVE  TablesOK' /\ UsersBySequence' /\ Kept(users, users')
BY DEF TablesOK, UsersBySequence, tables, Kept, SameAccount

\* Tokens stay true while accounts are kept and none is added.
LEMMA TokensKept ==
  ASSUME TokensTrue, Kept(users, users'), UNCHANGED epoch, live' \subseteq live
  PROVE  TokensTrue'
BY TokenKept DEF TokensTrue

-----------------------------------------------------------------------------
(***************************************************************************)
(* Arrivals.                                                               *)
(***************************************************************************)
\* The handler answers at once or comes to its first statement.
LEMMA ArrivalShape ==
  ASSUME NEW r \in Reqs, NEW c \in Call, NEW t,
         UserArrival(r, c, t) \/ FollowArrival(r, c, t)
           \/ BeanArrival(r, c, t) \/ RecipeArrival(r, c, t)
  PROVE  \/ \E status \in {400, 422, 500} : Reject(r, c, t, status)
         \/ Enter(r, c, t, "find", Absent)
         \/ Enter(r, c, t, "delete", Absent) /\ c.op \in {"Unfollow", "DeleteBean"}
         \/ Enter(r, c, t, "insert", Absent) /\ c.op = "Follow"
         \/ Enter(r, c, t, "insert", NewUser(c.body)) /\ c.op = "Register"
         \/ /\ Enter(r, c, t, "insert", NewBean(c.body))
            /\ c.op = "CreateBean" /\ c.body.process \in Processes
         \/ Enter(r, c, t, "insert", NewRecipe(t, c.body)) /\ c.op = "CreateRecipe"
<1>1. CASE UserArrival(r, c, t)
  BY <1>1 DEF UserArrival, Register, Login, GetMe, UpdateProfile, Profile
<1>2. CASE FollowArrival(r, c, t)
  BY <1>2 DEF FollowArrival, Follow, Unfollow
<1>3. CASE BeanArrival(r, c, t)
  BY <1>3 DEF BeanArrival, CreateBean, UpdateBean, DeleteBean
<1>4. CASE RecipeArrival(r, c, t)
  BY <1>4 DEF RecipeArrival, CreateRecipe, GetRecipe
<1> QED BY <1>1, <1>2, <1>3, <1>4

\* The rows requests bring are rows.
LEMMA NewRows ==
  ASSUME NEW b \in Body
  PROVE  /\ NewUser(b) \in UserRow
         /\ b.process \in Processes => NewBean(b) \in BeanRow
         /\ \A t \in Claims : /\ NewRecipe(t, b) \in RecipeRow
                             /\ NewRecipe(t, b).user = t.id
                             /\ NewRecipe(t, b).era = t.era
<1>0. "" \in STRING /\ "[]" \in STRING BY DirectoryLiterals
<1>1. NewUser(b) \in UserRow BY <1>0 DEF NewUser, UserRow, Body, Roles
<1>2. b.process \in Processes => NewBean(b) \in BeanRow
  <2>1. CASE b.tags = "" BY <1>0, <2>1 DEF NewBean, BeanRow, Body
  <2>2. CASE b.tags # "" BY <2>2 DEF NewBean, BeanRow, Body
  <2> QED BY <2>1, <2>2
<1>3. ASSUME NEW t \in Claims
      PROVE  /\ NewRecipe(t, b) \in RecipeRow
             /\ NewRecipe(t, b).user = t.id
             /\ NewRecipe(t, b).era = t.era
  <2>1. CASE b.tags = "" BY <1>0, <2>1 DEF NewRecipe, RecipeRow, Body, Claims
  <2>2. CASE b.tags # "" BY <2>2 DEF NewRecipe, RecipeRow, Body, Claims
  <2> QED BY <2>1, <2>2
<1> QED BY <1>1, <1>2, <1>3

\* An arrival keeps the invariant.
LEMMA ArriveInv ==
  ASSUME Inv, NEW r \in Reqs, Arrive(r)
  PROVE  Inv'
<1>0. /\ TablesOK /\ SettingsOK /\ SlotsTrue /\ UsersBySequence /\ TokensTrue
      /\ req \in [Reqs -> Slot]
  BY DEF Inv, SlotsTrue
<1>1. PICK c \in offered.calls, t \in live \cup {Nobody} :
        AuthRequired(r, c, t) \/ RequireRole(r, c, t) \/ Accepted(r, c, t)
  BY DEF Arrive
<1>2. c \in Call /\ c.body \in Body /\ t \in Claims \cup {Nobody}
  BY <1>0, OfferedCalls DEF SettingsOK, Call, TokensTrue, TokenTrue
<1>3. TablesOK' /\ UsersBySequence' /\ Kept(users, users')
  BY <1>0, QuietTables DEF Arrive, Settings, history
<1>4. UNCHANGED <<epoch, offered, userFK, fresh>> /\ SettingsOK'
  BY <1>0 DEF Arrive, Settings, history, SettingsOK
<1>5. live' \subseteq live
  BY <1>1 DEF AuthRequired, RequireRole, Accepted
<1>6. TokensTrue' BY <1>0, <1>3, <1>4, <1>5, TokensKept
<1>7. ASSUME NEW status \in Nat, NEW as \in Claims \cup {Nobody},
             status \notin {200, 201}, Reject(r, c, as, status)
      PROVE  SlotsTrue'
  <2> DEFINE s == [pc |-> "done", call |-> c, as |-> as, row |-> Absent,
                   status |-> status, wrote |-> FALSE]
  <2>1. Moved(r, s) BY <1>0, <1>2, <1>7, RejectSlot
  <2>2. SlotTrue(s, users', epoch, offered.calls)
    BY <1>7 DEF SlotTrue, SlotCalled, SlotToken, SlotRow, DbSteps
  <2> HIDE DEF s
  <2> QED BY <1>0, <1>3, <1>4, <2>1, <2>2, MovedKeeps
<1>8. ASSUME NEW pc \in {"find", "delete", "insert"}, NEW row \in AnyRow,
             Enter(r, c, t, pc, row), Accepted(r, c, t),
             SlotRow([pc |-> pc, call |-> c, as |-> t, row |-> row, status |-> 0,
                      wrote |-> FALSE], users', epoch)
      PROVE  SlotsTrue'
  <2> DEFINE s == [pc |-> pc, call |-> c, as |-> t, row |-> row, status |-> 0,
                   wrote |-> FALSE]
  <2>1. Moved(r, s) BY <1>0, <1>2, <1>8, EnterSlot DEF DbSteps
  <2>2. c.op \in TokenOps => /\ TokenTrue(t, users', epoch)
                             /\ c.op \in BeanOps => t.role = "admin"
    BY <1>0, <1>3, <1>8, TokenKept DEF Accepted, Admitted, TokensTrue
  <2>3. SlotToken(s, users', epoch) BY <2>2 DEF SlotToken
  <2>4. SlotTrue(s, users', epoch, offered.calls)
    BY <1>8, <2>3 DEF SlotTrue, SlotCalled
  <2> HIDE DEF s
  <2> QED BY <1>0, <1>3, <1>4, <2>1, <2>4, MovedKeeps
<1>9. CASE AuthRequired(r, c, t)
  <2>1. SlotsTrue' BY <1>7, <1>9 DEF AuthRequired
  <2> QED BY <1>3, <1>4, <1>6, <2>1 DEF Inv
<1>10. CASE RequireRole(r, c, t)
  <2>1. SlotsTrue' BY <1>2, <1>7, <1>10 DEF RequireRole
  <2> QED BY <1>3, <1>4, <1>6, <2>1 DEF Inv
<1>11. CASE Accepted(r, c, t)
  <2>0. SUFFICES SlotsTrue' BY <1>3, <1>4, <1>6 DEF Inv
  <2>1. CASE \E status \in {400, 422, 500} : Reject(r, c, t, status)
    BY <1>2, <1>7, <2>1
  <2>2. CASE Enter(r, c, t, "find", Absent)
    BY <1>8, <1>11, <2>2 DEF AnyRow, SlotRow
  <2>3. CASE Enter(r, c, t, "delete", Absent)
    BY <1>8, <1>11, <2>3 DEF AnyRow, SlotRow
  <2>4. CASE Enter(r, c, t, "insert", Absent) /\ c.op = "Follow"
    BY <1>8, <1>11, <2>4 DEF AnyRow, SlotRow
  <2>5. CASE Enter(r, c, t, "insert", NewUser(c.body)) /\ c.op = "Register"
    BY <1>2, <1>8, <1>11, <2>5, NewRows DEF AnyRow, SlotRow
  <2>6. CASE /\ Enter(r, c, t, "insert", NewBean(c.body))
             /\ c.op = "CreateBean" /\ c.body.process \in Processes
    BY <1>2, <1>8, <1>11, <2>6, NewRows DEF AnyRow, SlotRow
  <2>7. CASE Enter(r, c, t, "insert", NewRecipe(t, c.body)) /\ c.op = "CreateRecipe"
    <3>1. TokenTrue(t, users', epoch)
      BY <1>0, <1>3, <1>11, <2>7, TokenKept
      DEF Accepted, Admitted, TokensTrue, TokenOps
    <3>2. NewRecipe(t, c.body) \in RecipeRow /\ NewRecipe(t, c.body).user = t.id
          /\ NewRecipe(t, c.body).era = t.era
      BY <1>2, <3>1, NewRows DEF TokenTrue
    <3>3. SlotRow([pc |-> "insert", call |-> c, as |-> t, row |-> NewRecipe(t, c.body),
                   status |-> 0, wrote |-> FALSE], users', epoch)
      BY <2>7, <3>1, <3>2 DEF SlotRow, TokenTrue
    <3> QED BY <1>8, <1>11, <2>7, <3>2, <3>3 DEF AnyRow
  <2> QED
    BY <1>2, <1>11, <2>1, <2>2, <2>3, <2>4, <2>5, <2>6, <2>7, ArrivalShape DEF Accepted
<1> QED BY <1>1, <1>9, <1>10, <1>11

-----------------------------------------------------------------------------
(***************************************************************************)
(* Statements.                                                             *)
(***************************************************************************)
\* What is left to show of a step once the tables it wrote are in order.
LEMMA MovedInv ==
  ASSUME Inv, TablesOK', UsersBySequence', Kept(users, users'), fresh' \subseteq Reqs,
         UNCHANGED <<live, userFK, offered, epoch>>,
         NEW r \in Reqs, NEW s, Moved(r, s), SlotTrue(s, users', epoch, offered.calls)
  PROVE  Inv'
<1>1. SlotsTrue' BY MovedKeeps DEF Inv
<1>2. TokensTrue' BY TokensKept DEF Inv
<1>3. SettingsOK' BY DEF Inv, SettingsOK
<1> QED BY <1>1, <1>2, <1>3 DEF Inv

\* A request that answers without a token.
LEMMA FinishInv ==
  ASSUME Inv, TablesOK', UsersBySequence', Kept(users, users'), fresh' \subseteq Reqs,
         UNCHANGED <<live, userFK, offered, epoch>>,
         NEW r \in Reqs, NEW status \in Nat, NEW w \in BOOLEAN, Finish(r, status, w),
         req[r].pc # "idle",
         req[r].call.op \in {"Register", "Login"} => status \notin {200, 201}
  PROVE  Inv'
<1> DEFINE s == [pc |-> "done", call |-> req[r].call, as |-> req[r].as, row |-> Absent,
                 status |-> status, wrote |-> w]
<1>1. Moved(r, s) BY FinishSlot DEF Inv, SlotsTrue
<1>2. SlotTrue(s, users', epoch, offered.calls)
  BY DEF Inv, SlotsTrue, SlotTrue, SlotCalled, SlotToken, SlotRow, DbSteps
<1> HIDE DEF s
<1> QED BY <1>1, <1>2, MovedInv

\* The same, for a request that wrote nothing and for one that wrote.
LEMMA AnswerInv ==
  ASSUME Inv, TablesOK', UsersBySequence', Kept(users, users'), fresh' \subseteq Reqs,
         UNCHANGED <<live, userFK, offered, epoch>>,
         NEW r \in Reqs, NEW status \in Nat, Answer(r, status) \/ Written(r, status),
         req[r].pc # "idle",
         req[r].call.op \in {"Register", "Login"} => status \notin {200, 201}
  PROVE  Inv'
<1>1. \E st \in {status, 500}, w \in BOOLEAN : Finish(r, st, w)
  <2>1. CASE Answer(r, status) BY <2>1 DEF Answer
  <2>2. CASE Written(r, status)
    <3>1. PICK st \in Outcomes(status) : Finish(r, st, TRUE) BY <2>2 DEF Written
    <3>2. st \in {status, 500} BY DEF Outcomes
    <3>3. PICK w \in BOOLEAN : Finish(r, st, w) BY <3>1, Zenon
    <3> QED BY <3>2, <3>3
  <2> QED BY <2>1, <2>2
<1>2. PICK st \in {status, 500}, w \in BOOLEAN : Finish(r, st, w) BY <1>1
<1>3. st \in Nat /\ (req[r].call.op \in {"Register", "Login"} => st \notin {200, 201})
  OBVIOUS
<1> QED BY <1>2, <1>3, FinishInv

\* A request that goes on to its next statement, with the row it holds then.
LEMMA HoldInv ==
  ASSUME Inv, UNCHANGED tables, fresh' \subseteq Reqs,
         UNCHANGED <<live, userFK, offered, epoch>>,
         NEW r \in Reqs, NEW pc \in DbSteps, NEW row \in AnyRow,
         Moved(r, HeldSlot(r, pc, row)), req[r].pc \in DbSteps,
         SlotRow(HeldSlot(r, pc, row), users, epoch)
  PROVE  Inv'
<1> DEFINE s == HeldSlot(r, pc, row)
<1>1. TablesOK' /\ UsersBySequence' /\ Kept(users, users') BY QuietTables DEF Inv
<1>2. users' = users BY DEF tables
<1>3. SlotToken(s, users, epoch) /\ SlotCalled(s, offered.calls)
  BY DEF HeldSlot, Inv, SlotsTrue, SlotTrue, SlotCalled, SlotToken, DbSteps
<1>4. SlotTrue(s, users', epoch, offered.calls) BY <1>2, <1>3 DEF SlotTrue
<1> HIDE DEF s
<1> QED BY <1>1, <1>4, MovedInv DEF s

\* A request that answers with a token that tells the truth.
LEMMA TokenInv ==
  ASSUME Inv, TablesOK', UsersBySequence', Kept(users, users'), fresh' \subseteq Reqs,
         UNCHANGED <<live, userFK, offered, epoch>>,
         NEW r \in Reqs, NEW status \in Nat, NEW w \in BOOLEAN,
         NEW u \in UserIds, NEW row \in UserRow, AnswerWithToken(r, status, w, u, row),
         req[r].pc # "idle", users'[u] = row
  PROVE  Inv'
<1> DEFINE t == [id |-> u, name |-> row.name, role |-> row.role, era |-> epoch]
           s == [pc |-> "done", call |-> req[r].call, as |-> t, row |-> Absent,
                 status |-> status, wrote |-> w]
<1>0. epoch \in Nat BY OfferedCalls DEF Inv, SettingsOK
<1>1. Moved(r, s) BY <1>0, TokenSlot DEF Inv, SlotsTrue
<1>2. t \in Claims BY <1>0 DEF Claims, UserRow
<1>3. TokenTrue(t, users', epoch) BY <1>0, <1>2, DirectoryAbsent DEF TokenTrue
<1> HIDE DEF t
<1>4. SlotTrue(s, users', epoch, offered.calls)
  BY <1>3 DEF Inv, SlotsTrue, SlotTrue, SlotCalled, SlotToken, SlotRow, DbSteps
<1> HIDE DEF s
<1> QED BY <1>1, <1>4, MovedInv

\* The row an account gets at its registration leaves the others alone.
LEMMA NewAccount ==
  ASSUME TablesOK, UsersBySequence, userSeq < MaxUsers, NEW row \in UserRow,
         users' = [users EXCEPT ![userSeq + 1] = row], userSeq' = userSeq + 1,
         UNCHANGED <<follows, beanVars, recipeVars>>
  PROVE  TablesOK' /\ UsersBySequence' /\ Kept(users, users')
         /\ userSeq + 1 \in UserIds /\ users'[userSeq + 1] = row
<1>1. userSeq \in Nat /\ userSeq + 1 \in UserIds
  BY DirectoryBounds DEF TablesOK, UserIds
<1>2. users[userSeq + 1] = Absent BY <1>1 DEF UsersBySequence
<1>3. Kept(users, users') BY <1>2 DEF Kept, SameAccount, TablesOK
<1>4. UsersBySequence' BY <1>1 DEF UsersBySequence, TablesOK, UserIds
<1>5. TablesOK' BY <1>1, DirectoryBounds DEF TablesOK, beanVars, recipeVars
<1> QED BY <1>1, <1>3, <1>4, <1>5 DEF TablesOK

\* A patched account is an account, and the same one.
LEMMA PatchedSame ==
  ASSUME NEW row \in UserRow, NEW b \in Body
  PROVE  PatchedUser(row, b) \in UserRow /\ SameAccount(row, PatchedUser(row, b))
<1> DEFINE bio    == IF b.bio = "" THEN row.bio ELSE b.bio
           avatar == IF b.avatar = "" THEN row.avatar ELSE b.avatar
<1>1. PatchedUser(row, b) = [row EXCEPT !.bio = bio, !.avatar = avatar]
  BY DEF PatchedUser
<1>2. bio \in STRING /\ avatar \in STRING BY DEF UserRow, Body
<1> HIDE DEF bio, avatar
<1>3. [row EXCEPT !.bio = bio, !.avatar = avatar] \in UserRow
  BY <1>2 DEF UserRow
<1>4. SameAccount(row, [row EXCEPT !.bio = bio, !.avatar = avatar])
  BY <1>2 DEF UserRow, SameAccount
<1> QED BY <1>1, <1>3, <1>4

\* Writing a patched account back keeps all accounts.
LEMMA SavedAccount ==
  ASSUME TablesOK, UsersBySequence, NEW u \in UserIds, NEW row \in UserRow,
         users[u] # Absent, SameAccount(users[u], row),
         users' = [users EXCEPT ![u] = row], UNCHANGED <<userSeq, follows, beanVars, recipeVars>>
  PROVE  TablesOK' /\ UsersBySequence' /\ Kept(users, users')
<1>1. Kept(users, users')
  BY DirectoryAbsent DEF Kept, SameAccount, TablesOK
<1>2. TablesOK' BY DEF TablesOK, beanVars, recipeVars
<1>3. UsersBySequence' BY DEF UsersBySequence, TablesOK
<1> QED BY <1>1, <1>2, <1>3

\* The path id of a request is one of the table it is about.
LEMMA Targets ==
  ASSUME Inv, NEW r \in Reqs, req[r].pc # "idle"
  PROVE  /\ req[r] \in Slot /\ req[r].call \in Call /\ req[r].call.body \in Body
         /\ req[r].call.op \in BeanOps => req[r].call.id \in BeanIds
         /\ req[r].call.op \in RecipeOps => req[r].call.id \in RecipeIds
         /\ req[r].call.op \in UserOps \cup FollowOps => req[r].call.id \in UserIds
<1>1. req[r] \in Slot /\ req[r].call \in offered.calls
  BY DEF Inv, SlotsTrue, SlotTrue, SlotCalled
<1>2. req[r].call \in Call /\ req[r].call.id \in TargetIds(req[r].call)
  BY <1>1, OfferedCalls DEF Inv, SettingsOK
<1> QED BY <1>1, <1>2 DEF TargetIds, Call, UserOps, FollowOps, BeanOps, RecipeOps

\* The account a request speaks for.
LEMMA Speaker ==
  ASSUME Inv, NEW r \in Reqs, req[r].pc \in DbSteps, req[r].call.op \in TokenOps
  PROVE  TokenTrue(req[r].as, users, epoch) /\ req[r].as.id \in UserIds
BY DEF Inv, SlotsTrue, SlotTrue, SlotToken, TokenTrue, Claims

LEMMA UserProgressInv ==
  ASSUME Inv, NEW r \in Reqs, UserProgress(r), UNCHANGED <<follows, beanVars, recipeVars>>,
         UNCHANGED <<live, Settings, epoch>>
  PROVE  Inv'
<1> USE DEF At
<1>0. /\ TablesOK /\ SettingsOK /\ SlotsTrue /\ UsersBySequence
      /\ UNCHANGED <<live, userFK, offered, epoch>>
  BY DEF Inv, Settings
<1>1. CASE InsertUser(r)
  <2>1. /\ req[r].pc = "insert" /\ req[r].call.op = "Register" /\ fresh' \subseteq Reqs
        /\ userSeq < MaxUsers /\ userSeq' = userSeq + 1
    BY <1>0, <1>1 DEF InsertUser, SettingsOK
  <2>2. req[r].row \in UserRow BY <1>0, <2>1 DEF SlotsTrue, SlotTrue, SlotRow
  <2>3. CASE Taken(req[r].row) /\ Answer(r, 409) /\ UNCHANGED users
    <3>1. TablesOK' /\ UsersBySequence' /\ Kept(users, users')
      BY <1>0, <2>1, <2>3, DirectoryBounds
      DEF TablesOK, UsersBySequence, Kept, SameAccount, beanVars, recipeVars, UserIds
    <3> QED BY <1>0, <2>1, <2>3, <3>1, AnswerInv
  <2>4. CASE /\ users' = [users EXCEPT ![userSeq + 1] = req[r].row]
             /\ AnswerWithToken(r, 201, TRUE, userSeq + 1, req[r].row)
    <3>1. /\ TablesOK' /\ UsersBySequence' /\ Kept(users, users')
          /\ userSeq + 1 \in UserIds /\ users'[userSeq + 1] = req[r].row
      BY <1>0, <2>1, <2>2, <2>4, NewAccount
    <3>2. PICK w \in BOOLEAN : AnswerWithToken(r, 201, w, userSeq + 1, req[r].row)
      BY <2>4, Zenon
    <3> QED BY <1>0, <2>1, <2>2, <3>1, <3>2, TokenInv
  <2>5. CASE /\ users' = [users EXCEPT ![userSeq + 1] = req[r].row]
             /\ Finish(r, 500, TRUE)
    <3>1. TablesOK' /\ UsersBySequence' /\ Kept(users, users')
      BY <1>0, <2>1, <2>2, <2>5, NewAccount
    <3>2. PICK w \in BOOLEAN : Finish(r, 500, w) BY <2>5, Zenon
    <3> QED BY <1>0, <2>1, <3>1, <3>2, FinishInv
  <2> QED BY <1>1, <2>3, <2>4, <2>5 DEF InsertUser
<1>2. CASE LoginFind(r)
  <2>1. UNCHANGED tables /\ fresh' \subseteq Reqs /\ req[r].pc = "find"
    BY <1>0, <1>2 DEF LoginFind, tables, userVars, beanVars, recipeVars, SettingsOK
  <2>2. TablesOK' /\ UsersBySequence' /\ Kept(users, users')
    BY <1>0, <2>1, QuietTables
  <2>3. CASE Answer(r, 401)
    BY <1>0, <2>1, <2>2, <2>3, AnswerInv
  <2>4. CASE \E u \in Named(req[r].call.body.name) : AnswerWithToken(r, 200, FALSE, u, users[u])
    <3>1. PICK u \in UserIds : users[u] # Absent /\ AnswerWithToken(r, 200, FALSE, u, users[u])
      BY <2>4 DEF Named
    <3>2. users[u] \in UserRow /\ users'[u] = users[u]
      BY <1>0, <2>1, <3>1 DEF TablesOK, tables
    <3>3. PICK w \in BOOLEAN : AnswerWithToken(r, 200, w, u, users[u])
      BY <3>1, Zenon
    <3> QED BY <1>0, <2>1, <2>2, <3>2, <3>3, TokenInv
  <2> QED BY <1>2, <2>3, <2>4 DEF LoginFind
<1>3. CASE \E status \in {200, 404, 500} : Answer(r, status) /\ UNCHANGED <<userVars, fresh>>
           /\ req[r].pc # "idle" /\ req[r].call.op \notin {"Register", "Login"}
  <2>1. TablesOK' /\ UsersBySequence' /\ Kept(users, users') /\ fresh' \subseteq Reqs
    BY <1>0, <1>3, QuietTables DEF tables, userVars, beanVars, recipeVars, SettingsOK
  <2> QED BY <1>0, <1>3, <2>1, AnswerInv
<1>4. CASE GetByID(r) BY <1>3, <1>4 DEF GetByID
<1>5. CASE ProfileToUpdate(r)
  <2>0. req[r].pc = "find" /\ req[r].call.op = "UpdateProfile" BY <1>5 DEF ProfileToUpdate
  <2>1. CASE Answer(r, 500) /\ UNCHANGED fresh
    BY <1>3, <1>5, <2>0, <2>1 DEF ProfileToUpdate, userVars
  <2>2. CASE /\ users[req[r].as.id] # Absent
             /\ Hold(r, "save", PatchedUser(users[req[r].as.id], req[r].call.body))
             /\ fresh' = fresh \cup {r}
    <3> DEFINE row == PatchedUser(users[req[r].as.id], req[r].call.body)
    <3>1. req[r].as.id \in UserIds
      BY <2>0, Speaker DEF DbSteps, TokenOps
    <3>2. row \in UserRow /\ SameAccount(users[req[r].as.id], row)
      BY <1>0, <2>0, <2>2, <3>1, Targets, PatchedSame DEF TablesOK
    <3> HIDE DEF row
    <3>3. SlotRow(HeldSlot(r, "save", row), users, epoch)
      BY <2>0, <2>2, <3>2 DEF SlotRow, HeldSlot
    <3>4. Moved(r, HeldSlot(r, "save", row))
      BY <1>0, <2>2, <3>2, HoldSlot DEF DbSteps, AnyRow, SlotsTrue, row
    <3>5. UNCHANGED tables /\ fresh' \subseteq Reqs
      BY <1>0, <1>5, <2>2
      DEF ProfileToUpdate, tables, userVars, beanVars, recipeVars, SettingsOK
    <3> QED BY <1>0, <2>0, <3>2, <3>3, <3>4, <3>5, HoldInv DEF DbSteps, AnyRow
  <2> QED BY <1>5, <2>1, <2>2 DEF ProfileToUpdate
<1>6. CASE SaveUser(r)
  <2>0. req[r].pc = "save" /\ req[r].call.op = "UpdateProfile" BY <1>6 DEF SaveUser
  <2>1. /\ req[r].as.id \in UserIds /\ req[r].row \in UserRow
        /\ users[req[r].as.id] # Absent /\ SameAccount(users[req[r].as.id], req[r].row)
    BY <1>0, <2>0, Speaker DEF DbSteps, TokenOps, SlotsTrue, SlotTrue, SlotRow
  <2>2. TablesOK' /\ UsersBySequence' /\ Kept(users, users')
    BY <1>0, <1>6, <2>1, SavedAccount DEF SaveUser
  <2>3. fresh' \subseteq Reqs BY <1>0, <1>6 DEF SaveUser, SettingsOK
  <2> QED BY <1>0, <1>6, <2>0, <2>2, <2>3, AnswerInv DEF SaveUser
<1>7. CASE ProfileFind(r)
  <2>1. CASE Answer(r, 404) BY <1>3, <1>7, <2>1 DEF ProfileFind
  <2>2. CASE Goto(r, "stats")
    <3>1. Moved(r, HeldSlot(r, "stats", req[r].row)) /\ req[r].row \in AnyRow
      BY <1>0, <2>2, GotoSlot DEF DbSteps, SlotsTrue
    <3>2. SlotRow(HeldSlot(r, "stats", req[r].row), users, epoch)
      BY <1>7 DEF ProfileFind, SlotRow, HeldSlot
    <3>3. UNCHANGED tables /\ fresh' \subseteq Reqs /\ req[r].pc \in DbSteps
      BY <1>0, <1>7
      DEF ProfileFind, tables, userVars, beanVars, recipeVars, SettingsOK, DbSteps
    <3> QED BY <1>0, <3>1, <3>2, <3>3, HoldInv DEF DbSteps
  <2> QED BY <1>7, <2>1, <2>2 DEF ProfileFind
<1>8. CASE ProfileStats(r) BY <1>3, <1>8 DEF ProfileStats
<1> QED BY <1>1, <1>2, <1>4, <1>5, <1>6, <1>7, <1>8 DEF UserProgress

\* Statements that write no account.
LEMMA NoAccountWritten ==
  ASSUME TablesOK, UsersBySequence, UNCHANGED userVars,
         beans' \in [BeanIds -> BeanRow \cup {Absent}], beanSeq' \in 1..MaxBeans,
         recipes' \in [RecipeIds -> RecipeRow \cup {Absent}], recipeSeq' \in 0..MaxRecipes,
         follows' \subseteq UserIds \X UserIds
  PROVE  TablesOK' /\ UsersBySequence' /\ Kept(users, users')
BY DEF TablesOK, UsersBySequence, Kept, SameAccount, userVars

LEMMA FollowProgressInv ==
  ASSUME Inv, NEW r \in Reqs, FollowProgress(r),
         UNCHANGED <<userVars, beanVars, recipeVars, fresh>>,
         UNCHANGED <<live, Settings, epoch>>
  PROVE  Inv'
<1>0. /\ TablesOK /\ SettingsOK /\ UsersBySequence
      /\ UNCHANGED <<live, userFK, offered, epoch>> /\ fresh' \subseteq Reqs
  BY DEF Inv, Settings, SettingsOK
<1>1. req[r].pc \in {"insert", "delete"} /\ req[r].call.op \in FollowOps
  BY DEF FollowProgress, InsertFollow, DeleteFollow, At, FollowOps
<1>2. <<req[r].as.id, req[r].call.id>> \in UserIds \X UserIds
  BY <1>1, Speaker, Targets DEF DbSteps, TokenOps
<1>3. follows' \subseteq UserIds \X UserIds
  BY <1>0, <1>2 DEF FollowProgress, InsertFollow, DeleteFollow, TablesOK
<1>4. TablesOK' /\ UsersBySequence' /\ Kept(users, users')
  BY <1>0, <1>3, NoAccountWritten DEF TablesOK, beanVars, recipeVars
<1>5. \E status \in {200, 201, 404, 409} : Answer(r, status) \/ Written(r, status)
  BY DEF FollowProgress, InsertFollow, DeleteFollow
<1> QED BY <1>0, <1>1, <1>4, <1>5, AnswerInv DEF FollowOps

\* A patched bean is a bean.
LEMMA PatchedIsBean ==
  ASSUME NEW row \in BeanRow, NEW b \in Body, b.process \in Processes
  PROVE  PatchedBean(row, b) \in BeanRow
<1> DEFINE name == IF b.name = "" THEN row.name ELSE b.name
           tags == IF b.tags = "" THEN row.tags ELSE b.tags
<1>1. PatchedBean(row, b) = [row EXCEPT !.name = name, !.process = b.process, !.tags = tags]
  BY DEF PatchedBean
<1>2. tags \in STRING /\ name \in STRING BY DEF BeanRow, Body
<1> HIDE DEF name, tags
<1> QED BY <1>1, <1>2 DEF BeanRow

\* What the statements of the bean library leave in its table.
LEMMA BeansTyped ==
  ASSUME Inv, NEW r \in Reqs, BeanProgress(r)
  PROVE  /\ beans' \in [BeanIds -> BeanRow \cup {Absent}] /\ beanSeq' \in 1..MaxBeans
         /\ fresh' \subseteq Reqs
         /\ req[r].pc \in DbSteps /\ req[r].call.op \in BeanOps
<1>1. /\ beans \in [BeanIds -> BeanRow \cup {Absent}] /\ beanSeq \in 1..MaxBeans
      /\ fresh \subseteq Reqs /\ SlotTrue(req[r], users, epoch, offered.calls)
  BY DEF Inv, TablesOK, SettingsOK, SlotsTrue
<1>2. CASE InsertBean(r)
  BY <1>1, <1>2, DirectoryBounds
  DEF InsertBean, At, SlotTrue, SlotRow, BeanIds, beanVars, DbSteps, BeanOps
<1>3. CASE BeanToUpdate(r)
  BY <1>1, <1>3 DEF BeanToUpdate, At, beanVars, DbSteps, BeanOps
<1>4. CASE SaveBean(r) \/ SaveBeanInsert(r)
  <2>1. /\ req[r].pc \in {"save", "upsert"} /\ req[r].call.op = "UpdateBean"
        /\ \/ UNCHANGED beans
           \/ beans' = [beans EXCEPT ![req[r].call.id] = req[r].row]
        /\ fresh' \subseteq fresh /\ UNCHANGED beanSeq
    BY <1>4 DEF SaveBean, SaveBeanInsert, At
  <2>2. req[r].row \in BeanRow BY <1>1, <2>1 DEF SlotTrue, SlotRow
  <2> QED BY <1>1, <2>1, <2>2 DEF DbSteps, BeanOps
<1>5. CASE DeleteBeanRow(r)
  BY <1>1, <1>5 DEF DeleteBeanRow, At, DbSteps, BeanOps
<1> QED BY <1>2, <1>3, <1>4, <1>5 DEF BeanProgress

LEMMA BeanProgressInv ==
  ASSUME Inv, NEW r \in Reqs, BeanProgress(r), UNCHANGED <<userVars, follows, recipeVars>>,
         UNCHANGED <<live, Settings, epoch>>
  PROVE  Inv'
<1>0. /\ TablesOK /\ SlotsTrue /\ UsersBySequence
      /\ UNCHANGED <<live, userFK, offered, epoch>>
      /\ fresh' \subseteq Reqs /\ req[r].pc \in DbSteps /\ req[r].call.op \in BeanOps
  BY BeansTyped DEF Inv, Settings
<1>1. TablesOK' /\ UsersBySequence' /\ Kept(users, users')
  BY <1>0, BeansTyped, NoAccountWritten DEF TablesOK, recipeVars
<1>2. CASE \E status \in {200, 201, 409, 422, 500} : Answer(r, status) \/ Written(r, status)
  BY <1>0, <1>1, <1>2, AnswerInv DEF BeanOps, DbSteps
<1>3. CASE /\ BeanToUpdate(r)
           /\ beans[req[r].call.id] # Absent /\ req[r].call.body.process \in Processes
           /\ Hold(r, "save", PatchedBean(beans[req[r].call.id], req[r].call.body))
  <2> DEFINE row == PatchedBean(beans[req[r].call.id], req[r].call.body)
  <2>1. beans[req[r].call.id] \in BeanRow
    BY <1>0, <1>3, Targets DEF TablesOK, DbSteps
  <2>2. row \in BeanRow
    BY <1>0, <1>3, <2>1, Targets, PatchedIsBean DEF DbSteps
  <2>3. req[r].call.op = "UpdateBean" /\ UNCHANGED tables
    BY <1>3 DEF BeanToUpdate, At, tables, userVars, beanVars, recipeVars
  <2>4. Moved(r, HeldSlot(r, "save", row))
    BY <1>0, <1>3, <2>2, HoldSlot DEF DbSteps, AnyRow, SlotsTrue
  <2> HIDE DEF row
  <2>5. SlotRow(HeldSlot(r, "save", row), users, epoch)
    BY <2>2, <2>3 DEF SlotRow, HeldSlot
  <2> QED BY <1>0, <2>2, <2>3, <2>4, <2>5, HoldInv DEF DbSteps, AnyRow
<1>4. CASE /\ SaveBean(r)
           /\ Goto(r, "upsert") /\ UNCHANGED beans
  <2>1. req[r].pc = "save" /\ req[r].call.op = "UpdateBean" /\ UNCHANGED tables
    BY <1>4 DEF SaveBean, At, tables, userVars, recipeVars
  <2>2. req[r].row \in BeanRow BY <1>0, <2>1 DEF SlotsTrue, SlotTrue, SlotRow
  <2>3. Moved(r, HeldSlot(r, "upsert", req[r].row)) /\ req[r].row \in AnyRow
    BY <1>0, <1>4, GotoSlot DEF DbSteps, SlotsTrue
  <2>4. SlotRow(HeldSlot(r, "upsert", req[r].row), users, epoch)
    BY <2>1, <2>2 DEF SlotRow, HeldSlot
  <2> QED BY <1>0, <2>1, <2>3, <2>4, HoldInv DEF DbSteps
<1> QED
  <2>1. CASE InsertBean(r) BY <1>2, <2>1 DEF InsertBean
  <2>2. CASE BeanToUpdate(r) BY <1>2, <1>3, <2>2 DEF BeanToUpdate
  <2>3. CASE SaveBean(r) BY <1>2, <1>4, <2>3 DEF SaveBean
  <2>4. CASE SaveBeanInsert(r) BY <1>2, <2>4 DEF SaveBeanInsert
  <2>5. CASE DeleteBeanRow(r) BY <1>2, <2>5 DEF DeleteBeanRow
  <2> QED BY <2>1, <2>2, <2>3, <2>4, <2>5 DEF BeanProgress

LEMMA RecipeProgressInv ==
  ASSUME Inv, NEW r \in Reqs, RecipeProgress(r),
         UNCHANGED <<userVars, follows, beanVars, fresh>>,
         UNCHANGED <<live, Settings, epoch>>
  PROVE  Inv'
<1>0. /\ TablesOK /\ SlotsTrue /\ UsersBySequence
      /\ UNCHANGED <<live, userFK, offered, epoch>> /\ fresh' \subseteq Reqs
  BY DEF Inv, Settings, SettingsOK
<1>1. req[r].pc \in {"insert", "find"} /\ req[r].call.op \in RecipeOps
  BY DEF RecipeProgress, InsertRecipe, RecipeFind, At, RecipeOps
<1>2. CASE InsertRecipe(r)
  <2>1. req[r].row \in RecipeRow
    BY <1>0, <1>2 DEF InsertRecipe, At, SlotsTrue, SlotTrue, SlotRow
  <2>2. recipes' \in [RecipeIds -> RecipeRow \cup {Absent}] /\ recipeSeq' \in 0..MaxRecipes
    BY <1>0, <1>2, <2>1, DirectoryBounds
    DEF InsertRecipe, TablesOK, RecipeIds, recipeVars
  <2>3. TablesOK' /\ UsersBySequence' /\ Kept(users, users')
    BY <1>0, <2>2, NoAccountWritten DEF TablesOK, beanVars
  <2>4. \E status \in {201, 500} : Answer(r, status) \/ Written(r, status)
    BY <1>2 DEF InsertRecipe
  <2> QED BY <1>0, <1>1, <2>3, <2>4, AnswerInv DEF RecipeOps
<1>3. CASE RecipeFind(r)
  <2>1. TablesOK' /\ UsersBySequence' /\ Kept(users, users')
    BY <1>0, <1>3, NoAccountWritten DEF RecipeFind, TablesOK, beanVars, recipeVars
  <2>2. \E status \in {200, 404} : Answer(r, status)
    BY <1>3 DEF RecipeFind
  <2> QED BY <1>0, <1>1, <2>1, <2>2, AnswerInv DEF RecipeOps
<1> QED BY <1>2, <1>3 DEF RecipeProgress

LEMMA ProgressInv ==
  ASSUME Inv, NEW r \in Reqs, Progress(r)
  PROVE  Inv'
BY UserProgressInv, FollowProgressInv, BeanProgressInv, RecipeProgressInv DEF Progress

-----------------------------------------------------------------------------
(***************************************************************************)
(* Answers, failures, restarts and resets.                                 *)
(***************************************************************************)
\* A free slot promises nothing.
LEMMA IdleTrue ==
  ASSUME NEW us, NEW e, NEW cs
  PROVE  Idle \in Slot /\ SlotTrue(Idle, us, e, cs)
BY DEF Idle, Slot, SlotTrue, SlotCalled, SlotToken, SlotRow, DbSteps

LEMMA ReplyInv ==
  ASSUME Inv, NEW r \in Reqs, Reply(r)
  PROVE  Inv'
<1>0. /\ TablesOK /\ SettingsOK /\ SlotsTrue /\ UsersBySequence /\ TokensTrue
      /\ UNCHANGED <<tables, userFK, offered, epoch, fresh>>
  BY DEF Inv, Reply, Settings, history
<1>1. TablesOK' /\ UsersBySequence' /\ Kept(users, users') BY <1>0, QuietTables
<1>2. Moved(r, Idle) BY <1>0, IdleTrue DEF Reply, Moved, SlotsTrue
<1>3. SlotsTrue' BY <1>0, <1>1, <1>2, IdleTrue, MovedKeeps
<1>4. Granted(r) => TokenTrue(req[r].as, users, epoch)
  BY <1>0 DEF Reply, Granted, SlotsTrue, SlotTrue, SlotToken
<1>5. TokensTrue'
  BY <1>0, <1>4 DEF TokensTrue, Reply, tables
<1> QED BY <1>0, <1>1, <1>3, <1>5 DEF Inv, SettingsOK

LEMMA StatementFailsInv ==
  ASSUME Inv, NEW r \in Reqs, StatementFails(r)
  PROVE  Inv'
<1>0. /\ TablesOK /\ SettingsOK /\ SlotsTrue /\ UsersBySequence
      /\ UNCHANGED <<tables, live, userFK, offered, epoch>> /\ fresh' \subseteq Reqs
      /\ req[r].pc \in DbSteps
  BY DEF Inv, StatementFails, Settings, SettingsOK
<1>1. TablesOK' /\ UsersBySequence' /\ Kept(users, users') BY <1>0, QuietTables
<1> DEFINE status == IF req[r].pc = "stats" THEN 200 ELSE 500
<1>2. Answer(r, status) /\ status \in Nat BY DEF StatementFails
<1>3. req[r].call.op \in {"Register", "Login"} => status \notin {200, 201}
  BY <1>0 DEF SlotsTrue, SlotTrue, SlotRow
<1> HIDE DEF status
<1> QED BY <1>0, <1>1, <1>2, <1>3, AnswerInv DEF DbSteps

\* No request is under way.
LEMMA AllIdle ==
  ASSUME req' = [r \in Reqs |-> Idle]
  PROVE  SlotsTrue'
<1>1. req' \in [Reqs -> Slot] /\ \A r \in Reqs : req'[r] = Idle BY IdleTrue
<1> QED BY <1>1, IdleTrue DEF SlotsTrue

LEMMA RestartInv ==
  ASSUME Inv, Restart
  PROVE  Inv'
<1>0. /\ TablesOK /\ SettingsOK /\ UsersBySequence /\ TokensTrue
      /\ UNCHANGED <<tables, live, userFK, offered, epoch>> /\ fresh' = {}
      /\ req' = [r \in Reqs |-> Idle]
  BY DEF Inv, Restart, Settings
<1>1. TablesOK' /\ UsersBySequence' /\ Kept(users, users') BY <1>0, QuietTables
<1>2. TokensTrue' BY <1>0, <1>1, TokensKept
<1>3. SettingsOK' BY <1>0 DEF SettingsOK
<1>4. SlotsTrue' BY <1>0, AllIdle
<1> QED BY <1>1, <1>2, <1>3, <1>4 DEF Inv

\* The seed of a new database.
LEMMA Seeded ==
  /\ SeededUsers \in [UserIds -> UserRow \cup {Absent}]
  /\ SeededBeans \in [BeanIds -> BeanRow \cup {Absent}]
  /\ \A u \in UserIds : u > 1 => SeededUsers[u] = Absent
  /\ 1 \in 1..MaxUsers /\ 1 \in 1..MaxBeans /\ 0 \in 0..MaxRecipes
<1>1. SeedUser \in UserRow BY DirectoryLiterals DEF SeedUser, UserRow, Roles
<1>2. SeedBean \in BeanRow BY DirectoryLiterals DEF SeedBean, BeanRow, Processes
<1> QED BY <1>1, <1>2, DirectoryBounds DEF SeededUsers, SeededBeans, UserIds

LEMMA ResetInv ==
  ASSUME Inv, Reset
  PROVE  Inv'
<1>1. TablesOK' /\ UsersBySequence' BY Seeded DEF Reset, TablesOK, UsersBySequence
<1>2. offered \in Workloads /\ offered.resets \in Nat /\ epoch \in Nat
  BY OfferedCalls DEF Inv, SettingsOK
<1>3. epoch' \in 0..offered.resets /\ epoch' = epoch + 1
  BY <1>2 DEF Reset
<1>4. SettingsOK' BY <1>3 DEF Reset, Inv, SettingsOK, Settings
<1>5. ASSUME NEW t \in live PROVE TokenTrue(t, users', epoch')
  BY <1>2, <1>3, <1>5 DEF Inv, TokensTrue, TokenTrue, Claims
<1>6. TokensTrue' BY <1>5 DEF TokensTrue, Reset
<1>7. SlotsTrue' BY AllIdle DEF Reset
<1> QED BY <1>1, <1>4, <1>6, <1>7 DEF Inv

LEMMA InitInv == Init => Inv
<1> SUFFICES ASSUME Init PROVE Inv OBVIOUS
<1>1. TablesOK /\ UsersBySequence BY Seeded DEF Init, TablesOK, UsersBySequence
<1>2. SettingsOK BY DirectoryWorkloads DEF Init, SettingsOK
<1>3. SlotsTrue BY IdleTrue DEF Init, SlotsTrue
<1> QED BY <1>1, <1>2, <1>3 DEF Inv, TokensTrue, Init

LEMMA NextInv == Inv /\ [Next]_vars => Inv'
<1> SUFFICES ASSUME Inv, [Next]_vars PROVE Inv' OBVIOUS
<1>1. ASSUME NEW r \in Reqs, Arrive(r) \/ Progress(r) \/ Reply(r) \/ StatementFails(r)
      PROVE  Inv'
  BY <1>1, ArriveInv, ProgressInv, ReplyInv, StatementFailsInv
<1>2. CASE UNCHANGED vars
  BY <1>2 DEF vars, Inv, TablesOK, SettingsOK, SlotsTrue, UsersBySequence, TokensTrue
<1> QED BY <1>1, <1>2, RestartInv, ResetInv DEF Next

LEMMA Invariance == Spec => []Inv
BY InitInv, NextInv, PTL DEF Spec

-----------------------------------------------------------------------------
(***************************************************************************)
(* The theorems.                                                           *)
(***************************************************************************)
\* Every table holds rows under its ids and every slot is a request, whatever
\* requests, failures, restarts and resets there are.
THEOREM DirectoryTypeCorrect == Spec => []DirectoryTypeOK
<1>1. Inv => DirectoryTypeOK
  BY DEF Inv, TablesOK, SettingsOK, SlotsTrue, TokensTrue, TokenTrue, DirectoryTypeOK
<1> QED BY <1>1, Invariance, PTL

\* No token in anyone's hands lies about its account until a reset: nothing
\* revokes a token because nothing makes one untrue (user_service.go).
THEOREM TokensSpeakTrueAlways == Spec => []TokensSpeakTrue
<1>1. Inv => TokensSpeakTrue
  BY DEF Inv, TokensTrue, TokenTrue, TokensSpeakTrue, Handed, Granted, SlotsTrue,
         SlotTrue, SlotToken
<1> QED BY <1>1, Invariance, PTL

-----------------------------------------------------------------------------
(***************************************************************************)
(* How the tables change within the life of a database.                    *)
(***************************************************************************)
LEMMA TableSteps ==
  ASSUME Inv, [Next]_vars, epoch' = epoch
  PROVE  UNCHANGED tables \/ \E r \in Reqs : Progress(r)
<1>1. epoch \in Nat BY OfferedCalls DEF Inv, SettingsOK
<1>2. ~Reset BY <1>1 DEF Reset
<1> QED BY <1>2 DEF Next, Arrive, Reply, StatementFails, Restart, vars, tables

\* An account is written by its registration, or by an update of its profile.
LEMMA AccountSteps ==
  ASSUME Inv, [Next]_vars, epoch' = epoch
  PROVE  \/ UNCHANGED users
         \/ \E r \in Reqs : /\ At(r, "Register", "insert")
                            /\ req[r].row \in UserRow /\ ~Taken(req[r].row)
                            /\ userSeq + 1 \in UserIds /\ users[userSeq + 1] = Absent
                            /\ users' = [users EXCEPT ![userSeq + 1] = req[r].row]
         \/ \E r \in Reqs : /\ At(r, "UpdateProfile", "save")
                            /\ req[r].as.id \in UserIds
                            /\ TokenTrue(req[r].as, users, epoch)
                            /\ req[r].row \in UserRow /\ users[req[r].as.id] # Absent
                            /\ SameAccount(users[req[r].as.id], req[r].row)
                            /\ users' = [users EXCEPT ![req[r].as.id] = req[r].row]
<1>1. CASE UNCHANGED tables BY <1>1 DEF tables
<1>2. ASSUME NEW r \in Reqs, Progress(r), ~UNCHANGED users
      PROVE  InsertUser(r) \/ SaveUser(r)
  BY <1>2 DEF Progress, UserProgress, LoginFind, GetByID, ProfileToUpdate, ProfileFind,
              ProfileStats, userVars
<1>3. ASSUME NEW r \in Reqs, InsertUser(r), ~UNCHANGED users
      PROVE  /\ At(r, "Register", "insert")
             /\ req[r].row \in UserRow /\ ~Taken(req[r].row)
             /\ userSeq + 1 \in UserIds /\ users[userSeq + 1] = Absent
             /\ users' = [users EXCEPT ![userSeq + 1] = req[r].row]
  <2>1. req[r].row \in UserRow
    BY <1>3 DEF InsertUser, At, Inv, SlotsTrue, SlotTrue, SlotRow
  <2>2. userSeq \in Nat /\ userSeq + 1 \in UserIds
    BY <1>3, DirectoryBounds DEF InsertUser, Inv, TablesOK, UserIds
  <2>3. users[userSeq + 1] = Absent BY <2>2 DEF Inv, UsersBySequence
  <2> QED BY <1>3, <2>1, <2>2, <2>3 DEF InsertUser
<1>4. ASSUME NEW r \in Reqs, SaveUser(r)
      PROVE  /\ At(r, "UpdateProfile", "save")
             /\ req[r].as.id \in UserIds
             /\ TokenTrue(req[r].as, users, epoch)
             /\ req[r].row \in UserRow /\ users[req[r].as.id] # Absent
             /\ SameAccount(users[req[r].as.id], req[r].row)
             /\ users' = [users EXCEPT ![req[r].as.id] = req[r].row]
  <2>1. req[r].pc = "save" /\ req[r].call.op = "UpdateProfile" BY <1>4 DEF SaveUser, At
  <2> QED
    BY <1>4, <2>1, Speaker
    DEF SaveUser, DbSteps, TokenOps, Inv, SlotsTrue, SlotTrue, SlotRow
<1> QED BY <1>1, <1>2, <1>3, <1>4, TableSteps

\* A bean is written by one of the statements of the bean library.
LEMMA BeanSteps ==
  ASSUME Inv, [Next]_vars, epoch' = epoch
  PROVE  \/ UNCHANGED beans
         \/ \E r \in Reqs : /\ At(r, "CreateBean", "insert")
                            /\ req[r].row \in BeanRow
                            /\ ~NameTaken(req[r].row.name, beanSeq + 1)
                            /\ beanSeq + 1 \in BeanIds
                            /\ beans' = [beans EXCEPT ![beanSeq + 1] = req[r].row]
                            /\ Written(r, 201)
         \/ \E r \in Reqs : /\ At(r, "UpdateBean", "save") \/ At(r, "UpdateBean", "upsert")
                            /\ req[r].row \in BeanRow /\ req[r].call.id \in BeanIds
                            /\ ~NameTaken(req[r].row.name, req[r].call.id)
                            /\ beans' = [beans EXCEPT ![req[r].call.id] = req[r].row]
                            /\ Written(r, 200)
         \/ \E r \in Reqs : /\ At(r, "DeleteBean", "delete")
                            /\ req[r].call.id \in BeanIds
                            /\ beans' = [beans EXCEPT ![req[r].call.id] = Absent]
                            /\ Written(r, 200)
<1>1. CASE UNCHANGED tables BY <1>1 DEF tables
<1>2. ASSUME NEW r \in Reqs, Progress(r), ~UNCHANGED beans
      PROVE  InsertBean(r) \/ SaveBean(r) \/ SaveBeanInsert(r) \/ DeleteBeanRow(r)
  BY <1>2 DEF Progress, BeanProgress, BeanToUpdate, beanVars
<1>3. ASSUME NEW r \in Reqs, InsertBean(r), ~UNCHANGED beans
      PROVE  /\ At(r, "CreateBean", "insert")
             /\ req[r].row \in BeanRow /\ ~NameTaken(req[r].row.name, beanSeq + 1)
             /\ beanSeq + 1 \in BeanIds
             /\ beans' = [beans EXCEPT ![beanSeq + 1] = req[r].row]
             /\ Written(r, 201)
  <2>1. req[r].row \in BeanRow
    BY <1>3 DEF InsertBean, At, Inv, SlotsTrue, SlotTrue, SlotRow
  <2>2. beanSeq + 1 \in BeanIds
    BY <1>3, DirectoryBounds DEF InsertBean, Inv, TablesOK, BeanIds
  <2> QED BY <1>3, <2>1, <2>2 DEF InsertBean, beanVars
<1>4. ASSUME NEW r \in Reqs, SaveBean(r) \/ SaveBeanInsert(r), ~UNCHANGED beans
      PROVE  /\ At(r, "UpdateBean", "save") \/ At(r, "UpdateBean", "upsert")
             /\ req[r].row \in BeanRow /\ req[r].call.id \in BeanIds
             /\ ~NameTaken(req[r].row.name, req[r].call.id)
             /\ beans' = [beans EXCEPT ![req[r].call.id] = req[r].row]
             /\ Written(r, 200)
  <2>1. req[r].pc \in {"save", "upsert"} /\ req[r].call.op = "UpdateBean"
    BY <1>4 DEF SaveBean, SaveBeanInsert, At
  <2>2. req[r].row \in BeanRow BY <2>1 DEF Inv, SlotsTrue, SlotTrue, SlotRow
  <2>3. req[r].call.id \in BeanIds BY <2>1, Targets DEF BeanOps
  <2> QED BY <1>4, <2>2, <2>3 DEF SaveBean, SaveBeanInsert
<1>5. ASSUME NEW r \in Reqs, DeleteBeanRow(r), ~UNCHANGED beans
      PROVE  /\ At(r, "DeleteBean", "delete") /\ req[r].call.id \in BeanIds
             /\ beans' = [beans EXCEPT ![req[r].call.id] = Absent]
             /\ Written(r, 200)
  BY <1>5, Targets DEF DeleteBeanRow, At, BeanOps
<1> QED BY <1>1, <1>2, <1>3, <1>4, <1>5, TableSteps

\* No account ever changes its name, email, password or role, or goes away:
\* the row a profile update holds is of the account it writes to.
THEOREM IdentityPinnedAlways == Spec => IdentityPinned
<1>1. Inv /\ [Next]_vars /\ epoch' = epoch => Kept(users, users')
  <2> SUFFICES ASSUME Inv, [Next]_vars, epoch' = epoch PROVE Kept(users, users')
    OBVIOUS
  <2>1. users \in [UserIds -> UserRow \cup {Absent}] BY DEF Inv, TablesOK
  <2> QED BY <2>1, AccountSteps, DirectoryAbsent DEF Kept, SameAccount
<1>2. Inv /\ [Next]_vars =>
        (epoch' = epoch => \A u \in UserIds : users[u] # Absent =>
           users'[u] # Absent /\ SameAccount(users[u], users'[u]))
  BY <1>1 DEF Kept
<1> QED BY <1>2, Invariance, PTL DEF Spec, IdentityPinned

\* Only its own account's token changes a profile, tokens from before a reset
\* apart.
THEOREM ProfileOfItsOwnAlways == Spec => ProfileOfItsOwn
<1>1. ASSUME Inv, [Next]_vars, epoch' = epoch, NEW u \in UserIds,
             users[u] # Absent, users'[u] # users[u]
      PROVE  \E r \in Reqs : /\ At(r, "UpdateProfile", "save")
                             /\ req[r].as.id = u
                             /\ req[r].as.era = epoch => req[r].as.name = users[u].name
  <2>1. users \in [UserIds -> UserRow \cup {Absent}] BY <1>1 DEF Inv, TablesOK
  <2> QED BY <1>1, <2>1, AccountSteps DEF TokenTrue
<1>2. Inv /\ [Next]_vars =>
        (epoch' = epoch => \A u \in UserIds : users[u] # Absent /\ users'[u] # users[u] =>
           \E r \in Reqs : /\ At(r, "UpdateProfile", "save")
                           /\ req[r].as.id = u
                           /\ req[r].as.era = epoch => req[r].as.name = users[u].name)
  BY <1>1
<1> QED BY <1>2, Invariance, PTL DEF Spec, ProfileOfItsOwn

\* The bean library is written by admins only, whose accounts say so unless
\* their tokens are from before a reset.
THEOREM BeansByAdminsAlways == Spec => BeansByAdmins
<1>1. ASSUME Inv, [Next]_vars, epoch' = epoch, beans' # beans
      PROVE  \E r \in Reqs : /\ req[r].pc \in {"insert", "save", "upsert", "delete"}
                             /\ req[r].call.op \in BeanOps
                             /\ req'[r].status \in Outcomes(200) \cup Outcomes(201)
                             /\ req[r].as.role = "admin"
                             /\ req[r].as.era = epoch =>
                                  users[req[r].as.id].role = "admin"
  <2>1. PICK r \in Reqs : /\ req[r].pc \in {"insert", "save", "upsert", "delete"}
                          /\ req[r].call.op \in BeanOps
                          /\ Written(r, 200) \/ Written(r, 201)
    BY <1>1, BeanSteps DEF At, BeanOps
  <2>2. req'[r].status \in Outcomes(200) \cup Outcomes(201)
    <3>1. PICK status \in Outcomes(200) \cup Outcomes(201), w \in BOOLEAN :
            Finish(r, status, w)
      BY <2>1 DEF Written
    <3>3. status \in Nat BY DEF Outcomes
    <3>2. req'[r] = [pc |-> "done", call |-> req[r].call, as |-> req[r].as,
                     row |-> Absent, status |-> status, wrote |-> w]
      BY <1>1, <3>1, <3>3, FinishSlot DEF Inv, SlotsTrue, Moved
    <3> QED BY <3>2
  <2>3. req[r].as.role = "admin" /\ TokenTrue(req[r].as, users, epoch)
    BY <1>1, <2>1 DEF Inv, SlotsTrue, SlotTrue, SlotToken, DbSteps, TokenOps
  <2> QED BY <2>1, <2>2, <2>3 DEF TokenTrue
<1> QED BY <1>1, Invariance, PTL DEF Spec, BeansByAdmins

\* The id of a deleted bean is never given to another, and only an update
\* that had read the bean before can bring it back.
THEOREM BeanGoneForGoodAlways == Spec => BeanGoneForGood
<1>1. ASSUME Inv, [Next]_vars, epoch' = epoch, NEW b \in 1..beanSeq,
             beans[b] = Absent, BeanHeldBy(b) = {}
      PROVE  beans'[b] = Absent
  <2>1. /\ beans \in [BeanIds -> BeanRow \cup {Absent}]
        /\ beanSeq \in Nat /\ beanSeq <= MaxBeans /\ b \in BeanIds /\ b # beanSeq + 1
    BY <1>1, DirectoryBounds DEF Inv, TablesOK, BeanIds
  <2>2. ASSUME NEW r \in Reqs, At(r, "UpdateBean", "save") \/ At(r, "UpdateBean", "upsert")
        PROVE  req[r].call.id # b
    BY <1>1, <2>2 DEF BeanHeldBy
  <2> QED BY <1>1, <2>1, <2>2, BeanSteps
<1>2. Inv /\ [Next]_vars =>
        (epoch' = epoch => \A b \in 1..beanSeq :
           beans[b] = Absent /\ BeanHeldBy(b) = {} => beans'[b] = Absent)
  BY <1>1
<1> QED BY <1>2, Invariance, PTL DEF Spec, BeanGoneForGood

\* No two accounts share a name or an email and no two beans a name: the
\* indexes look at what is stored when the statement runs, and the row an
\* update writes back carries the name its account has anyway.
THEOREM NamesUniqueAlways == Spec => []NamesUnique
<1>1. Init => NamesUnique
  <2> SUFFICES ASSUME Init PROVE NamesUnique OBVIOUS
  <2>1. /\ \A u \in UserIds : users[u] # Absent => u = 1
        /\ \A b \in BeanIds : beans[b] # Absent => b = 1
    BY DEF Init, SeededUsers, SeededBeans
  <2> QED BY <2>1 DEF NamesUnique
<1>2. Inv /\ NamesUnique /\ [Next]_vars => NamesUnique'
  <2> SUFFICES ASSUME Inv, NamesUnique, [Next]_vars PROVE NamesUnique' OBVIOUS
  <2>0. /\ users \in [UserIds -> UserRow \cup {Absent}]
        /\ beans \in [BeanIds -> BeanRow \cup {Absent}]
    BY DEF Inv, TablesOK
  <2>1. CASE Reset
    <3>1. /\ \A u \in UserIds : users'[u] # Absent => u = 1
          /\ \A b \in BeanIds : beans'[b] # Absent => b = 1
      BY <2>1 DEF Reset, SeededUsers, SeededBeans
    <3> QED BY <3>1 DEF NamesUnique
  <2>2. CASE epoch' = epoch
    <3>1. ASSUME NEW u \in UserIds, NEW v \in UserIds,
                 users'[u] # Absent, users'[v] # Absent,
                 users'[u].name = users'[v].name \/ users'[u].email = users'[v].email
          PROVE  u = v
      <4>1. CASE UNCHANGED users BY <3>1, <4>1 DEF NamesUnique
      <4>2. CASE \E r \in Reqs : /\ req[r].row \in UserRow /\ ~Taken(req[r].row)
                                 /\ userSeq + 1 \in UserIds
                                 /\ users' = [users EXCEPT ![userSeq + 1] = req[r].row]
        BY <2>0, <3>1, <4>2 DEF NamesUnique, Taken, Named
      <4>3. CASE \E r \in Reqs : /\ req[r].as.id \in UserIds
                                 /\ req[r].row \in UserRow /\ users[req[r].as.id] # Absent
                                 /\ SameAccount(users[req[r].as.id], req[r].row)
                                 /\ users' = [users EXCEPT ![req[r].as.id] = req[r].row]
        BY <2>0, <3>1, <4>3 DEF NamesUnique, SameAccount
      <4> QED BY <2>2, <4>1, <4>2, <4>3, AccountSteps
    <3>2. ASSUME NEW a \in BeanIds, NEW b \in BeanIds,
                 beans'[a] # Absent, beans'[b] # Absent, beans'[a].name = beans'[b].name
          PROVE  a = b
      <4>1. CASE UNCHANGED beans BY <3>2, <4>1 DEF NamesUnique
      <4>2. CASE \E k \in BeanIds, row \in BeanRow :
                   ~NameTaken(row.name, k) /\ beans' = [beans EXCEPT ![k] = row]
        BY <2>0, <3>2, <4>2 DEF NamesUnique, NameTaken
      <4>3. CASE \E k \in BeanIds : beans' = [beans EXCEPT ![k] = Absent]
        BY <2>0, <3>2, <4>3 DEF NamesUnique
      <4> QED BY <2>2, <4>1, <4>2, <4>3, BeanSteps
    <3> QED BY <3>1, <3>2 DEF NamesUnique
  <2>3. CASE UNCHANGED vars BY <2>3 DEF vars, NamesUnique
  <2> QED
    BY <2>1, <2>2, <2>3 DEF Next, Arrive, Progress, Reply, StatementFails, Restart, history
<1> QED BY <1>1, <1>2, Invariance, PTL DEF Spec

\* A recipe's author has an account, whatever token wrote it, under the schema
\* with the foreign key; without it only a token from before a reset can name
\* an author who is not there (recipe_service.go).
THEOREM AuthorsExistAlways == Spec => []AuthorsExist
<1>1. Init => AuthorsExist BY DEF Init, AuthorsExist
<1>2. Inv /\ AuthorsExist /\ [Next]_vars => AuthorsExist'
  <2> SUFFICES ASSUME Inv, AuthorsExist, [Next]_vars PROVE AuthorsExist' OBVIOUS
  <2>0. /\ recipes \in [RecipeIds -> RecipeRow \cup {Absent}] /\ recipeSeq \in 0..MaxRecipes
        /\ users \in [UserIds -> UserRow \cup {Absent}]
    BY DEF Inv, TablesOK
  <2>1. CASE Reset BY <2>1 DEF Reset, AuthorsExist
  <2>2. CASE UNCHANGED tables /\ UNCHANGED <<userFK, epoch>>
    BY <2>2 DEF tables, AuthorsExist
  <2>3. ASSUME NEW r \in Reqs, Progress(r) PROVE AuthorsExist'
    <3>0. UNCHANGED <<userFK, epoch>> BY <2>3 DEF Progress, Settings
    <3>1. CASE UNCHANGED recipes
      <4>1. \A u \in UserIds : users[u] # Absent => users'[u] # Absent
        BY <2>0, <3>0, AccountSteps, DirectoryAbsent
      <4>2. \A k \in RecipeIds : recipes[k] # Absent => recipes[k].user \in UserIds
        BY <2>0 DEF RecipeRow
      <4> QED BY <3>0, <3>1, <4>1, <4>2 DEF AuthorsExist
    <3>2. CASE InsertRecipe(r) /\ UNCHANGED userVars
      <4>1. CASE UNCHANGED recipes BY <3>1, <4>1
      <4>2. CASE /\ AuthorExists(req[r].row)
                 /\ recipes' = [recipes EXCEPT ![recipeSeq + 1] = req[r].row]
        <5>1. /\ req[r].row \in RecipeRow
              /\ req[r].row.era = epoch => users[req[r].row.user] # Absent
          BY <3>2 DEF InsertRecipe, At, Inv, SlotsTrue, SlotTrue, SlotRow
        <5>2. users[req[r].row.user] # Absent \/ (~userFK /\ req[r].row.era # epoch)
          BY <4>2, <5>1 DEF AuthorExists
        <5> QED BY <2>0, <3>0, <3>2, <4>2, <5>2 DEF AuthorsExist, userVars
      <4> QED BY <3>2, <4>1, <4>2 DEF InsertRecipe, recipeVars
    <3> QED BY <2>3, <3>1, <3>2 DEF Progress, RecipeProgress, RecipeFind, recipeVars
  <2> QED
    BY <2>1, <2>2, <2>3
    DEF Next, Arrive, Reply, StatementFails, Restart, vars, tables, Settings, history
<1> QED BY <1>1, <1>2, Invariance, PTL DEF Spec

-----------------------------------------------------------------------------
(***************************************************************************)
(* Answers.  A request has written nothing until it answers.               *)
(***************************************************************************)
Succeeded(s)    == s.status \in {200, 201} /\ s.call.op \in WriteOps
Effects(f)      == {200, 201} \cup {x \in {500} : f}
AnswerTrue(s, f) ==
  /\ s.pc \in DbSteps => ~s.wrote
  /\ s.pc = "done" =>
       /\ Succeeded(s) => s.wrote
       /\ s.wrote => s.call.op \in WriteOps /\ s.status \in Effects(f)
AnswersTrue     == \A r \in Reqs : AnswerTrue(req[r], offered.faults)

\* A step that moves one slot keeps the others' answers true.
LEMMA MovedAnswers ==
  ASSUME AnswersTrue, UNCHANGED offered, NEW r \in Reqs, NEW s, Moved(r, s),
         AnswerTrue(s, offered.faults)
  PROVE  AnswersTrue'
<1>1. ASSUME NEW q \in Reqs PROVE AnswerTrue(req'[q], offered.faults)
  <2>1. CASE q = r BY <2>1 DEF Moved
  <2>2. CASE q # r
    <3>1. req'[q] = req[q] BY <2>2 DEF Moved
    <3>2. AnswerTrue(req[q], offered.faults) BY DEF AnswersTrue
    <3> QED BY <3>1, <3>2
  <2> QED BY <2>1, <2>2
<1> QED BY <1>1 DEF AnswersTrue, AnswerTrue, Succeeded, Effects

\* Turned away, or sent on to a statement: nothing written, no success.
LEMMA QuietAnswers ==
  ASSUME AnswersTrue, UNCHANGED offered, NEW r \in Reqs, NEW s, Moved(r, s), ~s.wrote,
         s.pc = "done" => ~Succeeded(s)
  PROVE  AnswersTrue'
BY MovedAnswers DEF AnswerTrue

LEMMA AnswerAnswers ==
  ASSUME Inv, AnswersTrue, UNCHANGED offered,
         NEW r \in Reqs, NEW status \in Nat, Answer(r, status),
         status \notin {200, 201} \/ req[r].call.op \notin WriteOps
  PROVE  AnswersTrue'
<1>1. PICK w \in BOOLEAN : w = FALSE /\ Finish(r, status, w) BY Zenon DEF Answer
<1> DEFINE s == [pc |-> "done", call |-> req[r].call, as |-> req[r].as, row |-> Absent,
                 status |-> status, wrote |-> w]
<1>2. Moved(r, s) BY <1>1, FinishSlot DEF Inv, SlotsTrue
<1>3. ~s.wrote /\ ~Succeeded(s) BY <1>1 DEF Succeeded
<1> HIDE DEF s
<1> QED BY <1>2, <1>3, QuietAnswers

LEMMA WrittenAnswers ==
  ASSUME Inv, AnswersTrue, UNCHANGED offered,
         NEW r \in Reqs, NEW success \in {200, 201}, Written(r, success),
         req[r].call.op \in WriteOps
  PROVE  AnswersTrue'
<1>0. PICK status \in Outcomes(success) : Finish(r, status, TRUE) BY Zenon DEF Written
<1>1. PICK w \in BOOLEAN : w = TRUE /\ Finish(r, status, w) BY <1>0, Zenon
<1>4. req \in [Reqs -> Slot] /\ status \in Nat /\ status \in Effects(offered.faults)
  BY DEF Inv, SlotsTrue, Outcomes, Effects
<1> DEFINE s == [pc |-> "done", call |-> req[r].call, as |-> req[r].as, row |-> Absent,
                 status |-> status, wrote |-> w]
<1>5. Finish(r, status, w) BY <1>1
<1>2. Moved(r, s) BY <1>4, <1>5, FinishSlot
<1>3. AnswerTrue(s, offered.faults) BY <1>1, <1>4 DEF AnswerTrue, Succeeded, DbSteps
<1> HIDE DEF s
<1> QED BY <1>2, <1>3, MovedAnswers

LEMMA ArriveAnswers ==
  ASSUME Inv, AnswersTrue, NEW r \in Reqs, Arrive(r)
  PROVE  AnswersTrue'
<1>0. req \in [Reqs -> Slot] /\ epoch \in Nat /\ UNCHANGED offered
  BY OfferedCalls DEF Inv, SlotsTrue, SettingsOK, Arrive, Progress, Settings
<1>1. PICK c \in offered.calls, t \in live \cup {Nobody} :
        AuthRequired(r, c, t) \/ RequireRole(r, c, t) \/ Accepted(r, c, t)
  BY DEF Arrive
<1>2. c \in Call /\ c.body \in Body /\ t \in Claims \cup {Nobody}
  BY <1>1, OfferedCalls DEF Inv, SettingsOK, Call, TokensTrue, TokenTrue
<1>3. ASSUME NEW status \in Nat, NEW as \in Claims \cup {Nobody},
             status \notin {200, 201}, Reject(r, c, as, status)
      PROVE  AnswersTrue'
  <2> DEFINE s == [pc |-> "done", call |-> c, as |-> as, row |-> Absent,
                   status |-> status, wrote |-> FALSE]
  <2>1. Moved(r, s) BY <1>0, <1>2, <1>3, RejectSlot
  <2>2. ~s.wrote /\ ~Succeeded(s) BY <1>3 DEF Succeeded
  <2> HIDE DEF s
  <2> QED BY <1>0, <2>1, <2>2, QuietAnswers
<1>4. ASSUME NEW pc \in {"find", "delete", "insert"}, NEW row \in AnyRow,
             Enter(r, c, t, pc, row)
      PROVE  AnswersTrue'
  <2> DEFINE s == [pc |-> pc, call |-> c, as |-> t, row |-> row, status |-> 0,
                   wrote |-> FALSE]
  <2>1. Moved(r, s) BY <1>0, <1>2, <1>4, EnterSlot DEF DbSteps
  <2>2. ~s.wrote /\ s.pc # "done" OBVIOUS
  <2> HIDE DEF s
  <2> QED BY <1>0, <2>1, <2>2, QuietAnswers
<1>5. CASE AuthRequired(r, c, t) BY <1>3, <1>5 DEF AuthRequired
<1>6. CASE RequireRole(r, c, t) BY <1>2, <1>3, <1>6 DEF RequireRole
<1>7. CASE Accepted(r, c, t)
  <2>1. CASE \E status \in {400, 422, 500} : Reject(r, c, t, status)
    BY <1>2, <1>3, <2>1
  <2>2. CASE \E pc \in {"find", "delete", "insert"} : Enter(r, c, t, pc, Absent)
    BY <1>4, <2>2 DEF AnyRow
  <2>3. CASE Enter(r, c, t, "insert", NewUser(c.body))
    BY <1>2, <1>4, <2>3, NewRows DEF AnyRow
  <2>4. CASE Enter(r, c, t, "insert", NewBean(c.body)) /\ c.body.process \in Processes
    BY <1>2, <1>4, <2>4, NewRows DEF AnyRow
  <2>5. CASE Enter(r, c, t, "insert", NewRecipe(t, c.body)) /\ c.op = "CreateRecipe"
    <3>1. t \in Claims
      BY <1>7, <2>5 DEF Accepted, Admitted, TokenOps, Inv, TokensTrue, TokenTrue
    <3> QED BY <1>2, <1>4, <2>5, <3>1, NewRows DEF AnyRow
  <2> QED BY <1>2, <1>7, <2>1, <2>2, <2>3, <2>4, <2>5, ArrivalShape DEF Accepted
<1> QED BY <1>1, <1>5, <1>6, <1>7

LEMMA ProgressAnswers ==
  ASSUME Inv, AnswersTrue, NEW r \in Reqs, Progress(r)
  PROVE  AnswersTrue'
<1> USE DEF At
<1>0. req \in [Reqs -> Slot] /\ epoch \in Nat /\ UNCHANGED offered
  BY OfferedCalls DEF Inv, SlotsTrue, SettingsOK, Arrive, Progress, Settings
<1>1. ASSUME NEW pc \in DbSteps, NEW row \in AnyRow, Moved(r, HeldSlot(r, pc, row)),
             req[r].pc \in DbSteps
      PROVE  AnswersTrue'
  <2>1. ~HeldSlot(r, pc, row).wrote /\ HeldSlot(r, pc, row).pc # "done"
    BY <1>1 DEF HeldSlot, AnswersTrue, AnswerTrue, DbSteps
  <2> QED BY <1>0, <1>1, <2>1, QuietAnswers
<1>2. CASE InsertUser(r)
  <2>1. CASE Answer(r, 409) BY <1>0, <2>1, AnswerAnswers
  <2>2. CASE AnswerWithToken(r, 201, TRUE, userSeq + 1, req[r].row)
    <3>4. PICK w \in BOOLEAN :
            w = TRUE /\ AnswerWithToken(r, 201, w, userSeq + 1, req[r].row)
      BY <2>2, Zenon
    <3> DEFINE s == [pc |-> "done", call |-> req[r].call,
                     as |-> [id |-> userSeq + 1, name |-> req[r].row.name,
                             role |-> req[r].row.role, era |-> epoch],
                     row |-> Absent, status |-> 201, wrote |-> w]
    <3>1. /\ req[r].call.op = "Register" /\ userSeq + 1 \in UserIds
          /\ req[r].row \in UserRow
      BY <1>2, DirectoryBounds
      DEF InsertUser, Inv, TablesOK, UserIds, SlotsTrue, SlotTrue, SlotRow
    <3>5. AnswerWithToken(r, 201, w, userSeq + 1, req[r].row) BY <3>4
    <3>2. Moved(r, s) BY <1>0, <3>1, <3>5, TokenSlot
    <3>3. AnswerTrue(s, offered.faults)
      BY <3>1, <3>4 DEF AnswerTrue, Succeeded, Effects, WriteOps, DbSteps
    <3> HIDE DEF s
    <3> QED BY <1>0, <3>2, <3>3, MovedAnswers
  <2>3. CASE offered.faults /\ Finish(r, 500, TRUE)
    <3>1. Written(r, 201) BY <2>3, Zenon DEF Written, Outcomes
    <3>2. req[r].call.op \in WriteOps BY <1>2 DEF InsertUser, WriteOps
    <3> QED BY <1>0, <3>1, <3>2, WrittenAnswers
  <2> QED BY <1>2, <2>1, <2>2, <2>3 DEF InsertUser
<1>3. CASE LoginFind(r)
  <2>0. req[r].call.op = "Login" BY <1>3 DEF LoginFind
  <2>1. CASE Answer(r, 401) BY <1>0, <2>1, AnswerAnswers
  <2>2. CASE \E u \in Named(req[r].call.body.name) : AnswerWithToken(r, 200, FALSE, u, users[u])
    <3>1. PICK u \in UserIds : users[u] # Absent /\ AnswerWithToken(r, 200, FALSE, u, users[u])
      BY <2>2 DEF Named
    <3>5. PICK w \in BOOLEAN : w = FALSE /\ AnswerWithToken(r, 200, w, u, users[u])
      BY <3>1, Zenon
    <3> DEFINE s == [pc |-> "done", call |-> req[r].call,
                     as |-> [id |-> u, name |-> users[u].name, role |-> users[u].role,
                             era |-> epoch],
                     row |-> Absent, status |-> 200, wrote |-> w]
    <3>2. users[u] \in UserRow BY <3>1 DEF Inv, TablesOK
    <3>3. Moved(r, s) BY <1>0, <3>2, <3>5, TokenSlot
    <3>4. ~s.wrote /\ ~Succeeded(s)
      BY <2>0, <3>5 DEF Succeeded, WriteOps, FollowOps, BeanOps
    <3> HIDE DEF s
    <3> QED BY <1>0, <3>3, <3>4, QuietAnswers
  <2> QED BY <1>3, <2>1, <2>2 DEF LoginFind
<1>4. CASE GetByID(r) \/ ProfileFind(r) \/ ProfileStats(r) \/ RecipeFind(r)
  <2>1. req[r].call.op \notin WriteOps /\ req[r].pc \in DbSteps
    BY <1>4
    DEF GetByID, ProfileFind, ProfileStats, RecipeFind, WriteOps, FollowOps, BeanOps, DbSteps
  <2>2. CASE \E status \in {200, 404} : Answer(r, status)
    BY <1>0, <2>1, <2>2, AnswerAnswers
  <2>3. CASE Goto(r, "stats")
    BY <1>0, <1>1, <2>1, <2>3, GotoSlot DEF DbSteps
  <2> QED BY <1>4, <2>2, <2>3 DEF GetByID, ProfileFind, ProfileStats, RecipeFind
<1>5. CASE ProfileToUpdate(r)
  <2>1. CASE Answer(r, 500) BY <1>0, <2>1, AnswerAnswers
  <2>2. CASE /\ users[req[r].as.id] # Absent
             /\ Hold(r, "save", PatchedUser(users[req[r].as.id], req[r].call.body))
    <3>1. req[r].pc \in DbSteps /\ req[r].as.id \in UserIds /\ req[r].call.body \in Body
      BY <1>5, Speaker, Targets DEF ProfileToUpdate, DbSteps, TokenOps
    <3>2. PatchedUser(users[req[r].as.id], req[r].call.body) \in AnyRow
      BY <2>2, <3>1, PatchedSame DEF Inv, TablesOK, AnyRow
    <3> QED BY <1>0, <1>1, <2>2, <3>1, <3>2, HoldSlot DEF DbSteps
  <2> QED BY <1>5, <2>1, <2>2 DEF ProfileToUpdate
<1>6. CASE SaveUser(r) \/ InsertFollow(r) \/ DeleteFollow(r) \/ InsertRecipe(r)
           \/ InsertBean(r) \/ SaveBeanInsert(r) \/ DeleteBeanRow(r)
  <2>1. req[r].call.op \in WriteOps
    BY <1>6
    DEF SaveUser, InsertFollow, DeleteFollow, InsertRecipe, InsertBean, SaveBeanInsert,
        DeleteBeanRow, WriteOps, FollowOps, BeanOps
  <2>2. \/ \E status \in {404, 409, 500} : Answer(r, status)
        \/ \E status \in {200, 201} : Written(r, status)
    BY <1>6
    DEF SaveUser, InsertFollow, DeleteFollow, InsertRecipe, InsertBean, SaveBeanInsert,
        DeleteBeanRow
  <2> QED BY <1>0, <2>1, <2>2, AnswerAnswers, WrittenAnswers
<1>7. CASE BeanToUpdate(r)
  <2>1. CASE \E status \in {422, 500} : Answer(r, status) BY <1>0, <2>1, AnswerAnswers
  <2>2. CASE /\ beans[req[r].call.id] # Absent /\ req[r].call.body.process \in Processes
             /\ Hold(r, "save", PatchedBean(beans[req[r].call.id], req[r].call.body))
    <3>1. req[r].pc \in DbSteps /\ req[r].call.id \in BeanIds /\ req[r].call.body \in Body
      BY <1>7, Targets DEF BeanToUpdate, DbSteps, BeanOps
    <3>2. PatchedBean(beans[req[r].call.id], req[r].call.body) \in AnyRow
      BY <2>2, <3>1, PatchedIsBean DEF Inv, TablesOK, AnyRow
    <3> QED BY <1>0, <1>1, <2>2, <3>1, <3>2, HoldSlot DEF DbSteps
  <2> QED BY <1>7, <2>1, <2>2 DEF BeanToUpdate
<1>8. CASE SaveBean(r)
  <2>1. req[r].call.op \in WriteOps /\ req[r].pc \in DbSteps
    BY <1>8 DEF SaveBean, WriteOps, BeanOps, DbSteps
  <2>2. CASE Answer(r, 500) BY <1>0, <2>2, AnswerAnswers
  <2>3. CASE Written(r, 200) BY <1>0, <2>1, <2>3, WrittenAnswers
  <2>4. CASE Goto(r, "upsert") BY <1>0, <1>1, <2>1, <2>4, GotoSlot DEF DbSteps
  <2> QED BY <1>8, <2>2, <2>3, <2>4 DEF SaveBean
<1> QED
  BY <1>2, <1>3, <1>4, <1>5, <1>6, <1>7, <1>8
  DEF Progress, UserProgress, FollowProgress, BeanProgress, RecipeProgress

\* A refusal changed nothing and the success of a call that writes did what it
\* says, whichever statement fails and whoever else writes in between; a table
\* changed under a 500 only when the outcome of the statement got lost.
THEOREM DirectoryAnswersAlways == Spec => []DirectoryAnswers
<1>0. \A f : AnswerTrue(Idle, f) BY DEF AnswerTrue, Idle, DbSteps
<1>1. Init => AnswersTrue
  <2> SUFFICES ASSUME Init PROVE AnswersTrue OBVIOUS
  <2>1. \A r \in Reqs : req[r] = Idle BY DEF Init
  <2> QED BY <1>0, <2>1 DEF AnswersTrue
<1>2. Inv /\ AnswersTrue /\ [Next]_vars => AnswersTrue'
  <2> SUFFICES ASSUME Inv, AnswersTrue, [Next]_vars PROVE AnswersTrue' OBVIOUS
  <2>0. UNCHANGED offered
    BY DEF Next, vars, Arrive, Progress, Reply, StatementFails, Restart, Reset, Settings
  <2>1. CASE req' = [r \in Reqs |-> Idle]
    <3>1. \A r \in Reqs : req'[r] = Idle BY <2>1
    <3> QED BY <1>0, <3>1 DEF AnswersTrue, AnswerTrue, Succeeded, Effects
  <2>2. ASSUME NEW r \in Reqs, Reply(r) PROVE AnswersTrue'
    <3>1. Moved(r, Idle) BY <2>2, IdleTrue DEF Reply, Moved, Inv, SlotsTrue
    <3> QED BY <1>0, <2>0, <3>1, MovedAnswers
  <2>3. ASSUME NEW r \in Reqs, StatementFails(r) PROVE AnswersTrue'
    <3>1. CASE req[r].pc = "stats"
      <4>1. req[r].call.op \notin WriteOps
        BY <3>1 DEF Inv, SlotsTrue, SlotTrue, SlotRow, WriteOps, FollowOps, BeanOps
      <4> QED BY <2>0, <2>3, <3>1, <4>1, AnswerAnswers DEF StatementFails
    <3>2. CASE req[r].pc # "stats" BY <2>0, <2>3, <3>2, AnswerAnswers DEF StatementFails
    <3> QED BY <3>1, <3>2
  <2>4. CASE UNCHANGED vars BY <2>4 DEF vars, AnswersTrue, AnswerTrue, Succeeded, Effects
  <2> QED
    BY <2>1, <2>2, <2>3, <2>4, ArriveAnswers, ProgressAnswers DEF Next, Restart, Reset
<1>3. AnswersTrue => DirectoryAnswers
  BY DEF AnswersTrue, AnswerTrue, Succeeded, Effects, DirectoryAnswers
<1> QED BY <1>1, <1>2, <1>3, Invariance, PTL DEF Spec

-----------------------------------------------------------------------------
(***************************************************************************)
(* Updates alone.  While a slot is in fresh, what it holds is the patched  *)
(* copy of what is stored.                                                 *)
(***************************************************************************)
FreshSlot(s, us, bs) ==
  /\ s.pc = "save"
  /\ \/ /\ s.call.op = "UpdateProfile"
        /\ s.row = PatchedUser(us[s.as.id], s.call.body)
     \/ /\ s.call.op = "UpdateBean"
        /\ s.call.body.process \in Processes
        /\ bs[s.call.id] # Absent
        /\ s.row = PatchedBean(bs[s.call.id], s.call.body)

FreshTrue == \A r \in fresh : FreshSlot(req[r], users, beans)

\* The slots a step leaves alone stay fresh when their rows do.
LEMMA FreshKept ==
  ASSUME Inv, FreshTrue, NEW r \in Reqs, \A q \in Reqs : q # r => req'[q] = req[q],
         fresh' \subseteq fresh \ {r},
         \A q \in fresh' : req[q].call.op = "UpdateProfile" =>
            users'[req[q].as.id] = users[req[q].as.id],
         \A q \in fresh' : req[q].call.op = "UpdateBean" =>
            beans'[req[q].call.id] = beans[req[q].call.id]
  PROVE  FreshTrue'
<1>1. ASSUME NEW q \in fresh' PROVE FreshSlot(req'[q], users', beans')
  <2>1. q \in fresh /\ q # r /\ q \in Reqs BY DEF Inv, SettingsOK
  <2>2. FreshSlot(req[q], users, beans) /\ req'[q] = req[q] BY <2>1 DEF FreshTrue
  <2>3. FreshSlot(req[q], users', beans') BY <2>2 DEF FreshSlot
  <2> QED BY <2>2, <2>3
<1> QED BY <1>1 DEF FreshTrue

\* A slot that just read its row is fresh, the others as before.
LEMMA FreshRead ==
  ASSUME Inv, FreshTrue, UNCHANGED <<users, beans>>, NEW r \in Reqs, NEW row \in AnyRow,
         Hold(r, "save", row), fresh' = fresh \cup {r},
         \/ /\ req[r].call.op = "UpdateProfile"
            /\ row = PatchedUser(users[req[r].as.id], req[r].call.body)
         \/ /\ req[r].call.op = "UpdateBean"
            /\ req[r].call.body.process \in Processes
            /\ beans[req[r].call.id] # Absent
            /\ row = PatchedBean(beans[req[r].call.id], req[r].call.body)
  PROVE  FreshTrue'
<1>1. Moved(r, HeldSlot(r, "save", row)) BY HoldSlot DEF Inv, SlotsTrue, DbSteps
<1>2. FreshSlot(HeldSlot(r, "save", row), users, beans) BY DEF FreshSlot, HeldSlot
<1>3. ASSUME NEW q \in fresh' PROVE FreshSlot(req'[q], users', beans')
  <2>1. CASE q = r BY <1>1, <1>2, <2>1 DEF Moved
  <2>2. CASE q # r
    <3>1. q \in fresh /\ q \in Reqs BY <2>2 DEF Inv, SettingsOK
    <3>2. FreshSlot(req[q], users, beans) /\ req'[q] = req[q]
      BY <1>1, <2>2, <3>1 DEF FreshTrue, Moved
    <3> QED BY <3>2
  <2> QED BY <2>1, <2>2
<1> QED BY <1>3 DEF FreshTrue

\* Only a slot about to save is fresh.
LEMMA FreshSaves ==
  ASSUME FreshTrue, NEW r \in fresh
  PROVE  req[r].pc = "save" /\ req[r].call.op \in {"UpdateProfile", "UpdateBean"}
BY DEF FreshTrue, FreshSlot

\* What a statement makes of its slot.
LEMMA ProgressShape ==
  ASSUME NEW r \in Reqs, Progress(r)
  PROVE  \/ \E status \in Nat : Answer(r, status) \/ Written(r, status)
         \/ InsertUser(r) \/ LoginFind(r)
         \/ Goto(r, "stats")
         \/ Goto(r, "upsert") /\ At(r, "UpdateBean", "save")
         \/ \E row : /\ Hold(r, "save", row)
                     /\ \/ req[r].call.op = "UpdateProfile"
                        \/ req[r].call.op = "UpdateBean" /\ beans[req[r].call.id] # Absent
<1>1. CASE UserProgress(r)
  <2>1. CASE ProfileToUpdate(r) BY <2>1 DEF ProfileToUpdate, At
  <2>2. CASE GetByID(r) \/ SaveUser(r) \/ ProfileFind(r) \/ ProfileStats(r)
    BY <2>2 DEF GetByID, SaveUser, ProfileFind, ProfileStats
  <2> QED BY <1>1, <2>1, <2>2 DEF UserProgress
<1>2. CASE FollowProgress(r)
  <2>1. CASE InsertFollow(r) BY <2>1 DEF InsertFollow
  <2>2. CASE DeleteFollow(r) BY <2>2 DEF DeleteFollow
  <2> QED BY <1>2, <2>1, <2>2 DEF FollowProgress
<1>3. CASE BeanProgress(r)
  <2>1. CASE InsertBean(r) BY <2>1 DEF InsertBean
  <2>2. CASE BeanToUpdate(r) BY <2>2 DEF BeanToUpdate, At
  <2>3. CASE SaveBean(r) BY <2>3 DEF SaveBean
  <2>4. CASE SaveBeanInsert(r) BY <2>4 DEF SaveBeanInsert
  <2>5. CASE DeleteBeanRow(r) BY <2>5 DEF DeleteBeanRow
  <2> QED BY <1>3, <2>1, <2>2, <2>3, <2>4, <2>5 DEF BeanProgress
<1>4. CASE RecipeProgress(r)
  <2>1. CASE InsertRecipe(r) BY <2>1 DEF InsertRecipe
  <2>2. CASE RecipeFind(r) BY <2>2 DEF RecipeFind
  <2> QED BY <1>4, <2>1, <2>2 DEF RecipeProgress
<1> QED BY <1>1, <1>2, <1>3, <1>4 DEF Progress

\* A request touches no other's slot.
LEMMA OthersKept ==
  ASSUME Inv, NEW r \in Reqs, Arrive(r) \/ Progress(r) \/ Reply(r) \/ StatementFails(r)
  PROVE  \A q \in Reqs : q # r => req'[q] = req[q]
<1>0. req \in [Reqs -> Slot] BY DEF Inv, SlotsTrue
<1>1. CASE Arrive(r)
  <2>1. PICK c \in offered.calls, t \in live \cup {Nobody} :
          AuthRequired(r, c, t) \/ RequireRole(r, c, t) \/ Accepted(r, c, t)
    BY <1>1 DEF Arrive
  <2>2. c \in Call BY OfferedCalls DEF Inv, SettingsOK
  <2>3. \/ \E as, status : Reject(r, c, as, status)
        \/ \E pc, row : Enter(r, c, t, pc, row)
    BY <2>1, <2>2, ArrivalShape DEF AuthRequired, RequireRole, Accepted
  <2>4. ASSUME NEW as, NEW status, Reject(r, c, as, status)
        PROVE  \A q \in Reqs : q # r => req'[q] = req[q]
    BY <1>0, <2>4 DEF Reject
  <2>5. ASSUME NEW pc, NEW row, Enter(r, c, t, pc, row)
        PROVE  \A q \in Reqs : q # r => req'[q] = req[q]
    BY <1>0, <2>5 DEF Enter
  <2> QED BY <2>3, <2>4, <2>5
<1>2. CASE Progress(r)
  <2>1. ASSUME NEW status, Answer(r, status) \/ Written(r, status)
        PROVE  \A q \in Reqs : q # r => req'[q] = req[q]
    BY <1>0, <2>1 DEF Answer, Written, Finish
  <2>2. CASE InsertUser(r) \/ LoginFind(r)
    BY <1>0, <2>2 DEF InsertUser, LoginFind, Answer, Finish, AnswerWithToken
  <2>3. ASSUME NEW pc, Goto(r, pc)
        PROVE  \A q \in Reqs : q # r => req'[q] = req[q]
    BY <1>0, <2>3 DEF Goto
  <2>4. ASSUME NEW row, Hold(r, "save", row)
        PROVE  \A q \in Reqs : q # r => req'[q] = req[q]
    BY <1>0, <2>4 DEF Hold
  <2> QED BY <1>2, <2>1, <2>2, <2>3, <2>4, ProgressShape
<1>3. CASE Reply(r) BY <1>0, <1>3 DEF Reply
<1>4. CASE StatementFails(r) BY <1>0, <1>4 DEF StatementFails, Answer, Finish
<1> QED BY <1>1, <1>2, <1>3, <1>4

\* Beans have ids of the sequence, those an update is about to write included.
BeansBySequence ==
  /\ \A b \in BeanIds : b > beanSeq => beans[b] = Absent
  /\ \A r \in Reqs : req[r].pc \in {"save", "upsert"} /\ req[r].call.op = "UpdateBean" =>
       req[r].call.id <= beanSeq

LEMMA ProgressFresh ==
  ASSUME Inv, BeansBySequence, FreshTrue, NEW r \in Reqs, Progress(r)
  PROVE  FreshTrue'
<1> USE DEF At
<1>0. /\ \A q \in Reqs : q # r => req'[q] = req[q]
      /\ fresh \subseteq Reqs /\ req \in [Reqs -> Slot]
      /\ users \in [UserIds -> UserRow \cup {Absent}]
      /\ beans \in [BeanIds -> BeanRow \cup {Absent}]
  BY OthersKept DEF Inv, SettingsOK, TablesOK, SlotsTrue
<1>1. CASE ProfileToUpdate(r) /\ UNCHANGED beanVars
  <2>1. CASE users[req[r].as.id] = Absent
    <3>1. fresh' \subseteq fresh \ {r} /\ UNCHANGED <<users, beans>>
      BY <1>1, <2>1, FreshSaves DEF ProfileToUpdate, userVars, beanVars
    <3> QED BY <1>0, <3>1, FreshKept
  <2>2. CASE users[req[r].as.id] # Absent
    <3>1. req[r].pc \in DbSteps /\ req[r].as.id \in UserIds /\ req[r].call.body \in Body
      BY <1>1, Speaker, Targets DEF ProfileToUpdate, DbSteps, TokenOps
    <3>2. PatchedUser(users[req[r].as.id], req[r].call.body) \in AnyRow
      BY <1>0, <2>2, <3>1, PatchedSame DEF AnyRow
    <3> QED
      BY <1>1, <2>2, <3>2, FreshRead DEF ProfileToUpdate, userVars, beanVars
  <2> QED BY <2>1, <2>2
<1>2. CASE BeanToUpdate(r) /\ UNCHANGED userVars
  <2>1. CASE UNCHANGED fresh
    <3>1. fresh' \subseteq fresh \ {r} /\ UNCHANGED <<users, beans>>
      BY <1>2, <2>1, FreshSaves DEF BeanToUpdate, userVars, beanVars
    <3> QED BY <1>0, <3>1, FreshKept
  <2>2. CASE beans[req[r].call.id] # Absent /\ req[r].call.body.process \in Processes
    <3>1. req[r].call.id \in BeanIds /\ req[r].call.body \in Body
      BY <1>2, Targets DEF BeanToUpdate, DbSteps, BeanOps
    <3>2. PatchedBean(beans[req[r].call.id], req[r].call.body) \in AnyRow
      BY <1>0, <2>2, <3>1, PatchedIsBean DEF AnyRow
    <3> QED BY <1>2, <2>2, <3>2, FreshRead DEF BeanToUpdate, userVars, beanVars
  <2> QED BY <1>2, <2>1, <2>2 DEF BeanToUpdate
<1>3. CASE SaveUser(r) /\ UNCHANGED beanVars
  <2>1. req[r].as.id \in UserIds
    BY <1>3, Speaker DEF SaveUser, DbSteps, TokenOps
  <2>2. ASSUME NEW q \in fresh', req[q].call.op = "UpdateProfile"
        PROVE  users'[req[q].as.id] = users[req[q].as.id]
    <3>1. q \in fresh /\ req[q].pc = "save" /\ req[q].as.id # req[r].as.id
      BY <1>0, <1>3, <2>2, FreshSaves DEF SaveUser, Overtaken
    <3>2. req[q].as.id \in UserIds
      BY <1>0, <2>2, <3>1, Speaker DEF DbSteps, TokenOps
    <3> QED BY <1>0, <1>3, <2>1, <3>1, <3>2 DEF SaveUser
  <2>3. fresh' \subseteq fresh \ {r}
    BY <1>3 DEF SaveUser, Overtaken
  <2>4. UNCHANGED beans BY <1>3 DEF beanVars
  <2> QED BY <1>0, <2>2, <2>3, <2>4, FreshKept
<1>4. CASE InsertUser(r) /\ UNCHANGED beanVars
  <2>1. fresh' \subseteq fresh \ {r} /\ UNCHANGED beans
    BY <1>4, FreshSaves DEF InsertUser, beanVars
  <2>2. ASSUME NEW q \in fresh', req[q].call.op = "UpdateProfile"
        PROVE  users'[req[q].as.id] = users[req[q].as.id]
    <3>1. q \in fresh /\ req[q].pc = "save" /\ q \in Reqs
      BY <1>0, <2>1, FreshSaves
    <3>2. req[q].as.id \in UserIds /\ users[req[q].as.id] # Absent
      BY <2>2, <3>1, Speaker DEF DbSteps, TokenOps, Inv, SlotsTrue, SlotTrue, SlotRow
    <3>3. userSeq + 1 \in UserIds /\ users[userSeq + 1] = Absent
      BY <1>4, DirectoryBounds
      DEF InsertUser, UserIds, Inv, TablesOK, UsersBySequence
    <3> QED BY <1>0, <1>4, <3>2, <3>3 DEF InsertUser
  <2> QED BY <1>0, <2>1, <2>2, FreshKept
<1>5. CASE (SaveBean(r) \/ SaveBeanInsert(r) \/ DeleteBeanRow(r)) /\ UNCHANGED userVars
  <2>1. req[r].pc \in DbSteps /\ req[r].call.op \in BeanOps /\ req[r].call.id \in BeanIds
        /\ UNCHANGED users
    BY <1>5, Targets
    DEF SaveBean, SaveBeanInsert, DeleteBeanRow, DbSteps, BeanOps, userVars
  <2>2. CASE UNCHANGED beans /\ fresh' \subseteq fresh \ {r}
    BY <1>0, <2>1, <2>2, FreshKept
  <2>3. CASE UNCHANGED <<beans, fresh>> /\ r \notin fresh
    BY <1>0, <2>1, <2>3, FreshKept
  <2>4. CASE /\ \/ beans' = [beans EXCEPT ![req[r].call.id] = req[r].row]
                \/ beans' = [beans EXCEPT ![req[r].call.id] = Absent]
             /\ fresh' = fresh \ Overtaken("UpdateBean", req[r].call.id)
             /\ r \in fresh => r \in Overtaken("UpdateBean", req[r].call.id)
    <3>1. ASSUME NEW q \in fresh', req[q].call.op = "UpdateBean"
          PROVE  beans'[req[q].call.id] = beans[req[q].call.id]
      <4>1. q \in fresh /\ q \in Reqs /\ req[q].pc = "save"
            /\ req[q].call.id # req[r].call.id
        BY <1>0, <2>4, <3>1, FreshSaves DEF Overtaken
      <4>2. req[q].call.id \in BeanIds BY <3>1, <4>1, Targets DEF BeanOps
      <4> QED BY <1>0, <2>1, <2>4, <4>1, <4>2
    <3>2. fresh' \subseteq fresh \ {r} BY <2>4
    <3> QED BY <1>0, <2>1, <3>1, <3>2, FreshKept
  <2>5. r \in fresh => req[r].pc = "save" BY FreshSaves
  <2>6. CASE beans[req[r].call.id] = Absent /\ UNCHANGED <<beans, fresh>>
    <3>1. r \notin fresh BY <2>1, <2>6 DEF FreshTrue, FreshSlot, BeanOps
    <3> QED BY <2>3, <2>6, <3>1
  <2>7. CASE SaveBean(r)
    BY <2>2, <2>4, <2>6, <2>7 DEF SaveBean, Overtaken
  <2>8. CASE SaveBeanInsert(r)
    BY <2>2, <2>4, <2>8 DEF SaveBeanInsert, Overtaken
  <2>9. CASE DeleteBeanRow(r)
    BY <2>4, <2>5, <2>6, <2>9 DEF DeleteBeanRow
  <2> QED BY <1>5, <2>7, <2>8, <2>9
<1>6. CASE InsertBean(r) /\ UNCHANGED userVars
  <2>1. fresh' \subseteq fresh \ {r} /\ UNCHANGED users
    BY <1>6, FreshSaves DEF InsertBean, userVars
  <2>2. ASSUME NEW q \in fresh', req[q].call.op = "UpdateBean"
        PROVE  beans'[req[q].call.id] = beans[req[q].call.id]
    <3>1. q \in fresh /\ req[q].pc = "save" /\ q \in Reqs
      BY <1>0, <2>1, FreshSaves
    <3>2. req[q].call.id \in BeanIds /\ req[q].call.id <= beanSeq /\ beanSeq \in Nat
      BY <2>2, <3>1, Targets, DirectoryBounds
      DEF BeansBySequence, BeanOps, Inv, TablesOK
    <3>3. req[q].call.id # beanSeq + 1 BY <3>2 DEF BeanIds
    <3> QED BY <1>0, <1>6, <3>2, <3>3 DEF InsertBean, beanVars
  <2> QED BY <1>0, <2>1, <2>2, FreshKept
<1>7. CASE UNCHANGED <<users, beans, fresh>> /\ (req[r].pc = "save" => r \notin fresh)
  BY <1>0, <1>7, FreshSaves, FreshKept
<1>8. CASE /\ LoginFind(r) \/ GetByID(r) \/ ProfileFind(r) \/ ProfileStats(r)
           /\ UNCHANGED beanVars
  BY <1>7, <1>8 DEF LoginFind, GetByID, ProfileFind, ProfileStats, userVars, beanVars
<1>9. CASE FollowProgress(r) /\ UNCHANGED <<userVars, beanVars, fresh>>
  BY <1>7, <1>9 DEF FollowProgress, InsertFollow, DeleteFollow, userVars, beanVars
<1>10. CASE RecipeProgress(r) /\ UNCHANGED <<userVars, beanVars, fresh>>
  BY <1>7, <1>10 DEF RecipeProgress, InsertRecipe, RecipeFind, userVars, beanVars
<1> QED
  BY <1>1, <1>2, <1>3, <1>4, <1>5, <1>6, <1>8, <1>9, <1>10
  DEF Progress, UserProgress, BeanProgress

\* What a statement leaves in its slot, for an update of a bean.
LEMMA HeldBeanStep ==
  ASSUME Inv, NEW r \in Reqs, Arrive(r) \/ Progress(r) \/ Reply(r) \/ StatementFails(r),
         req'[r].pc \in {"save", "upsert"}, req'[r].call.op = "UpdateBean"
  PROVE  /\ req'[r].call = req[r].call
         /\ \/ At(r, "UpdateBean", "save")
            \/ req[r].call.op = "UpdateBean" /\ beans[req[r].call.id] # Absent
               /\ req[r].pc \in DbSteps
<1>0. req \in [Reqs -> Slot] BY DEF Inv, SlotsTrue
<1>1. CASE Arrive(r)
  <2>1. PICK c \in offered.calls, t \in live \cup {Nobody} :
          AuthRequired(r, c, t) \/ RequireRole(r, c, t) \/ Accepted(r, c, t)
    BY <1>1 DEF Arrive
  <2>2. c \in Call BY OfferedCalls DEF Inv, SettingsOK
  <2>3. \/ \E as, status : Reject(r, c, as, status)
        \/ \E pc \in {"find", "delete", "insert"} : \E row : Enter(r, c, t, pc, row)
    BY <2>1, <2>2, ArrivalShape DEF AuthRequired, RequireRole, Accepted
  <2>4. ASSUME NEW as, NEW status, Reject(r, c, as, status)
        PROVE  req'[r].pc = "done"
    BY <1>0, <2>4 DEF Reject, Idle
  <2>5. ASSUME NEW pc \in {"find", "delete", "insert"}, NEW row, Enter(r, c, t, pc, row)
        PROVE  req'[r].pc = pc
    BY <1>0, <2>5 DEF Enter, Idle
  <2> QED BY <2>3, <2>4, <2>5
<1>2. CASE Progress(r)
  <2>1. ASSUME NEW status, Answer(r, status) \/ Written(r, status)
        PROVE  req'[r].pc = "done"
    <3>1. ASSUME NEW st, NEW w, Finish(r, st, w) PROVE req'[r].pc = "done"
      BY <1>0, <3>1 DEF Finish, Slot
    <3>2. PICK st, w : Finish(r, st, w) BY <2>1, Zenon DEF Answer, Written
    <3> QED BY <3>1, <3>2
  <2>2. CASE InsertUser(r) \/ LoginFind(r)
    <3>1. ASSUME NEW status, NEW w, NEW u, NEW row, AnswerWithToken(r, status, w, u, row)
          PROVE  req'[r].pc = "done"
      BY <1>0, <3>1 DEF AnswerWithToken, Slot
    <3>2. CASE InsertUser(r)
      <4>1. \/ Answer(r, 409)
            \/ AnswerWithToken(r, 201, TRUE, userSeq + 1, req[r].row)
            \/ Finish(r, 500, TRUE)
        BY <3>2, Zenon DEF InsertUser
      <4>2. CASE Answer(r, 409) BY <2>1, <4>2
      <4>3. CASE AnswerWithToken(r, 201, TRUE, userSeq + 1, req[r].row)
        <5>1. PICK w : AnswerWithToken(r, 201, w, userSeq + 1, req[r].row)
          BY <4>3, Zenon
        <5> QED BY <3>1, <5>1
      <4>4. CASE Finish(r, 500, TRUE) BY <1>0, <4>4 DEF Finish, Slot
      <4> QED BY <4>1, <4>2, <4>3, <4>4
    <3>3. CASE LoginFind(r) BY <2>1, <3>1, <3>3 DEF LoginFind
    <3> QED BY <2>2, <3>2, <3>3
  <2>3. ASSUME Goto(r, "stats") PROVE req'[r].pc = "stats"
    BY <1>0, <2>3 DEF Goto, Slot
  <2>4. CASE Goto(r, "upsert") /\ At(r, "UpdateBean", "save")
    BY <1>0, <2>4 DEF Goto, Slot
  <2>5. ASSUME NEW row, Hold(r, "save", row),
               \/ req[r].call.op = "UpdateProfile"
               \/ req[r].call.op = "UpdateBean" /\ beans[req[r].call.id] # Absent
        PROVE  /\ req'[r].call = req[r].call
               /\ req[r].call.op = "UpdateBean" /\ beans[req[r].call.id] # Absent
    BY <1>0, <2>5 DEF Hold, Slot
  <2>6. req[r].pc \in DbSteps
    BY <1>2
    DEF Progress, UserProgress, FollowProgress, BeanProgress, RecipeProgress, InsertUser,
        LoginFind, GetByID, ProfileToUpdate, SaveUser, ProfileFind, ProfileStats,
        InsertFollow, DeleteFollow, InsertBean, BeanToUpdate, SaveBean, SaveBeanInsert,
        DeleteBeanRow, InsertRecipe, RecipeFind, At, DbSteps
  <2> QED BY <1>2, <2>1, <2>2, <2>3, <2>4, <2>5, <2>6, ProgressShape
<1>3. CASE Reply(r)
  <2>1. req'[r] = Idle BY <1>0, <1>3 DEF Reply
  <2> QED BY <2>1 DEF Idle
<1>4. CASE StatementFails(r)
  <2>1. req'[r].pc = "done" BY <1>0, <1>4 DEF StatementFails, Answer, Finish, Slot
  <2> QED BY <2>1
<1> QED BY <1>1, <1>2, <1>3, <1>4

LEMMA BeansBySequenceInv == Inv /\ BeansBySequence /\ [Next]_vars => BeansBySequence'
<1> SUFFICES ASSUME Inv, BeansBySequence, [Next]_vars PROVE BeansBySequence' OBVIOUS
<1>0. /\ beans \in [BeanIds -> BeanRow \cup {Absent}]
      /\ beanSeq \in Nat /\ epoch \in Nat /\ beanSeq + 1 \in Nat
  BY OfferedCalls, DirectoryBounds DEF Inv, TablesOK, SettingsOK
<1>1. CASE req' = [r \in Reqs |-> Idle] /\ UNCHANGED beanVars
  <2>1. \A r \in Reqs : req'[r].pc = "idle" BY <1>1 DEF Idle
  <2> QED BY <1>1, <2>1 DEF BeansBySequence, beanVars
<1>2. CASE Reset
  <2>1. \A r \in Reqs : req'[r].pc = "idle" BY <1>2 DEF Idle, Reset
  <2> QED BY <1>2, <2>1 DEF Reset, SeededBeans, BeansBySequence
<1>3. ASSUME NEW r \in Reqs, Arrive(r) \/ Progress(r) \/ Reply(r) \/ StatementFails(r)
      PROVE  BeansBySequence'
  <2>1. beanSeq' \in {beanSeq, beanSeq + 1} /\ epoch' = epoch
    <3>1. CASE Progress(r)
      BY <3>1
      DEF Progress, BeanProgress, InsertBean, BeanToUpdate, SaveBean, SaveBeanInsert,
          DeleteBeanRow, beanVars
    <3> QED BY <1>3, <3>1 DEF Arrive, Reply, StatementFails, tables, history
  <2>2. ASSUME NEW q \in Reqs, req'[q].pc \in {"save", "upsert"},
               req'[q].call.op = "UpdateBean"
        PROVE  req'[q].call.id <= beanSeq
    <3>1. CASE q # r
      BY <1>3, <2>2, <3>1, OthersKept DEF BeansBySequence
    <3>2. CASE q = r /\ At(r, "UpdateBean", "save")
      BY <1>3, <2>2, <3>2, HeldBeanStep DEF BeansBySequence, At
    <3>3. CASE q = r /\ req[r].call.op = "UpdateBean" /\ req[r].pc \in DbSteps
               /\ beans[req[r].call.id] # Absent
      <4>1. req[r].call.id \in BeanIds BY <3>3, Targets DEF DbSteps, BeanOps
      <4> QED BY <1>0, <1>3, <2>2, <3>3, <4>1, HeldBeanStep DEF BeansBySequence, BeanIds
    <3> QED BY <1>3, <2>2, <3>1, <3>2, <3>3, HeldBeanStep
  <2>3. ASSUME NEW b \in BeanIds, b > beanSeq'
        PROVE  beans'[b] = Absent
    <3>1. b \in Nat /\ b > beanSeq /\ beans[b] = Absent
      BY <1>0, <2>1, <2>3 DEF BeansBySequence, BeanIds
    <3>2. CASE UNCHANGED beans BY <3>1, <3>2
    <3>3. CASE InsertBean(r)
      BY <1>0, <2>3, <3>1, <3>3 DEF InsertBean, beanVars
    <3>4. CASE SaveBean(r) \/ SaveBeanInsert(r)
      <4>1. /\ req[r].pc \in {"save", "upsert"} /\ req[r].call.op = "UpdateBean"
            /\ UNCHANGED beans \/ beans' = [beans EXCEPT ![req[r].call.id] = req[r].row]
        BY <3>4 DEF SaveBean, SaveBeanInsert, At
      <4>2. req[r].call.id <= beanSeq /\ req[r].call.id \in BeanIds
        BY <4>1, Targets DEF BeansBySequence, BeanOps
      <4>3. req[r].call.id # b BY <1>0, <3>1, <4>2 DEF BeanIds
      <4> QED BY <1>0, <3>1, <4>1, <4>2, <4>3
    <3>5. CASE DeleteBeanRow(r) BY <1>0, <3>1, <3>5 DEF DeleteBeanRow
    <3>6. CASE BeanToUpdate(r) BY <3>2, <3>6 DEF BeanToUpdate, beanVars
    <3>7. ~UNCHANGED beans => Progress(r) /\ BeanProgress(r)
      BY <1>3 DEF Arrive, Progress, Reply, StatementFails, tables, beanVars
    <3> QED BY <3>2, <3>3, <3>4, <3>5, <3>6, <3>7 DEF BeanProgress
  <2>4. ASSUME NEW q \in Reqs, req'[q].pc \in {"save", "upsert"},
               req'[q].call.op = "UpdateBean"
        PROVE  req'[q].call.id <= beanSeq'
    <3>1. req'[q].call.id <= beanSeq BY <2>2, <2>4
    <3>2. Inv' BY NextInv
    <3>3. req'[q].call \in Call
      BY <2>4, <3>2, DirectoryWorkloads DEF Inv, SettingsOK, SlotsTrue, SlotTrue, SlotCalled
    <3> QED BY <1>0, <2>1, <3>1, <3>3 DEF Call
  <2> QED BY <2>3, <2>4 DEF BeansBySequence
<1>4. CASE UNCHANGED vars BY <1>4 DEF vars, BeansBySequence
<1> QED
  BY <1>1, <1>2, <1>3, <1>4 DEF Next, Restart, tables, beanVars

LEMMA FreshInv == Inv /\ BeansBySequence /\ FreshTrue /\ [Next]_vars => FreshTrue'
<1> SUFFICES ASSUME Inv, BeansBySequence, FreshTrue, [Next]_vars PROVE FreshTrue' OBVIOUS
<1>1. CASE Restart \/ Reset BY <1>1 DEF Restart, Reset, FreshTrue
<1>2. ASSUME NEW r \in Reqs, Arrive(r) \/ Reply(r) \/ StatementFails(r)
      PROVE  FreshTrue'
  <2>1. \A q \in Reqs : q # r => req'[q] = req[q] BY <1>2, OthersKept
  <2>2. UNCHANGED <<users, beans>>
    BY <1>2 DEF Arrive, Reply, StatementFails, tables
  <2>3. fresh' \subseteq fresh \ {r}
    BY <1>2, FreshSaves DEF Arrive, Reply, StatementFails, history, DbSteps
  <2> QED BY <2>1, <2>2, <2>3, FreshKept
<1>3. CASE UNCHANGED vars BY <1>3 DEF vars, FreshTrue, FreshSlot
<1> QED BY <1>1, <1>2, <1>3, ProgressFresh DEF Next

\* A patch keeps what the request does not name and writes what it names.
LEMMA PatchKeeps ==
  ASSUME NEW b \in Body
  PROVE  /\ \A row \in UserRow : Keeps(row, PatchedUser(row, b), {"bio", "avatar"}, b)
         /\ b.process \in Processes => \A row \in BeanRow :
              Keeps(row, PatchedBean(row, b), {"name", "process", "tags"}, b)
<1>1. ASSUME NEW row \in UserRow PROVE Keeps(row, PatchedUser(row, b), {"bio", "avatar"}, b)
  BY <1>1 DEF Keeps, PatchedUser, UserRow, Body
<1>2. ASSUME b.process \in Processes, NEW row \in BeanRow
      PROVE  Keeps(row, PatchedBean(row, b), {"name", "process", "tags"}, b)
  <2> DEFINE name == IF b.name = "" THEN row.name ELSE b.name
             tags == IF b.tags = "" THEN row.tags ELSE b.tags
             new  == [row EXCEPT !.name = name, !.process = b.process, !.tags = tags]
  <2>1. PatchedBean(row, b) = new BY DEF PatchedBean
  <2>2. new.name = name /\ new.process = b.process /\ new.tags = tags BY DEF BeanRow
  <2>3. b.process # "" BY <1>2 DEF Processes
  <2> QED BY <2>1, <2>2, <2>3 DEF Keeps
<1> QED BY <1>1, <1>2

\* An update that nothing overlapped does what its request asks: as long as
\* no other statement wrote its row, the copy it patches is what is stored.
THEOREM AloneItDoesWhatItSaysAlways == Spec => AloneItDoesWhatItSays
<1>1. ASSUME Inv, FreshTrue, [Next]_vars, NEW r \in fresh,
             req'[r].pc = "done", req'[r].status = 200
      PROVE  \/ /\ req[r].call.op = "UpdateProfile"
                /\ Keeps(users[req[r].as.id], users'[req[r].as.id],
                         {"bio", "avatar"}, req[r].call.body)
             \/ /\ req[r].call.op = "UpdateBean"
                /\ Keeps(beans[req[r].call.id], beans'[req[r].call.id],
                         {"name", "process", "tags"}, req[r].call.body)
  <2>0. /\ r \in Reqs /\ req \in [Reqs -> Slot]
        /\ req[r].pc = "save" /\ req[r].call.op \in {"UpdateProfile", "UpdateBean"}
        /\ users \in [UserIds -> UserRow \cup {Absent}]
        /\ beans \in [BeanIds -> BeanRow \cup {Absent}]
    BY <1>1, FreshSaves DEF Inv, SettingsOK, SlotsTrue, TablesOK
  <2>1. SaveUser(r) \/ SaveBean(r)
    <3>1. CASE Restart \/ Reset
      <4>1. req'[r] = Idle BY <2>0, <3>1 DEF Restart, Reset
      <4> QED BY <1>1, <4>1 DEF Idle
    <3>2. ASSUME NEW q \in Reqs, q # r,
                 Arrive(q) \/ Progress(q) \/ Reply(q) \/ StatementFails(q)
          PROVE  FALSE
      BY <1>1, <2>0, <3>2, OthersKept
    <3>3. CASE Arrive(r) \/ Reply(r)
      BY <2>0, <3>3 DEF Arrive, Reply
    <3>4. CASE StatementFails(r)
      BY <1>1, <2>0, <3>4 DEF StatementFails, Answer, Finish, Slot
    <3>5. CASE Progress(r)
      BY <2>0, <3>5
      DEF Progress, UserProgress, FollowProgress, BeanProgress, RecipeProgress, InsertUser,
          LoginFind, GetByID, ProfileToUpdate, ProfileFind, ProfileStats,
          InsertFollow, DeleteFollow, InsertBean, BeanToUpdate, SaveBeanInsert,
          DeleteBeanRow, InsertRecipe, RecipeFind, At
    <3>6. CASE UNCHANGED vars BY <1>1, <2>0, <3>6 DEF vars
    <3> QED BY <1>1, <3>1, <3>2, <3>3, <3>4, <3>5, <3>6 DEF Next
  <2>2. CASE SaveUser(r)
    <3>1. /\ req[r].call.op = "UpdateProfile" /\ req[r].as.id \in UserIds
          /\ users[req[r].as.id] \in UserRow
          /\ req[r].call.body \in Body
      BY <1>1, <2>0, <2>2, Speaker, Targets
      DEF SaveUser, At, DbSteps, TokenOps, Inv, SlotsTrue, SlotTrue, SlotRow
    <3>2. req[r].row = PatchedUser(users[req[r].as.id], req[r].call.body)
      BY <1>1, <3>1 DEF FreshTrue, FreshSlot
    <3>3. users'[req[r].as.id] = req[r].row BY <2>0, <2>2, <3>1 DEF SaveUser
    <3> QED BY <3>1, <3>2, <3>3, PatchKeeps
  <2>3. CASE SaveBean(r)
    <3>1. req[r].call.op = "UpdateBean" /\ req[r].call.id \in BeanIds
          /\ req[r].call.body \in Body
      BY <1>1, <2>0, <2>3, Targets DEF SaveBean, At, BeanOps
    <3>2. /\ beans[req[r].call.id] \in BeanRow
          /\ req[r].call.body.process \in Processes
          /\ req[r].row = PatchedBean(beans[req[r].call.id], req[r].call.body)
      BY <1>1, <2>0, <3>1 DEF FreshTrue, FreshSlot
    <3>3. ASSUME Answer(r, 500) PROVE FALSE
      BY <1>1, <2>0, <3>3 DEF Answer, Finish, Slot
    <3>4. ASSUME Goto(r, "upsert") PROVE FALSE
      BY <1>1, <2>0, <3>4 DEF Goto, Slot
    <3>5. beans'[req[r].call.id] = req[r].row
      BY <2>0, <2>3, <3>1, <3>3, <3>4 DEF SaveBean
    <3> QED BY <3>1, <3>2, <3>5, PatchKeeps
  <2> QED BY <2>1, <2>2, <2>3
<1>2. Inv /\ FreshTrue /\ [Next]_vars =>
        \A r \in fresh : req'[r].pc = "done" /\ req'[r].status = 200 =>
          \/ /\ req[r].call.op = "UpdateProfile"
             /\ Keeps(users[req[r].as.id], users'[req[r].as.id],
                      {"bio", "avatar"}, req[r].call.body)
          \/ /\ req[r].call.op = "UpdateBean"
             /\ Keeps(beans[req[r].call.id], beans'[req[r].call.id],
                      {"name", "process", "tags"}, req[r].call.body)
  BY <1>1
<1>3. Init => BeansBySequence /\ FreshTrue
  <2> SUFFICES ASSUME Init PROVE BeansBySequence /\ FreshTrue OBVIOUS
  <2>1. \A r \in Reqs : req[r].pc = "idle" BY DEF Init, Idle
  <2> QED BY <2>1 DEF Init, SeededBeans, BeansBySequence, FreshTrue
<1> QED
  BY <1>2, <1>3, BeansBySequenceInv, FreshInv, Invariance, PTL
  DEF Spec, AloneItDoesWhatItSays

-----------------------------------------------------------------------------
(***************************************************************************)
(* The services implement the registry: every step of Directory, seen      *)
(* through the mapping of DirectoryRegistry, is a step of Registry or      *)
(* none.  First, what the book says of the tables.                         *)
(***************************************************************************)
\* Holders and keys of different kinds are different, those of one kind are
\* as different as what they stand for.
LEMMA Kinds ==
  /\ \A u, v : UserHolder(u) = UserHolder(v) => u = v
  /\ \A a, b : BeanHolder(a) = BeanHolder(b) => a = b
  /\ \A u, b : UserHolder(u) # BeanHolder(b)
  /\ \A u, f, t : UserHolder(u) # Pair(f, t) /\ BeanHolder(u) # Pair(f, t)
  /\ \A n, m : Name(n) # Email(m) /\ Name(n) # BeanName(m) /\ Email(n) # BeanName(m)
  /\ \A n, m : Name(n) = Name(m) => n = m
  /\ \A n, m : Email(n) = Email(m) => n = m
  /\ \A n, m : BeanName(n) = BeanName(m) => n = m
  /\ \A n, f, t : Name(n) # Pair(f, t) /\ Email(n) # Pair(f, t) /\ BeanName(n) # Pair(f, t)
  /\ \A f, t, g, v : Pair(f, t) = Pair(g, v) => f = g /\ t = v
BY DEF UserHolder, BeanHolder, Pair, Name, Email, BeanName

\* What the book says of each holder.
LEMMA BookSays ==
  ASSUME NEW us, NEW bs, NEW fs
  PROVE  /\ \A u \in UserIds : /\ UserHolder(u) \in AllHolders
                               /\ BookIn(us, bs, fs)[UserHolder(u)] =
                                    IF us[u] = Absent THEN {} ELSE AccountKeys(us[u])
         /\ \A b \in BeanIds : /\ BeanHolder(b) \in AllHolders
                               /\ BookIn(us, bs, fs)[BeanHolder(b)] =
                                    IF bs[b] = Absent THEN {} ELSE BeanKeys(bs[b])
         /\ \A f, t \in UserIds : /\ Pair(f, t) \in AllHolders
                                  /\ BookIn(us, bs, fs)[Pair(f, t)] =
                                       IF <<f, t>> \in fs THEN {Pair(f, t)} ELSE {}
<1>1. ASSUME NEW u \in UserIds
      PROVE  /\ UserHolder(u) \in AllHolders
             /\ BookIn(us, bs, fs)[UserHolder(u)] =
                  IF us[u] = Absent THEN {} ELSE AccountKeys(us[u])
  <2>1. UserHolder(u) \in AllHolders BY DEF AllHolders, UserHolders
  <2>2. UserHolder(u)[1] = "user" /\ UserHolder(u)[2] = u BY DEF UserHolder
  <2> QED BY <2>1, <2>2 DEF BookIn, KeysIn
<1>2. ASSUME NEW b \in BeanIds
      PROVE  /\ BeanHolder(b) \in AllHolders
             /\ BookIn(us, bs, fs)[BeanHolder(b)] =
                  IF bs[b] = Absent THEN {} ELSE BeanKeys(bs[b])
  <2>1. BeanHolder(b) \in AllHolders BY DEF AllHolders, BeanHolders
  <2>2. BeanHolder(b)[1] = "bean" /\ BeanHolder(b)[2] = b BY DEF BeanHolder
  <2> QED BY <2>1, <2>2 DEF BookIn, KeysIn
<1>3. ASSUME NEW f \in UserIds, NEW t \in UserIds
      PROVE  /\ Pair(f, t) \in AllHolders
             /\ BookIn(us, bs, fs)[Pair(f, t)] =
                  IF <<f, t>> \in fs THEN {Pair(f, t)} ELSE {}
  <2>1. Pair(f, t) \in AllHolders BY DEF AllHolders, Pairs
  <2>2. Pair(f, t)[1] = "pair" /\ Pair(f, t)[2] = <<f, t>> BY DEF Pair
  <2> QED BY <2>1, <2>2 DEF BookIn, KeysIn
<1> QED BY <1>1, <1>2, <1>3

LEMMA PairSays ==
  ASSUME NEW us, NEW bs, NEW fs, NEW f \in UserIds, NEW t \in UserIds
  PROVE  BookIn(us, bs, fs)[Pair(f, t)] = IF <<f, t>> \in fs THEN {Pair(f, t)} ELSE {}
BY BookSays

\* Every holder is an account, a bean or a pair.
LEMMA HolderKinds ==
  ASSUME NEW h \in AllHolders
  PROVE  \/ \E u \in UserIds : h = UserHolder(u)
         \/ \E b \in BeanIds : h = BeanHolder(b)
         \/ \E f, t \in UserIds : h = Pair(f, t)
BY DEF AllHolders, UserHolders, BeanHolders, Pairs

LEMMA BookIsFunction ==
  ASSUME NEW us, NEW bs, NEW fs
  PROVE  BookIn(us, bs, fs) = [k \in AllHolders |-> BookIn(us, bs, fs)[k]]
BY DEF BookIn

\* The keys of a row that may be absent, a book with one entry written anew,
\* and tables that differ in one row.
AccountEntry(row)   == IF row = Absent THEN {} ELSE AccountKeys(row)
BeanEntry(row)      == IF row = Absent THEN {} ELSE BeanKeys(row)
PairEntry(fs, f, t) == IF <<f, t>> \in fs THEN {Pair(f, t)} ELSE {}
OneRow(ids, old, new, i)  == \A j \in ids : j # i => new[j] = old[j]
OnePair(old, new, f, t) ==
  \A g, v \in UserIds : <<g, v>> # <<f, t>> => (<<g, v>> \in new <=> <<g, v>> \in old)

BookWith(us, bs, fs, h, keys) == [BookIn(us, bs, fs) EXCEPT ![h] = keys]

\* One row of users, one of coffee_beans or one of user_follows is written.
LEMMA BookOfAccount ==
  ASSUME NEW us, NEW vs, NEW bs, NEW fs, NEW u \in UserIds,
         OneRow(UserIds, us, vs, u)
  PROVE  BookIn(vs, bs, fs) = BookWith(us, bs, fs, UserHolder(u), AccountEntry(vs[u]))
<1> DEFINE old  == BookIn(us, bs, fs)
           new  == BookIn(vs, bs, fs)
<1>1. ASSUME NEW k \in AllHolders, k # UserHolder(u)
      PROVE  new[k] = old[k]
  <2>1. CASE \E v \in UserIds : k = UserHolder(v)
    <3>1. PICK v \in UserIds : k = UserHolder(v) BY <2>1
    <3>2. vs[v] = us[v] BY <1>1, <3>1 DEF OneRow
    <3> QED BY <3>1, <3>2, BookSays
  <2>2. CASE \E b \in BeanIds : k = BeanHolder(b) BY <2>2, BookSays
  <2>3. CASE \E f, t \in UserIds : k = Pair(f, t)
    <3>1. PICK f \in UserIds, t \in UserIds : k = Pair(f, t) BY <2>3
    <3>2. old[Pair(f, t)] = IF <<f, t>> \in fs THEN {Pair(f, t)} ELSE {} BY PairSays
    <3>3. new[Pair(f, t)] = IF <<f, t>> \in fs THEN {Pair(f, t)} ELSE {} BY PairSays
    <3> QED BY <3>1, <3>2, <3>3
  <2> QED BY <2>1, <2>2, <2>3, HolderKinds
<1>2. UserHolder(u) \in AllHolders /\ new[UserHolder(u)] = AccountEntry(vs[u])
  BY BookSays DEF AccountEntry
<1>3. /\ old = [k \in AllHolders |-> old[k]]
      /\ new = [k \in AllHolders |-> new[k]]
  BY BookIsFunction
<1> HIDE DEF old, new
<1>4. new = [old EXCEPT ![UserHolder(u)] = AccountEntry(vs[u])]
  BY <1>1, <1>2, <1>3
<1> QED BY <1>4 DEF old, new, BookWith

LEMMA BookOfBean ==
  ASSUME NEW us, NEW bs, NEW cs, NEW fs, NEW b \in BeanIds,
         OneRow(BeanIds, bs, cs, b)
  PROVE  BookIn(us, cs, fs) = BookWith(us, bs, fs, BeanHolder(b), BeanEntry(cs[b]))
<1> DEFINE old  == BookIn(us, bs, fs)
           new  == BookIn(us, cs, fs)
<1>1. ASSUME NEW k \in AllHolders, k # BeanHolder(b)
      PROVE  new[k] = old[k]
  <2>1. CASE \E v \in UserIds : k = UserHolder(v) BY <2>1, BookSays
  <2>2. CASE \E a \in BeanIds : k = BeanHolder(a)
    <3>1. PICK a \in BeanIds : k = BeanHolder(a) BY <2>2
    <3>2. cs[a] = bs[a] BY <1>1, <3>1 DEF OneRow
    <3> QED BY <3>1, <3>2, BookSays
  <2>3. CASE \E f, t \in UserIds : k = Pair(f, t)
    <3>1. PICK f \in UserIds, t \in UserIds : k = Pair(f, t) BY <2>3
    <3>2. old[Pair(f, t)] = IF <<f, t>> \in fs THEN {Pair(f, t)} ELSE {} BY PairSays
    <3>3. new[Pair(f, t)] = IF <<f, t>> \in fs THEN {Pair(f, t)} ELSE {} BY PairSays
    <3> QED BY <3>1, <3>2, <3>3
  <2> QED BY <2>1, <2>2, <2>3, HolderKinds
<1>2. BeanHolder(b) \in AllHolders /\ new[BeanHolder(b)] = BeanEntry(cs[b])
  BY BookSays DEF BeanEntry
<1>3. /\ old = [k \in AllHolders |-> old[k]]
      /\ new = [k \in AllHolders |-> new[k]]
  BY BookIsFunction
<1> HIDE DEF old, new
<1>4. new = [old EXCEPT ![BeanHolder(b)] = BeanEntry(cs[b])]
  BY <1>1, <1>2, <1>3
<1> QED BY <1>4 DEF old, new, BookWith

LEMMA BookOfFollow ==
  ASSUME NEW us, NEW bs, NEW fs, NEW gs, NEW f \in UserIds, NEW t \in UserIds,
         OnePair(fs, gs, f, t)
  PROVE  BookIn(us, bs, gs) = BookWith(us, bs, fs, Pair(f, t), PairEntry(gs, f, t))
<1> DEFINE old  == BookIn(us, bs, fs)
           new  == BookIn(us, bs, gs)
<1>1. ASSUME NEW k \in AllHolders, k # Pair(f, t)
      PROVE  new[k] = old[k]
  <2>1. CASE \E v \in UserIds : k = UserHolder(v) BY <2>1, BookSays
  <2>2. CASE \E a \in BeanIds : k = BeanHolder(a) BY <2>2, BookSays
  <2>3. CASE \E g, v \in UserIds : k = Pair(g, v)
    <3>1. PICK g \in UserIds, v \in UserIds : k = Pair(g, v) BY <2>3
    <3>2. <<g, v>> # <<f, t>>
      <4>1. ~(g = f /\ v = t) BY <1>1, <3>1
      <4> QED BY <4>1
    <3>3. <<g, v>> \in gs <=> <<g, v>> \in fs BY <3>2 DEF OnePair
    <3>4. old[Pair(g, v)] = IF <<g, v>> \in fs THEN {Pair(g, v)} ELSE {} BY PairSays
    <3>5. new[Pair(g, v)] = IF <<g, v>> \in gs THEN {Pair(g, v)} ELSE {} BY PairSays
    <3> QED BY <3>1, <3>3, <3>4, <3>5
  <2> QED BY <2>1, <2>2, <2>3, HolderKinds
<1>2. Pair(f, t) \in AllHolders /\ new[Pair(f, t)] = PairEntry(gs, f, t)
  BY BookSays DEF PairEntry
<1>3. /\ old = [k \in AllHolders |-> old[k]]
      /\ new = [k \in AllHolders |-> new[k]]
  BY BookIsFunction
<1> HIDE DEF old, new
<1>4. new = [old EXCEPT ![Pair(f, t)] = PairEntry(gs, f, t)]
  BY <1>1, <1>2, <1>3
<1> QED BY <1>4 DEF old, new, BookWith

\* A key is held when a row of its table has it.
HeldIn(hs, keys) == \E h \in hs : BookOf[h] \cap keys # {}

LEMMA HeldIs ==
  ASSUME NEW hs, NEW keys
  PROVE  Reg!Held(hs, keys) <=> HeldIn(hs, keys)
BY DEF Reg!Held, HeldIn

\* What each kind of holder holds.
LEMMA BookNow ==
  /\ \A u \in UserIds : /\ UserHolder(u) \in AllHolders
                        /\ BookOf[UserHolder(u)] =
                             IF users[u] = Absent THEN {} ELSE AccountKeys(users[u])
  /\ \A b \in BeanIds : /\ BeanHolder(b) \in AllHolders
                        /\ BookOf[BeanHolder(b)] =
                             IF beans[b] = Absent THEN {} ELSE BeanKeys(beans[b])
  /\ \A f, t \in UserIds : /\ Pair(f, t) \in AllHolders
                           /\ BookOf[Pair(f, t)] =
                                IF <<f, t>> \in follows THEN {Pair(f, t)} ELSE {}
BY BookSays DEF BookOf

LEMMA AccountHeld ==
  ASSUME NEW row
  PROVE  HeldIn(AllHolders, AccountKeys(row)) <=> Taken(row)
<1>1. ASSUME Taken(row) PROVE HeldIn(AllHolders, AccountKeys(row))
  <2>1. PICK u \in UserIds : users[u] # Absent
                             /\ (users[u].name = row.name \/ users[u].email = row.email)
    BY <1>1 DEF Taken, Named
  <2>2. UserHolder(u) \in AllHolders /\ BookOf[UserHolder(u)] = AccountKeys(users[u])
    BY <2>1, BookNow
  <2>3. AccountKeys(users[u]) \cap AccountKeys(row) # {}
    BY <2>1 DEF AccountKeys
  <2> QED BY <2>2, <2>3 DEF HeldIn
<1>2. ASSUME HeldIn(AllHolders, AccountKeys(row)) PROVE Taken(row)
  <2>1. PICK h \in AllHolders : BookOf[h] \cap AccountKeys(row) # {}
    BY <1>2 DEF HeldIn
  <2>6. PICK k : k \in BookOf[h] /\ k \in AccountKeys(row) BY <2>1
  <2>2. k = Name(row.name) \/ k = Email(row.email) BY <2>6 DEF AccountKeys
  <2>3. CASE \E u \in UserIds : h = UserHolder(u)
    <3>1. PICK u \in UserIds : h = UserHolder(u) BY <2>3
    <3>2. users[u] # Absent /\ k \in AccountKeys(users[u]) BY <2>6, <3>1, BookNow
    <3>3. k = Name(users[u].name) \/ k = Email(users[u].email)
      BY <3>2 DEF AccountKeys
    <3>4. users[u].name = row.name \/ users[u].email = row.email BY <2>2, <3>3, Kinds
    <3> QED BY <3>2, <3>4 DEF Taken, Named
  <2>4. CASE \E b \in BeanIds : h = BeanHolder(b)
    <3>1. PICK b \in BeanIds : h = BeanHolder(b) BY <2>4
    <3>2. k = BeanName(beans[b].name) BY <2>6, <3>1, BookNow DEF BeanKeys
    <3> QED BY <2>2, <3>2, Kinds
  <2>5. CASE \E f, t \in UserIds : h = Pair(f, t)
    <3>1. PICK f \in UserIds, t \in UserIds : h = Pair(f, t) BY <2>5
    <3>2. k = Pair(f, t) BY <2>6, <3>1, BookNow
    <3> QED BY <2>2, <3>2, Kinds
  <2> QED BY <2>3, <2>4, <2>5, HolderKinds
<1> QED BY <1>1, <1>2

\* A bean other than b has the name, and any bean has it.
LEMMA BeanNameHeld ==
  ASSUME NEW n, NEW b \in BeanIds
  PROVE  /\ HeldIn(AllHolders \ {BeanHolder(b)}, {BeanName(n)}) <=> NameTaken(n, b)
         /\ beans[b] = Absent => (HeldIn(AllHolders, {BeanName(n)}) <=> NameTaken(n, b))
<1>1. ASSUME NameTaken(n, b)
      PROVE  /\ HeldIn(AllHolders \ {BeanHolder(b)}, {BeanName(n)})
             /\ HeldIn(AllHolders, {BeanName(n)})
  <2>1. PICK k \in BeanIds \ {b} : beans[k] # Absent /\ beans[k].name = n
    BY <1>1 DEF NameTaken
  <2>2. /\ BeanHolder(k) \in AllHolders /\ BeanHolder(k) # BeanHolder(b)
        /\ BookOf[BeanHolder(k)] = {BeanName(n)}
    BY <2>1, BookNow, Kinds DEF BeanKeys
  <2> QED BY <2>2 DEF HeldIn
<1>2. ASSUME NEW h \in AllHolders, BookOf[h] \cap {BeanName(n)} # {},
             h # BeanHolder(b) \/ beans[b] = Absent
      PROVE  NameTaken(n, b)
  <2>1. BeanName(n) \in BookOf[h] BY <1>2
  <2>2. CASE \E u \in UserIds : h = UserHolder(u)
    <3>1. PICK u \in UserIds : h = UserHolder(u) BY <2>2
    <3>2. BeanName(n) \in AccountKeys(users[u]) BY <2>1, <3>1, BookNow
    <3> QED BY <3>2, Kinds DEF AccountKeys
  <2>3. CASE \E a \in BeanIds : h = BeanHolder(a)
    <3>1. PICK a \in BeanIds : h = BeanHolder(a) BY <2>3
    <3>2. beans[a] # Absent /\ BeanName(n) \in BeanKeys(beans[a])
      BY <2>1, <3>1, BookNow
    <3>3. beans[a].name = n BY <3>2, Kinds DEF BeanKeys
    <3>4. a # b BY <1>2, <3>1, <3>2
    <3> QED BY <3>2, <3>3, <3>4 DEF NameTaken
  <2>4. CASE \E f, t \in UserIds : h = Pair(f, t)
    <3>1. PICK f \in UserIds, t \in UserIds : h = Pair(f, t) BY <2>4
    <3>2. BeanName(n) = Pair(f, t) BY <2>1, <3>1, BookNow
    <3> QED BY <3>2, Kinds
  <2> QED BY <2>2, <2>3, <2>4, HolderKinds
<1> QED BY <1>1, <1>2 DEF HeldIn

LEMMA PairHeld ==
  ASSUME NEW f \in UserIds, NEW t \in UserIds
  PROVE  HeldIn(AllHolders, {Pair(f, t)}) <=> <<f, t>> \in follows
<1>1. ASSUME <<f, t>> \in follows PROVE HeldIn(AllHolders, {Pair(f, t)})
  BY <1>1, BookNow DEF HeldIn
<1>2. ASSUME NEW h \in AllHolders, BookOf[h] \cap {Pair(f, t)} # {}
      PROVE  <<f, t>> \in follows
  <2>1. Pair(f, t) \in BookOf[h] BY <1>2
  <2>2. CASE \E u \in UserIds : h = UserHolder(u)
    <3>1. PICK u \in UserIds : h = UserHolder(u) BY <2>2
    <3>2. Pair(f, t) \in AccountKeys(users[u]) BY <2>1, <3>1, BookNow
    <3> QED BY <3>2, Kinds DEF AccountKeys
  <2>3. CASE \E a \in BeanIds : h = BeanHolder(a)
    <3>1. PICK a \in BeanIds : h = BeanHolder(a) BY <2>3
    <3>2. Pair(f, t) \in BeanKeys(beans[a]) BY <2>1, <3>1, BookNow
    <3> QED BY <3>2, Kinds DEF BeanKeys
  <2>4. CASE \E g, v \in UserIds : h = Pair(g, v)
    <3>1. PICK g \in UserIds, v \in UserIds : h = Pair(g, v) BY <2>4
    <3>2. Pair(f, t) = Pair(g, v) /\ <<g, v>> \in follows BY <2>1, <3>1, BookNow
    <3> QED BY <3>2, Kinds
  <2> QED BY <2>2, <2>3, <2>4, HolderKinds
<1> QED BY <1>1, <1>2 DEF HeldIn

-----------------------------------------------------------------------------
(***************************************************************************)
(* What the registry sees of a step that moves one slot.                   *)
(***************************************************************************)
\* A request about the registry, under way or answered.
IsEntry(s) == s.pc # "idle" /\ s.call.op \in RegistryOps

LEMMA CallMoves ==
  ASSUME NEW r \in Reqs, NEW s, Moved(r, s)
  PROVE  /\ Calling[r] = RegistryCall(req[r])
         /\ Calling' = [Calling EXCEPT ![r] = RegistryCall(s)]
<1>1. Calling[r] = RegistryCall(req[r]) BY DEF Calling
<1>2. ASSUME NEW q \in Reqs PROVE RegistryCall(req[q])' = RegistryCall(req'[q])
  BY DEF RegistryCall, KindOf, ForOf, AskedKeys, SlotKeys, Tells, AccountKeys, BeanKeys,
    UserHolders, BeanHolders, UserHolder, BeanHolder, Pair, Name, Email, BeanName
<1>3. Calling' = [q \in Reqs |-> RegistryCall(req'[q])] BY <1>2 DEF Calling
<1>4. Calling = [q \in Reqs |-> RegistryCall(req[q])] BY DEF Calling
<1>5. req'[r] = s /\ \A q \in Reqs : q # r => req'[q] = req[q] BY DEF Moved
<1> QED BY <1>1, <1>3, <1>4, <1>5

\* Free and answered calls, and those under way.
LEMMA FreeCall ==
  ASSUME NEW s, ~IsEntry(s)
  PROVE  RegistryCall(s) = Reg!Free
BY DEF RegistryCall, IsEntry, Reg!Free

LEMMA AnsweredCall ==
  ASSUME NEW s, s.pc = "done", s.call.op \in RegistryOps
  PROVE  RegistryCall(s) = Reg!Answered(KindOf(s.call.op), Tells(s.status, s.call.op))
BY DEF RegistryCall, Reg!Answered

PhaseOf(s) == IF s.pc \in {"save", "upsert"} THEN "seen" ELSE "open"

LEMMA PendingCall ==
  ASSUME NEW s, s.pc \in DbSteps, s.call.op \in RegistryOps
  PROVE  /\ RegistryCall(s) =
              [op |-> KindOf(s.call.op), for |-> ForOf(s.call, s.as.id),
               keys |-> SlotKeys(s), phase |-> PhaseOf(s), told |-> "pending"]
         /\ RegistryCall(s).op = KindOf(s.call.op)
         /\ RegistryCall(s).for = ForOf(s.call, s.as.id)
         /\ RegistryCall(s).keys = SlotKeys(s)
         /\ RegistryCall(s).phase = PhaseOf(s)
BY DEF RegistryCall, PhaseOf, DbSteps

\* A step of a request about something else moves no call.
LEMMA OtherUnseen ==
  ASSUME NEW r \in Reqs, NEW s, Moved(r, s), ~IsEntry(req[r]), ~IsEntry(s)
  PROVE  Calling' = Calling
<1>1. Calling' = [Calling EXCEPT ![r] = RegistryCall(s)] /\ Calling[r] = RegistryCall(s)
  BY CallMoves, FreeCall
<1> HIDE DEF Calling
<1>2. Calling = [q \in Reqs |-> Calling[q]] BY DEF Calling
<1> QED BY <1>1, <1>2

\* An answer tells the registry's caller.
LEMMA AnswerTells ==
  ASSUME Inv, NEW r \in Reqs, NEW s, Moved(r, s), req[r].pc \in DbSteps,
         req[r].call.op \in RegistryOps, s.pc = "done", s.call = req[r].call
  PROVE  Calling' = [Calling EXCEPT ![r] = Reg!Answered(Calling[r].op, Tells(s.status, s.call.op))]
<1>1. Calling[r] = RegistryCall(req[r]) /\ Calling' = [Calling EXCEPT ![r] = RegistryCall(s)]
  BY CallMoves
<1>2. Calling[r].op = KindOf(req[r].call.op) BY <1>1, PendingCall
<1>3. RegistryCall(s) = Reg!Answered(KindOf(s.call.op), Tells(s.status, s.call.op)) BY AnsweredCall
<1> QED BY <1>1, <1>2, <1>3

\* A statement that answers, as the registry hears it.
LEMMA AnswerMoves ==
  ASSUME Inv, NEW r \in Reqs, NEW status \in Nat, \E w \in BOOLEAN : Finish(r, status, w)
  PROVE  \E s : Moved(r, s) /\ s.pc = "done" /\ s.call = req[r].call /\ s.status = status
<1>1. PICK w \in BOOLEAN : Finish(r, status, w) OBVIOUS
<1>2. req \in [Reqs -> Slot] BY DEF Inv, SlotsTrue
<1> DEFINE s == [pc |-> "done", call |-> req[r].call, as |-> req[r].as, row |-> Absent,
                 status |-> status, wrote |-> w]
<1>3. Moved(r, s) BY <1>1, <1>2, FinishSlot
<1>4. s.pc = "done" /\ s.call = req[r].call /\ s.status = status OBVIOUS
<1> HIDE DEF s
<1> QED BY <1>3, <1>4

LEMMA StatementTells ==
  ASSUME Inv, NEW r \in Reqs, NEW status \in Nat,
         \E w \in BOOLEAN : Finish(r, status, w),
         req[r].pc \in DbSteps, req[r].call.op \in RegistryOps
  PROVE  Reg!Tell(r, Tells(status, req[r].call.op))
<1>1. PICK s : Moved(r, s) /\ s.pc = "done" /\ s.call = req[r].call /\ s.status = status
  BY AnswerMoves
<1>2. Calling' = [Calling EXCEPT ![r] =
                    Reg!Answered(Calling[r].op, Tells(s.status, s.call.op))]
  BY <1>1, AnswerTells
<1> QED BY <1>1, <1>2 DEF Reg!Tell

LEMMA RefusalTells ==
  ASSUME Inv, NEW r \in Reqs, NEW status \in Nat, Answer(r, status),
         req[r].pc \in DbSteps, req[r].call.op \in RegistryOps
  PROVE  Reg!Tell(r, Tells(status, req[r].call.op))
<1>1. \E w \in BOOLEAN : Finish(r, status, w) BY DEF Answer
<1> QED BY <1>1, StatementTells

\* One that wrote, too, or it tells nothing.
LEMMA EffectTells ==
  ASSUME Inv, NEW r \in Reqs, NEW status \in Nat, Written(r, status),
         req[r].pc \in DbSteps, req[r].call.op \in RegistryOps
  PROVE  Reg!TellEffect(r, Tells(status, req[r].call.op))
<1>1. PICK st \in {status, 500} : \E w \in BOOLEAN : Finish(r, st, w)
  BY DEF Written, Outcomes
<1>2. Reg!Tell(r, Tells(st, req[r].call.op)) BY <1>1, StatementTells
<1>3. Tells(500, req[r].call.op) = "none" BY DEF Tells
<1> QED BY <1>2, <1>3 DEF Reg!TellEffect

\* The book of the next state, and a book whose tables stay.
LEMMA BookNext == BookOf' = BookIn(users', beans', follows')
BY DEF BookOf, BookIn, KeysIn, AccountKeys, BeanKeys, AllHolders, UserHolders,
  BeanHolders, Pairs, UserHolder, BeanHolder, Pair, Name, Email, BeanName

LEMMA BookStays ==
  ASSUME UNCHANGED <<users, beans, follows>>
  PROVE  BookOf' = BookOf
BY BookNext DEF BookOf

-----------------------------------------------------------------------------
(***************************************************************************)
(* The registry's steps, from what is known of the book and of the caller. *)
(***************************************************************************)
Calls(r, op, phase) == Calling[r].op = op /\ Calling[r].phase = phase

LEMMA StepEnters ==
  ASSUME NEW r \in Reqs, Calls(r, "enter", "open"), NEW h \in Calling[r].for,
         ~HeldIn(AllHolders, Calling[r].keys), BookOf[h] = {},
         BookOf' = [BookOf EXCEPT ![h] = Calling[r].keys], Reg!TellEffect(r, "entered")
  PROVE  Reg!RegistryNext
<1>1. ~Reg!Held(AllHolders, Calling[r].keys) BY HeldIs
<1>2. Reg!Enter(r) BY <1>1 DEF Reg!Enter, Reg!In, Calls
<1> QED BY <1>2 DEF Reg!RegistryNext

LEMMA StepTaken ==
  ASSUME NEW r \in Reqs, Calls(r, "enter", "open"), HeldIn(AllHolders, Calling[r].keys),
         BookOf' = BookOf, Reg!Tell(r, "taken")
  PROVE  Reg!RegistryNext
<1>1. Reg!Held(AllHolders, Calling[r].keys) BY HeldIs
<1>2. Reg!Taken(r) BY <1>1 DEF Reg!Taken, Reg!In, Calls
<1> QED BY <1>2 DEF Reg!RegistryNext

LEMMA StepStrikes ==
  ASSUME NEW r \in Reqs, Calls(r, "strike", "open"), NEW h \in Calling[r].for,
         BookOf[h] # {}, BookOf' = [BookOf EXCEPT ![h] = {}], Reg!TellEffect(r, "struck")
  PROVE  Reg!RegistryNext
<1>2. Reg!Strike(r) BY DEF Reg!Strike, Reg!In, Calls
<1> QED BY <1>2 DEF Reg!RegistryNext

LEMMA StepMissing ==
  ASSUME NEW r \in Reqs, Calls(r, "strike", "open"),
         \A h \in Calling[r].for : BookOf[h] = {},
         BookOf' = BookOf, Reg!Tell(r, "absent")
  PROVE  Reg!RegistryNext
<1>2. Reg!Missing(r) BY DEF Reg!Missing, Reg!In, Calls
<1> QED BY <1>2 DEF Reg!RegistryNext

LEMMA StepAmends ==
  ASSUME NEW r \in Reqs, Calls(r, "amend", "seen"), NEW h \in Calling[r].for,
         ~HeldIn(AllHolders \ {h}, Calling[r].keys),
         BookOf' = [BookOf EXCEPT ![h] = Calling[r].keys], Reg!TellEffect(r, "amended")
  PROVE  Reg!RegistryNext
<1>1. ~Reg!Held(AllHolders \ {h}, Calling[r].keys) BY HeldIs
<1>2. Reg!Amend(r) BY <1>1 DEF Reg!Amend, Reg!In, Calls
<1> QED BY <1>2 DEF Reg!RegistryNext

LEMMA StepGivesUp ==
  ASSUME Inv, NEW r \in Reqs, req[r].pc \in DbSteps, req[r].call.op \in RegistryOps,
         NEW status \in {422, 500}, Answer(r, status),
         UNCHANGED <<users, beans, follows>>
  PROVE  Reg!RegistryNext
<1>1. Calling[r] = RegistryCall(req[r]) BY DEF Calling
<1>2. Calling[r].phase \in {"open", "seen"} BY <1>1, PendingCall DEF PhaseOf
<1>3. Reg!Tell(r, Tells(status, req[r].call.op)) BY RefusalTells
<1>4. Tells(status, req[r].call.op) = "none" BY DEF Tells
<1>5. Reg!GiveUp(r) BY <1>2, <1>3, <1>4, BookStays DEF Reg!GiveUp
<1> QED BY <1>5 DEF Reg!RegistryNext

-----------------------------------------------------------------------------
(***************************************************************************)
(* The statements.                                                         *)
(***************************************************************************)
\* What the registry knows of a request under way.
LEMMA CallNow ==
  ASSUME NEW r \in Reqs, req[r].pc \in DbSteps, req[r].call.op \in RegistryOps
  PROVE  /\ Calling[r].op = KindOf(req[r].call.op) /\ Calling[r].phase = PhaseOf(req[r])
         /\ Calling[r].for = ForOf(req[r].call, req[r].as.id)
         /\ Calling[r].keys = SlotKeys(req[r])
<1>1. Calling[r] = RegistryCall(req[r]) BY DEF Calling
<1> QED BY <1>1, PendingCall

\* A name and an email are taken together or not at all.
LEMMA AccountStep ==
  ASSUME Inv, NEW r \in Reqs, InsertUser(r), UNCHANGED <<beans, follows>>
  PROVE  Reg!RegistryNext
<1>0. /\ req \in [Reqs -> Slot] /\ epoch \in Nat /\ req[r].pc \in DbSteps
      /\ req[r].pc = "insert" /\ req[r].call.op = "Register"
      /\ req[r].call.op \in RegistryOps
  BY OfferedCalls DEF Inv, SlotsTrue, SettingsOK, InsertUser, At, DbSteps, RegistryOps
<1> DEFINE row == req[r].row
<1>1. /\ Calls(r, "enter", "open") /\ Calling[r].for = UserHolders
      /\ Calling[r].keys = AccountKeys(row)
  <2>1. KindOf(req[r].call.op) = "enter" BY <1>0 DEF KindOf
  <2>2. PhaseOf(req[r]) = "open" BY <1>0 DEF PhaseOf
  <2>3. ForOf(req[r].call, req[r].as.id) = UserHolders BY <1>0 DEF ForOf, FollowOps
  <2>4. SlotKeys(req[r]) = AccountKeys(row) BY <1>0 DEF SlotKeys
  <2> QED BY <1>0, <2>1, <2>2, <2>3, <2>4, CallNow DEF Calls
<1>2. CASE Taken(row) /\ Answer(r, 409) /\ UNCHANGED users
  <2>1. HeldIn(AllHolders, Calling[r].keys) BY <1>1, <1>2, AccountHeld
  <2>2. Reg!Tell(r, Tells(409, req[r].call.op)) BY <1>0, <1>2, RefusalTells
  <2>3. Tells(409, req[r].call.op) = "taken" BY <1>0 DEF Tells
  <2> QED BY <1>1, <1>2, <2>1, <2>2, <2>3, BookStays, StepTaken
<1>3. CASE /\ ~Taken(row)
           /\ users' = [users EXCEPT ![userSeq + 1] = row]
           /\ \/ AnswerWithToken(r, 201, TRUE, userSeq + 1, row)
              \/ Finish(r, 500, TRUE)
  <2> DEFINE u == userSeq + 1
  <2>1. /\ row \in UserRow /\ row # Absent
        /\ users \in [UserIds -> UserRow \cup {Absent}]
    BY <1>0, DirectoryAbsent DEF Inv, TablesOK, SlotsTrue, SlotTrue, SlotRow
  <2>2. u \in UserIds /\ users[u] = Absent
    BY <1>0, DirectoryBounds DEF InsertUser, Inv, TablesOK, UserIds, UsersBySequence
  <2>3. ASSUME AnswerWithToken(r, 201, TRUE, u, row) PROVE Reg!Tell(r, "entered")
    <3>0. PICK w \in BOOLEAN : w = TRUE /\ AnswerWithToken(r, 201, w, u, row)
      BY <2>3, Zenon
    <3> DEFINE s == [pc |-> "done", call |-> req[r].call,
                     as |-> [id |-> u, name |-> row.name, role |-> row.role, era |-> epoch],
                     row |-> Absent, status |-> 201, wrote |-> w]
    <3>1. AnswerWithToken(r, 201, w, u, row) BY <3>0
    <3>2. Moved(r, s) BY <1>0, <2>1, <2>2, <3>1, TokenSlot
    <3>3. s.pc = "done" /\ s.call = req[r].call /\ s.status = 201 OBVIOUS
    <3> HIDE DEF s
    <3>4. Calling' = [Calling EXCEPT ![r] =
                        Reg!Answered(Calling[r].op, Tells(s.status, s.call.op))]
      BY <1>0, <3>2, <3>3, AnswerTells
    <3>5. Tells(s.status, s.call.op) = "entered" BY <3>3 DEF Tells
    <3> QED BY <3>4, <3>5 DEF Reg!Tell
  <2>4. ASSUME Finish(r, 500, TRUE) PROVE Reg!Tell(r, "none")
    <3>1. \E w \in BOOLEAN : Finish(r, 500, w) BY <2>4, Zenon
    <3>2. Tells(500, req[r].call.op) = "none" BY DEF Tells
    <3> QED BY <1>0, <3>1, <3>2, StatementTells
  <2>5. Reg!TellEffect(r, "entered") BY <1>3, <2>3, <2>4 DEF Reg!TellEffect
  <2>6. users'[u] = row /\ OneRow(UserIds, users, users', u)
    BY <1>3, <2>1, <2>2 DEF OneRow
  <2> HIDE DEF u, row
  <2>7. BookOf' = [BookOf EXCEPT ![UserHolder(u)] = Calling[r].keys]
    <3>1. AccountEntry(users'[u]) = AccountKeys(row) BY <2>1, <2>6 DEF AccountEntry
    <3>2. BookIn(users', beans, follows) =
            BookWith(users, beans, follows, UserHolder(u), AccountEntry(users'[u]))
      BY <2>2, <2>6, BookOfAccount
    <3> QED BY <1>1, <3>1, <3>2, BookNext DEF BookOf, BookWith
  <2>8. UserHolder(u) \in Calling[r].for /\ BookOf[UserHolder(u)] = {}
    BY <1>1, <2>2, BookNow DEF UserHolders
  <2>9. ~HeldIn(AllHolders, Calling[r].keys) BY <1>1, <1>3, AccountHeld DEF row
  <2> QED BY <1>1, <2>5, <2>7, <2>8, <2>9, StepEnters
<1> QED BY <1>2, <1>3 DEF InsertUser

\* 201 and 409 of a follow, 200 and 404 of an unfollow.
LEMMA FollowStep ==
  ASSUME Inv, NEW r \in Reqs, FollowProgress(r), UNCHANGED <<users, beans>>
  PROVE  Reg!RegistryNext
<1>0. /\ req[r].pc \in DbSteps /\ req[r].call.op \in FollowOps
      /\ req[r].call.op \in RegistryOps /\ req[r].call.op \in TokenOps
  BY DEF FollowProgress, InsertFollow, DeleteFollow, At, DbSteps, FollowOps, RegistryOps,
    TokenOps
<1>1. PICK f \in UserIds, t \in UserIds : f = req[r].as.id /\ t = req[r].call.id
  BY <1>0, Speaker, Targets DEF DbSteps
<1>2. /\ Calling[r].for = {Pair(f, t)}
      /\ BookOf[Pair(f, t)] = PairEntry(follows, f, t)
      /\ PhaseOf(req[r]) = "open" /\ Calling[r].phase = "open"
  <2>1. ForOf(req[r].call, req[r].as.id) = {Pair(f, t)}
    BY <1>0, <1>1 DEF ForOf, FollowOps
  <2>2. PhaseOf(req[r]) = "open"
    BY DEF FollowProgress, InsertFollow, DeleteFollow, At, PhaseOf
  <2> QED BY <1>0, <2>1, <2>2, CallNow, BookNow DEF PairEntry
<1>3. CASE InsertFollow(r)
  <2>1. req[r].pc = "insert" /\ req[r].call.op = "Follow"
    BY <1>3 DEF InsertFollow, At
  <2>2. Calls(r, "enter", "open") /\ Calling[r].keys = {Pair(f, t)}
    <3>1. KindOf(req[r].call.op) = "enter" BY <2>1 DEF KindOf
    <3>2. SlotKeys(req[r]) = {Pair(f, t)} BY <1>1, <2>1 DEF SlotKeys
    <3> QED BY <1>0, <1>2, <3>1, <3>2, CallNow DEF Calls
  <2>3. CASE <<f, t>> \in follows /\ Answer(r, 409) /\ UNCHANGED follows
    <3>1. HeldIn(AllHolders, Calling[r].keys) BY <2>2, <2>3, PairHeld
    <3>2. Reg!Tell(r, Tells(409, req[r].call.op)) BY <1>0, <2>3, RefusalTells
    <3>3. Tells(409, req[r].call.op) = "taken" BY <2>1 DEF Tells
    <3> QED BY <2>2, <2>3, <3>1, <3>2, <3>3, BookStays, StepTaken
  <2>4. CASE /\ <<f, t>> \notin follows
             /\ follows' = follows \cup {<<f, t>>} /\ Written(r, 201)
    <3>1. Reg!TellEffect(r, Tells(201, req[r].call.op)) BY <1>0, <2>4, EffectTells
    <3>2. Tells(201, req[r].call.op) = "entered" BY DEF Tells
    <3>3. OnePair(follows, follows', f, t) BY <2>4 DEF OnePair
    <3>4. PairEntry(follows', f, t) = {Pair(f, t)} BY <2>4 DEF PairEntry
    <3>5. BookIn(users, beans, follows') =
            BookWith(users, beans, follows, Pair(f, t), PairEntry(follows', f, t))
      BY <3>3, BookOfFollow
    <3>6. BookOf' = [BookOf EXCEPT ![Pair(f, t)] = Calling[r].keys]
      BY <2>2, <3>4, <3>5, BookNext DEF BookOf, BookWith
    <3>7. ~HeldIn(AllHolders, Calling[r].keys) BY <2>2, <2>4, PairHeld
    <3>8. Pair(f, t) \in Calling[r].for /\ BookOf[Pair(f, t)] = {}
      BY <1>2, <2>4 DEF PairEntry
    <3> QED BY <2>2, <3>1, <3>2, <3>6, <3>7, <3>8, StepEnters
  <2> QED BY <1>1, <1>3, <2>3, <2>4 DEF InsertFollow
<1>4. CASE DeleteFollow(r)
  <2>1. req[r].pc = "delete" /\ req[r].call.op = "Unfollow"
    BY <1>4 DEF DeleteFollow, At
  <2>2. Calls(r, "strike", "open")
    <3>1. KindOf(req[r].call.op) = "strike" BY <2>1 DEF KindOf
    <3> QED BY <1>0, <1>2, <3>1, CallNow DEF Calls
  <2>3. CASE <<f, t>> \notin follows /\ Answer(r, 404) /\ UNCHANGED follows
    <3>1. \A h \in Calling[r].for : BookOf[h] = {} BY <1>2, <2>3 DEF PairEntry
    <3>2. Reg!Tell(r, Tells(404, req[r].call.op)) BY <1>0, <2>3, RefusalTells
    <3>3. Tells(404, req[r].call.op) = "absent" BY <2>1 DEF Tells
    <3> QED BY <2>2, <2>3, <3>1, <3>2, <3>3, BookStays, StepMissing
  <2>4. CASE /\ <<f, t>> \in follows
             /\ follows' = follows \ {<<f, t>>} /\ Written(r, 200)
    <3>1. Reg!TellEffect(r, Tells(200, req[r].call.op)) BY <1>0, <2>4, EffectTells
    <3>2. Tells(200, req[r].call.op) = "struck" BY <2>1 DEF Tells
    <3>3. OnePair(follows, follows', f, t) BY <2>4 DEF OnePair
    <3>4. PairEntry(follows', f, t) = {} BY <2>4 DEF PairEntry
    <3>5. BookIn(users, beans, follows') =
            BookWith(users, beans, follows, Pair(f, t), PairEntry(follows', f, t))
      BY <3>3, BookOfFollow
    <3>6. BookOf' = [BookOf EXCEPT ![Pair(f, t)] = {}]
      BY <3>4, <3>5, BookNext DEF BookOf, BookWith
    <3>7. Pair(f, t) \in Calling[r].for /\ BookOf[Pair(f, t)] # {}
      BY <1>2, <2>4 DEF PairEntry
    <3> QED BY <2>2, <3>1, <3>2, <3>6, <3>7, StepStrikes
  <2> QED BY <1>1, <1>4, <2>3, <2>4 DEF DeleteFollow
<1> QED BY <1>3, <1>4 DEF FollowProgress

\* A statement that writes a bean, as the book shows it.
LEMMA BeanWritten ==
  ASSUME Inv, UNCHANGED <<users, follows>>, NEW b \in BeanIds, NEW row,
         beans' = [beans EXCEPT ![b] = row]
  PROVE  BookOf' = [BookOf EXCEPT ![BeanHolder(b)] = BeanEntry(row)]
<1> DEFINE new == beans'
<1>1. new[b] = row /\ OneRow(BeanIds, beans, new, b)
  BY DEF Inv, TablesOK, OneRow
<1> HIDE DEF new
<1>2. BookIn(users, new, follows) =
        BookWith(users, beans, follows, BeanHolder(b), BeanEntry(new[b]))
  BY <1>1, BookOfBean
<1> QED BY <1>1, <1>2, BookNext DEF BookOf, BookWith, new

\* A bean takes a name that is free, under a new id.
LEMMA BeanCreateStep ==
  ASSUME Inv, BeansBySequence, NEW r \in Reqs, InsertBean(r), UNCHANGED <<users, follows>>
  PROVE  Reg!RegistryNext
<1> DEFINE row == req[r].row  b == beanSeq + 1
<1>0. /\ req[r].pc = "insert" /\ req[r].call.op = "CreateBean"
      /\ req[r].pc \in DbSteps /\ req[r].call.op \in RegistryOps
  BY DEF InsertBean, At, DbSteps, RegistryOps, BeanOps
<1>1. /\ Calls(r, "enter", "open") /\ Calling[r].for = BeanHolders
      /\ Calling[r].keys = BeanKeys(row)
  <2>1. KindOf(req[r].call.op) = "enter" BY <1>0 DEF KindOf
  <2>2. PhaseOf(req[r]) = "open" BY <1>0 DEF PhaseOf
  <2>3. ForOf(req[r].call, req[r].as.id) = BeanHolders BY <1>0 DEF ForOf, FollowOps
  <2>4. SlotKeys(req[r]) = BeanKeys(row) BY <1>0 DEF SlotKeys
  <2> QED BY <1>0, <2>1, <2>2, <2>3, <2>4, CallNow DEF Calls
<1>2. /\ b \in BeanIds /\ beans[b] = Absent
      /\ row \in BeanRow /\ row # Absent
  BY <1>0, DirectoryBounds, DirectoryAbsent
  DEF InsertBean, Inv, TablesOK, BeanIds, BeansBySequence, SlotsTrue, SlotTrue, SlotRow
<1>3. HeldIn(AllHolders, Calling[r].keys) <=> NameTaken(row.name, b)
  BY <1>1, <1>2, BeanNameHeld DEF BeanKeys
<1>4. CASE Answer(r, 500) /\ UNCHANGED beanVars
  BY <1>0, <1>4, StepGivesUp DEF beanVars
<1>5. CASE NameTaken(row.name, b) /\ Answer(r, 409) /\ UNCHANGED beans
  <2>1. Reg!Tell(r, Tells(409, req[r].call.op)) BY <1>0, <1>5, RefusalTells
  <2>2. Tells(409, req[r].call.op) = "taken" BY DEF Tells
  <2> QED BY <1>1, <1>3, <1>5, <2>1, <2>2, BookStays, StepTaken
<1>6. CASE /\ ~NameTaken(row.name, b)
           /\ beans' = [beans EXCEPT ![b] = row] /\ Written(r, 201)
  <2>1. Reg!TellEffect(r, Tells(201, req[r].call.op)) BY <1>0, <1>6, EffectTells
  <2>2. Tells(201, req[r].call.op) = "entered" BY DEF Tells
  <2>3. BeanEntry(row) = Calling[r].keys BY <1>1, <1>2 DEF BeanEntry
  <2>4. BeanHolder(b) \in Calling[r].for /\ BookOf[BeanHolder(b)] = {}
    BY <1>1, <1>2, BookNow DEF BeanHolders
  <2> HIDE DEF b, row
  <2>5. BookOf' = [BookOf EXCEPT ![BeanHolder(b)] = Calling[r].keys]
    BY <1>2, <1>6, <2>3, BeanWritten
  <2> QED BY <1>1, <1>3, <1>6, <2>1, <2>2, <2>4, <2>5, StepEnters
<1> QED BY <1>4, <1>5, <1>6 DEF InsertBean

\* The update reads its bean.
LEMMA BeanFindStep ==
  ASSUME Inv, NEW r \in Reqs, BeanToUpdate(r), UNCHANGED <<users, follows>>
  PROVE  Reg!RegistryNext
<1> DEFINE c == req[r].call  b == c.id  row == beans[b]  h == BeanHolder(b)
           new == PatchedBean(row, c.body)  s == HeldSlot(r, "save", new)
<1>0. /\ req[r].pc = "find" /\ c.op = "UpdateBean" /\ UNCHANGED beans
      /\ req[r].pc \in DbSteps /\ c.op \in RegistryOps /\ c.op \in BeanOps
      /\ req \in [Reqs -> Slot]
  BY DEF BeanToUpdate, At, DbSteps, RegistryOps, BeanOps, beanVars, Inv, SlotsTrue
<1>1. CASE Answer(r, 500) \/ Answer(r, 422)
  BY <1>0, <1>1, StepGivesUp
<1>2. CASE row # Absent /\ c.body.process \in Processes /\ Hold(r, "save", new)
  <2>1. b \in BeanIds /\ c.body \in Body BY <1>0, Targets DEF DbSteps
  <2>2. row \in BeanRow BY <1>2, <2>1 DEF Inv, TablesOK
  <2>3. new \in BeanRow /\ new.name = IF c.body.name = "" THEN row.name ELSE c.body.name
    <3> HIDE DEF row, c
    <3>1. new \in BeanRow BY <1>2, <2>1, <2>2, PatchedIsBean
    <3> DEFINE name == IF c.body.name = "" THEN row.name ELSE c.body.name
               tags == IF c.body.tags = "" THEN row.tags ELSE c.body.tags
    <3>2. new = [row EXCEPT !.name = name, !.process = c.body.process, !.tags = tags]
      BY DEF PatchedBean
    <3> HIDE DEF name, tags, new
    <3>3. new.name = name BY <2>2, <3>2 DEF BeanRow
    <3> QED BY <3>1, <3>3 DEF new, name
  <2>4. Moved(r, s) BY <1>0, <1>2, <2>3, HoldSlot DEF DbSteps, AnyRow
  <2>5. /\ Calls(r, "amend", "open") /\ Calling[r].for = {h}
        /\ Calling[r].keys = AskedKeys(c, req[r].as.id)
    <3>1. KindOf(c.op) = "amend" /\ PhaseOf(req[r]) = "open" BY <1>0 DEF KindOf, PhaseOf
    <3>2. ForOf(c, req[r].as.id) = {h} BY <1>0 DEF ForOf, FollowOps
    <3>3. SlotKeys(req[r]) = AskedKeys(c, req[r].as.id) BY <1>0 DEF SlotKeys
    <3> QED BY <1>0, <3>1, <3>2, <3>3, CallNow DEF Calls
  <2>6. /\ s.pc = "save" /\ s.call = c /\ s.as = req[r].as /\ s.row = new
        /\ s.pc \in DbSteps
    BY DEF HeldSlot, DbSteps
  <2> HIDE DEF s, new
  <2>7. RegistryCall(s) = [op |-> "amend", for |-> {h}, keys |-> BeanKeys(new),
                           phase |-> "seen", told |-> "pending"]
    <3>1. KindOf(s.call.op) = "amend" /\ PhaseOf(s) = "seen"
      BY <1>0, <2>6 DEF KindOf, PhaseOf
    <3>2. ForOf(s.call, s.as.id) = {h} BY <1>0, <2>6 DEF ForOf, FollowOps
    <3>3. SlotKeys(s) = BeanKeys(new) BY <1>0, <2>6 DEF SlotKeys
    <3> HIDE DEF h
    <3> QED BY <1>0, <2>6, <3>1, <3>2, <3>3, PendingCall
  <2>8. BookOf[h] = BeanKeys(row) /\ BookOf[h] # {}
    BY <1>2, <2>1, BookNow DEF BeanKeys
  <2>9. BeanKeys(new) = IF Calling[r].keys = {} THEN BookOf[h] ELSE Calling[r].keys
    <3>1. CASE c.body.name = ""
      <4>1. AskedKeys(c, req[r].as.id) = {} BY <1>0, <3>1 DEF AskedKeys, FollowOps
      <4>2. new.name = row.name BY <2>3, <3>1
      <4> QED BY <2>5, <2>8, <4>1, <4>2 DEF BeanKeys
    <3>2. CASE c.body.name # ""
      <4>1. AskedKeys(c, req[r].as.id) = BeanKeys(c.body)
        BY <1>0, <3>2 DEF AskedKeys, FollowOps
      <4>2. new.name = c.body.name BY <2>3, <3>2
      <4> QED BY <2>5, <4>1, <4>2 DEF BeanKeys
    <3> QED BY <3>1, <3>2
  <2> HIDE DEF h, row, b, c
  <2>10. RegistryCall(s) =
           Reg!Seen(Calling[r], IF Calling[r].keys = {} THEN BookOf[h] ELSE Calling[r].keys)
    BY <2>5, <2>7, <2>9 DEF Reg!Seen, Calls
  <2>11. Calling' = [Calling EXCEPT ![r] = RegistryCall(s)] BY <2>4, CallMoves
  <2>12. BookOf' = BookOf BY <1>0, BookStays
  <2>13. Reg!See(r)
    <3>1. h \in Calling[r].for BY <2>5
    <3>2. Calling' = [Calling EXCEPT ![r] = Reg!Seen(Calling[r],
                        IF Calling[r].keys = {} THEN BookOf[h] ELSE Calling[r].keys)]
      BY <2>10, <2>11
    <3> QED BY <2>5, <2>8, <2>12, <3>1, <3>2 DEF Reg!See, Reg!In, Calls
  <2> QED BY <2>13 DEF Reg!RegistryNext
<1> QED BY <1>1, <1>2 DEF BeanToUpdate

\* What an update that has read its bean may still do.
LEMMA BeanSaveStep ==
  ASSUME Inv, NEW r \in Reqs, SaveBean(r) \/ SaveBeanInsert(r),
         UNCHANGED <<users, follows>>
  PROVE  Reg!RegistryNext \/ (BookOf' = BookOf /\ Calling' = Calling)
<1> DEFINE row == req[r].row  b == req[r].call.id
<1>0. /\ req[r].pc \in {"save", "upsert"} /\ req[r].call.op = "UpdateBean"
      /\ req[r].pc \in DbSteps /\ req[r].call.op \in RegistryOps
      /\ req[r].call.op \in BeanOps /\ req \in [Reqs -> Slot]
  BY DEF SaveBean, SaveBeanInsert, At, DbSteps, RegistryOps, BeanOps, Inv, SlotsTrue
<1>1. b \in BeanIds /\ row \in BeanRow /\ row # Absent
  BY <1>0, Targets, DirectoryAbsent DEF DbSteps, Inv, SlotsTrue, SlotTrue, SlotRow
<1>2. /\ Calls(r, "amend", "seen") /\ Calling[r].for = {BeanHolder(b)}
      /\ Calling[r].keys = BeanKeys(row)
  <2>1. KindOf(req[r].call.op) = "amend" BY <1>0 DEF KindOf
  <2>2. PhaseOf(req[r]) = "seen" BY <1>0 DEF PhaseOf
  <2>3. ForOf(req[r].call, req[r].as.id) = {BeanHolder(b)} BY <1>0 DEF ForOf, FollowOps
  <2>4. SlotKeys(req[r]) = BeanKeys(row) BY <1>0 DEF SlotKeys
  <2> QED BY <1>0, <2>1, <2>2, <2>3, <2>4, CallNow DEF Calls
<1>3. CASE Answer(r, 500) /\ UNCHANGED beans
  BY <1>0, <1>3, StepGivesUp
<1>4. CASE Goto(r, "upsert") /\ UNCHANGED beans
  <2> DEFINE s == HeldSlot(r, "upsert", row)
  <2>1. Moved(r, s) BY <1>0, <1>4, GotoSlot DEF DbSteps
  <2>2. /\ s.pc = "upsert" /\ s.call = req[r].call /\ s.as = req[r].as /\ s.row = row
        /\ s.pc \in DbSteps
    BY DEF HeldSlot, DbSteps
  <2> HIDE DEF s
  <2>3. RegistryCall(s) = RegistryCall(req[r])
    <3>1. PhaseOf(s) = PhaseOf(req[r]) BY <1>0, <2>2 DEF PhaseOf
    <3>2. SlotKeys(s) = SlotKeys(req[r]) BY <1>0, <2>2 DEF SlotKeys
    <3> QED BY <1>0, <2>2, <3>1, <3>2, PendingCall
  <2>4. Calling' = [Calling EXCEPT ![r] = Calling[r]] BY <2>1, <2>3, CallMoves
  <2>5. Calling = [q \in Reqs |-> Calling[q]] BY DEF Calling
  <2>6. Calling' = Calling BY <2>4, <2>5
  <2> QED BY <1>4, <2>6, BookStays
<1>5. CASE /\ ~NameTaken(row.name, b)
           /\ beans' = [beans EXCEPT ![b] = row] /\ Written(r, 200)
  <2>1. Reg!TellEffect(r, Tells(200, req[r].call.op)) BY <1>0, <1>5, EffectTells
  <2>2. Tells(200, req[r].call.op) = "amended" BY <1>0 DEF Tells
  <2>3. BeanEntry(row) = Calling[r].keys BY <1>1, <1>2 DEF BeanEntry
  <2>4. ~HeldIn(AllHolders \ {BeanHolder(b)}, Calling[r].keys)
    BY <1>1, <1>2, <1>5, BeanNameHeld DEF BeanKeys
  <2>5. BookOf' = [BookOf EXCEPT ![BeanHolder(b)] = Calling[r].keys]
    BY <1>1, <1>5, <2>3, BeanWritten
  <2>6. BeanHolder(b) \in Calling[r].for BY <1>2
  <2> QED BY <1>2, <2>1, <2>2, <2>4, <2>5, <2>6, StepAmends
<1> QED
  <2>1. CASE SaveBean(r) BY <1>3, <1>4, <1>5, <2>1 DEF SaveBean
  <2>2. CASE SaveBeanInsert(r) BY <1>3, <1>5, <2>2 DEF SaveBeanInsert
  <2> QED BY <2>1, <2>2

\* A bean that is there is struck; of one that is not the caller hears 500.
LEMMA BeanDeleteStep ==
  ASSUME Inv, NEW r \in Reqs, DeleteBeanRow(r), UNCHANGED <<users, follows>>
  PROVE  Reg!RegistryNext
<1> DEFINE b == req[r].call.id
<1>0. /\ req[r].pc = "delete" /\ req[r].call.op = "DeleteBean"
      /\ req[r].pc \in DbSteps /\ req[r].call.op \in RegistryOps /\ req[r].call.op \in BeanOps
  BY DEF DeleteBeanRow, At, DbSteps, RegistryOps, BeanOps
<1>1. b \in BeanIds BY <1>0, Targets DEF DbSteps
<1>2. Calls(r, "strike", "open") /\ Calling[r].for = {BeanHolder(b)}
  <2>1. KindOf(req[r].call.op) = "strike" BY <1>0 DEF KindOf
  <2>2. PhaseOf(req[r]) = "open" BY <1>0 DEF PhaseOf
  <2>3. ForOf(req[r].call, req[r].as.id) = {BeanHolder(b)} BY <1>0 DEF ForOf, FollowOps
  <2> QED BY <1>0, <2>1, <2>2, <2>3, CallNow DEF Calls
<1>3. CASE Answer(r, 500) /\ UNCHANGED beans
  BY <1>0, <1>3, StepGivesUp
<1>4. CASE beans[b] # Absent /\ beans' = [beans EXCEPT ![b] = Absent] /\ Written(r, 200)
  <2>1. Reg!TellEffect(r, Tells(200, req[r].call.op)) BY <1>0, <1>4, EffectTells
  <2>2. Tells(200, req[r].call.op) = "struck" BY <1>0 DEF Tells
  <2>3. BookOf' = [BookOf EXCEPT ![BeanHolder(b)] = BeanEntry(Absent)]
    BY <1>1, <1>4, BeanWritten
  <2>4. BeanEntry(Absent) = {} BY DEF BeanEntry
  <2>5. BookOf[BeanHolder(b)] # {} BY <1>1, <1>4, BookNow DEF BeanKeys
  <2>6. BeanHolder(b) \in Calling[r].for BY <1>2
  <2> QED BY <1>2, <2>1, <2>2, <2>3, <2>4, <2>5, <2>6, StepStrikes
<1> QED BY <1>3, <1>4 DEF DeleteBeanRow

-----------------------------------------------------------------------------
(***************************************************************************)
(* Arrivals, answers on their way out, failures, and requests about        *)
(* something else.                                                         *)
(***************************************************************************)
Nothing == BookOf' = BookOf /\ Calling' = Calling

\* A caller that was free asks, or hears at once that nothing came of it.
Begins(x, ask) == x = Reg!Open(ask) \/ x = Reg!Answered(ask.op, "none")
OneCall(r, x)  == Calling' = [Calling EXCEPT ![r] = x]

LEMMA StepBegins ==
  ASSUME NEW r \in Reqs, Calling[r].phase = "free", BookOf' = BookOf,
         NEW ask \in RegistryAsks, NEW x, OneCall(r, x), Begins(x, ask)
  PROVE  Reg!RegistryNext
<1>1. x \in Reg!Beginnings BY DEF Reg!Beginnings, Begins
<1>2. Calling'[r] = x BY DEF OneCall, Calling
<1>3. Calling' = [Calling EXCEPT ![r] = Calling'[r]] BY <1>2 DEF OneCall
<1>4. Reg!Begin(r) BY <1>1, <1>2, <1>3 DEF Reg!Begin
<1> QED BY <1>4 DEF Reg!RegistryNext

AskOf(c, u) == [op |-> KindOf(c.op), for |-> ForOf(c, u), keys |-> AskedKeys(c, u)]

LEMMA AskMade ==
  ASSUME Inv, NEW c \in offered.calls, c.op \in RegistryOps, NEW u \in UserIds
  PROVE  AskOf(c, u) \in RegistryAsks
BY DEF AskOf, RegistryAsks, Inv, SettingsOK

\* What a registration asks is nothing of any account.
LEMMA AskOfNobody ==
  ASSUME NEW c, c.op = "Register", NEW u, NEW v
  PROVE  AskOf(c, u) = AskOf(c, v)
BY DEF AskOf, ForOf, AskedKeys, FollowOps

\* A request that comes to its first statement asks what its body says.
LEMMA FirstKeys ==
  ASSUME NEW s, s.call.op \in RegistryOps,
         \/ s.pc \in {"find", "delete"}
         \/ s.pc = "insert" /\ s.call.op = "Follow"
         \/ s.pc = "insert" /\ s.call.op = "Register" /\ s.row = NewUser(s.call.body)
         \/ s.pc = "insert" /\ s.call.op = "CreateBean" /\ s.row = NewBean(s.call.body)
  PROVE  SlotKeys(s) = AskedKeys(s.call, s.as.id)
<1>1. CASE s.pc \in {"find", "delete"} BY <1>1 DEF SlotKeys
<1>2. CASE s.pc = "insert" /\ s.call.op = "Follow"
  BY <1>2 DEF SlotKeys, AskedKeys
<1>3. CASE s.pc = "insert" /\ s.call.op = "Register" /\ s.row = NewUser(s.call.body)
  <2>1. s.row.name = s.call.body.name /\ s.row.email = s.call.body.email
    <3>1. \A b : NewUser(b).name = b.name /\ NewUser(b).email = b.email BY DEF NewUser
    <3> QED BY <1>3, <3>1
  <2>2. AccountKeys(s.row) = AccountKeys(s.call.body) BY <2>1 DEF AccountKeys
  <2> QED BY <1>3, <2>2 DEF SlotKeys, AskedKeys
<1>4. CASE s.pc = "insert" /\ s.call.op = "CreateBean" /\ s.row = NewBean(s.call.body)
  <2>1. s.row.name = s.call.body.name
    <3>1. \A b : NewBean(b).name = b.name BY DEF NewBean
    <3> QED BY <1>4, <3>1
  <2>2. BeanKeys(s.row) = BeanKeys(s.call.body) BY <2>1 DEF BeanKeys
  <2> QED BY <1>4, <2>2 DEF SlotKeys, AskedKeys
<1> QED BY <1>1, <1>2, <1>3, <1>4

LEMMA RejectStep ==
  ASSUME Inv, NEW r \in Reqs, req[r].pc = "idle", NEW c \in offered.calls,
         NEW as \in Claims \cup {Nobody}, NEW status \in {400, 401, 403, 422, 500},
         Reject(r, c, as, status), UNCHANGED <<users, beans, follows>>
  PROVE  Reg!RegistryNext \/ Nothing
<1> DEFINE s == [pc |-> "done", call |-> c, as |-> as, row |-> Absent,
                 status |-> status, wrote |-> FALSE]
<1>0. c \in Call /\ req \in [Reqs -> Slot] /\ status \in Nat
  BY OfferedCalls DEF Inv, SettingsOK, SlotsTrue
<1>1. Moved(r, s) BY <1>0, RejectSlot
<1>2. s.pc = "done" /\ s.call = c /\ s.status = status OBVIOUS
<1> HIDE DEF s
<1>3. BookOf' = BookOf BY BookStays
<1>4. ~IsEntry(req[r]) BY DEF IsEntry
<1>5. CASE c.op \notin RegistryOps
  <2>1. ~IsEntry(s) BY <1>2, <1>5 DEF IsEntry
  <2> QED BY <1>1, <1>3, <1>4, <2>1, OtherUnseen DEF Nothing
<1>6. CASE c.op \in RegistryOps
  <2>1. 1 \in UserIds BY DirectoryBounds DEF UserIds
  <2>2. AskOf(c, 1) \in RegistryAsks /\ AskOf(c, 1).op = KindOf(c.op)
    BY <1>6, <2>1, AskMade DEF AskOf
  <2>3. RegistryCall(s) = Reg!Answered(KindOf(c.op), Tells(status, c.op))
    BY <1>2, <1>6, AnsweredCall
  <2>4. Tells(status, c.op) = "none" BY DEF Tells
  <2>5. Calling' = [Calling EXCEPT ![r] = RegistryCall(s)]
        /\ Calling[r] = RegistryCall(req[r])
    BY <1>1, CallMoves
  <2>6. Calling[r].phase = "free" BY <1>4, <2>5, FreeCall DEF Reg!Free
  <2>7. PICK ask \in RegistryAsks : ask.op = KindOf(c.op) BY <2>2
  <2>8. Begins(RegistryCall(s), ask) BY <2>3, <2>4, <2>7 DEF Begins
  <2>9. OneCall(r, RegistryCall(s)) BY <2>5 DEF OneCall
  <2> QED BY <1>3, <2>6, <2>8, <2>9, StepBegins
<1> QED BY <1>5, <1>6

LEMMA EnterStep ==
  ASSUME Inv, NEW r \in Reqs, req[r].pc = "idle", NEW c \in offered.calls,
         NEW t \in Claims \cup {Nobody}, c.op \in RegistryOps \ {"Register"} => t \in Claims,
         NEW pc \in {"find", "delete", "insert"}, NEW row \in AnyRow,
         \/ pc \in {"find", "delete"}
         \/ pc = "insert" /\ c.op \in {"Follow", "CreateRecipe"}
         \/ pc = "insert" /\ c.op = "Register" /\ row = NewUser(c.body)
         \/ pc = "insert" /\ c.op = "CreateBean" /\ row = NewBean(c.body),
         Enter(r, c, t, pc, row), UNCHANGED <<users, beans, follows>>
  PROVE  Reg!RegistryNext \/ Nothing
<1> DEFINE s == [pc |-> pc, call |-> c, as |-> t, row |-> row, status |-> 0,
                 wrote |-> FALSE]
<1>0. c \in Call /\ req \in [Reqs -> Slot] /\ pc \in DbSteps
  BY OfferedCalls DEF Inv, SettingsOK, SlotsTrue, DbSteps
<1>1. Moved(r, s) BY <1>0, EnterSlot
<1>2. s.pc = pc /\ s.call = c /\ s.as = t /\ s.row = row OBVIOUS
<1> HIDE DEF s
<1>3. BookOf' = BookOf BY BookStays
<1>4. ~IsEntry(req[r]) BY DEF IsEntry
<1>5. CASE c.op \notin RegistryOps
  <2>1. ~IsEntry(s) BY <1>2, <1>5 DEF IsEntry
  <2> QED BY <1>1, <1>3, <1>4, <2>1, OtherUnseen DEF Nothing
<1>6. CASE c.op \in RegistryOps
  <2>1. PICK u \in UserIds : AskOf(c, u) = AskOf(c, t.id)
    <3>1. CASE c.op = "Register"
      <4>1. 1 \in UserIds BY DirectoryBounds DEF UserIds
      <4> QED BY <3>1, <4>1, AskOfNobody
    <3>2. CASE c.op # "Register"
      <4>1. t.id \in UserIds BY <1>6, <3>2 DEF Claims
      <4> QED BY <4>1
    <3> QED BY <3>1, <3>2
  <2>2. AskOf(c, t.id) \in RegistryAsks BY <1>6, <2>1, AskMade
  <2>3. SlotKeys(s) = AskedKeys(c, t.id)
    <3>1. c.op # "CreateRecipe"
      BY <1>6 DEF RegistryOps, FollowOps, BeanOps
    <3> QED BY <1>2, <1>6, <3>1, FirstKeys
  <2>4. PhaseOf(s) = "open" BY <1>2 DEF PhaseOf
  <2>5. Begins(RegistryCall(s), AskOf(c, t.id))
    BY <1>0, <1>2, <1>6, <2>3, <2>4, PendingCall DEF Reg!Open, AskOf, Begins
  <2>6. Calling' = [Calling EXCEPT ![r] = RegistryCall(s)]
        /\ Calling[r] = RegistryCall(req[r])
    BY <1>1, CallMoves
  <2>7. Calling[r].phase = "free" BY <1>4, <2>6, FreeCall DEF Reg!Free
  <2>8. OneCall(r, RegistryCall(s)) BY <2>6 DEF OneCall
  <2> QED BY <1>3, <2>2, <2>5, <2>7, <2>8, StepBegins
<1> QED BY <1>5, <1>6

LEMMA ArriveStep ==
  ASSUME Inv, NEW r \in Reqs, Arrive(r)
  PROVE  Reg!RegistryNext \/ Nothing
<1>1. PICK c \in offered.calls, t \in live \cup {Nobody} :
        AuthRequired(r, c, t) \/ RequireRole(r, c, t) \/ Accepted(r, c, t)
  BY DEF Arrive
<1>2. /\ c \in Call /\ c.body \in Body /\ t \in Claims \cup {Nobody}
      /\ Nobody \in Claims \cup {Nobody} /\ req[r].pc = "idle"
      /\ UNCHANGED <<users, beans, follows>>
  BY OfferedCalls DEF Inv, SettingsOK, Call, TokensTrue, TokenTrue, Arrive, tables
<1>3. CASE AuthRequired(r, c, t)
  BY <1>2, <1>3, RejectStep DEF AuthRequired
<1>4. CASE RequireRole(r, c, t)
  BY <1>2, <1>4, RejectStep DEF RequireRole
<1>5. CASE Accepted(r, c, t)
  <2>0. c.op \in RegistryOps \ {"Register"} => t \in Claims
    BY <1>5 DEF Accepted, Admitted, RegistryOps, TokenOps, Inv, TokensTrue, TokenTrue
  <2>1. CASE \E status \in {400, 422, 500} : Reject(r, c, t, status)
    BY <1>2, <2>1, RejectStep
  <2>2. CASE Enter(r, c, t, "find", Absent)
    BY <1>2, <2>0, <2>2, EnterStep DEF AnyRow
  <2>3. CASE Enter(r, c, t, "delete", Absent)
    BY <1>2, <2>0, <2>3, EnterStep DEF AnyRow
  <2>4. CASE Enter(r, c, t, "insert", Absent) /\ c.op = "Follow"
    BY <1>2, <2>0, <2>4, EnterStep DEF AnyRow
  <2>5. CASE Enter(r, c, t, "insert", NewUser(c.body)) /\ c.op = "Register"
    <3>1. NewUser(c.body) \in AnyRow BY <1>2, NewRows DEF AnyRow
    <3> QED BY <1>2, <2>0, <2>5, <3>1, EnterStep
  <2>6. CASE /\ Enter(r, c, t, "insert", NewBean(c.body))
             /\ c.op = "CreateBean" /\ c.body.process \in Processes
    <3>1. NewBean(c.body) \in AnyRow BY <1>2, <2>6, NewRows DEF AnyRow
    <3> QED BY <1>2, <2>0, <2>6, <3>1, EnterStep
  <2>7. CASE Enter(r, c, t, "insert", NewRecipe(t, c.body)) /\ c.op = "CreateRecipe"
    <3>1. t \in Claims
      BY <1>5, <2>7 DEF Accepted, Admitted, TokenOps, Inv, TokensTrue, TokenTrue
    <3>2. NewRecipe(t, c.body) \in AnyRow BY <1>2, <3>1, NewRows DEF AnyRow
    <3> QED BY <1>2, <2>0, <2>7, <3>2, EnterStep
  <2> QED
    BY <1>2, <1>5, <2>1, <2>2, <2>3, <2>4, <2>5, <2>6, <2>7, ArrivalShape DEF Accepted
<1> QED BY <1>1, <1>3, <1>4, <1>5

\* A request keeps its call to the end.
LEMMA CallKept ==
  ASSUME Inv, NEW r \in Reqs, Progress(r), ~InsertUser(r)
  PROVE  req'[r].call = req[r].call
<1>0. req \in [Reqs -> Slot] BY DEF Inv, SlotsTrue
<1>1. ASSUME NEW status \in Nat, Answer(r, status) \/ Written(r, status)
      PROVE  req'[r].call = req[r].call
  <2>1. PICK st \in {status, 500}, w \in BOOLEAN : Finish(r, st, w)
    BY <1>1 DEF Answer, Written, Outcomes
  <2> QED BY <2>1, AnswerMoves DEF Moved
<1>2. ASSUME LoginFind(r) PROVE req'[r].call = req[r].call
  <2>1. CASE Answer(r, 401) BY <1>1, <2>1
  <2>2. ASSUME NEW u, NEW row, NEW w \in BOOLEAN, AnswerWithToken(r, 200, w, u, row)
        PROVE  req'[r].call = req[r].call
    BY <1>0, <2>2, ZenonT(60) DEF AnswerWithToken, Slot
  <2> QED BY <1>2, <2>1, <2>2 DEF LoginFind
<1>3. ASSUME NEW pc, Goto(r, pc) PROVE req'[r].call = req[r].call
  BY <1>0, <1>3 DEF Goto, Slot
<1>4. ASSUME NEW row, Hold(r, "save", row) PROVE req'[r].call = req[r].call
  BY <1>0, <1>4 DEF Hold, Slot
<1> QED BY <1>1, <1>2, <1>3, <1>4, ProgressShape

\* A statement of a request about something else.
LEMMA OtherProgress ==
  ASSUME Inv, Inv', NEW r \in Reqs, Progress(r), req[r].call.op \notin RegistryOps,
         BookOf' = BookOf
  PROVE  Nothing
<1>1. ~InsertUser(r) BY DEF InsertUser, At, RegistryOps
<1>2. req'[r].call = req[r].call BY <1>1, CallKept
<1> DEFINE s == req'[r]
<1>3. Moved(r, s) BY OthersKept DEF Inv, SlotsTrue, Moved
<1>4. ~IsEntry(req[r]) /\ ~IsEntry(s) BY <1>2 DEF IsEntry
<1> HIDE DEF s
<1> QED BY <1>3, <1>4, OtherUnseen DEF Nothing

\* A profile update writes the name and the email back that the row has.
LEMMA SaveUserBook ==
  ASSUME Inv, NEW r \in Reqs, SaveUser(r), UNCHANGED <<beans, follows>>
  PROVE  BookOf' = BookOf
<1> DEFINE u == req[r].as.id  row == req[r].row  h == UserHolder(u)
           new == users'
<1>1. /\ req[r].pc = "save" /\ req[r].pc \in DbSteps
      /\ req[r].call.op = "UpdateProfile" /\ req[r].call.op \in TokenOps
  BY DEF SaveUser, At, DbSteps, TokenOps
<1>2. /\ u \in UserIds /\ row \in UserRow /\ row # Absent
      /\ users[u] # Absent /\ SameAccount(users[u], row)
  BY <1>1, Speaker, DirectoryAbsent DEF Inv, SlotsTrue, SlotTrue, SlotRow
<1>3. new[u] = row /\ OneRow(UserIds, users, new, u)
  BY <1>2 DEF SaveUser, Inv, TablesOK, OneRow
<1>4. AccountEntry(new[u]) = BookOf[h]
  <2>1. AccountKeys(row) = AccountKeys(users[u]) BY <1>2 DEF SameAccount, AccountKeys
  <2>2. BookOf[h] = AccountKeys(users[u]) BY <1>2, BookNow
  <2> QED BY <1>2, <1>3, <2>1, <2>2 DEF AccountEntry
<1> HIDE DEF u, row, h, new
<1>5. BookIn(new, beans, follows) =
        BookWith(users, beans, follows, UserHolder(u), AccountEntry(new[u]))
  BY <1>2, <1>3, BookOfAccount
<1>6. BookOf' = [BookOf EXCEPT ![h] = BookOf[h]]
  BY <1>4, <1>5, BookNext DEF BookOf, BookWith, new, h
<1>7. BookOf = [k \in AllHolders |-> BookOf[k]] BY BookIsFunction DEF BookOf
<1> HIDE DEF BookOf
<1> QED BY <1>6, <1>7

LEMMA ProgressStep ==
  ASSUME Inv, BeansBySequence, Inv', NEW r \in Reqs, Progress(r)
  PROVE  Reg!RegistryNext \/ Nothing
<1>1. CASE UserProgress(r) /\ UNCHANGED <<follows, beanVars, recipeVars>>
  <2>0. UNCHANGED <<beans, follows>> BY <1>1 DEF beanVars
  <2>1. CASE InsertUser(r) BY <2>0, <2>1, AccountStep
  <2>2. CASE SaveUser(r)
    <3>1. req[r].call.op \notin RegistryOps
      BY <2>2 DEF SaveUser, At, RegistryOps, FollowOps, BeanOps
    <3> QED BY <2>0, <2>2, <3>1, SaveUserBook, OtherProgress
  <2>3. CASE \/ LoginFind(r) \/ GetByID(r) \/ ProfileToUpdate(r)
             \/ ProfileFind(r) \/ ProfileStats(r)
    <3>1. req[r].call.op \in {"Login", "GetMe", "UpdateProfile", "Profile"}
          /\ UNCHANGED users
      BY <2>3
      DEF LoginFind, GetByID, ProfileToUpdate, ProfileFind, ProfileStats, At, userVars
    <3>2. req[r].call.op \notin RegistryOps BY <3>1 DEF RegistryOps, FollowOps, BeanOps
    <3> QED BY <2>0, <3>1, <3>2, BookStays, OtherProgress
  <2> QED BY <1>1, <2>1, <2>2, <2>3 DEF UserProgress
<1>2. CASE FollowProgress(r) /\ UNCHANGED <<userVars, beanVars, recipeVars, fresh>>
  <2>1. UNCHANGED <<users, beans>> BY <1>2 DEF userVars, beanVars
  <2> QED BY <1>2, <2>1, FollowStep
<1>3. CASE BeanProgress(r) /\ UNCHANGED <<userVars, follows, recipeVars>>
  <2>1. UNCHANGED <<users, follows>> BY <1>3 DEF userVars
  <2> QED
    BY <1>3, <2>1, BeanCreateStep, BeanFindStep, BeanSaveStep, BeanDeleteStep
    DEF BeanProgress, Nothing
<1>4. CASE RecipeProgress(r) /\ UNCHANGED <<userVars, follows, beanVars, fresh>>
  <2>1. UNCHANGED <<users, beans, follows>> BY <1>4 DEF userVars, beanVars
  <2>2. req[r].call.op \in {"CreateRecipe", "GetRecipe"}
    BY <1>4 DEF RecipeProgress, InsertRecipe, RecipeFind, At
  <2>3. req[r].call.op \notin RegistryOps BY <2>2 DEF RegistryOps, FollowOps, BeanOps
  <2> QED BY <2>1, <2>3, BookStays, OtherProgress
<1> QED BY <1>1, <1>2, <1>3, <1>4 DEF Progress

\* The answer reaches the client.
LEMMA ReplyStep ==
  ASSUME Inv, NEW r \in Reqs, Reply(r)
  PROVE  Reg!RegistryNext \/ Nothing
<1>0. req \in [Reqs -> Slot] /\ req[r].pc = "done" /\ UNCHANGED <<users, beans, follows>>
  BY DEF Inv, SlotsTrue, Reply, tables
<1>1. Moved(r, Idle) BY <1>0, IdleTrue DEF Reply, Moved
<1>2. ~IsEntry(Idle) BY DEF IsEntry, Idle
<1>3. BookOf' = BookOf BY <1>0, BookStays
<1>4. CASE ~IsEntry(req[r]) BY <1>1, <1>2, <1>3, <1>4, OtherUnseen DEF Nothing
<1>5. CASE IsEntry(req[r])
  <2>1. Calling[r] = RegistryCall(req[r])
        /\ Calling' = [Calling EXCEPT ![r] = RegistryCall(Idle)]
    BY <1>1, CallMoves
  <2>2. RegistryCall(Idle) = Reg!Free BY <1>2, FreeCall
  <2>3. Calling[r].phase = "done"
    BY <1>0, <1>5, <2>1, AnsweredCall DEF IsEntry, Reg!Answered
  <2>4. Reg!End(r) BY <1>3, <2>1, <2>2, <2>3 DEF Reg!End
  <2> QED BY <2>4 DEF Reg!RegistryNext
<1> QED BY <1>4, <1>5

\* A statement that fails before it took effect has changed nothing, and the
\* caller is not told that it has.
LEMMA StatementFailsStep ==
  ASSUME Inv, NEW r \in Reqs, StatementFails(r)
  PROVE  Reg!RegistryNext \/ Nothing
<1>0. req[r].pc \in DbSteps /\ UNCHANGED <<users, beans, follows>>
  BY DEF StatementFails, tables
<1>1. CASE req[r].call.op \in RegistryOps
  <2>1. req[r].pc # "stats"
    BY <1>1 DEF Inv, SlotsTrue, SlotTrue, SlotRow, RegistryOps, FollowOps, BeanOps
  <2>2. Answer(r, 500) BY <2>1 DEF StatementFails
  <2> QED BY <1>0, <1>1, <2>2, StepGivesUp
<1>2. CASE req[r].call.op \notin RegistryOps
  <2>1. PICK status \in Nat : Answer(r, status) BY DEF StatementFails
  <2>2. PICK s : Moved(r, s) /\ s.call = req[r].call
    <3>1. \E w \in BOOLEAN : Finish(r, status, w) BY <2>1 DEF Answer
    <3> QED BY <3>1, AnswerMoves
  <2>3. ~IsEntry(req[r]) /\ ~IsEntry(s) BY <1>2, <2>2 DEF IsEntry
  <2> QED BY <1>0, <2>2, <2>3, OtherUnseen, BookStays DEF Nothing
<1> QED BY <1>1, <1>2

-----------------------------------------------------------------------------
(***************************************************************************)
(* The refinement.                                                         *)
(***************************************************************************)
\* Nobody calls when every slot is free.
LEMMA NobodyCalls ==
  ASSUME req' = [r \in Reqs |-> Idle]
  PROVE  Calling' = [r \in Reqs |-> Reg!Free]
<1>1. RegistryCall(Idle) = Reg!Free BY FreeCall DEF IsEntry, Idle
<1>2. ASSUME NEW q \in Reqs PROVE RegistryCall(req[q])' = RegistryCall(req'[q])
  BY DEF RegistryCall, KindOf, ForOf, AskedKeys, SlotKeys, Tells, AccountKeys, BeanKeys,
    UserHolders, BeanHolders, UserHolder, BeanHolder, Pair, Name, Email, BeanName
<1>3. Calling' = [q \in Reqs |-> RegistryCall(req'[q])] BY <1>2 DEF Calling
<1>4. \A q \in Reqs : req'[q] = Idle OBVIOUS
<1> HIDE DEF Idle
<1> QED BY <1>1, <1>3, <1>4

LEMMA RegistryStart ==
  ASSUME Init
  PROVE  Reg!RegistryInit
<1>1. BookOf = BookIn(SeededUsers, SeededBeans, {}) BY DEF Init, BookOf
<1>2. RegistryCall(Idle) = Reg!Free BY FreeCall DEF IsEntry, Idle
<1>3. \A r \in Reqs : req[r] = Idle BY DEF Init
<1>4. Calling = [r \in Reqs |-> Reg!Free] BY <1>2, <1>3 DEF Calling
<1> QED BY <1>1, <1>4 DEF Reg!RegistryInit

LEMMA RegistryStep ==
  ASSUME Inv, BeansBySequence, [Next]_vars
  PROVE  [Reg!RegistryNext]_(Reg!registryVars)
<1> SUFFICES Reg!RegistryNext \/ Nothing BY DEF Reg!registryVars, Nothing
<1>0. Inv' BY NextInv
<1>1. ASSUME NEW r \in Reqs, Arrive(r) \/ Progress(r) \/ Reply(r) \/ StatementFails(r)
      PROVE  Reg!RegistryNext \/ Nothing
  BY <1>0, <1>1, ArriveStep, ProgressStep, ReplyStep, StatementFailsStep
<1>2. CASE Restart
  <2>1. BookOf' = BookOf BY <1>2, BookStays DEF Restart, tables
  <2>2. Calling' = [r \in Reqs |-> Reg!Free] BY <1>2, NobodyCalls DEF Restart
  <2> QED BY <2>1, <2>2 DEF Reg!RegistryNext, Reg!Forget
<1>3. CASE Reset
  <2>1. BookOf' = BookIn(SeededUsers, SeededBeans, {}) BY <1>3, BookNext DEF Reset
  <2>2. Calling' = [r \in Reqs |-> Reg!Free] BY <1>3, NobodyCalls DEF Reset
  <2> QED BY <2>1, <2>2 DEF Reg!RegistryNext, Reg!Renew
<1>4. CASE UNCHANGED vars
  <2>1. UNCHANGED <<users, beans, follows, req>> BY <1>4 DEF vars
  <2>2. Calling' = Calling
    BY <2>1 DEF Calling, RegistryCall, KindOf, ForOf, AskedKeys, SlotKeys, Tells,
      AccountKeys, BeanKeys, UserHolders, BeanHolders, UserHolder, BeanHolder, Pair,
      Name, Email, BeanName
  <2> QED BY <2>1, <2>2, BookStays DEF Nothing
<1> QED BY <1>1, <1>2, <1>3, <1>4 DEF Next

\* The services, with their statements, failures, restarts and resets, keep
\* the promises of the registry for any workloads, requests and bounds: what
\* 201, 409, 404 and 200 say was so at one instant of the request, no name,
\* email or follow is ever held twice, and no other request moves a key.
THEOREM DirectoryImplementsRegistry == Spec => ImplementsRegistry
<1>1. ASSUME Inv, BeansBySequence, [Next]_vars
      PROVE  [Reg!RegistryNext]_(Reg!registryVars)
  BY <1>1, RegistryStep
<1>2. Init => BeansBySequence
  <2> SUFFICES ASSUME Init PROVE BeansBySequence OBVIOUS
  <2>1. \A r \in Reqs : req[r].pc = "idle" BY DEF Init, Idle
  <2> QED BY <2>1 DEF Init, SeededBeans, BeansBySequence
<1> QED BY <1>1, <1>2, RegistryStart, BeansBySequenceInv, Invariance, PTL
        DEF Spec, ImplementsRegistry, Reg!RegistrySpec
=============================================================================
