-------------------------- MODULE DirectoryRegistry --------------------------
(***************************************************************************)
(* The services implement the registry.  The holders are the ids of users  *)
(* and of beans and the pairs of users; a row of users holds its name and  *)
(* its email, a row of coffee_beans its name, a row of user_follows        *)
(* itself.  A call is the request slot that serves it.  Requests that are  *)
(* about none of this are free callers: they must leave the book alone,    *)
(* the profile update that writes name and email back included.            *)
(***************************************************************************)
EXTENDS Directory

UserHolder(u) == <<"user", u>>
BeanHolder(b) == <<"bean", b>>
Pair(f, t)    == <<"pair", <<f, t>>>>
UserHolders == {UserHolder(u) : u \in UserIds}
BeanHolders == {BeanHolder(b) : b \in BeanIds}
Pairs       == {Pair(f, t) : f \in UserIds, t \in UserIds}
AllHolders  == UserHolders \cup BeanHolders \cup Pairs

Name(n)     == <<"name", n>>
Email(m)    == <<"email", m>>
BeanName(n) == <<"beanname", n>>

AccountKeys(row) == {Name(row.name), Email(row.email)}
BeanKeys(row)    == {BeanName(row.name)}

\* What a holder holds in given tables.
KeysIn(h, us, bs, fs) ==
  CASE h[1] = "user" -> IF us[h[2]] = Absent THEN {} ELSE AccountKeys(us[h[2]])
    [] h[1] = "bean" -> IF bs[h[2]] = Absent THEN {} ELSE BeanKeys(bs[h[2]])
    [] OTHER         -> IF h[2] \in fs THEN {h} ELSE {}

BookIn(us, bs, fs) == [h \in AllHolders |-> KeysIn(h, us, bs, fs)]
BookOf == BookIn(users, beans, follows)

\* What a call asks, of the account u its token speaks for.
RegistryOps == {"Register"} \cup FollowOps \cup BeanOps

KindOf(op) == CASE op \in {"Register", "CreateBean", "Follow"} -> "enter"
                [] op = "UpdateBean" -> "amend"
                [] OTHER -> "strike"

ForOf(c, u) == CASE c.op = "Register"   -> UserHolders
                 [] c.op = "CreateBean" -> BeanHolders
                 [] c.op \in FollowOps  -> {Pair(u, c.id)}
                 [] OTHER               -> {BeanHolder(c.id)}

AskedKeys(c, u) == CASE c.op = "Register"   -> AccountKeys(c.body)
                     [] c.op = "CreateBean" -> BeanKeys(c.body)
                     [] c.op = "Follow"     -> {Pair(u, c.id)}
                     [] c.op = "UpdateBean" /\ c.body.name # "" -> BeanKeys(c.body)
                     [] OTHER               -> {}

\* A request with its row at hand is about the keys of that row.
SlotKeys(s) ==
  IF s.pc \in {"insert", "save", "upsert"}
  THEN CASE s.call.op = "Register" -> AccountKeys(s.row)
         [] s.call.op = "Follow"   -> {Pair(s.as.id, s.call.id)}
         [] OTHER                  -> BeanKeys(s.row)
  ELSE AskedKeys(s.call, s.as.id)

\* What the status of an answered call tells the caller.  An update that
\* finds its name taken and a delete of a bean that is not there end in 500.
Tells(status, op) == CASE status = 201 -> "entered"
                       [] status = 409 -> "taken"
                       [] status = 200 /\ op = "UpdateBean" -> "amended"
                       [] status = 200 /\ op # "UpdateBean" -> "struck"
                       [] status = 404 -> "absent"
                       [] OTHER -> "none"

RegistryCall(s) ==
  IF s.pc = "idle" \/ s.call.op \notin RegistryOps
  THEN [op |-> "none", for |-> {}, keys |-> {}, phase |-> "free", told |-> "none"]
  ELSE IF s.pc = "done"
       THEN [op |-> KindOf(s.call.op), for |-> {}, keys |-> {},
             phase |-> "done", told |-> Tells(s.status, s.call.op)]
       ELSE [op |-> KindOf(s.call.op), for |-> ForOf(s.call, s.as.id), keys |-> SlotKeys(s),
             phase |-> IF s.pc \in {"save", "upsert"} THEN "seen" ELSE "open",
             told |-> "pending"]

RegistryAsks ==
  {[op |-> KindOf(c.op), for |-> ForOf(c, u), keys |-> AskedKeys(c, u)] :
     c \in {k \in UNION {w.calls : w \in Workloads} : k.op \in RegistryOps}, u \in UserIds}

Calling == [r \in Reqs |-> RegistryCall(req[r])]

Reg == INSTANCE Registry WITH
  Callers <- Reqs, Holders <- AllHolders, Asks <- RegistryAsks,
  Opening <- BookIn(SeededUsers, SeededBeans, {}), book <- BookOf, call <- Calling

\* Every behaviour of the services, seen through the mapping, is one of the
\* registry: 201, 409 and 404 are told of what was so at one moment of the
\* request, a name, an email or a follow is never taken by two, an update
\* that comes after a delete cannot take a name given to another since, and
\* no other request moves a key (user_service.go, bean_service.go,
\* follow_service.go).  A 500 leaves the caller unsure, but its call has taken
\* effect once or not at all.
ImplementsRegistry == Reg!RegistrySpec
=============================================================================
