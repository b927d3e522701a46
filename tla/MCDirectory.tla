----------------------------- MODULE MCDirectory -----------------------------
(***************************************************************************)
(* Workloads for TLC: each behaviour serves the calls of one of them, so   *)
(* that the races of one part of the directory happen in a small instance. *)
(* Every workload can log the seeded admin in or register a user: that is  *)
(* the only way to a token.                                                *)
(***************************************************************************)
EXTENDS DirectoryRegistry, TLC

CONSTANTS r1, r2

TwoReqs  == {r1, r2}
Symmetry == Permutations(Reqs)

Blank == [name |-> "", email |-> "", pw |-> "", bio |-> "", avatar |-> "",
          process |-> "", tags |-> ""]

Ask(op, id, b) == [op |-> op, id |-> id, ok |-> TRUE, body |-> b]
Bad(op)        == [Ask(op, 1, Blank) EXCEPT !.ok = FALSE]

Account(n, m) == [Blank EXCEPT !.name = n, !.email = m, !.pw = "secret"]
Bean(n, t)    == [Blank EXCEPT !.name = n, !.process = "washed", !.tags = t]

AdminLogin == Ask("Login", 1, Account("admin", ""))
BobLogin   == Ask("Login", 1, Account("bob", ""))
NewBob     == Ask("Register", 1, Account("bob", "bob@mail"))
Profiles   == {Ask("UpdateProfile", 1, [Blank EXCEPT !.bio = "b"]),
               Ask("UpdateProfile", 1, [Blank EXCEPT !.avatar = "a"])}

\* Names and emails two clients want at once, and profiles saved at once.
AccountCalls ==
  {AdminLogin, NewBob, Ask("Register", 1, Account("rob", "bob@mail"))} \cup Profiles

\* Follows, one of them of an id nobody has yet.
FollowCalls ==
  {AdminLogin, NewBob} \cup {Ask(op, u, Blank) : op \in FollowOps, u \in 1..2}

\* Admins, and one who is not, at the beans: renames, deletes, re-creation.
BeanCalls ==
  {AdminLogin, NewBob, Ask("CreateBean", 1, Bean("yirga", "")),
   Ask("CreateBean", 1, Bean("sidamo", "")),
   Ask("UpdateBean", 1, Bean("yirga", "")), Ask("UpdateBean", 2, Bean("sidamo", "[]"))}
  \cup {Ask("DeleteBean", b, Blank) : b \in 1..2}

\* Tokens older than the database they are used on.
RecipeCalls ==
  {NewBob, BobLogin, Ask("CreateRecipe", 1, Blank), Ask("GetRecipe", 1, Blank),
   Ask("UpdateProfile", 1, [Blank EXCEPT !.bio = "b"]), Ask("GetMe", 1, Blank)}

\* The refusals: bodies that do not bind, and those the services turn away;
\* and an update that names no name.
RefusedCalls ==
  {AdminLogin, Ask("Register", 1, [Account("bob", "m") EXCEPT !.pw = "long"]),
   Ask("CreateBean", 1, [Bean("yirga", "") EXCEPT !.process = "fried"]),
   Ask("UpdateBean", 1, [Bean("yirga", "") EXCEPT !.process = "fried"]),
   Ask("CreateBean", 1, Bean("yirga", "nutty")), Ask("UpdateBean", 1, Bean("yirga", "nutty")),
   Ask("UpdateBean", 1, Bean("", "[]")),
   Ask("CreateRecipe", 1, [Blank EXCEPT !.tags = "nutty"])}
  \cup {Ask("Profile", u, Blank) : u \in 1..2}
  \cup {Bad(op) : op \in (UserOps \ {"GetMe"}) \cup FollowOps \cup BeanOps \cup RecipeOps}

Serving(cs)   == [calls |-> cs, resets |-> 0, faults |-> FALSE]
Resetting(cs) == [calls |-> cs, resets |-> 1, faults |-> TRUE]
Failing(cs)   == [calls |-> cs, resets |-> 0, faults |-> TRUE]

AllWorkloads ==
  {Serving(AccountCalls), Failing(BeanCalls), Failing(FollowCalls), Failing(RefusedCalls),
   Resetting(RecipeCalls)}
=============================================================================
