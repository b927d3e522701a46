------------------------------- MODULE Startup -------------------------------
(***************************************************************************)
(* cmd/server: the life of the backend process.  It connects, migrates,    *)
(* seeds an empty database one INSERT at a time, serves, and drains when   *)
(* told to stop; it can die between any two steps, docker starts it again, *)
(* and an INSERT it had sent may still reach Postgres after it is dead.    *)
(***************************************************************************)
EXTENDS Naturals, FiniteSets

CONSTANTS
  Scripted,     \* how much of its seed init.sql may have left, see ASSUME
  MaxFaults,    \* how many steps may fail and crashes happen in all
  MaxOpen       \* HTTP requests in progress at once

VARIABLES
  proc,         \* where main is, "down" when there is no process
  next,         \* the INSERT seed sends next
  rows,         \* how many times each part of the seed is in the database
  orphans,      \* INSERTs of dead processes, not yet executed
  listening,    \* ListenAndServe accepts connections
  open,         \* HTTP requests in progress
  stopped,      \* the operator has stopped the container
  faults        \* faults so far

startupVars == <<proc, next, rows, orphans, listening, open, stopped, faults>>

\* The INSERTs of seed(), in their order.
\*   1 admin    2 barista  3 roaster  4 beans  5 recipes
\*   6 notes    7 comments 8 likes    9 follows
Parts == 1..9

\* Parts a unique index keeps from being there twice: usernames, bean names,
\* idx_like_user_note and the primary key of user_follows.
Unique == {1, 2, 3, 4, 8, 9}

\* init.sql inserts the three users at once, then part after part; Postgres
\* never runs it again, not even when the first run was cut short.
ASSUME StartupAssumption ==
  /\ Scripted \subseteq {0} \cup 3..9
  /\ MaxFaults \in Nat /\ MaxOpen \in Nat

Procs == {"down", "connect", "migrate", "count", "seed", "serve", "drain"}

Init ==
  /\ proc = "down" /\ next = 1
  /\ \E k \in Scripted : rows = [p \in Parts |-> IF p <= k THEN 1 ELSE 0]
  /\ orphans = {}
  /\ listening = FALSE /\ open = 0
  /\ stopped = FALSE /\ faults = 0

-----------------------------------------------------------------------------
\* The process is gone, with its connections.
Exit ==
  /\ proc' = "down"
  /\ listening' = FALSE
  /\ open' = 0

Advance(from, to) ==
  /\ proc = from
  /\ proc' = to
  /\ UNCHANGED <<rows, orphans, listening, open, stopped, faults>>

\* restart: unless-stopped
Boot == ~stopped /\ Advance("down", "connect") /\ UNCHANGED next

\* gorm.Open
Connect == Advance("connect", "migrate") /\ UNCHANGED next

\* AutoMigrate: it adds what is missing and touches no row.
Migrate == Advance("migrate", "count") /\ UNCHANGED next

\* Mutant: seed looks for the last thing it inserts.
MutSeeded == rows[9] > 0

\* count > 0, over the users
Seeded == rows[1] + rows[2] + rows[3] > 0

\* The query seed starts with, and its early return.
CountUsers ==
  /\ Advance("count", IF Seeded THEN "serve" ELSE "seed")
  /\ next' = 1

\* Mutant: no table has a unique index.
MutRefused(p) == FALSE

\* Postgres refuses an INSERT that repeats a key.
Refused(p) == p \in Unique /\ rows[p] > 0

Store(p) == rows' = [rows EXCEPT ![p] = @ + 1]

\* The part after which seed returns nil.
Last == 9

\* db.Create of one part.
Seed ==
  /\ proc = "seed"
  /\ ~Refused(next)
  /\ Store(next)
  /\ IF next = Last THEN proc' = "serve" /\ next' = next
                    ELSE proc' = "seed" /\ next' = next + 1
  /\ UNCHANGED <<orphans, listening, open, stopped, faults>>

\* Mutant: main logs that a step failed and serves all the same.
MutAbort == proc' = "serve" /\ UNCHANGED <<next, rows, listening, open, stopped>>

\* logger.Error and os.Exit(1)
Abort == Exit /\ UNCHANGED <<next, rows, stopped>>

\* The INSERT is refused.
SeedRefused ==
  /\ proc = "seed"
  /\ Refused(next)
  /\ Abort
  /\ UNCHANGED <<orphans, faults>>

\* The answer to the statement under way will not be read.  If it is an
\* INSERT, Postgres may execute it all the same, now or later.
Unheard ==
  \/ orphans' = orphans
  \/ proc = "seed" /\ orphans' = orphans \cup {next}

Fault == faults < MaxFaults /\ faults' = faults + 1

\* Mutant: seed goes on when an INSERT fails.
MutStepFails ==
  /\ Fault
  /\ IF proc = "seed" /\ next < Last
     THEN next' = next + 1 /\ UNCHANGED <<proc, rows, orphans, listening, open, stopped>>
     ELSE proc \in {"connect", "migrate", "count"} /\ Abort /\ Unheard

\* A step of main returns an error: no connection, a failed statement, the
\* port in use.
StepFails ==
  /\ \/ proc \in {"connect", "migrate", "count", "seed"}
     \/ proc = "serve" /\ ~listening
  /\ Fault
  /\ Abort
  /\ Unheard

\* The goroutine of ListenAndServe, which main does not wait for.
Listen ==
  /\ proc = "serve" /\ ~listening
  /\ listening' = TRUE
  /\ UNCHANGED <<proc, next, rows, orphans, open, stopped, faults>>

Accept ==
  /\ listening /\ open < MaxOpen
  /\ open' = open + 1
  /\ UNCHANGED <<proc, next, rows, orphans, listening, stopped, faults>>

Respond ==
  /\ open > 0
  /\ open' = open - 1
  /\ UNCHANGED <<proc, next, rows, orphans, listening, stopped, faults>>

-----------------------------------------------------------------------------
\* The process dies.
Die == Exit /\ Unheard /\ UNCHANGED <<next, rows>>

Crash == proc # "down" /\ Fault /\ Die /\ UNCHANGED stopped

\* An orphan is executed: refused if it repeats a key, committed otherwise.
Land(p) ==
  /\ p \in orphans
  /\ orphans' = orphans \ {p}
  /\ IF Refused(p) THEN rows' = rows ELSE Store(p)
  /\ UNCHANGED <<proc, next, listening, open, stopped, faults>>

\* docker stop: SIGTERM, which ends main where it does not listen for it yet,
\* and from then on starts the drain, with no new connection.
Stop ==
  /\ ~stopped
  /\ stopped' = TRUE
  /\ UNCHANGED faults
  /\ IF proc = "serve"
     THEN /\ proc' = "drain"
          /\ listening' = FALSE
          /\ UNCHANGED <<next, rows, orphans, open>>
     ELSE Die

\* docker start
Restart ==
  /\ stopped /\ proc = "down"
  /\ stopped' = FALSE
  /\ UNCHANGED <<proc, next, rows, orphans, listening, open, faults>>

\* Mutant: Shutdown gets a context without a deadline.
MutDrained == proc = "drain" /\ open = 0

\* srv.Shutdown returns: every request is answered, or five seconds are over.
Drained == proc = "drain"

Leave ==
  /\ Drained
  /\ Exit
  /\ UNCHANGED <<next, rows, orphans, stopped, faults>>

Main == Boot \/ Connect \/ Migrate \/ CountUsers \/ Seed \/ SeedRefused \/ Listen \/ Leave

Next ==
  \/ Main \/ StepFails \/ Crash \/ Stop \/ Restart
  \/ Accept \/ Respond
  \/ \E p \in Parts : Land(p)

\* main and docker go on; clients, operators and dead statements owe nothing.
Spec == Init /\ [][Next]_startupVars /\ WF_startupVars(Main)

-----------------------------------------------------------------------------
\* Types: main is at one of its steps, and each part of the seed is counted.
StartupTypeOK ==
  /\ proc \in Procs /\ next \in Parts
  /\ rows \in [Parts -> Nat]
  /\ orphans \subseteq Parts
  /\ listening \in BOOLEAN /\ open \in 0..MaxOpen
  /\ stopped \in BOOLEAN /\ faults \in 0..MaxFaults

\* However often the process dies while it seeds, and whenever its last
\* INSERT reaches Postgres, no part of the seed is stored twice, not even the
\* recipes, notes and comments no index protects (migrate.go seed).
SeededOnce == \A p \in Parts : rows[p] <= 1

\* The seed is never there with a hole: a part comes with every part before
\* it, so that the rows it names by id exist (migrate.go seed).
SeedHasNoHoles ==
  \A p, q \in Parts : p < q /\ rows[q] > 0 => rows[p] > 0

\* A backend that takes requests has an admin account, or nobody could ever
\* manage the beans: no endpoint makes one (main.go, migrate.go seed).
AdminWhenListening == listening => rows[1] > 0

\* A backend that is not stopped comes up in the end, and one that is told
\* to stop goes down whatever its requests do (main.go, restart:
\* unless-stopped).
ComesUp  == ~stopped ~> listening \/ stopped
GoesDown == proc = "drain" ~> proc = "down"

\* "Default accounts: admin / admin123, barista / user123" (README.md:18): a
\* backend that takes requests has both.
DefaultAccounts == listening => rows[1] > 0 /\ rows[2] > 0
=============================================================================
