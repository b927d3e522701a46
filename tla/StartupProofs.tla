---------------------------- MODULE StartupProofs ----------------------------
(***************************************************************************)
(* Proofs about Startup, for every number of faults, of open requests and  *)
(* every state init.sql may have left the database in.                     *)
(***************************************************************************)
EXTENDS Startup, TLAPS

\* INSERTs of dead processes only wait for what is already complete: all the
\* parts before them are stored, and an INSERT no index guards has not been
\* executed in another way.
OrphansFit ==
  \A o \in orphans :
    /\ \A p \in Parts : p < o => rows[p] > 0
    /\ o \notin Unique => rows[o] = 0

\* While seed runs it is the only one to insert, but for a first INSERT some
\* earlier process has left behind.
SeedIsAlone ==
  proc = "seed" =>
    /\ orphans \subseteq {1}
    /\ \A p \in Parts : p < next => rows[p] > 0
    /\ \A p \in Parts : p >= next /\ p > 1 => rows[p] = 0

\* main gets past seed only when there is an admin.
AdminPastSeed ==
  /\ listening => proc = "serve"
  /\ proc \in {"serve", "drain"} => rows[1] > 0

\* The inductive invariant.
StartupInv ==
  /\ StartupTypeOK
  /\ SeededOnce
  /\ SeedHasNoHoles
  /\ OrphansFit
  /\ SeedIsAlone
  /\ AdminPastSeed

\* The parts of the seed are numbers, and the first is guarded by an index.
LEMMA PartsAreNumbers ==
  /\ \A p \in Parts : p \in Nat /\ p >= 1
  /\ 1 \in Parts /\ 2 \in Parts /\ 3 \in Parts /\ 1 \in Unique
BY SMT DEF Parts, Unique

\* The invariant holds in every state init.sql may leave.
LEMMA StartupInit == Init => StartupInv
<1> SUFFICES ASSUME Init PROVE StartupInv
  OBVIOUS
<1> USE StartupAssumption
<1>1. PICK k \in Scripted : rows = [p \in Parts |-> IF p <= k THEN 1 ELSE 0]
  BY DEF Init
<1>2. k \in Nat
  BY <1>1, SMT
<1>3. \A p \in Parts : rows[p] = IF p <= k THEN 1 ELSE 0
  BY <1>1
<1>4. StartupTypeOK
  <2>1. rows \in [Parts -> Nat]
    BY <1>1, SMT
  <2>2. next \in Parts /\ open \in 0..MaxOpen /\ faults \in 0..MaxFaults
    BY SMT DEF Init, Parts
  <2> QED
    BY <2>1, <2>2 DEF Init, StartupTypeOK, Procs
<1>5. SeededOnce
  BY <1>3, SMT DEF SeededOnce
<1>6. SeedHasNoHoles
  BY <1>2, <1>3, SMT DEF SeedHasNoHoles, Parts
<1>7. OrphansFit /\ SeedIsAlone /\ AdminPastSeed
  BY DEF Init, OrphansFit, SeedIsAlone, AdminPastSeed
<1> QED
  BY <1>4, <1>5, <1>6, <1>7 DEF StartupInv

\* A step that leaves the tables and the orphans alone, and does not enter
\* seed or move within it, keeps the rows in order.
LEMMA RowsKept ==
  ASSUME StartupInv, UNCHANGED <<rows, orphans>>,
         proc' = "seed" => proc = "seed" /\ next' = next
  PROVE  SeededOnce' /\ SeedHasNoHoles' /\ OrphansFit' /\ SeedIsAlone'
BY DEF StartupInv, SeededOnce, SeedHasNoHoles, OrphansFit, SeedIsAlone

\* So does one that makes an orphan of the INSERT under way and ends seed.
LEMMA Orphaned ==
  ASSUME StartupInv, Unheard, rows' = rows, proc' # "seed"
  PROVE  SeededOnce' /\ SeedHasNoHoles' /\ OrphansFit' /\ SeedIsAlone'
<1>1. SeededOnce' /\ SeedHasNoHoles' /\ SeedIsAlone'
  BY DEF StartupInv, SeededOnce, SeedHasNoHoles, SeedIsAlone
<1>2. CASE orphans' = orphans
  BY <1>1, <1>2 DEF StartupInv, OrphansFit
<1>3. CASE proc = "seed" /\ orphans' = orphans \cup {next}
  <2>1. next \in Parts /\ next \in Nat
    BY PartsAreNumbers DEF StartupInv, StartupTypeOK
  <2>2. \A p \in Parts : p < next => rows[p] > 0
    BY <1>3 DEF StartupInv, SeedIsAlone
  <2>3. next \notin Unique => rows[next] = 0
    BY <1>3, <2>1, PartsAreNumbers, SMT DEF StartupInv, SeedIsAlone
  <2> QED
    BY <1>1, <1>3, <2>2, <2>3 DEF StartupInv, OrphansFit
<1> QED
  BY <1>2, <1>3 DEF Unheard

\* What Store does to the rows.
LEMMA Stored ==
  ASSUME StartupTypeOK, NEW p \in Parts, Store(p)
  PROVE  /\ rows' \in [Parts -> Nat]
         /\ rows'[p] = rows[p] + 1
         /\ \A q \in Parts : q # p => rows'[q] = rows[q]
         /\ \A q \in Parts : rows[q] > 0 => rows'[q] > 0
<1>1. rows' \in [Parts -> Nat] /\ rows'[p] = rows[p] + 1
  BY SMT DEF StartupTypeOK, Store
<1>2. \A q \in Parts : q # p => rows'[q] = rows[q]
  BY DEF StartupTypeOK, Store
<1>3. \A q \in Parts : rows[q] > 0 => rows'[q] > 0
  <2> TAKE q \in Parts
  <2>1. rows[q] \in Nat
    BY DEF StartupTypeOK
  <2> QED
    BY <1>1, <1>2, <2>1, SMT
<1> QED
  BY <1>1, <1>2, <1>3

\* Storing a part that is missing, when all before it are there, leaves no
\* hole and stores nothing twice.
LEMMA StoredInOrder ==
  ASSUME StartupInv, NEW p \in Parts, Store(p), rows[p] = 0,
         \A q \in Parts : q < p => rows[q] > 0
  PROVE  SeededOnce' /\ SeedHasNoHoles'
<1> USE Stored DEF StartupInv
<1>1. SeededOnce'
  BY SMT DEF SeededOnce
<1>2. SeedHasNoHoles'
  <2> SUFFICES ASSUME NEW a \in Parts, NEW b \in Parts, a < b, rows'[b] > 0
               PROVE  rows'[a] > 0
    BY DEF SeedHasNoHoles
  <2>1. CASE b = p
    BY <2>1
  <2>2. CASE b # p
    <3>1. rows[b] > 0
      BY <2>2
    <3> QED
      BY <3>1 DEF SeedHasNoHoles
  <2> QED
    BY <2>1, <2>2
<1> QED
  BY <1>1, <1>2

\* The query of seed: it enters seed only on a database without users, which
\* then is empty and awaited by no INSERT but the first.
LEMMA CountKeeps ==
  ASSUME StartupInv, CountUsers
  PROVE  StartupInv'
<1> USE PartsAreNumbers
<1>0. /\ rows \in [Parts -> Nat] /\ orphans \subseteq Parts
      /\ rows[1] \in Nat /\ rows[2] \in Nat /\ rows[3] \in Nat
  BY DEF StartupInv, StartupTypeOK
<1>1. /\ UNCHANGED <<rows, orphans, listening, open, stopped, faults>>
      /\ next' = 1 /\ proc = "count"
      /\ proc' = IF Seeded THEN "serve" ELSE "seed"
  BY DEF CountUsers, Advance
<1>2. StartupTypeOK'
  BY <1>1 DEF StartupInv, StartupTypeOK, Procs
<1>3. SeededOnce' /\ SeedHasNoHoles' /\ OrphansFit'
  BY <1>1 DEF StartupInv, SeededOnce, SeedHasNoHoles, OrphansFit
<1>4. CASE Seeded
  <2>1. rows[1] > 0 \/ rows[2] > 0 \/ rows[3] > 0
    BY <1>0, <1>4, SMT DEF Seeded
  <2>2. rows[1] > 0
    BY <2>1, SMT DEF StartupInv, SeedHasNoHoles
  <2> QED
    BY <1>1, <1>2, <1>3, <1>4, <2>2 DEF StartupInv, SeedIsAlone, AdminPastSeed
<1>5. CASE ~Seeded
  <2>1. rows[1] = 0
    BY <1>0, <1>5, SMT DEF Seeded
  <2>2. ASSUME NEW p \in Parts PROVE rows[p] = 0
    <3>1. rows[p] \in Nat
      BY <1>0
    <3>2. CASE p = 1
      BY <2>1, <3>2
    <3>3. CASE p # 1
      <4>1. 1 < p
        BY <3>3, SMT
      <4>2. ~(rows[p] > 0)
        BY <2>1, <4>1, SMT DEF StartupInv, SeedHasNoHoles
      <4> QED
        BY <3>1, <4>2, SMT
    <3> QED
      BY <3>2, <3>3
  <2>3. orphans \subseteq {1}
    <3> SUFFICES ASSUME NEW o \in orphans, o # 1 PROVE FALSE
      OBVIOUS
    <3>1. 1 < o
      BY <1>0, SMT
    <3> QED
      BY <2>1, <3>1, SMT DEF StartupInv, OrphansFit
  <2>4. SeedIsAlone'
    BY <1>1, <2>2, <2>3, SMT DEF SeedIsAlone
  <2>5. AdminPastSeed'
    BY <1>1, <1>5 DEF StartupInv, AdminPastSeed
  <2> QED
    BY <1>2, <1>3, <2>4, <2>5 DEF StartupInv
<1> QED
  BY <1>4, <1>5

\* One INSERT of seed.
LEMMA SeedKeeps ==
  ASSUME StartupInv, Seed
  PROVE  StartupInv'
<1> USE PartsAreNumbers
<1>0. /\ next \in Parts /\ next \in Nat /\ next <= 9 /\ Store(next) /\ ~Refused(next)
      /\ UNCHANGED <<orphans, listening, open, stopped, faults>>
      /\ proc = "seed" /\ rows[next] \in Nat
  BY SMT DEF Seed, StartupInv, StartupTypeOK, Parts
<1>1. orphans \subseteq {1}
  BY <1>0 DEF StartupInv, SeedIsAlone
<1>2. rows[next] = 0
  <2>1. CASE next = 1
    BY <1>0, <2>1, SMT DEF Refused
  <2>2. CASE next # 1
    BY <1>0, <2>2, SMT DEF StartupInv, SeedIsAlone
  <2> QED
    BY <2>1, <2>2
<1>3. \A q \in Parts : q < next => rows[q] > 0
  BY <1>0 DEF StartupInv, SeedIsAlone
<1>4. /\ rows' \in [Parts -> Nat] /\ rows'[next] = 1
      /\ \A q \in Parts : q # next => rows'[q] = rows[q]
      /\ \A q \in Parts : rows[q] > 0 => rows'[q] > 0
  BY <1>0, <1>2, Stored, SMT DEF StartupInv
<1>5. SeededOnce' /\ SeedHasNoHoles'
  BY <1>0, <1>2, <1>3, StoredInOrder
<1>6. \/ next = 9 /\ proc' = "serve" /\ next' = next
      \/ next # 9 /\ proc' = "seed" /\ next' = next + 1
  BY DEF Seed, Last
<1>7. StartupTypeOK'
  BY <1>0, <1>4, <1>6, SMT DEF StartupInv, StartupTypeOK, Procs, Parts
<1>8. OrphansFit'
  BY <1>0, <1>1, SMT DEF OrphansFit
<1>9. SeedIsAlone'
  <2> SUFFICES ASSUME proc' = "seed" PROVE SeedIsAlone'
    BY DEF SeedIsAlone
  <2>1. next' = next + 1
    BY <1>6
  <2>2. ASSUME NEW p \in Parts, p < next' PROVE rows'[p] > 0
    <3>1. CASE p = next
      BY <1>4, <3>1, SMT
    <3>2. CASE p # next
      <4>1. p < next
        BY <1>0, <2>1, <2>2, <3>2, SMT
      <4> QED
        BY <1>3, <1>4, <4>1
    <3> QED
      BY <3>1, <3>2
  <2>3. ASSUME NEW p \in Parts, p >= next', p > 1 PROVE rows'[p] = 0
    <3>1. p >= next /\ p # next
      BY <1>0, <2>1, <2>3, SMT
    <3> QED
      BY <1>0, <1>4, <2>3, <3>1 DEF StartupInv, SeedIsAlone
  <2> QED
    BY <1>0, <1>1, <2>2, <2>3 DEF SeedIsAlone
<1>10. AdminPastSeed'
  <2>1. listening' => FALSE
    BY <1>0 DEF StartupInv, AdminPastSeed
  <2>2. CASE proc' = "serve"
    <3>1. rows[1] > 0
      BY <1>3, <1>6, <2>2, SMT
    <3> QED
      BY <1>4, <2>1, <3>1 DEF AdminPastSeed
  <2> QED
    BY <1>6, <2>1, <2>2 DEF AdminPastSeed
<1> QED
  BY <1>5, <1>7, <1>8, <1>9, <1>10 DEF StartupInv

\* An INSERT of a dead process reaches Postgres.
LEMMA LandKeeps ==
  ASSUME StartupInv, NEW o \in Parts, Land(o)
  PROVE  StartupInv'
<1> USE PartsAreNumbers
<1>0. /\ o \in orphans /\ orphans' = orphans \ {o} /\ rows[o] \in Nat
      /\ UNCHANGED <<proc, next, listening, open, stopped, faults>>
  BY DEF Land, StartupInv, StartupTypeOK
<1>1. CASE rows' = rows
  <2>1. StartupTypeOK' /\ SeededOnce' /\ SeedHasNoHoles' /\ OrphansFit'
    BY <1>0, <1>1 DEF StartupInv, StartupTypeOK, SeededOnce, SeedHasNoHoles, OrphansFit
  <2>2. SeedIsAlone' /\ AdminPastSeed'
    BY <1>0, <1>1 DEF StartupInv, SeedIsAlone, AdminPastSeed
  <2> QED
    BY <2>1, <2>2 DEF StartupInv
<1>2. CASE ~Refused(o) /\ Store(o)
  <2>1. rows[o] = 0
    <3>1. CASE o \in Unique
      BY <1>0, <1>2, <3>1, SMT DEF Refused
    <3>2. CASE o \notin Unique
      BY <1>0, <3>2 DEF StartupInv, OrphansFit
    <3> QED
      BY <3>1, <3>2
  <2>2. \A q \in Parts : q < o => rows[q] > 0
    BY <1>0 DEF StartupInv, OrphansFit
  <2>3. SeededOnce' /\ SeedHasNoHoles'
    BY <1>2, <2>1, <2>2, StoredInOrder
  <2>4. /\ rows' \in [Parts -> Nat]
        /\ \A q \in Parts : q # o => rows'[q] = rows[q]
        /\ \A q \in Parts : rows[q] > 0 => rows'[q] > 0
    BY <1>2, Stored DEF StartupInv
  <2>5. StartupTypeOK'
    BY <1>0, <2>4 DEF StartupInv, StartupTypeOK
  <2>6. OrphansFit'
    <3> SUFFICES ASSUME NEW a \in orphans'
                 PROVE  /\ \A p \in Parts : p < a => rows'[p] > 0
                        /\ a \notin Unique => rows'[a] = 0
      BY DEF OrphansFit
    <3>1. a \in orphans /\ a # o /\ a \in Parts
      BY <1>0 DEF StartupInv, StartupTypeOK
    <3> QED
      BY <2>4, <3>1 DEF StartupInv, OrphansFit
  <2>7. SeedIsAlone'
    <3> SUFFICES ASSUME proc = "seed" PROVE SeedIsAlone'
      BY <1>0 DEF SeedIsAlone
    <3>1. o = 1
      BY <1>0 DEF StartupInv, SeedIsAlone
    <3>2. \A p \in Parts : p < next' => rows'[p] > 0
      BY <1>0, <2>4 DEF StartupInv, SeedIsAlone
    <3>3. \A p \in Parts : p >= next' /\ p > 1 => rows'[p] = 0
      BY <1>0, <2>4, <3>1, SMT DEF StartupInv, SeedIsAlone
    <3>4. orphans' \subseteq {1}
      BY <1>0 DEF StartupInv, SeedIsAlone
    <3> QED
      BY <3>2, <3>3, <3>4 DEF SeedIsAlone
  <2>8. AdminPastSeed'
    BY <1>0, <2>4 DEF StartupInv, AdminPastSeed
  <2> QED
    BY <2>3, <2>5, <2>6, <2>7, <2>8 DEF StartupInv
<1> QED
  BY <1>1, <1>2 DEF Land

\* Every step keeps the invariant.
LEMMA StartupNext == StartupInv /\ [Next]_startupVars => StartupInv'
<1> SUFFICES ASSUME StartupInv, [Next]_startupVars PROVE StartupInv'
  OBVIOUS
<1> USE StartupAssumption
<1>1. CASE Boot \/ Connect \/ Migrate
  <2>1. /\ UNCHANGED <<rows, orphans, listening, open, stopped, faults, next>>
        /\ proc' \in {"connect", "migrate", "count"}
        /\ proc \in {"down", "connect", "migrate"}
    BY <1>1 DEF Boot, Connect, Migrate, Advance
  <2>2. StartupTypeOK' /\ AdminPastSeed'
    BY <2>1 DEF StartupInv, StartupTypeOK, AdminPastSeed, Procs
  <2> QED
    BY <2>1, <2>2, RowsKept DEF StartupInv
<1>2. CASE CountUsers
  BY <1>2, CountKeeps
<1>3. CASE Seed
  BY <1>3, SeedKeeps
<1>4. CASE SeedRefused \/ StepFails \/ Crash \/ Leave \/ (Stop /\ proc # "serve")
  <2>1. /\ proc' = "down" /\ listening' = FALSE /\ open' = 0
        /\ next' = next /\ rows' = rows
    BY <1>4 DEF SeedRefused, StepFails, Crash, Leave, Stop, Abort, Die, Exit
  <2>2. Unheard
    BY <1>4 DEF SeedRefused, StepFails, Crash, Leave, Stop, Die, Unheard
  <2>3. stopped' \in BOOLEAN
    BY <1>4 DEF SeedRefused, StepFails, Crash, Leave, Stop, Abort, Drained,
                StartupInv, StartupTypeOK
  <2>4. faults' \in 0..MaxFaults
    <3>1. faults' = faults \/ (faults < MaxFaults /\ faults' = faults + 1)
      BY <1>4 DEF SeedRefused, StepFails, Crash, Leave, Stop, Fault
    <3> QED
      BY <3>1, SMT DEF StartupInv, StartupTypeOK
  <2>5. orphans' \subseteq Parts
    BY <2>2 DEF Unheard, StartupInv, StartupTypeOK
  <2>6. StartupTypeOK'
    <3>1. open' \in 0..MaxOpen
      BY <2>1, SMT
    <3> QED
      BY <2>1, <2>3, <2>4, <2>5, <3>1 DEF StartupInv, StartupTypeOK, Procs
  <2>7. AdminPastSeed'
    BY <2>1 DEF AdminPastSeed
  <2>8. SeededOnce' /\ SeedHasNoHoles' /\ OrphansFit' /\ SeedIsAlone'
    BY <2>1, <2>2, Orphaned
  <2> QED
    BY <2>6, <2>7, <2>8 DEF StartupInv
<1>5. CASE Listen \/ Accept \/ Respond \/ Restart
  <2>1. UNCHANGED <<proc, next, rows, orphans, faults>>
    BY <1>5 DEF Listen, Accept, Respond, Restart
  <2>2. open' \in 0..MaxOpen
    BY <1>5, SMT DEF Listen, Accept, Respond, Restart, StartupInv, StartupTypeOK
  <2>3. listening' \in BOOLEAN /\ stopped' \in BOOLEAN
    BY <1>5 DEF Listen, Accept, Respond, Restart, StartupInv, StartupTypeOK
  <2>4. StartupTypeOK'
    BY <2>1, <2>2, <2>3 DEF StartupInv, StartupTypeOK
  <2>5. AdminPastSeed'
    BY <1>5, <2>1 DEF Listen, Accept, Respond, Restart, StartupInv, AdminPastSeed
  <2> QED
    BY <2>1, <2>4, <2>5, RowsKept DEF StartupInv
<1>6. CASE Stop /\ proc = "serve"
  <2>1. /\ UNCHANGED <<next, rows, orphans, open, faults>>
        /\ proc' = "drain" /\ listening' = FALSE /\ stopped' = TRUE
    BY <1>6 DEF Stop
  <2>2. StartupTypeOK' /\ AdminPastSeed'
    BY <1>6, <2>1 DEF StartupInv, StartupTypeOK, AdminPastSeed, Procs
  <2> QED
    BY <2>1, <2>2, RowsKept DEF StartupInv
<1>7. CASE \E p \in Parts : Land(p)
  BY <1>7, LandKeeps
<1>8. CASE UNCHANGED startupVars
  <2>1. StartupTypeOK' /\ AdminPastSeed'
    BY <1>8 DEF startupVars, StartupInv, StartupTypeOK, AdminPastSeed
  <2> QED
    BY <1>8, <2>1, RowsKept DEF startupVars, StartupInv
<1> QED
  BY <1>1, <1>2, <1>3, <1>4, <1>5, <1>6, <1>7, <1>8 DEF Next, Main

\* The invariant holds for ever.
THEOREM StartupInvariant == Spec => []StartupInv
<1>1. Init => StartupInv
  BY StartupInit
<1>2. StartupInv /\ [Next]_startupVars => StartupInv'
  BY StartupNext
<1> QED
  BY <1>1, <1>2, PTL DEF Spec

\* The variables keep their types.
THEOREM StartupTypeCorrect == Spec => []StartupTypeOK
<1>1. StartupInv => StartupTypeOK
  BY DEF StartupInv
<1> QED
  BY <1>1, StartupInvariant, PTL

\* No part of the seed is stored twice, whatever crashes and late INSERTs do.
THEOREM SeedIsStoredOnce == Spec => []SeededOnce
<1>1. StartupInv => SeededOnce
  BY DEF StartupInv
<1> QED
  BY <1>1, StartupInvariant, PTL

\* The stored seed is always a prefix of the order migrate.go inserts it in.
THEOREM SeedIsAPrefix == Spec => []SeedHasNoHoles
<1>1. StartupInv => SeedHasNoHoles
  BY DEF StartupInv
<1> QED
  BY <1>1, StartupInvariant, PTL

\* A backend that takes requests has an admin.
THEOREM AdminIsThere == Spec => []AdminWhenListening
<1>1. StartupInv => AdminWhenListening
  BY DEF StartupInv, AdminPastSeed, AdminWhenListening
<1> QED
  BY <1>1, StartupInvariant, PTL
=============================================================================
