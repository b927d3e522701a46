------------------------------ MODULE Registry ------------------------------
(***************************************************************************)
(* What the directory promises of accounts, beans and follows, without     *)
(* tables or statements: a book of holders and the keys each one holds,    *)
(* and calls that take effect at one instant between being made and being  *)
(* answered.  Nobody enters under a key that is held.  Who is told what    *)
(* the call did is told the truth; who is told nothing ("none") knows      *)
(* nothing: the call has taken effect once, or not at all.                 *)
(*                                                                         *)
(* To amend an entry is to see it first.  If it is struck meanwhile, the   *)
(* amendment may still be written down and brings the holder back, with    *)
(* the keys it remembers, but never with one that another has since.       *)
(***************************************************************************)
CONSTANTS
  Callers, Holders,
  Asks,      \* what a caller may ask: [op, for, keys]
  Opening    \* the book on the first day

VARIABLES book, call

registryVars == <<book, call>>

\* A caller that asks nothing.
Free == [op |-> "none", for |-> {}, keys |-> {}, phase |-> "free", told |-> "none"]

Open(ask) == [op |-> ask.op, for |-> ask.for, keys |-> ask.keys,
              phase |-> "open", told |-> "pending"]

Seen(c, keys) == [op |-> c.op, for |-> c.for, keys |-> keys,
                  phase |-> "seen", told |-> "pending"]

Answered(op, told) ==
  [op |-> op, for |-> {}, keys |-> {}, phase |-> "done", told |-> told]

RegistryInit == book = Opening /\ call = [r \in Callers |-> Free]

In(r, op, phase) == call[r].op = op /\ call[r].phase = phase

Tell(r, told) == call' = [call EXCEPT ![r] = Answered(call[r].op, told)]

\* What a call that takes effect may be told: what it did, or nothing, when
\* that got lost on the way back.
TellEffect(r, told) == Tell(r, told) \/ Tell(r, "none")

\* Some holder among hs has one of the keys.
Held(hs, keys) == \E h \in hs : book[h] \cap keys # {}

\* A caller asks, or hears at once that nothing came of it.
Beginnings == {Open(ask) : ask \in Asks} \cup {Answered(ask.op, "none") : ask \in Asks}

Begin(r) ==
  /\ call[r].phase = "free"
  /\ call'[r] \in Beginnings
  /\ call' = [call EXCEPT ![r] = call'[r]]
  /\ UNCHANGED book

Enter(r) ==
  /\ In(r, "enter", "open")
  /\ ~Held(Holders, call[r].keys)
  /\ \E h \in call[r].for :
       /\ book[h] = {}
       /\ book' = [book EXCEPT ![h] = call[r].keys]
  /\ TellEffect(r, "entered")

Taken(r) ==
  /\ In(r, "enter", "open")
  /\ Held(Holders, call[r].keys)
  /\ Tell(r, "taken")
  /\ UNCHANGED book

Strike(r) ==
  /\ In(r, "strike", "open")
  /\ \E h \in call[r].for :
       /\ book[h] # {}
       /\ book' = [book EXCEPT ![h] = {}]
  /\ TellEffect(r, "struck")

Missing(r) ==
  /\ In(r, "strike", "open")
  /\ \A h \in call[r].for : book[h] = {}
  /\ Tell(r, "absent")
  /\ UNCHANGED book

\* An amendment that names no key keeps the ones it sees.
See(r) ==
  /\ In(r, "amend", "open")
  /\ \E h \in call[r].for :
       /\ book[h] # {}
       /\ call' = [call EXCEPT ![r] =
            Seen(call[r], IF call[r].keys = {} THEN book[h] ELSE call[r].keys)]
  /\ UNCHANGED book

Amend(r) ==
  /\ In(r, "amend", "seen")
  /\ \E h \in call[r].for :
       /\ ~Held(Holders \ {h}, call[r].keys)
       /\ book' = [book EXCEPT ![h] = call[r].keys]
  /\ TellEffect(r, "amended")

\* A call may fail at any point before it has taken effect, too.
GiveUp(r) ==
  /\ call[r].phase \in {"open", "seen"}
  /\ Tell(r, "none")
  /\ UNCHANGED book

End(r) ==
  /\ call[r].phase = "done"
  /\ call' = [call EXCEPT ![r] = Free]
  /\ UNCHANGED book

\* The callers are cut off; and the same with a new book.
Forget == call' = [r \in Callers |-> Free] /\ UNCHANGED book
Renew  == call' = [r \in Callers |-> Free] /\ book' = Opening

RegistryNext ==
  \/ \E r \in Callers : \/ Begin(r) \/ Enter(r) \/ Taken(r) \/ Strike(r)
                        \/ Missing(r) \/ See(r) \/ Amend(r) \/ GiveUp(r) \/ End(r)
  \/ Forget
  \/ Renew

RegistrySpec == RegistryInit /\ [][RegistryNext]_registryVars
=============================================================================
