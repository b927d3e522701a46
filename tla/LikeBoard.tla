------------------------------ MODULE LikeBoard ------------------------------
(***************************************************************************)
(* What the like API promises, without tables or statements: a board of    *)
(* likes, each on it or not, and calls that take effect at one instant     *)
(* between being made and being answered.  A caller that is told what its  *)
(* call did is told the truth; one told nothing ("none") knows nothing,    *)
(* and its call has taken effect once, or not at all.                      *)
(*                                                                         *)
(* An unlike first sees the like it will take away.  If another unlike     *)
(* takes that like first, the call is moot: it is answered as if it had    *)
(* removed it and must touch nothing, not even a like given again since.   *)
(***************************************************************************)
CONSTANTS Callers, Marks, Free

VARIABLES board, call

boardVars == <<board, call>>

Told == {"added", "present", "removed", "absent", "none", "pending"}

Pending(op, mark) ==
  [op |-> op, mark |-> mark, phase |-> "open", told |-> "pending"]

BoardInit == board = {} /\ call = [r \in Callers |-> Free]

BoardTypeOK ==
  /\ board \subseteq Marks
  /\ call \in [Callers -> {Free} \cup
       [op : {"Like", "Unlike"}, mark : Marks,
        phase : {"open", "seen", "moot", "done"}, told : Told]]

In(r, op, phase) == call[r] # Free /\ call[r].op = op /\ call[r].phase = phase

Tell(r, told) ==
  call' = [call EXCEPT ![r] = [@ EXCEPT !.phase = "done", !.told = told]]

\* What a call that takes effect may be told: what it did, or nothing, when
\* that got lost on the way back.
TellEffect(r, told) == Tell(r, told) \/ Tell(r, "none")

Begin(r) ==
  /\ call[r] = Free
  /\ \E op \in {"Like", "Unlike"}, m \in Marks :
       \/ call' = [call EXCEPT ![r] = Pending(op, m)]
       \/ call' = [call EXCEPT ![r] =
            [Pending(op, m) EXCEPT !.phase = "done", !.told = "none"]]
  /\ UNCHANGED board

Add(r) ==
  /\ In(r, "Like", "open")
  /\ call[r].mark \notin board
  /\ board' = board \cup {call[r].mark}
  /\ TellEffect(r, "added")

Conflict(r) ==
  /\ In(r, "Like", "open")
  /\ call[r].mark \in board
  /\ Tell(r, "present")
  /\ UNCHANGED board

See(r) ==
  /\ In(r, "Unlike", "open")
  /\ call[r].mark \in board
  /\ call' = [call EXCEPT ![r] = [@ EXCEPT !.phase = "seen"]]
  /\ UNCHANGED board

Missing(r) ==
  /\ In(r, "Unlike", "open")
  /\ call[r].mark \notin board
  /\ Tell(r, "absent")
  /\ UNCHANGED board

\* r takes away the like it saw; every other call that saw it is now moot.
Remove(r) ==
  /\ In(r, "Unlike", "seen")
  /\ board' = board \ {call[r].mark}
  /\ \E told \in {"removed", "none"} :
       call' = [s \in Callers |->
         IF s = r THEN [call[r] EXCEPT !.phase = "done", !.told = told]
         ELSE IF In(s, "Unlike", "seen") /\ call[s].mark = call[r].mark
              THEN [call[s] EXCEPT !.phase = "moot"]
              ELSE call[s]]

TooLate(r) ==
  /\ In(r, "Unlike", "moot")
  /\ Tell(r, "removed")
  /\ UNCHANGED board

\* A call may fail at any point before it has taken effect, too.
GiveUp(r) ==
  /\ call[r] # Free /\ call[r].phase # "done"
  /\ Tell(r, "none")
  /\ UNCHANGED board

End(r) ==
  /\ call[r] # Free /\ call[r].phase = "done"
  /\ call' = [call EXCEPT ![r] = Free]
  /\ UNCHANGED board

Forget == call' = [r \in Callers |-> Free] /\ UNCHANGED board

BoardNext ==
  \/ \E r \in Callers : \/ Begin(r) \/ Add(r) \/ Conflict(r) \/ See(r)
                        \/ Missing(r) \/ Remove(r) \/ TooLate(r)
                        \/ GiveUp(r) \/ End(r)
  \/ Forget

BoardSpec == BoardInit /\ [][BoardNext]_boardVars
=============================================================================
