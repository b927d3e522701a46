---------------------------- MODULE BoardProofs ----------------------------
(***************************************************************************)
(* The services implement the like board: every step of Community, seen    *)
(* through the mapping of CommunityBoard, is a step of LikeBoard or none.  *)
(* The proof rests on TalkInv: what a slot at "delete" holds is a like of  *)
(* its own caller or a row that is gone, and no pair has two likes, so     *)
(* that two unlikes that see one mark hold one id.                         *)
(***************************************************************************)
EXTENDS CommunityBoard, TalkProofs

Seen(r) == BoardCall(req[r])
Calling == [r \in Reqs |-> BoardCall(req[r])]

\* A request to like or unlike, under way or answered.
IsLikeCall(r) == req[r].pc # "idle" /\ req[r].call.op \in LikeOps

LEMMA LikeCallSeen ==
  ASSUME TypeInv, NEW r \in Reqs, IsLikeCall(r)
  PROVE  /\ Seen(r) = [op |-> req[r].call.op,
                       mark |-> [user |-> req[r].call.user, note |-> req[r].call.id],
                       phase |-> PhaseOf(req[r]), told |-> ToldOf(req[r])]
         /\ Seen(r) # Absent
         /\ [user |-> req[r].call.user, note |-> req[r].call.id] \in LikeRow
<1>1. Seen(r) = [op |-> req[r].call.op,
                 mark |-> [user |-> req[r].call.user, note |-> req[r].call.id],
                 phase |-> PhaseOf(req[r]), told |-> ToldOf(req[r])]
  BY DEF Seen, BoardCall, IsLikeCall
<1>2. req[r].call \in Calls /\ req[r].call.id \in NoteIds
  BY IdsTyped DEF IsLikeCall, LikeOps
<1>3. [user |-> req[r].call.user, note |-> req[r].call.id] \in LikeRow
  BY <1>2, CallType DEF LikeRow
<1>4. PhaseOf(req[r]) \in {"open", "seen", "moot", "done"} BY DEF PhaseOf
<1>5. ToldOf(req[r]) \in {"added", "present", "removed", "absent", "none", "pending"}
  BY DEF ToldOf
<1>6. req[r].call.op \in LikeOps BY DEF IsLikeCall
<1> HIDE DEF Seen
<1> QED BY <1>1, <1>3, <1>4, <1>5, <1>6, BoardAssumption

\* Any other slot is a free caller of the board.
LEMMA OtherCallSeen ==
  ASSUME NEW r \in Reqs, ~IsLikeCall(r)
  PROVE  Seen(r) = Absent
BY DEF Seen, BoardCall, IsLikeCall

\* A slot that does not move is seen the same while the like it holds stays,
\* or stays away.
LEMMA Unmoved ==
  ASSUME NEW q \in Reqs, req'[q] = req[q],
         req[q].pc = "delete" => req[q].call.op # "Like",
         At(q, "Unlike", "delete") =>
           (likes'[req[q].like] = Absent <=> likes[req[q].like] = Absent)
  PROVE  Seen(q)' = Seen(q)
<1>1. CASE ~IsLikeCall(q) BY <1>1, OtherCallSeen DEF Seen, BoardCall, IsLikeCall
<1>2. CASE IsLikeCall(q)
  <2>1. ToldOf(req[q])' = ToldOf(req[q]) BY DEF ToldOf
  <2>2. CASE req[q].pc # "delete"
    <3>1. PhaseOf(req[q])' = PhaseOf(req[q]) BY <2>2 DEF PhaseOf
    <3> QED BY <2>1, <3>1 DEF Seen, BoardCall
  <2>3. CASE req[q].pc = "delete" /\ req[q].call.op = "Unlike"
    <3>1. PhaseOf(req[q])' = PhaseOf(req[q]) BY <2>3 DEF PhaseOf, At
    <3> QED BY <2>1, <3>1 DEF Seen, BoardCall
  <2> QED BY <1>2, <2>2, <2>3 DEF IsLikeCall, LikeOps
<1> QED BY <1>1, <1>2

\* When one slot moves, the board's calls change at that slot.
LEMMA OnlyMine ==
  ASSUME NEW r \in Reqs, NEW x, Seen(r)' = x,
         \A q \in Reqs : q # r => Seen(q)' = Seen(q)
  PROVE  Calling' = [Calling EXCEPT ![r] = x]
BY DEF Calling, Seen

\* When no call is seen to change, neither do the board's calls.
LEMMA NoneSeen ==
  ASSUME \A q \in Reqs : Seen(q)' = Seen(q)
  PROVE  Calling' = Calling
BY DEF Calling, Seen

\* What Tell makes of a call.
LEMMA Twice ==
  ASSUME NEW s, NEW x, NEW y
  PROVE  [s EXCEPT !.phase = x, !.told = y] = [[s EXCEPT !.phase = x] EXCEPT !.told = y]
BY Zenon

Answered(c, told) == [c EXCEPT !.phase = "done", !.told = told]

LEMMA AnsweredIs ==
  ASSUME NEW o, NEW m, NEW p, NEW t, NEW c, NEW told,
         c = [op |-> o, mark |-> m, phase |-> p, told |-> t]
  PROVE  Answered(c, told) = [op |-> o, mark |-> m, phase |-> "done", told |-> told]
<1>1. [[op |-> o, mark |-> m, phase |-> p, told |-> t] EXCEPT !.phase = "done"]
      = [op |-> o, mark |-> m, phase |-> "done", told |-> t]
  OBVIOUS
<1>2. [[op |-> o, mark |-> m, phase |-> "done", told |-> t] EXCEPT !.told = told]
      = [op |-> o, mark |-> m, phase |-> "done", told |-> told]
  OBVIOUS
<1> QED BY Twice, <1>1, <1>2, Zenon DEF Answered

\* An answer to a like call, as the board sees it.
LEMMA AnswerSeen ==
  ASSUME TypeInv, NEW r \in Reqs, IsLikeCall(r), req[r].pc # "done",
         req'[r].pc = "done", req'[r].call = req[r].call,
         \A q \in Reqs : q # r => Seen(q)' = Seen(q),
         NEW told, ToldOf(req'[r]) = told
  PROVE  Calling' = [Calling EXCEPT ![r] = Answered(Calling[r], told)]
<1>1. Seen(r) = [op |-> req[r].call.op,
                 mark |-> [user |-> req[r].call.user, note |-> req[r].call.id],
                 phase |-> PhaseOf(req[r]), told |-> ToldOf(req[r])]
  BY LikeCallSeen
<1>2. Seen(r)' = [op |-> req[r].call.op,
                  mark |-> [user |-> req[r].call.user, note |-> req[r].call.id],
                  phase |-> "done", told |-> ToldOf(req'[r])]
  <2>1. PhaseOf(req[r])' = "done" BY DEF PhaseOf
  <2>2. ToldOf(req[r])' = ToldOf(req'[r]) BY DEF ToldOf
  <2>3. req'[r].pc # "idle" /\ req'[r].call.op \in LikeOps BY DEF IsLikeCall
  <2> QED BY <2>1, <2>2, <2>3 DEF Seen, BoardCall
<1>3. Calling[r] = Seen(r) BY DEF Calling, Seen
<1> HIDE DEF Seen
<1>4. Seen(r)' = Answered(Seen(r), told)
  <2> DEFINE o == req[r].call.op
             m == [user |-> req[r].call.user, note |-> req[r].call.id]
             old == Seen(r)  new == Seen(r)'
  <2>1. new = [op |-> o, mark |-> m, phase |-> "done", told |-> told] BY <1>2
  <2>2. PICK p, t : old = [op |-> o, mark |-> m, phase |-> p, told |-> t] BY <1>1, Zenon
  <2> HIDE DEF o, m, old, new
  <2>3. Answered(old, told) = [op |-> o, mark |-> m, phase |-> "done", told |-> told]
    BY <2>2, AnsweredIs
  <2>4. new = Answered(old, told) BY <2>1, <2>3
  <2> QED BY <2>4 DEF old, new
<1>5. Calling' = [Calling EXCEPT ![r] = Seen(r)'] BY OnlyMine
<1> QED BY <1>3, <1>4, <1>5

-----------------------------------------------------------------------------
(***************************************************************************)
(* The steps.                                                              *)
(***************************************************************************)
\* What an answer, with or without a write before it, does to the slots.
LEMMA AnswerSlots ==
  ASSUME TypeInv, NEW r \in Reqs, NEW s \in Statuses, Answer(r, s)
  PROVE  /\ req'[r].pc = "done" /\ req'[r].call = req[r].call /\ req'[r].status = s
         /\ \A q \in Reqs : q # r => req'[q] = req[q]
<1>1. \A q \in Reqs : q # r => req'[q] = req[q] BY AnswerMove DEF TypeInv, TypeOK
<1>2. /\ req'[r].pc = "done" /\ req'[r].call = req[r].call
      /\ req'[r].status = s /\ req'[r].wrote = FALSE
  BY AnswerTells, Zenon
<1> QED BY <1>1, <1>2

LEMMA WrittenSlots ==
  ASSUME TypeInv, NEW r \in Reqs, NEW s \in Statuses, Written(r, s)
  PROVE  /\ req'[r].pc = "done" /\ req'[r].call = req[r].call
         /\ req'[r].status \in {s, 500}
         /\ \A q \in Reqs : q # r => req'[q] = req[q]
<1>0. req \in [Reqs -> Slot] BY DEF TypeInv, TypeOK
<1>1. /\ req'[r].pc = "done" /\ req'[r].call = req[r].call
      /\ req'[r].status \in Outcomes(s)
      /\ \A q \in Reqs : q # r => req'[q] = req[q]
  BY <1>0, AnswerMove, Zenon
<1> QED BY <1>1 DEF Outcomes

\* One slot moves, and every other slot is seen the same, when no like that
\* was there goes and none that another slot holds comes.
LEMMA OthersSeen ==
  ASSUME TalkInv, NEW r \in Reqs, \A q \in Reqs : q # r => req'[q] = req[q],
         \A l \in LikeIds : l <= likeSeq => (likes'[l] = Absent <=> likes[l] = Absent)
  PROVE  \A q \in Reqs : q # r => Seen(q)' = Seen(q)
<1> TAKE q \in Reqs
<1>1. Relied(q) BY DEF TalkInv
<1> QED BY <1>1, Unmoved DEF Relied, LikeIsMine, Told

\* A step in which the likes table stays and no like call is seen to move
\* changes nothing of the board.
LEMMA BoardStays ==
  ASSUME UNCHANGED likes
  PROVE  BoardOf' = BoardOf
BY DEF BoardOf

\* A pair is on the board when the table has a like of it.
LEMMA LikeOnBoard ==
  ASSUME TablesOK, NEW u, NEW n
  PROVE  [user |-> u, note |-> n] \in BoardOf <=> LikesBy(u, n) # {}
<1> DEFINE m == [user |-> u, note |-> n]
<1>1. ASSUME NEW l \in LikesBy(u, n) PROVE m \in BoardOf
  <2>1. l \in LikeIds /\ likes[l] # Absent /\ likes[l].user = u /\ likes[l].note = n
    BY <1>1 DEF LikesBy
  <2>2. likes[l] \in LikeRow BY <2>1 DEF TablesOK
  <2>3. likes[l] = m BY <2>1, <2>2 DEF LikeRow
  <2> QED BY <2>1, <2>3 DEF BoardOf
<1>2. ASSUME m \in BoardOf PROVE LikesBy(u, n) # {}
  <2>1. PICK l \in LikeIds : likes[l] = m /\ likes[l] # Absent BY <1>2 DEF BoardOf
  <2>2. l \in LikesBy(u, n) BY <2>1 DEF LikesBy
  <2> QED BY <2>2
<1> QED BY <1>1, <1>2

\* A like goes on the board.
LEMMA LikeAdds ==
  ASSUME TalkInv, NEW r \in Reqs, InsertLike(r), ~UNCHANGED likes
  PROVE  Board!Add(r)
<1> DEFINE u == req[r].call.user  n == req[r].call.id  s == likeSeq + 1
           m == [user |-> u, note |-> n]
<1>0. /\ TypeInv /\ TablesOK /\ LikesTrue /\ likeSeq \in Nat /\ Relied(r)
      /\ req \in [Reqs -> Slot]
  BY BoundsAssumption DEF TalkInv, PinInv, TypeInv, TypeOK, TablesOK
<1>1. /\ At(r, "Like", "insert") /\ Written(r, 201)
      /\ s \in LikeIds /\ LikesBy(u, n) = {}
      /\ likes' = [likes EXCEPT ![s] = m]
  BY <1>0, BoundsAssumption DEF InsertLike, LikeIds
<1>2. IsLikeCall(r) /\ req[r].call.op = "Like" /\ req[r].pc = "insert"
  BY <1>1 DEF IsLikeCall, At, LikeOps
<1>3. /\ Seen(r) = [op |-> req[r].call.op, mark |-> m,
                    phase |-> PhaseOf(req[r]), told |-> ToldOf(req[r])]
      /\ Seen(r) # Absent /\ m \in LikeRow
  BY <1>0, <1>2, LikeCallSeen
<1>4. PhaseOf(req[r]) = "open" BY <1>2 DEF PhaseOf
<1>5. Calling[r].op = "Like" /\ Calling[r].mark = m /\ Calling[r].phase = "open"
      /\ Calling[r] # Absent
  <2> HIDE DEF m
  <2>1. Calling[r] = Seen(r) BY DEF Calling, Seen
  <2> QED BY <1>2, <1>3, <1>4, <2>1
<1>6. m # Absent BY <1>3, AbsentAssumption
<1>7. m \notin BoardOf
  <2> SUFFICES ASSUME NEW l \in LikeIds, likes[l] = m PROVE FALSE
    BY DEF BoardOf
  <2> QED BY <1>1, <1>6 DEF LikesBy
<1>8. likes[s] = Absent
  <2>1. s > likeSeq BY <1>0
  <2> QED BY <1>0, <1>1, <2>1 DEF LikesTrue
<1>9. likes'[s] = m /\ \A l \in LikeIds : l # s => likes'[l] = likes[l]
  BY <1>0, <1>1 DEF TablesOK
<1>10. BoardOf' = BoardOf \cup {m}
  <2> HIDE DEF m, s
  <2> QED BY <1>1, <1>6, <1>8, <1>9 DEF BoardOf
<1>11. /\ req'[r].pc = "done" /\ req'[r].call = req[r].call
       /\ req'[r].status \in {201, 500}
       /\ \A q \in Reqs : q # r => req'[q] = req[q]
  BY <1>0, <1>1, WrittenSlots DEF Statuses
<1>12. \A l \in LikeIds : l <= likeSeq => likes'[l] = likes[l]
  BY <1>0, <1>9, BoundsAssumption DEF LikeIds
<1>13. \A q \in Reqs : q # r => Seen(q)' = Seen(q) BY <1>11, <1>12, OthersSeen
<1>14. PICK told \in {"added", "none"} : ToldOf(req'[r]) = told
  BY <1>11 DEF ToldOf
<1>15. Calling' = [Calling EXCEPT ![r] = Answered(Calling[r], told)]
  BY <1>0, <1>2, <1>11, <1>13, <1>14, AnswerSeen
<1>16. Board!TellEffect(r, "added")
  BY <1>15, Zenon DEF Board!TellEffect, Board!Tell, Calling, Answered
<1> HIDE DEF m
<1> QED BY <1>5, <1>7, <1>10, <1>16 DEF Board!Add, Board!In, Calling

\* A step of r that other slots do not see, and that leaves the likes, is one
\* of the board's calls alone.
LEMMA MineAlone ==
  ASSUME TalkInv, NEW r \in Reqs, UNCHANGED likes,
         \A q \in Reqs : q # r => req'[q] = req[q]
  PROVE  /\ BoardOf' = BoardOf
         /\ \A q \in Reqs : q # r => Seen(q)' = Seen(q)
         /\ Calling' = [Calling EXCEPT ![r] = Seen(r)']
<1>1. \A q \in Reqs : q # r => Seen(q)' = Seen(q) BY OthersSeen
<1>2. Calling' = [Calling EXCEPT ![r] = Seen(r)'] BY <1>1, OnlyMine
<1> QED BY <1>1, <1>2, BoardStays

\* A slot that serves no like call before and after moves nothing.
LEMMA StepUnseen ==
  ASSUME TalkInv, NEW r \in Reqs, UNCHANGED likes,
         \A q \in Reqs : q # r => req'[q] = req[q],
         ~IsLikeCall(r), ~IsLikeCall(r)'
  PROVE  BoardOf' = BoardOf /\ Calling' = Calling
<1>1. Seen(r)' = Seen(r) BY OtherCallSeen DEF Seen, BoardCall, IsLikeCall
<1> QED BY <1>1, MineAlone, NoneSeen

\* What the board knows of a like call.
LEMMA LikeCallFacts ==
  ASSUME TypeInv, NEW r \in Reqs, IsLikeCall(r)
  PROVE  /\ Calling[r] # Absent
         /\ Calling[r].op = req[r].call.op
         /\ Calling[r].mark = [user |-> req[r].call.user, note |-> req[r].call.id]
         /\ Calling[r].phase = PhaseOf(req[r])
<1>1. Calling[r] = Seen(r) BY DEF Calling, Seen
<1> HIDE DEF Seen
<1> QED BY <1>1, LikeCallSeen

\* The call fails: a lookup or a statement that goes wrong.
LEMMA GivesUp ==
  ASSUME TalkInv, NEW r \in Reqs, IsLikeCall(r), req[r].pc # "done",
         NEW s \in Statuses, Answer(r, s), UNCHANGED likes,
         s = 500 \/ (s = 404 /\ req[r].call.op = "Like")
  PROVE  Board!GiveUp(r)
<1>0. TypeInv /\ req \in [Reqs -> Slot] BY DEF TalkInv, PinInv, TypeInv, TypeOK
<1>1. /\ req'[r].pc = "done" /\ req'[r].call = req[r].call /\ req'[r].status = s
      /\ \A q \in Reqs : q # r => req'[q] = req[q]
  BY <1>0, AnswerSlots
<1>2. ToldOf(req'[r]) = "none" BY <1>1 DEF ToldOf
<1>3. BoardOf' = BoardOf BY <1>1, MineAlone
<1>6. \A q \in Reqs : q # r => Seen(q)' = Seen(q) BY <1>1, MineAlone
<1>4. Calling' = [Calling EXCEPT ![r] = Answered(Calling[r], "none")]
  BY <1>0, <1>1, <1>2, <1>6, AnswerSeen
<1>5. Calling[r] # Absent /\ Calling[r].phase # "done"
  BY <1>0, LikeCallFacts DEF PhaseOf
<1> QED BY <1>3, <1>4, <1>5 DEF Board!GiveUp, Board!Tell, Calling, Answered

\* 409: the like is there.
LEMMA LikeConflicts ==
  ASSUME TalkInv, NEW r \in Reqs, InsertLike(r), UNCHANGED likes
  PROVE  Board!Conflict(r)
<1> DEFINE u == req[r].call.user  n == req[r].call.id
           m == [user |-> u, note |-> n]
<1>0. /\ TypeInv /\ TablesOK /\ LikesTrue /\ likeSeq \in Nat
      /\ req \in [Reqs -> Slot]
  BY BoundsAssumption DEF TalkInv, PinInv, TypeInv, TypeOK, TablesOK
<1>1. /\ At(r, "Like", "insert") /\ likeSeq < MaxLikes
      /\ \/ LikesBy(u, n) # {} /\ Answer(r, 409)
         \/ likes' = [likes EXCEPT ![likeSeq + 1] = m]
  BY DEF InsertLike
<1>10. likes' # [likes EXCEPT ![likeSeq + 1] = m]
  <2>1. likeSeq + 1 \in LikeIds /\ likes[likeSeq + 1] = Absent
    BY <1>0, <1>1, BoundsAssumption DEF LikeIds, LikesTrue
  <2>2. req[r].call \in Calls /\ req[r].call.id \in NoteIds
    BY <1>0, <1>1, IdsTyped DEF At, LikeOps
  <2>3. m # Absent BY <2>2, CallType, AbsentAssumption DEF LikeRow
  <2> HIDE DEF m
  <2> QED BY <1>0, <2>1, <2>3 DEF TablesOK
<1>11. LikesBy(u, n) # {} /\ Answer(r, 409) BY <1>1, <1>10
<1>2. IsLikeCall(r) /\ req[r].call.op = "Like" /\ req[r].pc = "insert"
  BY <1>1 DEF IsLikeCall, At, LikeOps
<1>3. Calling[r] # Absent /\ Calling[r].op = "Like" /\ Calling[r].mark = m
      /\ Calling[r].phase = "open"
  BY <1>0, <1>2, LikeCallFacts DEF PhaseOf
<1>4. m \in BoardOf BY <1>0, <1>11, LikeOnBoard
<1>5. /\ req'[r].pc = "done" /\ req'[r].call = req[r].call /\ req'[r].status = 409
      /\ \A q \in Reqs : q # r => req'[q] = req[q]
  BY <1>0, <1>11, AnswerSlots DEF Statuses
<1>6. ToldOf(req'[r]) = "present" BY <1>5 DEF ToldOf
<1>7. BoardOf' = BoardOf BY <1>5, MineAlone
<1>9. \A q \in Reqs : q # r => Seen(q)' = Seen(q) BY <1>5, MineAlone
<1>8. Calling' = [Calling EXCEPT ![r] = Answered(Calling[r], "present")]
  BY <1>0, <1>2, <1>5, <1>6, <1>9, AnswerSeen
<1> HIDE DEF m
<1> QED BY <1>3, <1>4, <1>7, <1>8 DEF Board!Conflict, Board!In, Board!Tell, Calling, Answered

\* 404: there is no like to take away.
LEMMA LikeMissing ==
  ASSUME TalkInv, NEW r \in Reqs, At(r, "Unlike", "find"), UNCHANGED likes,
         LikesBy(req[r].call.user, req[r].call.id) = {}, Answer(r, 404)
  PROVE  Board!Missing(r)
<1> DEFINE u == req[r].call.user  n == req[r].call.id
           m == [user |-> u, note |-> n]
<1>0. TypeInv /\ TablesOK /\ req \in [Reqs -> Slot]
  BY DEF TalkInv, PinInv, TypeInv, TypeOK
<1>1. IsLikeCall(r) /\ req[r].call.op = "Unlike" /\ req[r].pc = "find"
  BY DEF IsLikeCall, At, LikeOps
<1>2. Calling[r] # Absent /\ Calling[r].op = "Unlike" /\ Calling[r].mark = m
      /\ Calling[r].phase = "open"
  BY <1>0, <1>1, LikeCallFacts DEF PhaseOf
<1>3. m \notin BoardOf BY <1>0, LikeOnBoard
<1>4. /\ req'[r].pc = "done" /\ req'[r].call = req[r].call /\ req'[r].status = 404
      /\ \A q \in Reqs : q # r => req'[q] = req[q]
  BY <1>0, AnswerSlots DEF Statuses
<1>5. ToldOf(req'[r]) = "absent" BY <1>1, <1>4 DEF ToldOf
<1>6. BoardOf' = BoardOf BY <1>4, MineAlone
<1>7. \A q \in Reqs : q # r => Seen(q)' = Seen(q) BY <1>4, MineAlone
<1>8. Calling' = [Calling EXCEPT ![r] = Answered(Calling[r], "absent")]
  BY <1>0, <1>1, <1>4, <1>5, <1>7, AnswerSeen
<1> HIDE DEF m
<1> QED
  BY <1>2, <1>3, <1>6, <1>8 DEF Board!Missing, Board!In, Board!Tell, Calling, Answered

\* The like is there and its id is found.
LEMMA LikeFound ==
  ASSUME TalkInv, NEW r \in Reqs, At(r, "Unlike", "find"), UNCHANGED likes,
         NEW l \in LikesBy(req[r].call.user, req[r].call.id),
         req' = [req EXCEPT ![r] = [@ EXCEPT !.pc = "delete", !.like = l]]
  PROVE  Board!See(r)
<1> DEFINE u == req[r].call.user  n == req[r].call.id
           m == [user |-> u, note |-> n]
<1>0. TypeInv /\ TablesOK /\ req \in [Reqs -> Slot] /\ req[r] \in Slot
  BY DEF TalkInv, PinInv, TypeInv, TypeOK
<1>1. IsLikeCall(r) /\ req[r].call.op = "Unlike" /\ req[r].pc = "find"
  BY DEF IsLikeCall, At, LikeOps
<1>2. Calling[r] # Absent /\ Calling[r].op = "Unlike" /\ Calling[r].mark = m
      /\ Calling[r].phase = "open"
  BY <1>0, <1>1, LikeCallFacts DEF PhaseOf
<1>3. m \in BoardOf BY <1>0, LikeOnBoard
<1>4. /\ req'[r].pc = "delete" /\ req'[r].call = req[r].call /\ req'[r].like = l
      /\ \A q \in Reqs : q # r => req'[q] = req[q]
  BY <1>0 DEF Slot
<1>5. likes'[l] # Absent BY DEF LikesBy
<1>6. Seen(r) = [op |-> "Unlike", mark |-> m, phase |-> "open", told |-> "pending"]
  <2>1. PhaseOf(req[r]) = "open" /\ ToldOf(req[r]) = "pending" BY <1>1 DEF PhaseOf, ToldOf
  <2> QED BY <1>0, <1>1, <2>1, LikeCallSeen
<1>7. Seen(r)' = [op |-> "Unlike", mark |-> m, phase |-> "seen", told |-> "pending"]
  <2>1. PhaseOf(req[r])' = "seen" /\ ToldOf(req[r])' = "pending"
    BY <1>4, <1>5 DEF PhaseOf, ToldOf
  <2> QED BY <1>1, <1>4, <2>1 DEF Seen, BoardCall, LikeOps
<1>8. BoardOf' = BoardOf BY <1>4, MineAlone
<1>9. Calling' = [Calling EXCEPT ![r] = Seen(r)'] BY <1>4, MineAlone
<1>10. Calling[r] = Seen(r) BY DEF Calling, Seen
<1> HIDE DEF m, Seen
<1>11. Seen(r)' = [Calling[r] EXCEPT !.phase = "seen"]
  <2> DEFINE old == Calling[r]  new == Seen(r)'
  <2>1. old = [op |-> "Unlike", mark |-> m, phase |-> "open", told |-> "pending"]
    BY <1>6, <1>10
  <2>2. new = [op |-> "Unlike", mark |-> m, phase |-> "seen", told |-> "pending"]
    BY <1>7
  <2> HIDE DEF old, new
  <2>3. new = [old EXCEPT !.phase = "seen"] BY <2>1, <2>2
  <2> QED BY <2>3 DEF old, new
<1>12. Calling' = [Calling EXCEPT ![r] = [Calling[r] EXCEPT !.phase = "seen"]]
  BY <1>9, <1>11
<1> QED BY <1>2, <1>3, <1>8, <1>12 DEF Board!See, Board!In, Calling

\* Another unlike took the like first.  When the DELETE's outcome gets lost,
\* the caller is told nothing.
LEMMA UnlikeTooLate ==
  ASSUME TalkInv, NEW r \in Reqs, DeleteLike(r), likes[req[r].like] = Absent
  PROVE  Board!TooLate(r) \/ Board!GiveUp(r)
<1>0. TypeInv /\ TablesOK /\ req \in [Reqs -> Slot]
  BY DEF TalkInv, PinInv, TypeInv, TypeOK
<1>1. /\ IsLikeCall(r) /\ req[r].call.op = "Unlike" /\ req[r].pc = "delete"
  BY Zenon DEF DeleteLike, IsLikeCall, At, LikeOps
<1>2. UNCHANGED likes BY <1>0 DEF DeleteLike, TablesOK
<1>3. Calling[r] # Absent /\ Calling[r].op = "Unlike" /\ Calling[r].phase = "moot"
  BY <1>0, <1>1, LikeCallFacts DEF PhaseOf
<1>4. PICK st \in {200, 500} : Answer(r, st)
  <2>1. PICK st \in Outcomes(200) : Finish(r, st, likes[req[r].like] # Absent)
    BY DEF DeleteLike
  <2>2. (likes[req[r].like] # Absent) = FALSE OBVIOUS
  <2>3. Finish(r, st, FALSE) BY <2>1, <2>2, Zenon
  <2>4. st \in {200, 500} BY DEF Outcomes
  <2> QED BY <2>3, <2>4 DEF Answer
<1>5. CASE st = 200
  <2>1. /\ req'[r].pc = "done" /\ req'[r].call = req[r].call /\ req'[r].status = 200
        /\ \A q \in Reqs : q # r => req'[q] = req[q]
    BY <1>0, <1>4, <1>5, AnswerSlots DEF Statuses
  <2>2. ToldOf(req'[r]) = "removed" BY <2>1 DEF ToldOf
  <2>3. BoardOf' = BoardOf BY <1>2, <2>1, MineAlone
  <2>4. \A q \in Reqs : q # r => Seen(q)' = Seen(q) BY <1>2, <2>1, MineAlone
  <2>5. Calling' = [Calling EXCEPT ![r] = Answered(Calling[r], "removed")]
    BY <1>0, <1>1, <2>1, <2>2, <2>4, AnswerSeen
  <2> QED BY <1>3, <2>3, <2>5 DEF Board!TooLate, Board!In, Board!Tell, Calling, Answered
<1>6. CASE st = 500
  BY <1>1, <1>2, <1>4, <1>6, GivesUp DEF Statuses
<1> QED BY <1>4, <1>5, <1>6

\* The like goes; the other unlikes that found it hold the same id, since no
\* pair has two likes, and have lost it too.
LEMMA UnlikeRemoves ==
  ASSUME TalkInv, NEW r \in Reqs, DeleteLike(r), likes[req[r].like] # Absent
  PROVE  Board!Remove(r)
<1> DEFINE u == req[r].call.user  n == req[r].call.id  l == req[r].like
           m == [user |-> u, note |-> n]
           Loses(q) == /\ Calling[q] # Absent /\ Calling[q].op = "Unlike"
                       /\ Calling[q].phase = "seen" /\ Calling[q].mark = Calling[r].mark
<1>0. /\ TypeInv /\ TablesOK /\ req \in [Reqs -> Slot] /\ OneEach
      /\ \A q \in Reqs : LikeIsMine(q) /\ Told(q)
  BY DEF TalkInv, PinInv, TypeInv, TypeOK, Relied
<1>1. /\ At(r, "Unlike", "delete") /\ Written(r, 200)
      /\ likes' = [likes EXCEPT ![l] = Absent]
  <2>1. PICK st \in Outcomes(200) : Finish(r, st, likes[l] # Absent)
    BY DEF DeleteLike
  <2>2. (likes[l] # Absent) = TRUE OBVIOUS
  <2>3. Finish(r, st, TRUE) BY <2>1, <2>2, Zenon
  <2> QED BY <2>3 DEF DeleteLike, Written
<1>2. IsLikeCall(r) /\ req[r].call.op = "Unlike" /\ req[r].pc = "delete"
  BY <1>1 DEF IsLikeCall, At, LikeOps
<1>3. l \in LikeIds /\ likes[l] # Absent /\ likes[l].user = u /\ likes[l].note = n
  BY <1>0, <1>1 DEF LikeIsMine
<1>4. Calling[r] # Absent /\ Calling[r].op = "Unlike" /\ Calling[r].mark = m
      /\ Calling[r].phase = "seen"
  BY <1>0, <1>2, <1>3, LikeCallFacts DEF PhaseOf
<1>5. /\ req'[r].pc = "done" /\ req'[r].call = req[r].call
      /\ req'[r].status \in {200, 500}
      /\ \A q \in Reqs : q # r => req'[q] = req[q]
  BY <1>0, <1>1, WrittenSlots DEF Statuses
<1>6. likes'[l] = Absent /\ \A k \in LikeIds : k # l => likes'[k] = likes[k]
  BY <1>0, <1>1, <1>3 DEF TablesOK
<1>7. likes[l] = m BY <1>0, <1>3 DEF TablesOK, LikeRow
<1>8. BoardOf' = BoardOf \ {m}
  <2>1. ASSUME NEW k \in LikeIds, k # l PROVE likes[k] # m
    BY <1>0, <1>3, <1>7, <2>1 DEF OneEach
  <2> HIDE DEF m, l
  <2> QED BY <1>3, <1>6, <1>7, <2>1 DEF BoardOf
<1>12. PICK told \in {"removed", "none"} : ToldOf(req'[r]) = told
  BY <1>2, <1>5 DEF ToldOf
<1>9. Seen(r)' = Answered(Calling[r], told)
  <2> DEFINE x == Calling[r]
  <2>1. x = Seen(r) BY DEF Calling, Seen
  <2>2. PICK p, t : x = [op |-> "Unlike", mark |-> m, phase |-> p, told |-> t]
    BY <1>0, <1>2, <2>1, LikeCallSeen, Zenon
  <2>3. Answered(x, told)
        = [op |-> "Unlike", mark |-> m, phase |-> "done", told |-> told]
    <3> HIDE DEF x, m
    <3> QED BY <2>2, AnsweredIs
  <2>4. PhaseOf(req[r])' = "done" /\ ToldOf(req[r])' = told
    BY <1>5, <1>12 DEF PhaseOf, ToldOf
  <2>5. Seen(r)' = [op |-> "Unlike", mark |-> m, phase |-> "done", told |-> told]
    BY <1>2, <1>5, <2>4 DEF Seen, BoardCall, LikeOps
  <2> HIDE DEF x, m, Seen
  <2>6. Seen(r)' = Answered(x, told) BY <2>3, <2>5
  <2> QED BY <2>6 DEF x
<1>10. ASSUME NEW q \in Reqs, q # r
       PROVE  Seen(q)' = IF Loses(q) THEN [Calling[q] EXCEPT !.phase = "moot"]
                                     ELSE Calling[q]
  <2>0. Calling[q] = Seen(q) BY DEF Calling, Seen
  <2>1. CASE ~At(q, "Unlike", "delete") \/ req[q].like # l
    <3>1. Seen(q)' = Seen(q)
      BY <1>0, <1>5, <1>6, <1>10, <2>1, Unmoved DEF LikeIsMine, Told
    <3>2. ~Loses(q)
      <4> SUFFICES ASSUME Loses(q) PROVE FALSE OBVIOUS
      <4>1. IsLikeCall(q) BY <2>0, OtherCallSeen
      <4>2. PhaseOf(req[q]) = "seen" /\ req[q].call.op = "Unlike"
            /\ [user |-> req[q].call.user, note |-> req[q].call.id] = m
        BY <1>0, <1>4, <4>1, LikeCallFacts
      <4>3. At(q, "Unlike", "delete") /\ likes[req[q].like] # Absent
        BY <4>2 DEF PhaseOf, At
      <4>4. req[q].call.user = u /\ req[q].call.id = n BY <4>2
      <4>5. /\ req[q].like \in LikeIds /\ likes[req[q].like].user = u
            /\ likes[req[q].like].note = n
        BY <1>0, <4>3, <4>4 DEF LikeIsMine
      <4>6. req[q].like = l BY <1>0, <1>3, <4>3, <4>5 DEF OneEach
      <4> QED BY <2>1, <4>3, <4>6
    <3> HIDE DEF Loses, Seen
    <3> QED BY <2>0, <3>1, <3>2
  <2>2. CASE At(q, "Unlike", "delete") /\ req[q].like = l
    <3>1. IsLikeCall(q) /\ req[q].call.op = "Unlike" /\ req[q].pc = "delete"
      BY <2>2 DEF IsLikeCall, At, LikeOps
    <3>2. req[q].call.user = u /\ req[q].call.id = n
      BY <1>0, <1>3, <2>2 DEF LikeIsMine
    <3>3. PhaseOf(req[q]) = "seen" /\ ToldOf(req[q]) = "pending"
      BY <1>3, <2>2, <3>1 DEF PhaseOf, ToldOf
    <3>4. Seen(q) = [op |-> "Unlike", mark |-> m, phase |-> "seen", told |-> "pending"]
      BY <1>0, <3>1, <3>2, <3>3, LikeCallSeen
    <3>5. Loses(q) BY <1>0, <1>4, <3>1, <3>2, <3>3, LikeCallFacts
    <3>6. PhaseOf(req[q])' = "moot" /\ ToldOf(req[q])' = "pending"
      BY <1>5, <1>6, <1>10, <2>2, <3>1 DEF PhaseOf, ToldOf
    <3>7. Seen(q)' = [op |-> "Unlike", mark |-> m, phase |-> "moot", told |-> "pending"]
      BY <1>5, <1>10, <3>1, <3>2, <3>6 DEF Seen, BoardCall, LikeOps
    <3>8. Seen(q)' = [Calling[q] EXCEPT !.phase = "moot"]
      <4> DEFINE old == Calling[q]  new == Seen(q)'
      <4>1. old = [op |-> "Unlike", mark |-> m, phase |-> "seen", told |-> "pending"]
        BY <2>0, <3>4
      <4>2. new = [op |-> "Unlike", mark |-> m, phase |-> "moot", told |-> "pending"]
        BY <3>7
      <4> HIDE DEF old, new, m
      <4>3. new = [old EXCEPT !.phase = "moot"] BY <4>1, <4>2
      <4> QED BY <4>3 DEF old, new
    <3> HIDE DEF Loses, Seen
    <3> QED BY <3>5, <3>8
  <2> QED BY <2>1, <2>2
<1>11. Calling' = [q \in Reqs |->
                     IF q = r THEN Answered(Calling[r], told)
                     ELSE IF Loses(q) THEN [Calling[q] EXCEPT !.phase = "moot"]
                     ELSE Calling[q]]
  <2>1. Calling' = [q \in Reqs |-> Seen(q)'] BY DEF Calling, Seen
  <2> HIDE DEF Loses, Seen
  <2> QED BY <1>9, <1>10, <2>1, Zenon
<1> HIDE DEF m
<1> QED BY <1>4, <1>8, <1>11, <1>12, Zenon DEF Board!Remove, Board!In, Calling, Answered

\* A client asks for a like or an unlike: the call is on, or refused at once.
LEMMA LikeBegins ==
  ASSUME TalkInv, NEW r \in Reqs, NEW c \in Calls, LikeArrival(r, c)
  PROVE  Board!Begin(r)
<1> DEFINE m == [user |-> c.user, note |-> c.id]
<1>0. TypeInv /\ req \in [Reqs -> Slot] BY DEF TalkInv, PinInv, TypeInv, TypeOK
<1>1. /\ c.op \in LikeOps /\ UNCHANGED likes
      /\ Reject(r, c, 400) \/ Enter(r, c, "find", Absent)
  BY DEF LikeArrival, Like, Unlike, LikeOps, likeVars
<1>2. m \in LikeRow
  BY <1>1, CallType DEF LikeRow, LikeOps
<1>3. req[r].pc = "idle" /\ \A q \in Reqs : q # r => req'[q] = req[q]
  BY <1>0, <1>1 DEF Reject, Enter, Idle
<1>4. Calling[r] = Absent BY <1>3 DEF Calling, BoardCall
<1>5. BoardOf' = BoardOf /\ Calling' = [Calling EXCEPT ![r] = Seen(r)']
  BY <1>1, <1>3, MineAlone
<1>6. CASE Reject(r, c, 400)
  <2>1. req'[r].pc = "done" /\ req'[r].call = c /\ req'[r].status = 400
    BY <1>0, <1>6 DEF Reject, Idle
  <2>2. PhaseOf(req[r])' = "done" /\ ToldOf(req[r])' = "none"
    BY <2>1 DEF PhaseOf, ToldOf
  <2>3. Seen(r)' = [op |-> c.op, mark |-> m, phase |-> "done", told |-> "none"]
    BY <1>1, <2>1, <2>2 DEF Seen, BoardCall
  <2> HIDE DEF m, Seen
  <2>4. Seen(r)' = Answered(Board!Pending(c.op, m), "none")
    <3> DEFINE o == c.op  x == Board!Pending(c.op, m)
    <3>1. x = [op |-> o, mark |-> m, phase |-> "open", told |-> "pending"]
      BY DEF Board!Pending
    <3> HIDE DEF o, x
    <3>2. Answered(x, "none") = [op |-> o, mark |-> m, phase |-> "done", told |-> "none"]
      BY <3>1, AnsweredIs
    <3>3. Seen(r)' = Answered(x, "none") BY <2>3, <3>2 DEF o
    <3> QED BY <3>3 DEF x
  <2>5. Calling' = [Calling EXCEPT ![r] = Answered(Board!Pending(c.op, m), "none")]
    BY <1>5, <2>4
  <2>6. c.op \in {"Like", "Unlike"} BY <1>1 DEF LikeOps
  <2> QED BY <1>2, <1>4, <1>5, <2>5, <2>6, Zenon DEF Board!Begin, Calling, Answered
<1>7. CASE Enter(r, c, "find", Absent)
  <2>1. req'[r].pc = "find" /\ req'[r].call = c
    BY <1>0, <1>7 DEF Enter, Idle
  <2>2. PhaseOf(req[r])' = "open" /\ ToldOf(req[r])' = "pending"
    BY <2>1 DEF PhaseOf, ToldOf
  <2>3. Seen(r)' = Board!Pending(c.op, m)
    BY <1>1, <2>1, <2>2 DEF Seen, BoardCall, Board!Pending
  <2>5. Calling' = [Calling EXCEPT ![r] = Board!Pending(c.op, m)]
    BY <1>5, <2>3
  <2>6. c.op \in {"Like", "Unlike"} BY <1>1 DEF LikeOps
  <2> HIDE DEF m
  <2> QED BY <1>2, <1>4, <1>5, <2>5, <2>6, Zenon DEF Board!Begin, Calling
<1> QED BY <1>1, <1>6, <1>7

\* The answer is delivered: the board's caller is free again.
LEMMA ReplyEnds ==
  ASSUME TalkInv, NEW r \in Reqs, Reply(r)
  PROVE  Board!End(r) \/ (BoardOf' = BoardOf /\ Calling' = Calling)
<1>0. TypeInv /\ req \in [Reqs -> Slot] BY DEF TalkInv, PinInv, TypeInv, TypeOK
<1>1. /\ req'[r] = Idle /\ UNCHANGED likes /\ req[r].pc = "done"
      /\ \A q \in Reqs : q # r => req'[q] = req[q]
  BY <1>0 DEF Reply, likeVars
<1>2. ~IsLikeCall(r)' BY <1>1 DEF IsLikeCall, Idle
<1>3. CASE ~IsLikeCall(r) BY <1>1, <1>2, <1>3, StepUnseen
<1>4. CASE IsLikeCall(r)
  <2>1. Calling[r] # Absent /\ Calling[r].phase = "done"
    BY <1>0, <1>1, <1>4, LikeCallFacts DEF PhaseOf
  <2>2. BoardOf' = BoardOf /\ Calling' = [Calling EXCEPT ![r] = Seen(r)']
    BY <1>1, MineAlone
  <2>3. Seen(r)' = Absent BY <1>1 DEF Seen, BoardCall, Idle
  <2>4. Calling' = [Calling EXCEPT ![r] = Absent] BY <2>2, <2>3
  <2> QED BY <2>1, <2>2, <2>4 DEF Board!End, Calling
<1> QED BY <1>3, <1>4

\* A step of r that touches no other slot, one that stays with its call, and
\* one of a request that is no like or unlike.
Alone(r) == \A q \in Reqs : q # r => req'[q] = req[q]
Kept(r)  == req'[r].call = req[r].call /\ Alone(r)
Quiet(r) == UNCHANGED likes /\ ~IsLikeCall(r) /\ ~IsLikeCall(r)' /\ Alone(r)

\* Requests about notes and comments are nothing to the board: their slots
\* serve no like call before or after, and they write no like.
LEMMA NotesQuiet ==
  ASSUME TalkInv, NEW r \in Reqs,
         \/ \E c \in Calls : NoteArrival(r, c) \/ CommentArrival(r, c)
         \/ NoteProgress(r) \/ CommentProgress(r)
         \/ NoteStatementFails(r) \/ CommentStatementFails(r)
  PROVE  Quiet(r)
<1>0. TypeInv /\ req \in [Reqs -> Slot] BY DEF TalkInv, PinInv, TypeInv, TypeOK
<1>1. ASSUME NEW c \in Calls, NoteArrival(r, c) \/ CommentArrival(r, c) PROVE Quiet(r)
  <2>1. c.op \in NoteOps \cup CommentOps /\ UNCHANGED likes
    BY <1>1 DEF NoteArrival, CommentArrival, CreateNote, GetNote, UpdateNote,
      DeleteNote, AddComment, DeleteComment, NoteOps, CommentOps, likeVars
  <2>2. \/ Reject(r, c, 400) \/ Reject(r, c, 422)
        \/ Enter(r, c, "find", Absent) \/ Enter(r, c, "insert", NewNote(c))
    BY <1>1 DEF NoteArrival, CommentArrival, CreateNote, GetNote, UpdateNote,
      DeleteNote, AddComment, DeleteComment
  <2>3. ASSUME NEW s, Reject(r, c, s)
        PROVE  req[r].pc = "idle" /\ req'[r].call = c /\ Alone(r)
    BY <1>0, <2>3 DEF Reject, Idle, Alone
  <2>4. ASSUME NEW pc, NEW row, Enter(r, c, pc, row)
        PROVE  req[r].pc = "idle" /\ req'[r].call = c /\ Alone(r)
    BY <1>0, <2>4 DEF Enter, Idle, Alone
  <2>5. req[r].pc = "idle" /\ req'[r].call = c /\ Alone(r) BY <2>2, <2>3, <2>4
  <2> QED BY <2>1, <2>5 DEF Quiet, IsLikeCall, NoteOps, CommentOps, LikeOps
<1>2. ASSUME NEW s, NEW w, Finish(r, s, w) PROVE Kept(r)
  BY <1>0, <1>2 DEF Finish, Slot, Kept, Alone
<1>3. ASSUME NEW s, Answer(r, s) \/ Written(r, s) PROVE Kept(r)
  <2>1. PICK st, w : Finish(r, st, w) BY <1>3, Zenon DEF Answer, Written
  <2> QED BY <1>2, <2>1
<1>4. ASSUME NEW pc, Goto(r, pc) PROVE Kept(r)
  BY <1>0, <1>4 DEF Goto, Slot, Kept, Alone
<1>5. ASSUME NEW pc, NEW row, Hold(r, pc, row) PROVE Kept(r)
  BY <1>0, <1>5 DEF Hold, Slot, Kept, Alone
<1>6. ASSUME Kept(r), UNCHANGED likes, req[r].call.op \in NoteOps \cup CommentOps
      PROVE  Quiet(r)
  BY <1>6 DEF Kept, Quiet, IsLikeCall, NoteOps, CommentOps, LikeOps
<1>7. CASE NoteProgress(r)
  <2>1. req[r].call.op \in NoteOps \cup CommentOps /\ UNCHANGED likes
    BY <1>7, ZenonT(30) DEF NoteProgress, InsertNote, GetFind, GetCount, UpdateFind, SaveUpdate,
      SaveInsert, DeleteFind, DeleteRow, At, NoteOps, likeVars
  <2>2. ASSUME GetCount(r) PROVE Kept(r)
    <3>1. req' = [req EXCEPT ![r] =
                    [@ EXCEPT !.pc = "done", !.status = 200, !.row = Absent,
                              !.count = CountByNote(req[r].call.id)]]
      BY <2>2 DEF GetCount
    <3>2. req'[r] = [req[r] EXCEPT !.pc = "done", !.status = 200, !.row = Absent,
                                   !.count = CountByNote(req[r].call.id)]
      BY <1>0, <3>1
    <3>3. req'[r].call = req[r].call BY <1>0, <3>2 DEF Slot
    <3>4. Alone(r) BY <1>0, <3>1 DEF Alone
    <3> QED BY <3>3, <3>4 DEF Kept
  <2>3. ASSUME GetFind(r) \/ UpdateFind(r) PROVE Kept(r)
    <3>1. (\E s : Answer(r, s)) \/ \E pc, row : Hold(r, pc, row)
      BY <2>3 DEF GetFind, UpdateFind
    <3> QED BY <1>3, <1>5, <3>1
  <2>4. ASSUME \/ InsertNote(r) \/ SaveUpdate(r) \/ SaveInsert(r)
               \/ DeleteFind(r) \/ DeleteRow(r)
        PROVE  Kept(r)
    <3>1. (\E s : Answer(r, s) \/ Written(r, s)) \/ \E pc : Goto(r, pc)
      BY <2>4 DEF InsertNote, SaveUpdate, SaveInsert, DeleteFind, DeleteRow
    <3> QED BY <1>3, <1>4, <3>1
  <2>5. Kept(r) BY <1>7, <2>2, <2>3, <2>4 DEF NoteProgress
  <2> QED BY <1>6, <2>1, <2>5, Zenon
<1>8. CASE CommentProgress(r)
  <2>1. req[r].call.op \in NoteOps \cup CommentOps /\ UNCHANGED likes
    BY <1>8 DEF CommentProgress, FindNoteToComment, InsertComment,
      FindCommentToDelete, DeleteCommentRow, At, CommentOps, likeVars
  <2>2. (\E s : Answer(r, s) \/ Written(r, s)) \/ \E pc : Goto(r, pc)
    BY <1>8 DEF CommentProgress, FindNoteToComment, InsertComment,
      FindCommentToDelete, DeleteCommentRow
  <2>3. Kept(r) BY <1>3, <1>4, <2>2
  <2> QED BY <1>6, <2>1, <2>3, Zenon
<1>9. CASE NoteStatementFails(r) \/ CommentStatementFails(r)
  <2>1. /\ req[r].call.op \in NoteOps \cup CommentOps /\ UNCHANGED likes
        /\ \E s : Answer(r, s)
    BY <1>9 DEF NoteStatementFails, CommentStatementFails, likeVars
  <2>2. Kept(r) BY <1>3, <2>1
  <2> QED BY <1>6, <2>1, <2>2
<1> QED BY <1>1, <1>7, <1>8, <1>9

LEMMA NotesUnseen ==
  ASSUME TalkInv, NEW r \in Reqs, Quiet(r)
  PROVE  BoardOf' = BoardOf /\ Calling' = Calling
BY StepUnseen DEF Quiet, Alone

\* The steps of a like or an unlike: each is one of the board, but for the
\* lookup of the note, which the board does not know of.
LEMMA LikesSeen ==
  ASSUME TalkInv, NEW r \in Reqs, LikeProgress(r) \/ LikeStatementFails(r)
  PROVE  \/ Board!BoardNext
         \/ BoardOf' = BoardOf /\ Calling' = Calling
<1>0. TypeInv /\ TablesOK /\ req \in [Reqs -> Slot] /\ likeSeq \in Nat
  BY BoundsAssumption DEF TalkInv, PinInv, TypeInv, TypeOK, TablesOK
<1>1. CASE FindNoteToLike(r)
  <2>1. At(r, "Like", "find") /\ UNCHANGED likes /\ IsLikeCall(r)
    BY <1>1 DEF FindNoteToLike, likeVars, IsLikeCall, At, LikeOps
  <2>2. CASE Answer(r, 404)
    BY <2>1, <2>2, GivesUp DEF Board!BoardNext, At, Statuses
  <2>3. CASE Goto(r, "insert")
    <3>1. /\ req'[r].pc = "insert" /\ req'[r].call = req[r].call
          /\ \A q \in Reqs : q # r => req'[q] = req[q]
      BY <1>0, <2>3 DEF Goto, Slot
    <3>2. PhaseOf(req[r])' = PhaseOf(req[r]) /\ ToldOf(req[r])' = ToldOf(req[r])
      BY <2>1, <3>1 DEF PhaseOf, ToldOf, At
    <3>3. Seen(r)' = Seen(r) BY <2>1, <3>1, <3>2 DEF Seen, BoardCall, At
    <3> QED BY <2>1, <3>1, <3>3, MineAlone, NoneSeen
  <2> QED BY <1>1, <2>2, <2>3 DEF FindNoteToLike
<1>2. CASE InsertLike(r)
  BY <1>2, LikeAdds, LikeConflicts DEF Board!BoardNext
<1>3. CASE FindLike(r)
  <2>1. At(r, "Unlike", "find") /\ UNCHANGED likes
    BY <1>3, Zenon DEF FindLike, likeVars
  <2>2. \/ /\ LikesBy(req[r].call.user, req[r].call.id) = {}
           /\ Answer(r, 404)
        \/ \E l \in LikesBy(req[r].call.user, req[r].call.id) :
             req' = [req EXCEPT ![r] = [@ EXCEPT !.pc = "delete", !.like = l]]
    BY <1>3 DEF FindLike
  <2>3. Board!Missing(r) \/ Board!See(r)
    BY <2>1, <2>2, LikeMissing, LikeFound, Zenon
  <2> QED BY <2>3 DEF Board!BoardNext
<1>4. CASE DeleteLike(r)
  BY <1>4, UnlikeTooLate, UnlikeRemoves DEF Board!BoardNext
<1>5. CASE LikeStatementFails(r)
  <2>1. /\ IsLikeCall(r) /\ req[r].pc # "done" /\ UNCHANGED likes
        /\ \/ Answer(r, 500)
           \/ Answer(r, 404) /\ req[r].call.op = "Like"
    BY <1>5 DEF LikeStatementFails, IsLikeCall, Statements, At, likeVars
  <2>2. Board!GiveUp(r) BY <2>1, GivesUp DEF Statuses
  <2> QED BY <2>2 DEF Board!BoardNext
<1> QED BY <1>1, <1>2, <1>3, <1>4, <1>5 DEF LikeProgress

LEMMA BoardStart ==
  ASSUME Init
  PROVE  Board!BoardInit
<1>1. BoardOf = {} BY DEF Init, BoardOf
<1>2. Calling = [r \in Reqs |-> Absent] BY DEF Init, Calling, BoardCall, Idle
<1> QED BY <1>1, <1>2 DEF Board!BoardInit, Calling

LEMMA BoardStep ==
  ASSUME TalkInv, [Next]_vars
  PROVE  [Board!BoardNext]_(Board!boardVars)
<1> SUFFICES Board!BoardNext \/ (BoardOf' = BoardOf /\ Calling' = Calling)
  BY DEF Board!boardVars, Calling
<1>1. CASE UNCHANGED vars
  BY <1>1 DEF vars, BoardOf, Calling, BoardCall, PhaseOf, ToldOf
<1>2. CASE Restart
  <2>1. BoardOf' = BoardOf BY <1>2 DEF Restart, likeVars, BoardOf
  <2>2. Calling' = [r \in Reqs |-> Absent] BY <1>2 DEF Restart, Calling, BoardCall, Idle
  <2> QED BY <2>1, <2>2 DEF Board!BoardNext, Board!Forget, Calling
<1>3. ASSUME NEW r \in Reqs, Arrive(r)
      PROVE  Board!BoardNext \/ (BoardOf' = BoardOf /\ Calling' = Calling)
  <2>1. CASE \E c \in Calls : LikeArrival(r, c)
    BY <2>1, LikeBegins DEF Board!BoardNext
  <2>2. CASE \E c \in Calls : NoteArrival(r, c) \/ CommentArrival(r, c)
    BY <2>2, NotesQuiet, NotesUnseen
  <2> QED BY <1>3, <2>1, <2>2 DEF Arrive
<1>4. ASSUME NEW r \in Reqs, Progress(r) \/ StatementFails(r)
      PROVE  Board!BoardNext \/ (BoardOf' = BoardOf /\ Calling' = Calling)
  BY <1>4, NotesQuiet, NotesUnseen, LikesSeen DEF Progress, StatementFails
<1>5. ASSUME NEW r \in Reqs, Reply(r)
      PROVE  Board!BoardNext \/ (BoardOf' = BoardOf /\ Calling' = Calling)
  BY <1>5, ReplyEnds DEF Board!BoardNext
<1> QED BY <1>1, <1>2, <1>3, <1>4, <1>5 DEF Next

\* The services, with their tables, statements, failures and restarts, are an
\* implementation of the like board for any number of requests and rows.
THEOREM ServicesImplementBoard == Spec => ImplementsBoard
<1>1. ASSUME TalkInv, [Next]_vars PROVE [Board!BoardNext]_(Board!boardVars)
  BY <1>1, BoardStep
<1> QED BY <1>1, BoardStart, TalkInvariant, PTL
        DEF Spec, ImplementsBoard, Board!BoardSpec
=============================================================================
