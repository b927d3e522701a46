SPECIFICATION Spec
CONSTANTS
  ann = ann
  bob = bob
  r1 = r1
  r2 = r2
  r3 = r3
  Users <- TwoUsers
  Reqs <- TwoReqs
  Calls <- TalkCalls
  MaxNotes = 1
  MaxComments = 1
  MaxLikes = 2
  Absent = Absent
  NoCall = NoCall
  CommentFK = FALSE
  Faults = TRUE
INVARIANTS AnswerTellsEffect RefsWereCreated RemovedOnce
PROPERTIES EveryRequestEnds OnlyLikerUnlikes ImplementsBoard
