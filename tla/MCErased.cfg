SPECIFICATION Spec
CONSTANTS
  ann = ann
  bob = bob
  r1 = r1
  r2 = r2
  r3 = r3
  Users <- TwoUsers
  Reqs <- TwoReqs
  Calls <- NoteCalls
  MaxNotes = 1
  MaxComments = 1
  MaxLikes = 0
  Absent = Absent
  NoCall = NoCall
  CommentFK = FALSE
  Faults = FALSE

INVARIANT ErasedStayErased
