SPECIFICATION Spec
CONSTANTS
  t1 = t1
  t2 = t2
  ann = ann
  bob = bob
  Tabs = {t1, t2}
  Users = {ann, bob}
  Uploads = {p1, p2}
  Chunks = 2
  MaxTime = 1
  None = None
  Scenes <- TabScenes
  Letters <- Parity
INVARIANTS GoodTokenIsSent AloneTheCountIsRight PublishedPhotoIsWhole
PROPERTIES NoButtonSpinsForever
CHECK_DEADLOCK FALSE
