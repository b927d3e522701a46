SPECIFICATION Spec
CONSTANTS
  home = home
  cafe = cafe
  w1 = w1
  w2 = w2
  IPs = {home, cafe}
  Workers = {w1, w2}
  reqs = 1
  window = 2
  MaxDelay = 1
  MaxTime = 5
  MaxCount = 3
SYMMETRY Symmetry
CHECK_DEADLOCK FALSE
INVARIANTS LimiterTypeOK BurstBound RefusalsAreEarned
PROPERTY WindowsDoNotOverlap
