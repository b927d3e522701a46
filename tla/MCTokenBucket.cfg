SPECIFICATION Spec
CONSTANTS
  home = home
  cafe = cafe
  w1 = w1
  w2 = w2
  IPs = {home}
  Workers = {w1, w2}
  reqs = 2
  window = 3
  MaxDelay = 0
  MaxTime = 6
  MaxCount = 6
SYMMETRY Symmetry
CHECK_DEADLOCK FALSE
INVARIANT TokenBucket
