SPECIFICATION Spec
CONSTANTS
  Scripted = {0}
  MaxFaults = 1
  MaxOpen = 1
INVARIANT DefaultAccounts
