SPECIFICATION Spec
CONSTANTS
  Scripted = {0, 3, 4, 5, 6, 7, 8, 9}
  MaxFaults = 3
  MaxOpen = 1
INVARIANTS SeededOnce SeedHasNoHoles AdminWhenListening
PROPERTIES ComesUp GoesDown
