\* A checkpoint is written and the row is not, and the decision comes again.
CONSTANTS
  d1 = d1  d2 = d2
  NoRow = NoRow  NoExit = NoExit
  Decisions = {d1, d2}
  MaxPositions = 2
  MaxFaults = 1
SPECIFICATION Spec
INVARIANTS
  FirstCycleWins
CHECK_DEADLOCK FALSE
