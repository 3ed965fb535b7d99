\* Two decisions, any two exceptions or deaths.
CONSTANTS
  d1 = d1  d2 = d2
  NoRow = NoRow  NoExit = NoExit
  Decisions = {d1, d2}
  MaxPositions = 3
  MaxFaults = 2
SPECIFICATION FairSpec
INVARIANTS
  AuditNeverAhead
PROPERTIES
  EngineKept
  ExitsReachRecord
CHECK_DEADLOCK FALSE
