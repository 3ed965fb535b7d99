\* Three processes race on one decision; one of them may die, any may give up.
CONSTANTS
  p1 = p1  p2 = p2  p3 = p3  pos1 = pos1  pos2 = pos2
  NoRow = NoRow  NoExit = NoExit  Free = Free  NoPosition = NoPosition
  Positions = {pos1, pos2}
  Fills = {"filled", "rejected"}
  Exits = {"stop", "target", "other"}
  PositionOf <- FillPositions
  ClosedOf <- ExitPositions
  Processes = {p1, p2, p3}
  Decisions = {"d1"}
  LockBackend = "msvcrt"
  MaxCalls = 1
  MaxCrashes = 1
SPECIFICATION FairSpec
INVARIANTS
  CachesBehindDisk
  ReturnsAreTrue
  ExitsFitFills
PROPERTIES
  WriteOnce
  CallsEnd
