\* Two callers, one of which needs a larger pool; specialists that may hang.
CONSTANTS
  solo = solo  pair = pair  good = good  stale = stale  k1 = k1  i1 = i1  i2 = i2
  None = None  Raised = Raised
  Callers = {solo, pair}
  Team <- Teams
  MinPoolWorkers = 1
  Snapshots = {good, stale}
  Stale = {stale}
  CycleIds = {k1}
  Instruments = {i1, i2}
  Answers <- SomeAnswers
  MaxRuns <- TwoAndOne
SPECIFICATION FairSpec
INVARIANTS
  EveryoneAccountedFor
PROPERTIES
  ProposalsAreUnanimous
  DisturbedByLarger
  NoLateStart
  RunsEnd
CHECK_DEADLOCK FALSE
