SPECIFICATION FairSpec
CONSTANTS
  t1 = t1
  t2 = t2
  Tables = {t1, t2}
  MaxRuns = 3
  MaxAttempts = 2
  MaxRotations = 1
INVARIANTS
  LeftoverIsReported
  CompletedRunFoundRows
PROPERTIES
  RunsEnd
CHECK_DEADLOCK FALSE
