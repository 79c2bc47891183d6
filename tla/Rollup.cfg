SPECIFICATION RollupFairSpec
CONSTANTS
  v1 = v1
  v2 = v2
  a1 = a1
  a2 = a2
  viewed = viewed
  placed = placed
  p1 = p1
  p2 = p2
  Visits = {v1, v2}
  Replacement <- MCReplacement
  Names = {viewed, placed}
  Steps <- MCSteps
  Hours = {1, 2}
  MaxDay = 2
  TrailingDays = 2
  Rollups = {p1, p2}
  MaxEvents = 2
  MaxErrors = 1
  NoCount = NoCount
  NoRollup = NoRollup
INVARIANTS
  CountsAreTraversals
PROPERTIES
  RollupSettles
  ErasureKeepsCounts
CHECK_DEADLOCK FALSE
