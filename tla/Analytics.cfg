SPECIFICATION FairSpec
CONSTANTS
  s1 = s1
  e1 = e1
  e2 = e2
  p1 = p1
  p2 = p2
  Sessions = {s1}
  Events = {e1, e2}
  SessionOf <- MCSessionOf
  OccurredAt <- MCOccurredAt
  Export <- MCExport
  MonthLength = 2
  Period = 1
  LastInstant = 3
  MaxCalls = 2
  MaxDecisions = 2
  Passes = {p1, p2}
  MaxFailures = 1
  NoPass = NoPass
INVARIANTS
  StoredUnderGrant
  AnsweredIsKept
PROPERTIES
  OnlyExpiredRowsGo
  RetentionSettles
CHECK_DEADLOCK FALSE
