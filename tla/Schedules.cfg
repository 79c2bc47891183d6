SPECIFICATION FairSpec
CONSTANTS
  kept = kept
  dropped = dropped
  added = added
  foreign = foreign
  o1 = o1
  n1 = n1
  n2 = n2
  Old = Old
  New = New
  Ids = {kept, dropped, added, foreign}
  FileOf <- MCFileOf
  Foreign = {foreign}
  Pods = {o1, n1, n2}
  VersionOf <- MCVersionOf
  MayPause = {kept}
  NoContent = NoContent
  MaxFaults = 1
  MaxRestarts = 1
PROPERTIES
  ForeignKept
  ObligationStands
  ReconcileSettles
CHECK_DEADLOCK FALSE
