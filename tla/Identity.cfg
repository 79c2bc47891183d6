SPECIFICATION Spec
CONSTANTS
  Deliveries = {d1, d2}
  Edits = {e1, e2}
  Requests <- MCRequests
  Names <- MCNames
  FirstName = "old"
  MaxOrgs = 2
  MaxAttempts = 2
INVARIANTS
  OnePersonalOrg
  OrgClaimIsGranted
  TupleFollowsRun
SYMMETRY MCSymmetry
CHECK_DEADLOCK FALSE
