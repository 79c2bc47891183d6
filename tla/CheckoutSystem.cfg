SPECIFICATION Spec
CONSTANTS
  r1 = r1
  k1 = k1
  op1 = op1
  d1 = d1
  Requests = {r1}
  Keys = {k1}
  CancelOperators = {op1}
  RefundOperators = {}
  DirectCalls = {d1}
  DirectKey <- MCDirectKey
  DirectAmounts = {1}
  Prices <- MCPrices
  Quantities <- MCQuantities
  MaxAttempts = 2
  NoKey = NoKey
  NoOrder = NoOrder
  NoCharge = NoCharge
INVARIANTS
  PaidOncePerKey
  ChargeMatchesOrder
  ConfirmedIsCharged
PROPERTIES
  ChargedTotalStands
  PlacementKept
CHECK_DEADLOCK FALSE
