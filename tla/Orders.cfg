SPECIFICATION FairSpec
CONSTANTS
  r1 = r1
  r2 = r2
  k1 = k1
  op1 = op1
  Requests = {r1, r2}
  Keys = {k1}
  Operators = {op1}
  Prices <- MCPrices
  Quantities <- MCQuantities
  MaxAttempts = 3
  NoKey = NoKey
  NoOrder = NoOrder
  MoneyUnits <- MCUnits
  MoneyParts <- MCParts
INVARIANTS
  OneOrderPerKey
  ReadableOnceDecided
  ChargedAsRecorded
  SplitLosesNothing
  RoundsToNearest
PROPERTIES
  AcceptedCheckoutEnds
  SagaDecidesOnce
  CancelAfterSagaIsFinal
CHECK_DEADLOCK FALSE
