SPECIFICATION Spec
CONSTANTS
  r1 = r1
  r2 = r2
  k1 = k1
  op1 = op1
  Requests = {r1, r2}
  Keys = {k1}
  Operators = {}
  Prices <- MCPrices
  Quantities <- MCQuantities
  MaxAttempts = 2
  NoKey = NoKey
  NoOrder = NoOrder
  MoneyUnits <- MCUnits
  MoneyParts <- MCParts
INVARIANT
  RetryReturnsFirstOrder
CHECK_DEADLOCK FALSE
