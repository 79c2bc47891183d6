SPECIFICATION FairSpec
CONSTANTS
  c1 = c1
  c2 = c2
  k1 = k1
  op1 = op1
  op2 = op2
  Calls = {c1, c2}
  KeyOf <- MCSameKey
  Amounts <- MCAmounts
  Operators = {op1}
  MaxAttempts = 2
  NoCharge = NoCharge
PROPERTIES
  AcceptedChargeEnds
CHECK_DEADLOCK FALSE
