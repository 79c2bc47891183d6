SPECIFICATION FairSpec
CONSTANTS
  c1 = c1
  c2 = c2
  k1 = k1
  op1 = op1
  op2 = op2
  Calls = {c1, c2}
  KeyOf <- MCSameKey
  Amounts <- MCAmounts
  Operators = {op1, op2}
  MaxAttempts = 3
  NoCharge = NoCharge
INVARIANTS
  SettledOncePerKey
  ReadableOnceDecided
  StatusBackedByProcessor
  ReversedWasSettled
PROPERTIES
  StartedWorkflowsEnd
  OutcomeStands
CHECK_DEADLOCK FALSE
