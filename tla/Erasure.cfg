SPECIFICATION FairSpec
CONSTANTS
  membership = membership
  oldOrder = oldOrder
  oldEvent = oldEvent
  newOrder = newOrder
  newEvent = newEvent
  Old = {membership, oldOrder, oldEvent}
  Writers = {newOrder, newEvent}
  StoreOf <- MCStoreOf
  MaxAttempts = 2
  MaxFaults = 2
INVARIANTS
  TuplesGoLast
  CompletedErasureIsTotal
PROPERTIES
  OnlyTheGoneAreSwept
  RowsOfGoneAreErased
CHECK_DEADLOCK FALSE
