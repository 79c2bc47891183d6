SPECIFICATION FairSpec
CONSTANTS
  membership = membership
  oldOrder = oldOrder
  oldEvent = oldEvent
  newOrder = newOrder
  newEvent = newEvent
  Old = {membership, oldOrder, oldEvent}
  Writers = {}
  StoreOf <- MCStoreOf
  MaxAttempts = 2
  MaxFaults = 1
PROPERTIES
  TuplesOfGoneAreErased
CHECK_DEADLOCK FALSE
