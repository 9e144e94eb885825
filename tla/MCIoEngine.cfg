SPECIFICATION FairSpec
CONSTANTS
  Requests  = {r1, r2, r3}
  MaxEvents = 2
  Signals   = TRUE
INVARIANTS
  CountersExact
  WaitsForSomething
  QueueHoldsOneBurst
PROPERTIES
  ImplementsIoSpec
CHECK_DEADLOCK FALSE
