SPECIFICATION FairSpec
CONSTANTS
  Clients  = {c1, c2, c3, c4}
  Gone     = Gone
  Count    = 2
  MaxQueue = 5
INVARIANTS
  PermitsConserved
  NoIdlePermit
  QueueMatchesClients
PROPERTIES
  ImplementsSemaphoreSpec
  WaitersAreServed
CHECK_DEADLOCK FALSE
