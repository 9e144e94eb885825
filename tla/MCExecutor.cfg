SPECIFICATION FairSpec
CONSTANTS
  Coros       = {main, a, b}
  Main        = main
  Fuel        = 1
  SpinnerSets = {{}, {a}}
  App         = App
  None        = None
  YieldTask   = YieldTask
  IoTask      = IoTask
INVARIANTS
  TypeOK
  OneTaskPerSuspension
  AwaitsAreWellFounded
  BlocksOnlyWhenIdle
  CleanExit
  NoExceptionIsLost
PROPERTIES
  SuspensionsEnd
  ApplicationEnds
CHECK_DEADLOCK FALSE
