CONSTANTS
  MaxSize = 2
  Buf     = 2
SPECIFICATION FairSpec
CHECK_DEADLOCK FALSE
INVARIANT NeverPanics
