CONSTANTS
  MaxSize = 6
  Buf     = 2
SPECIFICATION FairSpec
CHECK_DEADLOCK FALSE
INVARIANTS TypeOK OutputIsPrefix SuccessIsComplete TroubleHasACause
PROPERTY CopyEnds
