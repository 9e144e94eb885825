SPECIFICATION Spec
CONSTANTS
  Handles   = {h1, h2}
  Coros     = {c1, c2}
  Fds       = {f1, f2}
  NoFd      = NoFd
  MaxOpens  = 2
  Exclusive = TRUE
SYMMETRY Symmetry
INVARIANTS
  TypeOK
  NoOperationStrays
  HeldOnce
CHECK_DEADLOCK FALSE
