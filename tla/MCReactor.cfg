CONSTANTS
  IdRange = 3
  Regs    = {r1, r2, r3, r4}
  Others  = {f, g}
  Typed   = {t1, t2}
  Erased  = {e1, e2}
  None    = None
SPECIFICATION ReactorSpec
SYMMETRY Symmetry
CHECK_DEADLOCK FALSE
INVARIANTS RoutinesAreOwned FunctionsRunOnce OnlyLiveRoutines HeldRoutinesStay
