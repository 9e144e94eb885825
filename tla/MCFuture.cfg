SPECIFICATION Spec
CONSTANTS
  Promises = {p1, p2}
  Futures  = {f1, f2, f3}
  States   = {s1, s2, s3}
  Null     = Null
  Unborn   = Unborn
SYMMETRY Symmetry
INVARIANTS
  RefCountExact
  OneOwnerPerSide
  PendingHasProducer
PROPERTIES
  ResultIsFinal
  RefusalIsJustified
