SPECIFICATION SpecWithAssign
CONSTANTS
  Promises = {p1, p2}
  Futures  = {f1}
  States   = {s1, s2}
  Null     = Null
  Unborn   = Unborn
INVARIANT ReleaseIsValid
CHECK_DEADLOCK FALSE
