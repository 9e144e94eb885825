SPECIFICATION Spec
CONSTANTS
  IdRange = 4
  Regs    = {r1, r2, r3, r4, r5}
  None    = None
SYMMETRY Symmetry
INVARIANTS
  RegistrationIsKept
