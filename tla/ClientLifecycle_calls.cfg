SPECIFICATION Spec
CHECK_DEADLOCK FALSE
CONSTANTS
  Callers = {p1, p2}
  MaxRuns = 2
  Length = 2
  OutCap = 1
  Sessions = {default}
  StartSession = default
  Torn = torn
  None = none
  p1 = p1
  p2 = p2
  default = default
  torn = torn
  none = none
SYMMETRY CallerSymmetry
INVARIANT TypeOK
INVARIANT NoOrphan
INVARIANT InterruptReaches
INVARIANT ResponseIsWhole
