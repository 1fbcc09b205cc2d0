SPECIFICATION FairSpec
CHECK_DEADLOCK FALSE
CONSTANTS
  Callers = {p1, p2}
  MaxRuns = 1
  Length = 2
  OutCap = 1
  Sessions = {default, other}
  StartSession = default
  Torn = torn
  None = none
  p1 = p1
  p2 = p2
  default = default
  other = other
  torn = torn
  none = none
PROPERTY ReceiveReturns
