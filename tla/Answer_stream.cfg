SPECIFICATION Spec
CHECK_DEADLOCK FALSE
CONSTANTS
  Words = {w, space}
  Space = space
  Urls = {u1}
  Indices = {0, 2}
  Pieces = 2
  MaxWords = 3
  MaxParts = 2
  MaxStated = 2
  MaxErrors = 1
  MaxUsage = 1
  None = none
  w = w
  space = space
  u1 = u1
  none = none
INVARIANT TypeOK
INVARIANT TextAsSaid
INVARIANT ShownIsKept
INVARIANT CallsAsSent
