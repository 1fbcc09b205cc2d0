SPECIFICATION Spec
CHECK_DEADLOCK FALSE
CONSTANTS
  Calls = {c1, c2}
  Tools = {"edit", "fetch"}
  External = {"fetch"}
  Hooks = 2
  HasCallback = TRUE
  Attempts = 2
  Order <- MCOrder
  Updates <- MCUpdates
  Modes = {"bypassPermissions"}
  MaxFaults = 1
  None = none
  c1 = c1
  c2 = c2
  none = none
SYMMETRY Symmetry
INVARIANT TypeOK
INVARIANT ConsentGiven
INVARIANT OutcomeIsTrue
INVARIANT NoUpdateLost
