SPECIFICATION FairSpec
CHECK_DEADLOCK FALSE
CONSTANTS
  MaxInputs = 3
  Length = 3
  InCap = 2
  MsgCap = 1
  ErrCap = 1
  OutCap = 1
  Sessions = {default, other}
  StartSession = default
  None = none
  default = default
  other = other
  none = none
INVARIANT TypeOK
INVARIANT TurnsAreSerial
INVARIANT AnswersRelayed
INVARIANT EndIsTold
PROPERTY StoppedStreamEnds
