SPECIFICATION FairSpec
CHECK_DEADLOCK FALSE
CONSTANTS
  MaxEvents = 3
  MaxAttempts = 3
  StreamCap = 1
  ErrCap = 1
  IdleTimeout = TRUE
  Deadline = TRUE
INVARIANT TypeOK
INVARIANT CleanEnd
PROPERTY TransportEnds
PROPERTY AttemptEnds
