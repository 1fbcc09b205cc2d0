SPECIFICATION Spec
CHECK_DEADLOCK FALSE
CONSTANTS
  MaxRuns = 3
  Serial = TRUE
  Checkpointing = TRUE
  Persistent = TRUE
  Files = {f1, f2}
  MaxFaults = 2
  MaxRewinds = 2
  f1 = f1
  f2 = f2
SYMMETRY FileSymmetry
INVARIANT TypeOK
INVARIANT FreshIds
INVARIANT CheckpointsFaithful
INVARIANT AnswersKept
