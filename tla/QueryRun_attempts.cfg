SPECIFICATION FairSpec
CHECK_DEADLOCK FALSE
CONSTANTS
  MaxQueries = 1
  Inputs = 2
  MaxTurns = 2
  MaxEvents = 2
  CallIdx = {0}
  Costs = {2}
  Budget = 3
  HasFallback = TRUE
  Partial = FALSE
  Checkpointing = FALSE
  SystemPrompt = TRUE
  OutCap = 1
  ErrCap = 1
INVARIANT OneModelPerTurn
INVARIANT RunWithinBudget
INVARIANT RunReportsItsEnd
PROPERTY EveryRunEnds
PROPERTY CancelledRunEnds
