SPECIFICATION Spec
CHECK_DEADLOCK FALSE
CONSTANTS
  MaxQueries = 2
  Inputs = 1
  MaxTurns = 2
  MaxEvents = 1
  CallIdx = {0}
  Costs = {2}
  Budget = 3
  HasFallback = FALSE
  Partial = FALSE
  Checkpointing = FALSE
  SystemPrompt = FALSE
  OutCap = 1
  ErrCap = 1
INVARIANT SessionWithinBudget
