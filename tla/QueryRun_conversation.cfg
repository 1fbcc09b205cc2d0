SPECIFICATION Spec
CHECK_DEADLOCK FALSE
CONSTANTS
  MaxQueries = 2
  Inputs = 2
  MaxTurns = 2
  MaxEvents = 1
  CallIdx = {0, 1}
  Costs = {}
  Budget = 3
  HasFallback = FALSE
  Partial = TRUE
  Checkpointing = TRUE
  SystemPrompt = FALSE
  OutCap = 1
  ErrCap = 1
INVARIANT TypeOK
INVARIANT HistoryBalanced
INVARIANT RequestsCarryWhatWasShown
INVARIANT ToolsRunOnce
PROPERTY ImplementsConversation
