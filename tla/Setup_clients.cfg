CONSTANTS
  c1 = c1
  c2 = c2
  Clients = {c1, c2}
  OptionLists <- Lists
  CallerServers <- MCCallerServers
  ConfigServers <- MCConfigServers
  Shared = Shared
  Nil = Nil
  Serial = TRUE
  MaxStarts = 2
  MaxTurns = 1
  MaxFaults = 1
SYMMETRY Symmetry
SPECIFICATION Spec
INVARIANT TypeOK
INVARIANT ToolsOffered
PROPERTY ForkIsNew
PROPERTY RequestsCarryOptions
CHECK_DEADLOCK FALSE
