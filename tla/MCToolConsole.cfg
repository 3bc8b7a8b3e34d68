CONSTANTS
  Languages = {"tcl", "shell"}
  MaxExecs = 2
  CodeLines = 1
  QueueCap = 1
  PipeCap = 1
  StdinCap = 2
  Budget = 3
  MaxUnits <- MCMaxUnits
SPECIFICATION FairSpec
INVARIANTS
  TypeOK
  ResultIsOwn
  KnownLossIsExact
PROPERTIES
  ExecutionReturns
  ToolFollowsWorker
CHECK_DEADLOCK FALSE
