SPECIFICATION Spec
CONSTANTS
  Kinds <- MCKinds
  MaxRetries = 1
  MaxCalls = 5
  MaxFaults = 4
INVARIANTS
  TypeOK
  HistoryIsAcked
  NoSilentLoss
  RetriesOnHistory
  MendsItself
CHECK_DEADLOCK FALSE
