SPECIFICATION Spec
CONSTANTS
  Kinds <- MCKinds
  MaxRetries = 1
  MaxCalls = 3
  MaxFaults = 2
INVARIANT RunsOnHistory
CHECK_DEADLOCK FALSE
