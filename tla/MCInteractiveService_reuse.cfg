SPECIFICATION Spec
CONSTANTS
  s1 = s1
  SessionIds = {s1}
  Capacity = 1
  MaxExecs = 0
  MaxFaults = 0
  MaxIoFaults = 2
  MaxStops = 0
  MaxForgets = 1
INVARIANTS OwnershipDurable
CHECK_DEADLOCK FALSE
