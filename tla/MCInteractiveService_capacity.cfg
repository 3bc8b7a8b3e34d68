SPECIFICATION Spec
CONSTANTS
  s1 = s1
  s2 = s2
  SessionIds = {s1, s2}
  Capacity = 1
  MaxExecs = 0
  MaxFaults = 1
  MaxIoFaults = 0
  MaxStops = 1
  MaxForgets = 1
SYMMETRY Symmetry
INVARIANTS CapacityCoversTrees
CHECK_DEADLOCK FALSE
