SPECIFICATION FairSpec
CONSTANTS
  s1 = s1
  SessionIds = {s1}
  Capacity = 1
  MaxExecs = 1
  MaxFaults = 1
  MaxIoFaults = 1
  MaxStops = 2
  MaxForgets = 0
INVARIANTS TypeOK OwnershipDurable NoLeakedPermit RecordsAgree
PROPERTIES EndedIsFinal CreateEnds EndedIsReleased
CHECK_DEADLOCK FALSE
