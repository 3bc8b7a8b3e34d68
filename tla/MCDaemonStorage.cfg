SPECIFICATION Spec
CONSTANTS
  d1 = d1
  d2 = d2
  d3 = d3
  top = top
  state = state
  logs = logs
  c1 = c1
  c2 = c2
  r1 = r1
  r2 = r2
  Daemons = {d1, d2, d3}
  Paths = {top, state, logs}
  Above <- MCAbove
  Roots <- MCRoots
  Order <- MCOrder
  Database = state
  Calls = {c1, c2}
  Requests = {r1, r2}
  SessionMax = 2
  ExecutionMax = 2
  PageLimit = 1
  MaxFaults = 1
INVARIANTS TypeOK ElectsOne QuotaKept OnceEach NoneForgotten
SYMMETRY Symmetry
CHECK_DEADLOCK FALSE
