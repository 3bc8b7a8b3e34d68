SPECIFICATION FairSpec
CONSTANTS
  i1 = i1
  i2 = i2
  o1 = o1
  o2 = o2
  o3 = o3
  t1 = t1
  t2 = t2
  c1 = c1
  Ids = {i1}
  Objects = {o1}
  Clients <- MCClients
  Closers <- MCClosers
  Sweeper = sweeper
  NoObject = NoObject
  NoId = NoId
  Nobody = Nobody
  PoolSize = 1
  QueueTimeout = TRUE
  MaxRequests = 3
  MaxCloses = 1
  MaxFaults = 1
PROPERTIES
  CallsReturn
  ExpiredIsSwept
CHECK_DEADLOCK FALSE
