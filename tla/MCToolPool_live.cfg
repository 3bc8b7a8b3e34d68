CONSTANTS
  s1 = s1
  s2 = s2
  w1 = w1
  w2 = w2
  w3 = w3
  c1 = c1
  Sessions <- MCSessions
  Workers = {w1, w2}
  Closers <- MCClosers
  NoWorker = NoWorker
  Supervisor = Supervisor
  PoolSize = 1
  PrewarmConcurrency = 1
  Prewarm = TRUE
  Replenish = TRUE
  Reuse = FALSE
  Tool = "primetime"
  IncompletePolicy = "discard"
  QueueTimeout = TRUE
  MaxCloses = 1
  MaxFaults = 1
SPECIFICATION FairSpec
INVARIANTS
  StartingCount
  CapacityRespected
PROPERTIES
  CallsReturn
  Replenished
