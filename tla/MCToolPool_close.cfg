CONSTANTS
  s1 = s1
  s2 = s2
  w1 = w1
  w2 = w2
  w3 = w3
  c1 = c1
  Sessions <- MCSessions
  Workers <- MCWorkers
  Closers <- MCClosers
  NoWorker = NoWorker
  Supervisor = Supervisor
  PoolSize = 1
  PrewarmConcurrency = 1
  Prewarm = TRUE
  Replenish = TRUE
  Reuse = TRUE
  Tool = "innovus"
  IncompletePolicy = "reuse_with_retry"
  QueueTimeout = TRUE
  MaxCloses = 1
  MaxFaults = 1
SPECIFICATION Spec
SYMMETRY Symmetry
INVARIANTS
  TypeOK
  WorkerExclusive
  WorkersAccounted
  ResidueIsMarked
PROPERTY LeaseSpec
