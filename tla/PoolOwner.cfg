CONSTANTS
  NoId = NoId  NoTenure = NoTenure  NoRequest = NoRequest
  w1 = w1  w2 = w2  i1 = i1  i2 = i2  j1 = j1  j2 = j2
  Workers = {w1, w2}
  Ids = {i1, i2, j1, j2}
  WorkerOf <- TwoIdsEach
  TTL = 2  MultiReplica = TRUE  MaxLatency = 1  MaxFailures = 1
SPECIFICATION FairSpec
CHECK_DEADLOCK FALSE
INVARIANTS TenureIsBacked OneLocalOwner StepsOfOneTenure NoOwnerAfterStop
PROPERTIES SomeWorkerTakesOver
