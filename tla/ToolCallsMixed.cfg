SPECIFICATION OpenSpec
CONSTANTS
  k1 = k1
  k2 = k2
  t1 = t1
  Calls = {c1, c2}
  Objects = {k1, k2, t1}
  Requests <- MixedRequests
  PoolSize = 2
  Nobody = Nobody
INVARIANTS
  InsertAllOrNothing
  ExecutedTellsTheTruth
  FailedRowLeavesNothing
  ReturnedConnectionIsClean
PROPERTY
  KeepsThePromise
