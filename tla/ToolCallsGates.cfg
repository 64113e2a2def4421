SPECIFICATION Spec
CONSTANTS
  k1 = k1
  k2 = k2
  t1 = t1
  Calls = {c1}
  Objects = {k1, k2, t1}
  Requests <- EveryRequest
  PoolSize = 1
  Nobody = Nobody
INVARIANTS
  OnlyPermittedChanges
  QueriesWriteNothing
