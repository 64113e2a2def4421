SPECIFICATION OpenFairSpec
CONSTANTS
  k1 = k1
  k2 = k2
  t1 = t1
  Calls = {c1, c2}
  Objects = {k1, k2}
  Requests <- RowRequests
  PoolSize = 1
  Nobody = Nobody
INVARIANTS
  TypeOK
  PoolAccounting
PROPERTIES
  EveryCallReturns
  LocksAreReleased
