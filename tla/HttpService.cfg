SPECIFICATION OpenServiceSpec
CONSTANTS
  k1 = k1
  k2 = k2
  Calls = {c1}
  Objects = {k1, k2}
  Requests <- ServiceRequests
  PoolSize = 1
  Nobody = Nobody
INVARIANTS
  CleanExitLosesNoCall
  ToldTheTruth
PROPERTIES
  ExitReleasesServer
  EveryClientHears
  LivesAsServeHTTP
