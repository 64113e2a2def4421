SPECIFICATION Spec
CONSTANTS
  Conns = {c1, c2, c3}
INVARIANTS
  CleanExitIsDrained
  DatabaseOutlivesHandlers
PROPERTIES
  ServerClosedIsNeverSelected
  SignalEndsProcess
