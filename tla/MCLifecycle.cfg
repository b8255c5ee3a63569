CONSTANTS
  c1 = c1
  c2 = c2
  c3 = c3
  r1 = r1
  r2 = r2
  Connection <- ThreeConnections
  Call <- TwoCalls
SPECIFICATION FairSpec
INVARIANTS
  NobodyIsCutOff
  DatabaseOutlivesHandlers
PROPERTIES
  ShutdownEnds
CHECK_DEADLOCK FALSE
