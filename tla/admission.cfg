SPECIFICATION FairSpec
CONSTANTS
  r1 = r1
  r2 = r2
  r3 = r3
  Requests <- ThreeRequests
  MaxConnections = 2
INVARIANTS
  TypeOK
  ServedWithinMax
  CountersExact
  ReturnIsDrained
PROPERTIES
  SignalStopsServer
CHECK_DEADLOCK FALSE
