SPECIFICATION FairSpec
CONSTANTS
  MaxOps = 3
  MaxUnits = 2
  MaxEvents = 2
  MaxOpens = 2
INVARIANTS
  TypeOK
  WorkCounted
PROPERTIES
  ImplementsAsyncOps
  NoLostEdge
  HandlersRun
CHECK_DEADLOCK FALSE
