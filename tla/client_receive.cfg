SPECIFICATION FairSpec
CONSTANTS
  NEndpoints = 12
  MaxQueue = 0
  MaxWaits = 0
INVARIANTS
  OneActivity
PROPERTIES
  LeavesConnectedByError
  ReconnectHappens
CHECK_DEADLOCK FALSE
