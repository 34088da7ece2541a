SPECIFICATION FairSpec
CONSTANTS
  NEndpoints = 1
  MaxQueue = 1
  MaxWaits = 0
PROPERTIES
  ReconnectHappens
CHECK_DEADLOCK FALSE
