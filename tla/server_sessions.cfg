SPECIFICATION FairSpec
CONSTANTS
  MaxSessions = 2
  MaxKept = 1
  MaxQueue = 1
  MaxSenders = 2
  MaxFailures = 1
INVARIANTS
  TypeOK
  ConnectedHasOneReader
  EndIsBounded
PROPERTIES
  DisconnectedIsQuiet
  EndIsReported
  WaitingIsServed
  NothingStays
CHECK_DEADLOCK FALSE
