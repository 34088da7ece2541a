SPECIFICATION FairSpec
CONSTANTS
  Garbage = {0, 2}
  Sizes = {3, 5}
  NBuf = 2
  Texts = {1, 2}
  MaxMsg = 3
  MaxFaults = 1
INVARIANTS
  TypeOK
  PacketIntact
  FreshAfterOpen
PROPERTIES
  NeitherStops
  QueuedIsReceived
CHECK_DEADLOCK FALSE
