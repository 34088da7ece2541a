SPECIFICATION FairSpec
CONSTANTS
  s1 = s1
  s2 = s2
  Senders = {s1, s2}
  IsClient = FALSE
  UsesDrop = FALSE
  MaxMsg = 4
  MaxFaults = 2
  MaxReconnects = 0
INVARIANTS
  NothingLost
PROPERTIES
  AcceptedIsWritten
CHECK_DEADLOCK FALSE
