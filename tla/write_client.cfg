SPECIFICATION Spec
CONSTANTS
  s1 = s1
  s2 = s2
  Senders = {s1, s2}
  IsClient = TRUE
  UsesDrop = TRUE
  MaxMsg = 4
  MaxFaults = 3
  MaxReconnects = 2
SYMMETRY Perms
INVARIANTS
  TypeOK
  SingleWriter
  FrontDefined
  InOrder
CHECK_DEADLOCK FALSE
