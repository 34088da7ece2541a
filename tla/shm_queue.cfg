SPECIFICATION Spec
CONSTANTS
  s1 = s1
  s2 = s2
  r1 = r1
  r2 = r2
  Senders = {s1, s2}
  Receivers = {r1, r2}
  NBuf = 3
  MayLap = FALSE
  MaxMsg = 7
  MaxCrashes = 0
PROPERTIES
  ImplementsFifo
CHECK_DEADLOCK FALSE
