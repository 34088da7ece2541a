SPECIFICATION Spec
CONSTANTS
  s1 = s1
  s2 = s2
  r1 = r1
  r2 = r2
  Senders = {s1}
  Receivers = {r1}
  NBuf = 2
  MayLap = TRUE
  MaxMsg = 4
  MaxCrashes = 0
INVARIANTS
  Fifo
CHECK_DEADLOCK FALSE
