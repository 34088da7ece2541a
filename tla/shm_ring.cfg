SPECIFICATION FairSpec
CONSTANTS
  s1 = s1
  s2 = s2
  r1 = r1
  r2 = r2
  Senders = {s1}
  Receivers = {r1, r2}
  NBuf = 2
  MayLap = TRUE
  MaxMsg = 4
  MaxCrashes = 2
INVARIANTS
  TypeOK
  MutualExclusion
  SemBound
  TokensMatchIndices
PROPERTIES
  DeliveredOrOverwritten
CHECK_DEADLOCK FALSE
