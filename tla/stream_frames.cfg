SPECIFICATION FairSpec
CONSTANTS
  Zero <- MCZero
  SizeMax = 9
  HeaderUnits = 2
  MaxLen = 3
  MaxFrames = 2
  MaxConns = 2
  MaxOps = 2
INVARIANTS
  TypeOK
  FramesIntact
PROPERTIES
  PointersInside
  FramesArrive
CHECK_DEADLOCK FALSE
