SPECIFICATION FairSpec
CONSTANTS
  NEndpoints = 2
  MaxQueue = 2
  MaxWaits = 2
INVARIANTS
  TypeOK
  NeverStranded
  

  
CHECK_DEADLOCK FALSE
