SPECIFICATION FairSpec
CONSTANTS
  MaxEndpoints = 2
  MayStall = TRUE
INVARIANTS TypeOK
PROPERTIES TimeoutSparesConnection ConnectsEnd StopEndsLoop
CHECK_DEADLOCK FALSE
