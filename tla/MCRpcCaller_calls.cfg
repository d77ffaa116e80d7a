SPECIFICATION FairSpec
CONSTANTS
  c1 = c1
  c2 = c2
  c3 = c3
  Calls = {c1, c2, c3}
  NoCall = nocall
  Nestings <- BothShapes
  OneWay = {c3}
  Overlap = FALSE
  Faults = TRUE
  Breaks = TRUE
INVARIANTS TypeOK PendingMatchesCalls ResponseBeatsTimeout FramesAreFound
PROPERTIES ImplementsRemoteCall UntimedCallsEnd EveryCallEnds
CHECK_DEADLOCK FALSE
