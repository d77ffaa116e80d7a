SPECIFICATION Spec
CONSTANTS
  c1 = c1
  c2 = c2
  c3 = c3
  Calls = {c1, c2, c3}
  NoCall = nocall
  Nestings <- OnlyOneSided
  OneWay = {}
  Overlap = TRUE
  Faults = FALSE
  Breaks = FALSE
PROPERTIES ImplementsRemoteCall
CHECK_DEADLOCK FALSE
