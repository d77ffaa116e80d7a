SPECIFICATION FairSpec
CONSTANTS
  Sessions = {s1}
  Casts = {b1}
  NoSession = none
  MayStall = TRUE
  RunsOut = FALSE
PROPERTIES StopEndsWithWatchdogs
CHECK_DEADLOCK FALSE
