SPECIFICATION FairSpec
CONSTANTS
  Sessions = {s1, s2}
  Casts = {b1, b2}
  NoSession = none
  MayStall = TRUE
  RunsOut = TRUE
INVARIANTS TypeOK ServedIsRegistered StopOutlivesCallbacks
PROPERTIES MapStableWhileSending OpsEndWithWatchdogs
CHECK_DEADLOCK FALSE
