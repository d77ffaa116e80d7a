SPECIFICATION Spec
CONSTANTS
  Ids = {i1}
  Timers = {t1, t2, t3}
  NoTimer = none
  ReusedIds = {i1}
INVARIANTS OneTimerPerId
CHECK_DEADLOCK FALSE
