SPECIFICATION FairSpec
CONSTANTS
  Ids = {i1, i2}
  Timers = {t1, t2, t3}
  NoTimer = none
  ReusedIds = {i1}
INVARIANTS TypeOK RunningIsRegistered EntriesAreAlive
PROPERTIES NoCallbackAfterCancel CanceledTimerEnds
CHECK_DEADLOCK FALSE
