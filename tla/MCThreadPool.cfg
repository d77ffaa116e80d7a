SPECIFICATION FairSpec
CONSTANTS
  w1 = w1
  w2 = w2
  t1 = t1
  t2 = t2
  t3 = t3
  t4 = t4
  t5 = t5
  Tasks = {t1, t2, t3, t4, t5}
  NoTask = none
  Workers = {w1, w2}
  MaxPools = 2
  Layouts <- SmallLayouts
INVARIANTS TypeOK DeletedIsUnused
PROPERTIES ImplementsTaskQueue AcceptedTasksEnd DestructorReturns
CHECK_DEADLOCK FALSE
