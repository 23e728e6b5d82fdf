SPECIFICATION FairSpec
CONSTANTS
  t1 = t1
  t2 = t2
  k1 = k1
  k2 = k2
  NoTask = NoTask
  Thread = {t1, t2}
  Task = {k1, k2}
CHECK_DEADLOCK FALSE
PROPERTY StopReturns
