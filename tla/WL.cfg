SPECIFICATION FairSpec
CONSTANTS
  p1 = p1
  p2 = p2
  p3 = p3
  t1 = t1
  t2 = t2
  t3 = t3
  NoThread = NoThread
  NoProcess = NoProcess
  Process = {p1, p2}
  Thread = {t1, t2, t3}
  ProcessOf <- SharedProcessOf
  MayIdle = TRUE
  MaxTxn = 2
  MaxCrashes = 1
CHECK_DEADLOCK FALSE
INVARIANTS LeaseHeld HasWriteLockMeansLocker NoForeignTxn
PROPERTIES OrphanFreed
