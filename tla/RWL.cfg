SPECIFICATION FairSpec
CONSTANTS
  p1 = p1
  p2 = p2
  t1 = t1
  t2 = t2
  NoProcess = NoProcess
  NoThread = NoThread
  Process = {p1, p2}
  Thread = {t1, t2}
  ProcessOf <- OneEach
  MaxReaders = 2
  Modulus = 4
  MaxTxn = 2
  MaxCrashes = 2
  MaxFaults = 1
INVARIANTS TypeOK CountAgrees ExclusionKept
PROPERTIES TxnIdFollowsLock FreedAfterDeath
