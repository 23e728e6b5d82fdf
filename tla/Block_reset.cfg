SPECIFICATION Spec
CONSTANTS
  p1 = p1
  p2 = p2
  t1 = t1
  t2 = t2
  NoThread = NoThread
  DeadThread = DeadThread
  NoProcess = NoProcess
  Process = {p1, p2}
  Thread = {t1, t2}
  Deployments <- SharedOrOneEach
  BlockSize = 2
  HeaderSize = 1
  RecordSize = 1
  MaxRecords = 2
  MaxDeletes = 1
  MaxCommits = 2
  MaxFaults = 1
  MaxCrashes = 0
CHECK_DEADLOCK FALSE
PROPERTY WritesPublished
