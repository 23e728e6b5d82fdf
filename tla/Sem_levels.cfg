SPECIFICATION Spec
CONSTANTS
  c1 = c1
  c2 = c2
  t1 = t1
  t2 = t2
  Client = {c1}
  Thread = {t1, t2}
  ClientOf <- Siblings
  Asks <- HighLow
  priorities = 2
  max_concurrent = 1
  Mortal = {}
  quota = 0
  MaxPermits = 2
  MaxCount = 2
INVARIANTS TypeOK CountsAgree IdleCountsZero LockHasHolder
