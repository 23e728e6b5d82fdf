SPECIFICATION FairSpec
CONSTANTS
  c1 = c1
  c2 = c2
  t1 = t1
  t2 = t2
  Client = {c1, c2}
  Thread = {t1, t2}
  ClientOf <- OneEach
  Asks <- BaseOnly
  priorities = 1
  max_concurrent = 1
  Mortal = {c2}
  quota = 2
  MaxPermits = 2
  MaxCount = 2
PROPERTIES LeaseRespected PermitsConserved PermitReturns
