--------------------------- MODULE MCReadWriteLock ---------------------------
EXTENDS ReadWriteLock, TLC

CONSTANTS p1, p2, t1, t2

OneEach == t1 :> p1 @@ t2 :> p2
==============================================================================
