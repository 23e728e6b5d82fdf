---------------------------- MODULE MCWriteLock ----------------------------
EXTENDS WriteLock, TLC

CONSTANTS p1, p2, p3, t1, t2, t3

SharedProcessOf  == t1 :> p1 @@ t2 :> p1 @@ t3 :> p2   \* t1, t2 share p1
============================================================================
