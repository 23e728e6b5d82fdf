-------------------------- MODULE MCExclusiveLock --------------------------
EXTENDS ExclusiveLock, TLC

CONSTANTS p1, p2, p3, t1, t2, t3

(* One thread per process, and two threads that share a process.            *)
PrivateAndShared == {t1 :> p1 @@ t2 :> p2 @@ t3 :> p3,
                     t1 :> p1 @@ t2 :> p1 @@ t3 :> p2}
============================================================================
