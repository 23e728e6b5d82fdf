---------------------------- MODULE MCBlockStore ----------------------------
EXTENDS BlockStore, TLC

CONSTANTS p1, p2, t1, t2

Shared == t1 :> p1 @@ t2 :> p1
OneEach == {t1 :> p1 @@ t2 :> p2}
SharedOrOneEach == OneEach \cup {Shared}
============================================================================
