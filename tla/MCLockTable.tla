---------------------------- MODULE MCLockTable ----------------------------
EXTENDS LockTable

CONSTANTS p1, p2, a, b
============================================================================
