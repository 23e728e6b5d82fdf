-------------------------- MODULE WriteLock_proof --------------------------
(* What holds of common/includes/write_lock.h for any number of processes,  *)
(* threads and transactions.                                                *)
EXTENDS WriteLock, TLAPS

LEMMA InitialType == Init => TypeOK
<1>1. Init => RecordOK
  <2>1. NoOwner \in Owner
    BY DEF NoOwner, Owner, NoTxn
  <2> QED
    BY <2>1 DEF Init, RecordOK
<1>2. Init => ProcessesOK
  BY DEF Init, ProcessesOK, Txn, NoTxn
<1>3. Init => /\ guard \in Thread \cup {NoThread}
              /\ manager \in {"sleep", "check", "process", "txn", "unlock"}
  BY DEF Init
<1>4. Init => next_txn \in 1 .. MaxTxn + 1 /\ crashes \in Nat
  BY SettingAssumption DEF Init
<1>5. Init => swept \in BOOLEAN
  BY DEF Init
<1> QED
  BY <1>1, <1>2, <1>3, <1>4, <1>5 DEF TypeOK

(* The record, the process objects and the clock flags keep their types,    *)
(* with or without the manager's sweep.                                     *)
THEOREM TypeCorrect == Spec => []TypeOK
<1>1. Init => TypeOK
  BY InitialType
<1>2. ASSUME TypeOK, [Next]_vars PROVE TypeOK'
  <2> USE <1>2, ProcessAssumption, SettingAssumption
      DEF TypeOK, RecordOK, ProcessesOK, Acquiring, Releasing, Owner, Goto, Running, EndTry,
          record, clock, history, Txn, NoTxn, NoOwner
  <2>1. ASSUME NEW t \in Thread, Poll(t) PROVE TypeOK'
    BY <2>1 DEF Poll, Refresh
  <2>2. ASSUME NEW t \in Thread, TryLock(t) PROVE TypeOK'
    BY <2>2 DEF TryLock
  <2>3. ASSUME NEW t \in Thread, Reenter(t) PROVE TypeOK'
    BY <2>3 DEF Reenter, Refresh
  <2>4. ASSUME NEW t \in Thread, Mismatch(t) PROVE TypeOK'
    BY <2>4 DEF Mismatch, Refresh
  <2>5. ASSUME NEW t \in Thread, GiveUp(t) PROVE TypeOK'
    BY <2>5 DEF GiveUp
  <2>6. ASSUME NEW t \in Thread, SetWriteLocked(t) PROVE TypeOK'
    BY <2>6 DEF SetWriteLocked
  <2>7. ASSUME NEW t \in Thread, SetProcess(t) PROVE TypeOK'
    BY <2>7 DEF SetProcess, SetOwner
  <2>8. ASSUME NEW t \in Thread, EraseTxn(t) PROVE TypeOK'
    BY <2>8 DEF EraseTxn, SetOwner
  <2>9. ASSUME NEW t \in Thread, ChooseTxn(t) PROVE TypeOK'
    <3>1. PICK x \in 1 .. next_txn :
            /\ x \in Txn
            /\ next_txn' = IF x = next_txn THEN next_txn + 1 ELSE next_txn
            /\ txn_id' = [txn_id EXCEPT ![ProcessOf[t]] = x]
      BY <2>9 DEF ChooseTxn
    <3>2. RecordOK'
      BY <3>1, <2>9 DEF ChooseTxn
    <3>3. ProcessesOK'
      BY <3>1, <2>9 DEF ChooseTxn
    <3> QED
      BY <3>1, <3>2, <3>3, <2>9 DEF ChooseTxn
  <2>10. ASSUME NEW t \in Thread, SetTxn(t) PROVE TypeOK'
    BY <2>10 DEF SetTxn, SetOwner
  <2>11. ASSUME NEW t \in Thread, SetThread(t) PROVE TypeOK'
    BY <2>11 DEF SetThread, SetOwner
  <2>12. ASSUME NEW t \in Thread, Stamp(t) PROVE TypeOK'
    BY <2>12 DEF Stamp, Refresh
  <2>13. ASSUME NEW t \in Thread, Release(t) PROVE TypeOK'
    BY <2>13 DEF Release, Refresh
  <2>14. ASSUME NEW t \in Thread, EraseOwner(t) PROVE TypeOK'
    BY <2>14 DEF EraseOwner, SetOwner
  <2>15. ASSUME NEW t \in Thread, Unlock(t) PROVE TypeOK'
    BY <2>15 DEF Unlock
  <2>16. ASSUME NEW t \in Thread, UseRemoved(t) PROVE TypeOK'
    BY <2>16 DEF UseRemoved
  <2>17. CASE ManagerFind
    BY <2>17 DEF ManagerFind
  <2>18. CASE ManagerCheck
    BY <2>18 DEF ManagerCheck
  <2>19. CASE ManagerClearProcess
    BY <2>19 DEF ManagerClearProcess
  <2>20. CASE ManagerClearTxn
    BY <2>20 DEF ManagerClearTxn
  <2>21. CASE ManagerUnlock
    BY <2>21 DEF ManagerUnlock
  <2>22. CASE ManagerRemove
    BY <2>22 DEF ManagerRemove
  <2>23. CASE Age
    BY <2>23 DEF Age
  <2>24. CASE Idle
    BY <2>24 DEF Idle
  <2>25. ASSUME NEW p \in Process, Crash(p) PROVE TypeOK'
    BY <2>25 DEF Crash
  <2>26. CASE UNCHANGED vars
    BY <2>26 DEF vars
  <2> QED
    BY <2>1, <2>2, <2>3, <2>4, <2>5, <2>6, <2>7, <2>8, <2>9, <2>10, <2>11, <2>12, <2>13, <2>14,
      <2>15, <2>16, <2>17, <2>18, <2>19, <2>20, <2>21, <2>22, <2>23, <2>24, <2>25, <2>26
    DEF Next, ManagerStep
<1> QED
  BY <1>1, <1>2, PTL DEF Spec

(* Sweeps included: one thread at a time is inside get_lock or release_lock *)
(* and from its SetProcess on the record names its process or none.         *)
GuardInv ==
  \A t \in Thread :
    /\ pc[t] # "run" => guard = t
    /\ pc[t] \in Acquiring \ {"process"} => owner.process_id \in {ProcessOf[t], NoProcess}
    /\ pc[t] = "unlock" => owner.process_id = NoProcess

LEMMA Guarded == Spec => []GuardInv
<1>1. Init => GuardInv
  BY DEF Init, GuardInv, Acquiring
<1>2. ASSUME TypeOK, GuardInv, [Next]_vars PROVE GuardInv'
  <2> USE <1>2, ProcessAssumption
      DEF TypeOK, RecordOK, ProcessesOK, Acquiring, Releasing, Owner, GuardInv, Goto, Running,
          EndTry, record, clock, history, NoOwner
  <2>1. ASSUME NEW t \in Thread, Poll(t) PROVE GuardInv'
    BY <2>1 DEF Poll, Refresh
  <2>2. ASSUME NEW t \in Thread, TryLock(t) PROVE GuardInv'
    BY <2>2 DEF TryLock
  <2>3. ASSUME NEW t \in Thread, Reenter(t) PROVE GuardInv'
    BY <2>3 DEF Reenter, Refresh
  <2>4. ASSUME NEW t \in Thread, Mismatch(t) PROVE GuardInv'
    BY <2>4 DEF Mismatch, Refresh
  <2>5. ASSUME NEW t \in Thread, GiveUp(t) PROVE GuardInv'
    BY <2>5 DEF GiveUp
  <2>6. ASSUME NEW t \in Thread, SetWriteLocked(t) PROVE GuardInv'
    BY <2>6 DEF SetWriteLocked
  <2>7. ASSUME NEW t \in Thread, SetProcess(t) PROVE GuardInv'
    BY <2>7 DEF SetProcess, SetOwner
  <2>8. ASSUME NEW t \in Thread, EraseTxn(t) PROVE GuardInv'
    BY <2>8 DEF EraseTxn, SetOwner
  <2>9. ASSUME NEW t \in Thread, ChooseTxn(t) PROVE GuardInv'
    BY <2>9 DEF ChooseTxn
  <2>10. ASSUME NEW t \in Thread, SetTxn(t) PROVE GuardInv'
    BY <2>10 DEF SetTxn, SetOwner
  <2>11. ASSUME NEW t \in Thread, SetThread(t) PROVE GuardInv'
    BY <2>11 DEF SetThread, SetOwner
  <2>12. ASSUME NEW t \in Thread, Stamp(t) PROVE GuardInv'
    BY <2>12 DEF Stamp, Refresh
  <2>13. ASSUME NEW t \in Thread, Release(t) PROVE GuardInv'
    BY <2>13 DEF Release, Refresh
  <2>14. ASSUME NEW t \in Thread, EraseOwner(t) PROVE GuardInv'
    BY <2>14 DEF EraseOwner, SetOwner
  <2>15. ASSUME NEW t \in Thread, Unlock(t) PROVE GuardInv'
    BY <2>15 DEF Unlock
  <2>16. ASSUME NEW t \in Thread, UseRemoved(t) PROVE GuardInv'
    BY <2>16 DEF UseRemoved
  <2>17. CASE ManagerFind
    BY <2>17 DEF ManagerFind
  <2>18. CASE ManagerCheck
    BY <2>18 DEF ManagerCheck
  <2>19. CASE ManagerClearProcess
    BY <2>19 DEF ManagerClearProcess
  <2>20. CASE ManagerClearTxn
    BY <2>20 DEF ManagerClearTxn
  <2>21. CASE ManagerUnlock
    BY <2>21 DEF ManagerUnlock
  <2>22. CASE ManagerRemove
    BY <2>22 DEF ManagerRemove
  <2>23. CASE Age
    BY <2>23 DEF Age
  <2>24. CASE Idle
    BY <2>24 DEF Idle
  <2>25. ASSUME NEW p \in Process, Crash(p) PROVE GuardInv'
    BY <2>25 DEF Crash
  <2>26. CASE UNCHANGED vars
    BY <2>26 DEF vars
  <2> QED
    BY <2>1, <2>2, <2>3, <2>4, <2>5, <2>6, <2>7, <2>8, <2>9, <2>10, <2>11, <2>12, <2>13, <2>14,
      <2>15, <2>16, <2>17, <2>18, <2>19, <2>20, <2>21, <2>22, <2>23, <2>24, <2>25, <2>26
    DEF Next, ManagerStep
<1> QED
  BY <1>1, <1>2, TypeCorrect, PTL DEF Spec

(* The manager's stores may fall between any two of a client's: the record  *)
(* still names no process with a transaction of another, or with one that   *)
(* the process has given back, outside the stores that replace it.          *)
THEOREM InSync == Spec => []NoForeignTxn
<1>1. Init => NoForeignTxn
  BY DEF Init, NoForeignTxn, NoOwner
<1>2. ASSUME TypeOK, GuardInv, NoForeignTxn, [Next]_vars PROVE NoForeignTxn'
  <2> SUFFICES ASSUME NEW q \in Process, owner'.process_id = q, owner'.txn_id # NoTxn,
                      ~Replacing(q)'
               PROVE  owner'.txn_id = txn_id'[q]
    BY DEF NoForeignTxn
  <2> USE <1>2, ProcessAssumption
      DEF TypeOK, RecordOK, ProcessesOK, Acquiring, Releasing, Owner, GuardInv, NoForeignTxn,
          Replacing, Goto, Running, EndTry, record, clock, history, NoOwner
  <2>1. ASSUME NEW t \in Thread, Poll(t) PROVE owner'.txn_id = txn_id'[q]
    BY <2>1 DEF Poll, Refresh
  <2>2. ASSUME NEW t \in Thread, TryLock(t) PROVE owner'.txn_id = txn_id'[q]
    BY <2>2 DEF TryLock
  <2>3. ASSUME NEW t \in Thread, Reenter(t) PROVE owner'.txn_id = txn_id'[q]
    BY <2>3 DEF Reenter, Refresh
  <2>4. ASSUME NEW t \in Thread, Mismatch(t) PROVE owner'.txn_id = txn_id'[q]
    BY <2>4 DEF Mismatch, Refresh
  <2>5. ASSUME NEW t \in Thread, GiveUp(t) PROVE owner'.txn_id = txn_id'[q]
    BY <2>5 DEF GiveUp
  <2>6. ASSUME NEW t \in Thread, SetWriteLocked(t) PROVE owner'.txn_id = txn_id'[q]
    BY <2>6 DEF SetWriteLocked
  <2>7. ASSUME NEW t \in Thread, SetProcess(t) PROVE owner'.txn_id = txn_id'[q]
    BY <2>7 DEF SetProcess, SetOwner
  <2>8. ASSUME NEW t \in Thread, EraseTxn(t) PROVE owner'.txn_id = txn_id'[q]
    BY <2>8 DEF EraseTxn, SetOwner
  <2>9. ASSUME NEW t \in Thread, ChooseTxn(t) PROVE owner'.txn_id = txn_id'[q]
    BY <2>9 DEF ChooseTxn
  <2>10. ASSUME NEW t \in Thread, SetTxn(t) PROVE owner'.txn_id = txn_id'[q]
    BY <2>10 DEF SetTxn, SetOwner
  <2>11. ASSUME NEW t \in Thread, SetThread(t) PROVE owner'.txn_id = txn_id'[q]
    BY <2>11 DEF SetThread, SetOwner
  <2>12. ASSUME NEW t \in Thread, Stamp(t) PROVE owner'.txn_id = txn_id'[q]
    BY <2>12 DEF Stamp, Refresh
  <2>13. ASSUME NEW t \in Thread, Release(t) PROVE owner'.txn_id = txn_id'[q]
    BY <2>13 DEF Release, Refresh
  <2>14. ASSUME NEW t \in Thread, EraseOwner(t) PROVE owner'.txn_id = txn_id'[q]
    BY <2>14 DEF EraseOwner, SetOwner
  <2>15. ASSUME NEW t \in Thread, Unlock(t) PROVE owner'.txn_id = txn_id'[q]
    BY <2>15 DEF Unlock
  <2>16. ASSUME NEW t \in Thread, UseRemoved(t) PROVE owner'.txn_id = txn_id'[q]
    BY <2>16 DEF UseRemoved
  <2>17. CASE ManagerFind
    BY <2>17 DEF ManagerFind
  <2>18. CASE ManagerCheck
    BY <2>18 DEF ManagerCheck
  <2>19. CASE ManagerClearProcess
    BY <2>19 DEF ManagerClearProcess
  <2>20. CASE ManagerClearTxn
    BY <2>20 DEF ManagerClearTxn
  <2>21. CASE ManagerUnlock
    BY <2>21 DEF ManagerUnlock
  <2>22. CASE ManagerRemove
    BY <2>22 DEF ManagerRemove
  <2>23. CASE Age
    BY <2>23 DEF Age
  <2>24. CASE Idle
    BY <2>24 DEF Idle
  <2>25. ASSUME NEW p \in Process, Crash(p) PROVE owner'.txn_id = txn_id'[q]
    BY <2>25 DEF Crash
  <2>26. CASE UNCHANGED vars
    BY <2>26 DEF vars
  <2> QED
    BY <2>1, <2>2, <2>3, <2>4, <2>5, <2>6, <2>7, <2>8, <2>9, <2>10, <2>11, <2>12, <2>13, <2>14,
      <2>15, <2>16, <2>17, <2>18, <2>19, <2>20, <2>21, <2>22, <2>23, <2>24, <2>25, <2>26
    DEF Next, ManagerStep
<1> QED
  BY <1>1, <1>2, TypeCorrect, Guarded, PTL DEF Spec

(* The inductive invariant: one thread at a time is inside get_lock or      *)
(* release_lock, and once it has taken write_locked nobody holds a lease.   *)
LEMMA Acquires == Spec => []IInv
<1>1. Init => IInv
  <2>1. Init => TypeOK
    BY InitialType
  <2> QED
    BY <2>1 DEF Init, IInv, AcquireInv, Acquiring, Releasing, LeaseHeld, NoOwner
<1>2. ASSUME IInv, TypeOK', [Next]_vars PROVE IInv'
  <2> SUFFICES ASSUME ~swept' PROVE AcquireInv' /\ LeaseHeld'
    BY <1>2 DEF IInv
  <2> USE <1>2, ProcessAssumption
      DEF IInv, TypeOK, RecordOK, ProcessesOK, Acquiring, Releasing, Owner, AcquireInv, LeaseHeld,
          Owns, Goto, Running, EndTry, record, clock, history, Txn, NoTxn, NoOwner,
          has_write_lock
  <2>1. ASSUME NEW t \in Thread, Poll(t) PROVE AcquireInv' /\ LeaseHeld'
    BY <2>1 DEF Poll, Refresh
  <2>2. ASSUME NEW t \in Thread, TryLock(t) PROVE AcquireInv' /\ LeaseHeld'
    BY <2>2 DEF TryLock
  <2>3. ASSUME NEW t \in Thread, Reenter(t) PROVE AcquireInv' /\ LeaseHeld'
    BY <2>3 DEF Reenter, Refresh
  <2>4. ASSUME NEW t \in Thread, Mismatch(t) PROVE AcquireInv' /\ LeaseHeld'
    BY <2>4 DEF Mismatch, Refresh
  <2>5. ASSUME NEW t \in Thread, GiveUp(t) PROVE AcquireInv' /\ LeaseHeld'
    BY <2>5 DEF GiveUp
  <2>6. ASSUME NEW t \in Thread, SetWriteLocked(t) PROVE AcquireInv' /\ LeaseHeld'
    BY <2>6 DEF SetWriteLocked
  <2>7. ASSUME NEW t \in Thread, SetProcess(t) PROVE AcquireInv' /\ LeaseHeld'
    BY <2>7 DEF SetProcess, SetOwner
  <2>8. ASSUME NEW t \in Thread, EraseTxn(t) PROVE AcquireInv' /\ LeaseHeld'
    BY <2>8 DEF EraseTxn, SetOwner
  <2>9. ASSUME NEW t \in Thread, ChooseTxn(t) PROVE AcquireInv' /\ LeaseHeld'
    BY <2>9 DEF ChooseTxn
  <2>10. ASSUME NEW t \in Thread, SetTxn(t) PROVE AcquireInv' /\ LeaseHeld'
    BY <2>10 DEF SetTxn, SetOwner
  <2>11. ASSUME NEW t \in Thread, SetThread(t) PROVE AcquireInv' /\ LeaseHeld'
    BY <2>11 DEF SetThread, SetOwner
  <2>12. ASSUME NEW t \in Thread, Stamp(t) PROVE AcquireInv' /\ LeaseHeld'
    BY <2>12 DEF Stamp, Refresh
  <2>13. ASSUME NEW t \in Thread, Release(t) PROVE AcquireInv' /\ LeaseHeld'
    BY <2>13 DEF Release, Refresh
  <2>14. ASSUME NEW t \in Thread, EraseOwner(t) PROVE AcquireInv' /\ LeaseHeld'
    BY <2>14 DEF EraseOwner, SetOwner
  <2>15. ASSUME NEW t \in Thread, Unlock(t) PROVE AcquireInv' /\ LeaseHeld'
    BY <2>15 DEF Unlock
  <2>16. ASSUME NEW t \in Thread, UseRemoved(t) PROVE AcquireInv' /\ LeaseHeld'
    BY <2>16 DEF UseRemoved
  <2>17. CASE ManagerFind
    BY <2>17 DEF ManagerFind
  <2>18. CASE ManagerCheck
    BY <2>18 DEF ManagerCheck
  <2>19. CASE ManagerClearProcess
    BY <2>19 DEF ManagerClearProcess
  <2>20. CASE ManagerClearTxn
    BY <2>20 DEF ManagerClearTxn
  <2>21. CASE ManagerUnlock
    BY <2>21 DEF ManagerUnlock
  <2>22. CASE ManagerRemove
    BY <2>22 DEF ManagerRemove
  <2>23. CASE Age
    BY <2>23 DEF Age
  <2>24. CASE Idle
    BY <2>24 DEF Idle
  <2>25. ASSUME NEW p \in Process, Crash(p) PROVE AcquireInv' /\ LeaseHeld'
    BY <2>25 DEF Crash
  <2>26. CASE UNCHANGED vars
    BY <2>26 DEF vars
  <2> QED
    BY <2>1, <2>2, <2>3, <2>4, <2>5, <2>6, <2>7, <2>8, <2>9, <2>10, <2>11, <2>12, <2>13, <2>14,
      <2>15, <2>16, <2>17, <2>18, <2>19, <2>20, <2>21, <2>22, <2>23, <2>24, <2>25, <2>26
    DEF Next, ManagerStep
<1> QED
  BY <1>1, <1>2, TypeCorrect, PTL DEF Spec

(* Until the manager expires a lock, a transaction that get_lock granted is *)
(* backed by the shared record until its thread calls release_lock,         *)
(* although the threads of a process share txn_id and processes die at any  *)
(* step.                                                                    *)
THEOREM Leases == Spec => []LeaseHeld
<1>1. IInv => LeaseHeld
  BY DEF IInv, LeaseHeld
<1> QED
  BY <1>1, Acquires, PTL

(* The thread named by the record: it is the one that get_lock granted the  *)
(* record's transaction (unless the record is idle, when release_lock takes *)
(* the lease and leaves the record), and before SetThread nobody is named.  *)
LockerInv ==
  ~swept => /\ ~write_locked => owner.thread_id = NoThread
            /\ \A t \in Thread : pc[t] \in (Acquiring \ {"stamp"}) \union {"unlock"} =>
                                   owner.thread_id = NoThread
            /\ \A t \in Thread : pc[t] \in {"disown", "stamp"} => owner.thread_id = t
            /\ \A t \in Thread : owner.thread_id = t =>
                 /\ owner.process_id = ProcessOf[t]
                 /\ pc[t] \in {"stamp", "disown"} \/ idle \/ lease[t] = owner.txn_id

(* Until the manager expires a lock, a thread that has_write_lock tells it  *)
(* is the locker was granted the transaction in the record: no other thread *)
(* of its process, which shares txn_id and the process id, passes the test. *)
THEOREM OnlyLocker == Spec => []HasWriteLockMeansLocker
<1>1. Init => LockerInv
  BY ProcessAssumption DEF Init, LockerInv, NoOwner, Acquiring
<1>2. ASSUME IInv, TypeOK', LockerInv, [Next]_vars PROVE LockerInv'
  <2> SUFFICES ASSUME ~swept' PROVE LockerInv'
    BY DEF LockerInv
  <2> USE <1>2, ProcessAssumption
      DEF LockerInv, TypeOK, RecordOK, ProcessesOK, Acquiring, Releasing, Owner, Goto, Running,
          EndTry, record, clock, history, Txn, NoTxn, NoOwner
  <2>1. ASSUME NEW t \in Thread, Poll(t) PROVE LockerInv'
    BY <2>1 DEF Poll, Refresh, has_write_lock, IInv, AcquireInv, LeaseHeld, Owns
  <2>2. ASSUME NEW t \in Thread, TryLock(t) PROVE LockerInv'
    BY <2>2 DEF TryLock, has_write_lock, IInv, AcquireInv, LeaseHeld, Owns
  <2>3. ASSUME NEW t \in Thread, Reenter(t) PROVE LockerInv'
    BY <2>3 DEF Reenter, Refresh, has_write_lock, IInv, AcquireInv, LeaseHeld, Owns
  <2>4. ASSUME NEW t \in Thread, Mismatch(t) PROVE LockerInv'
    BY <2>4 DEF Mismatch, Refresh, has_write_lock, IInv, AcquireInv, LeaseHeld, Owns
  <2>5. ASSUME NEW t \in Thread, GiveUp(t) PROVE LockerInv'
    BY <2>5 DEF GiveUp, has_write_lock, IInv, AcquireInv, LeaseHeld, Owns
  <2>6. ASSUME NEW t \in Thread, SetWriteLocked(t) PROVE LockerInv'
    BY <2>6 DEF SetWriteLocked, has_write_lock, IInv, AcquireInv, LeaseHeld, Owns
  <2>7. ASSUME NEW t \in Thread, SetProcess(t) PROVE LockerInv'
    BY <2>7 DEF SetProcess, SetOwner, has_write_lock, IInv, AcquireInv, LeaseHeld, Owns
  <2>8. ASSUME NEW t \in Thread, EraseTxn(t) PROVE LockerInv'
    BY <2>8 DEF EraseTxn, SetOwner, has_write_lock, IInv, AcquireInv, LeaseHeld, Owns
  <2>9. ASSUME NEW t \in Thread, ChooseTxn(t) PROVE LockerInv'
    BY <2>9 DEF ChooseTxn, has_write_lock, IInv, AcquireInv, LeaseHeld, Owns
  <2>10. ASSUME NEW t \in Thread, SetTxn(t) PROVE LockerInv'
    BY <2>10 DEF SetTxn, SetOwner, has_write_lock, IInv, AcquireInv, LeaseHeld, Owns
  <2>11. ASSUME NEW t \in Thread, SetThread(t) PROVE LockerInv'
    BY <2>11 DEF SetThread, SetOwner, has_write_lock, IInv, AcquireInv, LeaseHeld, Owns
  <2>12. ASSUME NEW t \in Thread, Stamp(t) PROVE LockerInv'
    BY <2>12 DEF Stamp, Refresh, has_write_lock, IInv, AcquireInv, LeaseHeld, Owns
  <2>13. ASSUME NEW t \in Thread, Release(t) PROVE LockerInv'
    BY <2>13 DEF Release, Refresh, has_write_lock, IInv, AcquireInv, LeaseHeld, Owns
  <2>14. ASSUME NEW t \in Thread, EraseOwner(t) PROVE LockerInv'
    BY <2>14 DEF EraseOwner, SetOwner, has_write_lock, IInv, AcquireInv, LeaseHeld, Owns
  <2>15. ASSUME NEW t \in Thread, Unlock(t) PROVE LockerInv'
    BY <2>15 DEF Unlock, has_write_lock, IInv, AcquireInv, LeaseHeld, Owns
  <2>16. ASSUME NEW t \in Thread, UseRemoved(t) PROVE LockerInv'
    BY <2>16 DEF UseRemoved, has_write_lock, IInv, AcquireInv, LeaseHeld, Owns
  <2>17. CASE ManagerFind
    BY <2>17 DEF ManagerFind, has_write_lock, IInv, AcquireInv, LeaseHeld, Owns
  <2>18. CASE ManagerCheck
    BY <2>18 DEF ManagerCheck, IInv, AcquireInv
  <2>19. CASE ManagerClearProcess
    BY <2>19 DEF ManagerClearProcess, IInv, AcquireInv
  <2>20. CASE ManagerClearTxn
    BY <2>20 DEF ManagerClearTxn, has_write_lock, IInv, AcquireInv, LeaseHeld, Owns
  <2>21. CASE ManagerUnlock
    BY <2>21 DEF ManagerUnlock, has_write_lock, IInv, AcquireInv, LeaseHeld, Owns
  <2>22. CASE ManagerRemove
    BY <2>22 DEF ManagerRemove, has_write_lock, IInv, AcquireInv, LeaseHeld, Owns
  <2>23. CASE Age
    BY <2>23 DEF Age, has_write_lock, IInv, AcquireInv, LeaseHeld, Owns
  <2>24. CASE Idle
    BY <2>24 DEF Idle, has_write_lock, IInv, AcquireInv, LeaseHeld, Owns
  <2>25. ASSUME NEW p \in Process, Crash(p) PROVE LockerInv'
    BY <2>25 DEF Crash, has_write_lock, IInv, AcquireInv, LeaseHeld, Owns
  <2>26. CASE UNCHANGED vars
    BY <2>26 DEF vars
  <2> QED
    BY <2>1, <2>2, <2>3, <2>4, <2>5, <2>6, <2>7, <2>8, <2>9, <2>10, <2>11, <2>12, <2>13, <2>14,
      <2>15, <2>16, <2>17, <2>18, <2>19, <2>20, <2>21, <2>22, <2>23, <2>24, <2>25, <2>26
    DEF Next, ManagerStep
<1>3. LockerInv => HasWriteLockMeansLocker
  <2> SUFFICES ASSUME LockerInv, ~swept, NEW t \in Thread, pc[t] = "run", has_write_lock(t)
               PROVE lease[t] = owner.txn_id
    BY DEF HasWriteLockMeansLocker
  <2> QED
    BY DEF LockerInv, has_write_lock
<1> QED
  BY <1>1, <1>2, <1>3, TypeCorrect, Acquires, PTL DEF Spec
============================================================================
