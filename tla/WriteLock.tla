----------------------------- MODULE WriteLock -----------------------------
(* common/includes/write_lock.h and common/src/write_lock_manager.cpp.      *)
(*                                                                          *)
(* One record of the shared-memory lock table.  Each process has one        *)
(* write_lock object for it, with one txn_id that its threads share; the    *)
(* record names the owning process, thread and transaction.  get_lock and   *)
(* release_lock run under the table's exclusive lock; the manager's sweep   *)
(* takes no lock at all, so its steps fall between any two of theirs: a     *)
(* step of either is one store to what both write.                          *)
(* Clock readings are abstracted to two facts about the record: it was not  *)
(* updated for DEFAULT_WRITE_LOCK_TIMEOUT (stale), it was not used for      *)
(* DEFAULT_W_LOCK_EXPIRY (idle).                                            *)
EXTENDS Naturals

CONSTANTS
  Process,    \* process ids
  Thread,     \* their threads
  ProcessOf,  \* the process a thread belongs to
  NoProcess,  \* owner.process_id = -1
  NoThread,   \* an empty owner.thread_id
  MayIdle,    \* may ten minutes pass without a use of the lock?
  MaxTxn,     \* bound on the transaction ids handed out
  MaxCrashes  \* bound on process deaths

ASSUME ProcessAssumption == /\ ProcessOf \in [Thread -> Process]
                            /\ NoProcess \notin Process /\ NoThread \notin Thread
ASSUME SettingAssumption == /\ MayIdle \in BOOLEAN
                            /\ MaxTxn \in Nat /\ MaxCrashes \in Nat

NoTxn == 0                      \* an empty transaction id
Txn == 1 .. MaxTxn

VARIABLES
  used,         \* the record is in the table
  write_locked, \* __w_lock_struct::write_locked
  owner,        \* __w_lock_struct::owner
  stale, idle,  \* what the clock says of owner.last_updated and last_used
  txn_id,       \* [Process -> transaction id], write_lock::txn_id
  guard,        \* the thread inside TRY_LOCK of the table's exclusive lock
  pc,           \* where a thread is in get_lock or release_lock
  manager,      \* where the manager is in check_lock_states
  renewed,      \* last_updated was written since the manager read the clock
  alive,        \* [Process -> BOOLEAN]
  lease,        \* transaction a thread was granted and has not given up
  next_txn, crashes,
  swept         \* history: the manager has expired a lock or removed the record

clock == <<stale, idle, renewed>>
record == <<used, write_locked, owner, clock>>
history == <<next_txn, crashes, swept>>
vars == <<record, txn_id, guard, pc, manager, alive, lease, history>>

NoOwner == [process_id |-> NoProcess, thread_id |-> NoThread, txn_id |-> NoTxn]

(* register_lock has just added the record: last_updated is zero.           *)
Init == /\ used = TRUE /\ write_locked = FALSE /\ owner = NoOwner
        /\ stale = TRUE /\ idle = FALSE
        /\ txn_id = [p \in Process |-> NoTxn]
        /\ guard = NoThread
        /\ pc = [t \in Thread |-> "run"]
        /\ manager = "sleep" /\ renewed = FALSE
        /\ alive = [p \in Process |-> TRUE]
        /\ lease = [t \in Thread |-> NoTxn]
        /\ next_txn = 1 /\ crashes = 0 /\ swept = FALSE

Goto(t, label) == pc' = [pc EXCEPT ![t] = label]
Running(t, label) == alive[ProcessOf[t]] /\ pc[t] = label

(* owner.last_updated = now().                                              *)
Refresh == stale' = FALSE /\ renewed' = (manager = "check") /\ UNCHANGED idle

\* Mutant: the thread is not compared.
has_write_lockOfProcess(t) ==
  LET p == ProcessOf[t] IN
  /\ used /\ ~idle /\ write_locked
  /\ owner.process_id = p
  /\ txn_id[p] \in {owner.txn_id, NoTxn}

(* has_write_lock: the record is used and not idle (check_lock_valid) and   *)
(* process, transaction and thread match.                                   *)
(* strncmp over the length of txn_id: an empty txn_id matches every owner.  *)
has_write_lock(t) ==
  LET p == ProcessOf[t] IN
  /\ used /\ ~idle /\ write_locked
  /\ owner.process_id = p
  /\ txn_id[p] \in {owner.txn_id, NoTxn}
  /\ owner.thread_id = t

(* A call of has_write_lock by its own: it refreshes owner.last_updated.    *)
Poll(t) == /\ Running(t, "run") /\ used /\ has_write_lock(t)
           /\ Refresh
           /\ UNCHANGED <<used, write_locked, owner, txn_id, guard, pc, manager, alive, lease,
                          history>>

----------------------------------------------------------------------------
(* get_lock                                                                 *)

TryLock(t) == /\ Running(t, "run") /\ guard = NoThread
              /\ guard' = t /\ Goto(t, "check")
              /\ UNCHANGED <<record, txn_id, manager, alive, lease, history>>

EndTry(t) == guard' = NoThread /\ Goto(t, "run")

(* The calling thread already owns the lock.                                *)
Reenter(t) == /\ Running(t, "check") /\ used /\ has_write_lock(t)
              /\ Refresh
              /\ lease' = [lease EXCEPT ![t] = txn_id[ProcessOf[t]]]
              /\ EndTry(t)
              /\ UNCHANGED <<used, write_locked, owner, txn_id, manager, alive, history>>

(* It owns it, but the caller named another transaction.                    *)
Mismatch(t) == /\ Running(t, "check") /\ used /\ has_write_lock(t)
               /\ Refresh
               /\ EndTry(t)
               /\ UNCHANGED <<used, write_locked, owner, txn_id, manager, alive, lease, history>>

(* Somebody else holds it: the guard ends with the iteration, and either    *)
(* the caller tries again or its timeout is over and txn_id is returned.    *)
GiveUp(t) == /\ Running(t, "check") /\ used /\ ~has_write_lock(t)
             /\ write_locked
             /\ EndTry(t)
             /\ UNCHANGED <<record, txn_id, manager, alive, lease, history>>

SetWriteLocked(t) == /\ Running(t, "check") /\ used /\ ~has_write_lock(t)
                     /\ ~write_locked
                     /\ write_locked' = TRUE
                     /\ Goto(t, "process")
                     /\ UNCHANGED <<used, owner, clock, txn_id, guard, manager, alive, lease,
                                    history>>

(* The next store of get_lock, to the record's owner.                       *)
SetOwner(t, from, to) == /\ Running(t, from) /\ Goto(t, to)
                         /\ UNCHANGED <<used, write_locked, clock, txn_id, guard, manager, alive,
                                        lease, history>>

SetProcess(t) == /\ SetOwner(t, "process", "erase")
                 /\ owner' = [owner EXCEPT !.process_id = ProcessOf[t]]

EraseTxn(t) == /\ SetOwner(t, "erase", "choose")
               /\ owner' = [owner EXCEPT !.txn_id = NoTxn]

(* The transaction of the process's object: a new id, or the one the caller *)
(* passed, which was handed out before.                                     *)
ChooseTxn(t) ==
  /\ Running(t, "choose")
  /\ \E x \in 1 .. next_txn :
       /\ x \in Txn
       /\ next_txn' = IF x = next_txn THEN next_txn + 1 ELSE next_txn
       /\ txn_id' = [txn_id EXCEPT ![ProcessOf[t]] = x]
  /\ Goto(t, "txn")
  /\ UNCHANGED <<record, guard, manager, alive, lease, crashes, swept>>

SetTxn(t) == /\ SetOwner(t, "txn", "thread")
             /\ owner' = [owner EXCEPT !.txn_id = txn_id[ProcessOf[t]]]

SetThread(t) == /\ SetOwner(t, "thread", "stamp")
                /\ owner' = [owner EXCEPT !.thread_id = t]

(* The timestamps; get_lock returns.                                        *)
Stamp(t) == /\ Running(t, "stamp")
            /\ Refresh
            /\ lease' = [lease EXCEPT ![t] = txn_id[ProcessOf[t]]]
            /\ EndTry(t)
            /\ UNCHANGED <<used, write_locked, owner, txn_id, manager, alive, history>>

----------------------------------------------------------------------------
(* release_lock                                                             *)

\* Mutant: release_lock without the has_write_lock check.
ReleaseAny(t) == /\ Running(t, "run") /\ guard = NoThread
                 /\ txn_id[ProcessOf[t]] # NoTxn
                 /\ lease' = [lease EXCEPT ![t] = NoTxn]
                 /\ Refresh /\ guard' = t /\ Goto(t, "disown")
                 /\ UNCHANGED <<used, write_locked, owner, txn_id, manager, alive, history>>
(* The precondition on txn_id throws; a caller that does not own the lock   *)
(* gets false.                                                              *)
Release(t) == /\ Running(t, "run") /\ guard = NoThread
              /\ txn_id[ProcessOf[t]] # NoTxn
              /\ lease' = [lease EXCEPT ![t] = NoTxn]
              /\ IF has_write_lock(t) THEN Refresh /\ guard' = t /\ Goto(t, "disown")
                                      ELSE UNCHANGED <<clock, guard, pc>>
              /\ UNCHANGED <<used, write_locked, owner, txn_id, manager, alive, history>>

\* Mutant: the process and its transaction are not erased.
EraseThread(t) == /\ SetOwner(t, "disown", "unlock")
                  /\ owner' = [owner EXCEPT !.thread_id = NoThread]
(* The owner is erased (the manager can only be erasing it too) ...         *)
EraseOwner(t) == /\ SetOwner(t, "disown", "unlock")
                 /\ owner' = NoOwner

(* ... the lock is free, and the object has no transaction any more.        *)
Unlock(t) == /\ Running(t, "unlock")
             /\ write_locked' = FALSE
             /\ txn_id' = [txn_id EXCEPT ![ProcessOf[t]] = NoTxn]
             /\ EndTry(t)
             /\ UNCHANGED <<used, owner, clock, manager, alive, lease, history>>

(* check_lock_valid on a removed record: clear_lock_reset() nulls           *)
(* lock_struct and the next statement reads lock_struct->last_used.         *)
UseRemoved(t) == /\ ~used
                 /\ Running(t, "run") \/ Running(t, "check")
                 /\ alive' = [alive EXCEPT ![ProcessOf[t]] = FALSE]
                 /\ UNCHANGED <<record, txn_id, guard, pc, manager, lease, history>>

----------------------------------------------------------------------------
(* check_lock_states, run by the manager without the table's lock           *)

ManagerFind == /\ manager = "sleep" /\ used /\ write_locked
               /\ manager' = "check" /\ renewed' = FALSE
               /\ UNCHANGED <<used, write_locked, owner, stale, idle, txn_id, guard, pc, alive,
                              lease, history>>

(* The clock was read before last_updated: the unsigned difference with a   *)
(* later time is huge, and a lock that has just been renewed expires too.   *)
ManagerCheck == /\ manager = "check"
                /\ \/ (stale \/ renewed) /\ manager' = "process" /\ swept' = TRUE
                   \/ ~stale /\ manager' = "sleep" /\ UNCHANGED swept
                /\ UNCHANGED <<record, txn_id, guard, pc, alive, lease, next_txn, crashes>>

(* The owner's process and transaction are erased, not its thread.          *)
ManagerClearProcess == /\ manager = "process"
                       /\ owner' = [owner EXCEPT !.process_id = NoProcess]
                       /\ manager' = "txn"
                       /\ UNCHANGED <<used, write_locked, clock, txn_id, guard, pc, alive, lease,
                                      history>>

ManagerClearTxn == /\ manager = "txn"
                   /\ owner' = [owner EXCEPT !.txn_id = NoTxn]
                   /\ manager' = "unlock"
                   /\ UNCHANGED <<used, write_locked, clock, txn_id, guard, pc, alive, lease,
                                  history>>

\* Mutant: the expired owner is erased, the lock stays locked.
ManagerUnlockForgotten == /\ manager = "unlock"
                          /\ manager' = "sleep"
                          /\ UNCHANGED <<record, txn_id, guard, pc, alive, lease, history>>
ManagerUnlock == /\ manager = "unlock"
                 /\ write_locked' = FALSE
                 /\ manager' = "sleep"
                 /\ UNCHANGED <<used, owner, clock, txn_id, guard, pc, alive, lease, history>>

(* An idle record is removed; remove_lock does take the table's lock.  (The *)
(* test of last_used may be taken with it: an idle record is not used any   *)
(* more, check_lock_valid refuses it.)                                      *)
ManagerRemove == /\ manager = "sleep" /\ used /\ idle
                 /\ guard = NoThread
                 /\ used' = FALSE /\ write_locked' = FALSE /\ owner' = NoOwner
                 /\ stale' = TRUE
                 /\ swept' = TRUE
                 /\ UNCHANGED <<idle, renewed, txn_id, guard, pc, manager, alive, lease,
                                next_txn, crashes>>

----------------------------------------------------------------------------
(* The clock.  last_used is refreshed whenever last_updated is.             *)
Age == /\ ~stale /\ stale' = TRUE
       /\ UNCHANGED <<used, write_locked, owner, idle, renewed, txn_id, guard, pc, manager,
                      alive, lease, history>>

Idle == /\ MayIdle /\ stale /\ ~idle /\ idle' = TRUE
        /\ UNCHANGED <<used, write_locked, owner, stale, renewed, txn_id, guard, pc, manager,
                       alive, lease, history>>

Crash(p) == /\ alive[p] /\ crashes < MaxCrashes
            /\ crashes' = crashes + 1
            /\ alive' = [alive EXCEPT ![p] = FALSE]
            /\ UNCHANGED <<record, txn_id, guard, pc, manager, lease, next_txn, swept>>

ManagerStep == \/ ManagerFind \/ ManagerCheck \/ ManagerClearProcess \/ ManagerClearTxn
               \/ ManagerUnlock \/ ManagerRemove

Next == \/ \E t \in Thread : \/ Poll(t) \/ TryLock(t) \/ Reenter(t) \/ Mismatch(t)
                             \/ GiveUp(t) \/ SetWriteLocked(t) \/ SetProcess(t) \/ EraseTxn(t)
                             \/ ChooseTxn(t) \/ SetTxn(t) \/ SetThread(t) \/ Stamp(t)
                             \/ Release(t) \/ EraseOwner(t) \/ Unlock(t) \/ UseRemoved(t)
        \/ ManagerStep \/ Age \/ Idle
        \/ \E p \in Process : Crash(p)

Spec == Init /\ [][Next]_vars

(* The manager's thread runs and time passes.                               *)
FairSpec == Spec /\ WF_vars(ManagerStep) /\ WF_vars(Age)

----------------------------------------------------------------------------
Owner == [process_id : Process \cup {NoProcess}, thread_id : Thread \cup {NoThread},
          txn_id : Txn \cup {NoTxn}]
RecordOK == /\ used \in BOOLEAN /\ write_locked \in BOOLEAN
            /\ stale \in BOOLEAN /\ idle \in BOOLEAN /\ renewed \in BOOLEAN
            /\ owner \in Owner
(* The labels between SetWriteLocked and the end of get_lock; those between  *)
(* the test of release_lock and its end.                                    *)
Acquiring == {"process", "erase", "choose", "txn", "thread", "stamp"}
Releasing == {"disown", "unlock"}
ProcessesOK == /\ txn_id \in [Process -> Txn \cup {NoTxn}]
               /\ alive \in [Process -> BOOLEAN]
               /\ pc \in [Thread -> {"run", "check"} \cup Acquiring \cup Releasing]
               /\ lease \in [Thread -> Txn \cup {NoTxn}]
TypeOK == /\ RecordOK /\ ProcessesOK
          /\ guard \in Thread \cup {NoThread}
          /\ manager \in {"sleep", "check", "process", "txn", "unlock"}
          /\ next_txn \in 1 .. MaxTxn + 1 /\ crashes \in Nat /\ swept \in BOOLEAN

Owns(t) == /\ write_locked
           /\ owner = [process_id |-> ProcessOf[t], thread_id |-> t,
                       txn_id |-> txn_id[ProcessOf[t]]]

(* Until the manager expires a lock, a transaction handed out by get_lock   *)
(* is backed by the shared record until release_lock: no acquisition by     *)
(* another thread, of the same process (which shares txn_id) or of another  *)
(* one, takes it away.                                                      *)
LeaseHeld == ~swept => \A t \in Thread : lease[t] # NoTxn =>
                           Owns(t) /\ lease[t] = txn_id[ProcessOf[t]]

(* Whatever the manager erases and between whichever stores of get_lock and *)
(* release_lock: the record never names a process with a transaction other  *)
(* than the one of that process's write_lock object, except while get_lock  *)
(* replaces them.  (The sweep may erase a transaction that get_lock has     *)
(* just stored; a process that the record names has none then.)             *)
Replacing(p) == \E t \in Thread : ProcessOf[t] = p /\ pc[t] \in {"erase", "choose", "txn"}
NoForeignTxn == \A p \in Process :
                  owner.process_id = p /\ owner.txn_id # NoTxn /\ ~Replacing(p)
                    => owner.txn_id = txn_id[p]

(* Why leases are backed: only the thread in the guard is inside get_lock   *)
(* or release_lock, and once it has taken write_locked, or begun to give it *)
(* back, nobody holds a lease.                                              *)
AcquireInv ==
  /\ used /\ manager \in {"sleep", "check"}
  /\ \A t \in Thread :
       /\ pc[t] # "run" => guard = t
       /\ pc[t] \in Acquiring \cup Releasing =>
            write_locked /\ \A u \in Thread : lease[u] = NoTxn
       /\ pc[t] \in Acquiring \ {"process"} => owner.process_id = ProcessOf[t]
       /\ pc[t] \in {"thread", "stamp"} => owner.txn_id = txn_id[ProcessOf[t]]
       /\ pc[t] = "stamp" => owner.thread_id = t
       /\ pc[t] \in {"txn", "thread", "stamp"} => txn_id[ProcessOf[t]] # NoTxn

IInv == ~swept => TypeOK /\ AcquireInv /\ LeaseHeld

(* "Check if this process holds the write lock, and the current thread is   *)
(* the locker": a thread told that it has the lock was granted the          *)
(* transaction that the record names.  (The sweep erases the owner's        *)
(* process and transaction but not its thread: after it, an expired thread  *)
(* passes the test while another thread of its process is in get_lock.)     *)
HasWriteLockMeansLocker ==
  ~swept => \A t \in Thread : pc[t] = "run" /\ has_write_lock(t) => lease[t] = owner.txn_id

(* A lock that no live thread holds, is taking or giving back (its owner    *)
(* died, or release_lock refused because the record was idle) is freed.     *)
Orphaned == /\ write_locked
            /\ \A t \in Thread : alive[ProcessOf[t]] =>
                 lease[t] = NoTxn /\ ~has_write_lock(t) /\ pc[t] \notin Acquiring \cup Releasing
OrphanFreed == Orphaned ~> ~Orphaned
============================================================================
