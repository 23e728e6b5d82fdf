# ReactFS in TLA+

ReactFS is a file store in C++ whose data lives in memory-mapped block files
and whose processes coordinate through POSIX semaphores and tables in shared
memory. There is no server in the path of a read or a write: every process
maps the same files and the same tables, and all of the protocol is in the
libraries. This directory models the part of it where processes, threads and
a background manager meet: the locks, the tables the locks live in, the limited
resources, the transactions of a block and of its index, and the thread pool
the managers run in.

Contents: [1 The system](#1-the-system), [2 The modules](#2-the-modules),
[3 The runs](#3-the-runs), [4 Fairness](#4-fairness),
[5 The proofs](#5-the-proofs), [6 What fails](#6-what-fails),
[7 Not modelled](#7-not-modelled), [8 Plan](#8-plan).

To check: `tlc -workers 2 -config EL.cfg MCExclusiveLock` (and so on, see 3),
`tlapm LockTable_proof.tla` (and so on, see 5). `PROJECT.json` lists the
components, runs, mutants, theorems and hazards, and maps every definition to
the lines it translates.

## 1 The system

Paths are relative to `src/`. A component marked * is modelled here.

| Component | State it keeps | Operations | Used by |
|---|---|---|---|
| * exclusive lock `common/includes/exclusive_lock.h` | a named semaphore for the machine; per process: `locked`, `lock_owner` | wait, try, release, scope guards, `reset`, `dispose` | every shared table, the lock tables, mount and node tables |
| * write lock `common/includes/write_lock.h` | a record in shared memory: `write_locked`, owner (process, thread, transaction), times; per process: `txn_id`, `lock_struct` | `get_lock`, `release_lock`, `has_write_lock`, `check_lock_valid` | blocks |
| * write lock table and clients `common/src/write_lock.cpp`, `write_lock_client.cpp`, `shared_lock.cpp` | an array of records with `used_count`; per process: a map of objects with reference counts | `add_lock`, `remove_lock`, `create`, destruction | write locks |
| * lock manager `common/src/write_lock_manager.cpp` | none of its own; it scans the table | expire locks, remove idle records, `reset` | runs as a periodic task of a pool |
| * data block `core/src/base_block.cpp` | the mapped file: header, records; per process: rollback information, list of deletes, a write lock | create, open, close, start, write, delete, commit, rollback, finish, archive, read | indexed and typed blocks |
| * thread pool `common/includes/__threads.h` | queue or registry of tasks, states of threads, `__state__` of the pool | start, stop, add, remove | server and environments |
| * read/write lock `common/*/read_write_lock*` | as the write lock, with reader slots and a count; per process: `txn_id`, `reader_threads` | read and write lock, release, manager's sweep | no caller yet besides tests |
| * watergate lock table `watergate/*/lock_table*` | records of clients: leases, quotas, priorities; bit set of free records | create and remove record, sweeps | watergate semaphores |
| * watergate semaphores `watergate/*/control*` | an array of semaphores per resource and priority; per process: `counts`, thread records | acquire in priority order, release, forced release | clients of a limited resource |
| * indexed block `core/*/base_indexed_block*`, `base_block_index*` | a second mapped file of index records with a transaction of its own | the block's, over both files | typed block |
| typed block, hash index `core/*/typed_*` | encoded records, hash buckets with overflow | the block's, and index maintenance | users with a schema |
| node environment, mounts `core/includes/server`, `clients` | shared tables of mounts and node attributes | load, read, usage counters | server and clients |
| type system, schema parser, compression, metrics, logging, configuration, JNI | local | pure or I/O | all |

**How they interact.** A block holds a `write_lock`. A `write_lock` is a
pointer to a record of the table and is shared by the threads of a process
through its client, which counts its users. Table operations and `get_lock`
run inside an `exclusive_lock` guard. The manager is a task of a thread pool of
the server and reads and writes the same records without that guard. A block's
transaction is a `txn_id` from the write lock and the rollback information in
the block object; the file is shared memory, so each store of a commit is
visible to others, and outlives its process, at once. An indexed block is a
block with a second such file and a second rollback information, under the same
lock. Watergate limits a resource: its clients take named semaphores, say so
in their records of a shared table, and a manager of its own reads the records,
forces overdue locks and posts the semaphores for them, again without a lock.

**What is hard.** Threads of a process share objects whose fields are not
synchronised (`locked`/`lock_owner`, `txn_id`, `rollback_info`, a thread's
state). Locks expire under their holders. The manager sweeps between any two
steps. A process may die at any store. Time-outs return values that look like
success. A permit of a semaphore is represented twice, in the kernel and in a
record, and a transaction of an indexed block in two files, and the two are
never changed together.

**What makes each component correct.**

* Exclusive lock: at most one holder; a semaphore that was taken is posted back; recovery ends.
* Write lock: a granted transaction stays backed by the record until release or expiry; the owner test never tells a thread it owns what another was granted; an orphaned lock is freed.
* Table: one record for a name in use; the count that refuses new locks is the number of used records; abandoned records come back.
* Block: committed records stay reachable, clean and counted; a commit publishes all of its transaction and nothing else; a full block refuses.
* Indexed block: the index finds every committed record; the counters agree; a commit that has begun ends; the index file is not overrun.
* Pool: each queued task runs once; registered tasks keep running; what is queued before a flushing stop is run; `stop()` returns.
* Read/write lock: leases exclude each other; `reader_count` is the number of reader slots in use; a transaction id follows its lock; what the dead held is freed.
* Watergate: permits change in number only where a process dies or the two representations part; counts of a process are those of its threads; a lock is not taken from its owner within its lease; no call leaves a lock or a count behind; permits come back.

## 2 The modules

| Module | Models | Composes |
|---|---|---|
| `ExclusiveLock`, `MCExclusiveLock`, `ExclusiveLock_proof` | the exclusive lock, one action per unsynchronised access | |
| `WriteLock`, `MCWriteLock`, `WriteLock_proof` | one record, its users and the manager's sweep over it | the guard of ExclusiveLock, as a variable |
| `LockTable`, `MCLockTable`, `LockTable_proof` | which record a name has: table, clients, scan, restart | get/release of WriteLock, as one step each |
| `RecordLog` | abstract: what a block promises, a log with one writer | |
| `BlockStore`, `MCBlockStore`, `BlockStore_proof` | a block: transactions, commit store by store, expiry, death | the lock of WriteLock, as a holder; `Log == INSTANCE RecordLog` |
| `IndexedBlock`, `MCIndexedBlock`, `IndexedBlock_proof` | the block's file and the index's: transactions and a commit over both, store by store | the lock of WriteLock, as a holder; `Log == INSTANCE RecordLog` |
| `ReadWriteLock`, `MCReadWriteLock`, `ReadWriteLock_proof` | one record with its reader slots, the process's object, the manager's sweep | the guard of ExclusiveLock, as a variable |
| `Semaphores`, `MCSemaphores`, `Semaphores_proof` | one limited resource: threads, records of the lock table, semaphores, the manager | |
| `ThreadPool`, `MCThreadPool`, `ThreadPool_proof` | threads, queue, registry, stop | |

The components are modelled apart, each with the one above it reduced to what
the one below relies on, because the product of their states tells nothing
that the reductions do not: what WriteLock assumes of the guard is
`MutualExclusion` of ExclusiveLock; what BlockStore assumes of the lock is
`LeaseHeld` and `OrphanFreed` of WriteLock, its expiry included. Two of these
assumptions are idealisations and are named in section 6.

**ExclusiveLock.** `semaphore` is the kernel's value; `locked` and
`lock_owner` are per process; `pc` is where a thread is in the lock's code;
`guards` counts the scope guards a thread has alive. `SetLocked`/`SetOwner`
and `ResetLocked`/`ResetOwner` are the assignments of `set_locked` and
`reset_locked`; `SemPost` comes before the latter, as in `__release_lock`.
`Crash` leaves the semaphore as it is and gives the process a cleared object.
`Reset` and its loop are `reset()`: a process that starts may call it, whatever
the others are doing (`Starts`), as `shared_lock.cpp` does when asked to reset.

**WriteLock.** The manager takes no lock, so a step of either side is one store to what both
write. In `get_lock` these are `SetWriteLocked`, `SetProcess`, `EraseTxn`, `ChooseTxn` (the
object's transaction), `SetTxn`, `SetThread` and `Stamp`; in `release_lock` the test (`Release`),
`EraseOwner` and `Unlock`; in the sweep `ManagerFind` (which also reads the clock), `ManagerCheck`,
`ManagerClearProcess`, `ManagerClearTxn` and `ManagerUnlock`. `EraseOwner` stores two fields
that the manager never sets to anything but the same values, and one, the thread, that it does not write.
`ManagerRemove` is one step, because the record it removes has been idle for ten minutes, and
`check_lock_valid` refuses an idle record from then on. The clock is two Booleans, `stale` (five minutes since
`last_updated`) and `idle` (ten minutes since `last_used`); `renewed` says that `last_updated` is
younger than the manager's reading of the clock, whose unsigned difference is then huge. `UseRemoved` is the
null dereference of `check_lock_valid`; it ends the process.

**LockTable.** `add_lock` is the search of the source: it stops at the record
of the name and prefers the first free slot that it passed. `remove_lock` takes
the table as an argument, because a client releases the lock first in the
same call. `used_count` wraps modulo `Modulus`. Registration is two steps
(`AddFirst`, `Stamp`), destruction of a client one step per name (`Dispose`), and
the manager's removal three (`ManagerCheck`, `ManagerName`, `ManagerRemove`).
`Destroy` is `~write_lock`, whose `release_lock` may throw in a destructor and
end the process.

**BlockStore.** `file` and `header` are the mapping, `rollback_info`, `deletes`
and `open` the objects, and `pc`/`cursor`/`added` the position of the commit that runs. The
stores of `commit()` are one action each, from `MarkDeleted` to `EndCommit`, in the order
of the source. All records have one size, so an offset counts records; the
bytes matter in `get_free_space` only, which is modelled with its fall-through.
`StartTimedOut` is `start_transaction` when `get_lock` gave up and returned the
transaction id that the process's lock object holds for another thread.
`Crash` keeps the file and drops the object. `faults` remembers what has gone
wrong (`reset`, `redelete`, `expired`, `torn`), for the properties that hold
until then.

**RecordLog.** The log, the process that writes to it, what it has appended and
asked to delete. A publication appends all at once; deletes appear one at a
time in commit. Both kinds of block implement it; `KeepsRequests` is their
difference: the list of deletes of a plain block outlives a transaction whose
lock has expired, that of an index does not. The refinement of BlockStore maps
committed records to the log (`logRecords`) and `Broken` (an index published whose
offset never will be) to `broken`; its commit takes effect at `PublishIndex`, that
of IndexedBlock at `PublishLast`. Once broken, nothing is promised.

**IndexedBlock.** `file`/`header` and `entries`/`index_header` are the two
mappings, `rollback_info` and `index_info` the two objects' transactions. The commit
marks the deleted records in the block, then shows the index's entries, stores its
header and marks its deletes, and only then publishes the block: every store
is an action, and the process may die between any two. `WriteUnindexed` is the
write whose record reaches the block before `__write_index` throws.
`index_has_space` is the unsigned difference of `get_free_space`, modulo
`Modulus`; the size of the index file is chosen in `Init`, since nothing relates it to its
header. `IndexDelete` has no branch for the exception of the source: `MarkDeleted`
has checked the same entries. `faults` names where a death hit the commit
(`marked`, `torn_first`, `torn`, `torn_block`, `uncounted`), and the calls that the
counters do not survive (`own`, `twice`, `unindexed`). Each process has one thread; threads
that share an object are in BlockStore.

**ReadWriteLock.** A call runs inside `guard`; where the sweep can fall in
between, its stores are separate actions, and `++` and `--` of `reader_count` are a read
(`CountLoad`, `ReleaseLoad`, `Load`) and a write (`CountStore`, `ReleaseStore`,
`Store`). `waiting` are the threads in the retry loop of `write_lock`, which leaves the guard between
its tries. The manager is `CheckWriter`, `Unlock`, `Look`, `Free`, `Load`,
`Store`; `Look` judges every slot by `slot_stale[First]`, as the source does. Its
`reset()` is left out, because it finds a table that has just been emptied.
`reads` and `writes` are histories: a lease is granted (`on`), over, or given up.

**Semaphores.** `sem` is the kernel's; `state`, `age`, `quota_used`, `used` and
`idle` are the client's record; `count`, `p_counts` and `id` are memory of the process. A step is one
access to the semaphore or to the record: a look at a record and the store that follows from it
are two, on both sides. `Attempt` is the common head of `try_lock`: the mutex of the priority is
free, and `has_valid_lock` has stored its sign of life and read a given state; `Look` is its
second reading, by `is_lock_active`. `FindLock` to `FindForced`, `Join`, `FindExpired` and
`FindSpent` are the branches, `Take`, `UpdateState` and `UpdateTime` what follows `sem_wait`. `Reset`,
`Free`, `KeepSpent` and `Post` are `reset_locks`. `TimeOut` and the `Poll` actions are the loop of `lock_get`,
which looks at its locks without the mutex, so that `PollClear` may come late; `Undo` and `NextRelease`
are the loops that give back. The age of
`acquired_time` is fresh, lapsed (the lease is over) or overdue (the manager may
force it). The manager finds a lock (`FindLocked`), judges its time (`Judge`), marks and
counts it (`ForceRelease`), clears its time (`ClearTime`), and posts for all of them at the end of the scan
(`PostPending`); then it finds idle clients (`FindIdle`) and removes their records (`Remove`), which
throws and ends its thread if the record is gone by then (`RemoveTwice`). `late` is a history: what it has
judged has been renewed since. `stranded` is another, of counts that outlived their lock. Only clients in
`Mortal` die, close or fall silent.

What is still one step: `RELEASE_LOCK_RECORD` stores None, then zero for the time and
the quota; the manager reads the time of Locked locks only, a late store of its own (`ForceRelease`, `ClearTime`) between
these ends as one after them, and the mutex keeps the others out, but for a `lock_get` that polls, to which None is enough. `FindForced` and `UnlockForced` store None
with the look that found ForceReleased: under the mutex nobody turns such a lock into anything but
None. `UpdateTime`, `Join` and `Refund` store the quota with the time, the second look or the state; only
holders of the mutex read it, but a removal of the record could fall in between and leave a quota in a record
that is out of the table. `PostPending` posts for all priorities, and `RemoveRecord` resets
all fields of a record.

**ThreadPool.** `pc` is where a thread is in `run()`; `state` is
its `__thread_state`, stored by itself and by `stop()` without a lock. A step of
`next_task` is under the queue's mutex and is one action, `NextTask`, with the
registry's refill in it. `AddTask`/`Push` split `add_task` between its check
of the pool's state and the queue. `stop()` is `Stop`, `Flush`, `StopThread`
for each thread, `Join`; the model tells the threads in any order, the code in
that of the vector. `due` stands for `can_run()`; the time stamp
`set_last_run_time` clears it when the task is queued. `lost` remembers the
threads that stored a state of their own over `TS_STOPPED`.

## 3 The runs

Every passing run exhausts its state space. Deadlock is checked in `sem`,
`sem_levels` and `rwl`, where time and the manager always can go on if the code does not wait in
a circle; elsewhere `CHECK_DEADLOCK FALSE`, since bounded counters, dead processes and stopped
pools come to rest legitimately and the hangs that matter are stated as
liveness. Symmetry of processes is used in `index` only, which checks no liveness.

| Run | Instance | Shows |
|---|---|---|
| `el` | 3 threads, alone in a process or two sharing one; guards nested to 2; 1 death; resets at any start | `MutualExclusion` for unnested guards through deaths; `NotLostIfPrivate`, `LockIsReturned` with one thread per process; `ResetTerminates` |
| `wl` | 2 processes, 3 threads, 2 transactions, 1 death, idle records | `LeaseHeld` and `HasWriteLockMeansLocker` until an expiry; `NoForeignTxn` always, whatever the sweep erases between which stores; `OrphanFreed` |
| `rwl` | 2 processes of one thread, 2 slots, 2 transactions, 2 deaths, calls begin until the first fault | `CountAgrees`, `ExclusionKept`, `TxnIdFollowsLock` until the sweep does what the fault names; `FreedAfterDeath`; no deadlock |
| `table` | 2 processes, 2 names, 2 records, 2 users, 1 restart | `CountAgrees` until a restart; `ExclusiveUntilRemoved` until a removal; `Reclaimed` |
| `table_exclusive` | the same | violated `Exclusive`: one name, two records |
| `block` | 2 threads in 1 or 2 processes, 2 records, 2 deletes, 2 commits, 1 fault, 1 death | `ChainIntact`, `SanityHolds`, `DeletesOfOwner`, `FullBlockRefuses`, `WritesPublishedAlone`, and `ImplementsLog` |
| `block_reset` | the same, no deaths | violated `WritesPublished`: a timed-out start resets a sibling's transaction |
| `index` | 2 processes, 2 records, 2 deletes, 2 commits, 1 death, 2 faults; index files of size 2 (one entry) and 0 | `IndexAgrees`, `SanityHolds`, `EntriesFit`, `CommitNeverThrows` while the faults are `Sound`, and `ImplementsLog` over both files |
| `sem` | 2 clients of one thread, one may die; 1 priority, 1 permit, quota 2 | `LeaseRespected`, `PermitsConserved`, `PermitReturns`; no deadlock |
| `sem_levels` | 1 client of two threads, 2 priorities (one thread asks for 1, the other for 0), 1 permit each, no quota | `TypeOK`, `CountsAgree`, `IdleCountsZero`, `LockHasHolder` through `lock_get`'s loop, its time-out and its undo; no deadlock |
| `pool` | 2 threads, 2 tasks, each of the three kinds of pool | `Once` for queues, `Flushed`, `Registered`, `StopReturnsUnlessLost` |
| `pool_stop` | the same | violated `StopReturns`: a thread stores Available over Stopped |

**Why these bounds.** The hazards are between two actors and at most one bystander. In `el`
three threads give every case of owner, waiter and
sibling; a second level of guards is where ownership without a count first differs; a
second death repeats the first with the semaphore already down. In `wl` the two
threads of a process share a `txn_id` and the third is a stranger; two transactions suffice
for a stale one and a current one. In `rwl` two slots are what it takes for
the first to be judged for the second, and for a slot to pass to a new owner; a
count of 0 to 2 modulo 4 tells its wrap from its values; both processes may die, so that
nobody is left to repair the count. In `table` two records are what it takes to
have a free slot before a used one; three names would only fill the table. In
`block` two records per block distinguish the first from the last and a full
block from one with room; two commits put committed records under a later
transaction; one fault a behaviour is enough because each property excludes the
faults that break it by name, and a second one only adds what the first already allows. In
`index` two faults allow a torn commit to be followed by another mishap of the
next process, and the two file sizes are one that fits an entry less than the
block has records, and one below its own header. In `sem` one permit makes
every double post an excess, one client competes with another, and a quota of two is reached by
the second lock. In `sem_levels` two priorities give a lower one to fail with a higher one taken, and
the two threads share counts, record and mutex; the quota and deaths are in `sem`. A forced lock that its client has
given back meanwhile, and a lease taken by a late judgement, occur in `sem`; the late None of
`lock_get` over a sibling's lock needs two threads of a process that both take the higher priority,
and is covered by the theorem on `PermitsConserved`, not by a run. In `pool` two threads
race for a task, two tasks give an order to the queue and a refill with
more than one task. Every property has a mutant of the code that violates it
within these bounds.

**Invariants and history.** Several properties hold "until" something happens:
`misuse`, `swept`, `history`, `faults`, `lost`, `stranded`, `late` are history variables that record
it and nothing else reads them, except that `faults` is bounded. In each case
the excluded event does break the stronger property; section 6 says how, and
three of them have a run that shows it.

## 4 Fairness

* ExclusiveLock: weak fairness of each thread inside the lock's code and of
  leaving a scope: guards are C++ scopes and the scheduler runs threads.
  Nothing is assumed about which of the waiters `sem_wait` wakes, nor that a
  thread ever wants the lock.
* WriteLock: weak fairness of the manager's next step and of time. The manager
  is a periodic task; `get_lock` and `release_lock` are not assumed.
* LockTable: weak fairness of the manager's steps after it has looked at a
  record and of time per record; strong fairness of its coming to a
  record, since the scan visits all records in each pass while records change in
  between. `Stamp` is not assumed: it is another process's.
* BlockStore, IndexedBlock: none; their properties are about steps.
* ReadWriteLock: weak fairness of the steps of a call that has entered the guard, of
  the manager's loop, and of time for every time stamp. That a thread asks, gives up or
  releases is not assumed: the dead do not.
* Semaphores: weak fairness of each thread inside a call (`sem_wait` included, as far
  as a permit stays available), of the end of the manager's scans and of time; strong fairness of
  its coming to a record that is overdue and of the end of its pass, since each scan visits every record while
  records change, for as long as its thread lives. That a thread which holds a lock releases it is not assumed.
* ThreadPool: weak fairness of each thread (a callback ends), of calls under way
  (`Push`, `Stopping`) and of a task's interval (`Due`). The user's `AddTask`, `Start` and
  `Stop` are not assumed.

## 5 The proofs

All theorems are about `Spec`, so for every value of the constants that the
named assumptions allow, and are checked by TLAPS to the last leaf.

| Theorem | Says | Assumes |
|---|---|---|
| `ExclusiveLock_proof!TypeCorrect` | types, under every use | `ProcessAssumption`, `BoundsAssumption` |
| `ExclusiveLock_proof!Exclusive` | `[]MutualExclusion` | the same |
| `ExclusiveLock_proof!NeverLost` | `[]NotLostIfPrivate` | the same |
| `WriteLock_proof!TypeCorrect` | types | `ProcessAssumption`, `SettingAssumption` |
| `WriteLock_proof!InSync` | `[]NoForeignTxn`: for every interleaving of the sweep's stores | the same |
| `WriteLock_proof!Leases` | `[]LeaseHeld` | the same |
| `WriteLock_proof!OnlyLocker` | `[]HasWriteLockMeansLocker` | the same |
| `ReadWriteLock_proof!TypeCorrect` | `[]TypeOK` | `ProcessAssumption`, `BoundAssumption` |
| `ReadWriteLock_proof!CountKept` | `[]CountAgrees` | the same |
| `ReadWriteLock_proof!TxnIdCleared` | `TxnIdFollowsLock` | the same |
| `ReadWriteLock_proof!Exclusion` | `[]ExclusionKept` | the same |
| `LockTable_proof!TypeCorrect` | types; `used_count` stays below its modulus | `NameAssumption`, `CountAssumption` |
| `LockTable_proof!Count` | `[]CountAgrees` | the same |
| `LockTable_proof!OneRecord` | `[]IInv` | the same |
| `LockTable_proof!Exclusion` | `[]ExclusiveUntilRemoved` | the same |
| `BlockStore_proof!TypeCorrect` | `[]TypeOK` | `ProcessAssumption`, `SizeAssumption`, `BoundAssumption` |
| `BlockStore_proof!Chain` | `[]ChainIntact` | the same |
| `BlockStore_proof!DeletesOwned` | `[]DeletesOfOwner` | the same |
| `BlockStore_proof!FullRefuses` | `[]FullBlockRefuses` | the same |
| `BlockStore_proof!PublishedAlone` | `WritesPublishedAlone` | the same |
| `BlockStore_proof!Implements` | `ImplementsLog`: the block refines RecordLog | the same |
| `BlockStore_proof!Sane` | `[]SanityHolds` | the same |
| `IndexedBlock_proof!TypeCorrect` | `[]TypeOK` | `ProcessAssumption`, `SizeAssumption`, `BoundAssumption` |
| `IndexedBlock_proof!Fits` | `[]EntriesFit` | the same |
| `IndexedBlock_proof!Agrees` | `[]IndexAgrees` | the same |
| `IndexedBlock_proof!NeverThrows` | `CommitNeverThrows` | the same |
| `IndexedBlock_proof!Sane` | `[]SanityHolds` | the same |
| `IndexedBlock_proof!Implements` | `ImplementsLog`: the two files refine RecordLog | the same |
| `Semaphores_proof!TypeCorrect` | `[]TypeOK`: no lock count goes below zero | `ClientAssumption`, `SettingAssumption` |
| `Semaphores_proof!LeaseKept` | `LeaseRespected`: only a stale judgement takes a lease | the same |
| `Semaphores_proof!Conservation` | `PermitsConserved`: the steps that make or lose permits are all named | the same |
| `Semaphores_proof!SumsAgree` | `[]CountsAgree` | the same |
| `Semaphores_proof!IdleThreads` | `[]IdleCountsZero` | the same |
| `Semaphores_proof!HoldersFound` | `[]LockHasHolder` | the same |
| `ThreadPool_proof!TypeCorrect` | types; a thread has a task exactly while it works on it | `TaskAssumption` |
| `ThreadPool_proof!RunsOnce` | `[]Once` | the same |

**Arguments.**

* *Exclusive.* Mutual exclusion is not inductive: a thread may believe it owns
  the lock from fields that a sibling is rewriting. `IInv` adds that a semaphore
  that is up has no holder (`SemaphoreInv`), that guards are not nested
  (`GuardInv`), and that a thread named in `lock_owner` holds the lock, is just
  releasing it, or the semaphore is lost (`OwnerInv`): the overtaken release makes
  the last case necessary.
* *NeverLost.* With one thread per process the fields follow the thread's position
  (`FieldInv`), and the thread that answers for a semaphore which is down is never one that
  has posted and not yet erased its name (`AnswerInv`).
* *InSync, Leases, OnlyLocker.* `NoForeignTxn` needs `GuardInv`: one thread at a time is inside
  `get_lock` or `release_lock`, and from its `SetProcess` on the record names its process or none, so that
  it replaces no other's transaction. The sweep only erases, so each of its stores keeps both. For `LeaseHeld`,
  `AcquireInv` says that only the thread in the guard is inside `get_lock` or `release_lock`, and
  that no lease exists while it is between the stores of either; `LockerInv` adds whom the owner
  fields name at each of them.
* *Count.* Each step changes at most the record of one slot, from unused to used
  when the count goes up, from used to unused when it goes down (`StepTable`); then the
  theorems on cardinalities apply. The wrap at zero needs that the removed
  record was counted.
* *OneRecord.* As long as nothing was removed, the used records form a prefix of
  the table (`Prefix`); then the search of `add_lock` meets the name, if it is
  there, before a free slot, so names stay unique (`OneEach`) and every object
  points to the record of its name (`Pointed`). `Exclusion` follows, since
  two owners of one name read the same record.
* *CountKept, Exclusion of the read/write lock.* The equation of `CountAgrees` carries the call and the sweep
  under way as differences; `CountInv` adds that what either has read is still the
  count unless they raced. For exclusion, `OwnerInv` and `SoloInv` tie a writer's lease to the
  owner fields and to a count of zero, `SlotInv` and `ReadsInv` a reader's lease to its slot;
  a writer is granted at zero, so no slot is used, so no lease is on.
* *Chain.* `HolderInv`: a commit runs in the holder of the lock. `OffsetInv`:
  its index and offset are ahead of the header's by the same amount until it
  publishes. `DirtyInv`: the records in between are its own, in order, readable
  up to the cursor. Then publication extends a correct chain by correct
  records. `OffsetInv` is also what keeps the types of `file`, so
  `TypeCorrect` is proved from the three together.
* *DeletesOwned, FullRefuses, PublishedAlone.* `ClearedInv`: whatever ends a transaction inside
  its process empties the list. `RoomInv`: `used_bytes` of the header and the transaction
  are those of the records before their offsets. `WrittenInv`: the records the threads of the process have written are those
  between the header's index and the transaction's.
* *Implements.* `StepLog` has one lemma per action of the log; a step of the block maps to it, or
  stutters. `MarkedInv` is what a commit needs to forget its requests: all that it asked to delete is
  marked. `StepRecords` keeps the log fixed unless a delete or the publication is taken, and
  `StepBroken` keeps a broken block broken.
* *Sane, of a block.* `ListInv`: as long as nothing went wrong, the list of deletes names records of
  the block, each once, so that its length is a cardinality. `DeletedInv` counts the records marked
  deleted: the header's number, less what a commit under way has marked and not counted yet.
  `MeetInv`, `TotalInv` and `UsedInv` say the same of offsets, records and bytes for each place where
  a commit can be. A step adds at most one record to a set that is counted.
* *Fits.* `SizeInv` ties the bytes that `get_free_space` adds up to the offsets. `RoomForEntry`: as long
  as the header fits, and sizes are below the modulus, the unsigned difference does not wrap, so
  that the space it grants is there.
* *Agrees.* After deaths the index is level with the block or ahead by what a torn commit left;
  `FrontInv` says by how much, at each store of the two commits. `BlockInv` does so for the block's own header,
  `PlaceInv` and `CursorInv` for the entries a transaction has written and the cursors that go over
  them, `OwnInv` for what it deletes, `OpenInv` for what an object without a transaction
  remembers. `AgreeInv` is then the property for the committed records and for those about to be,
  since the index shows them first. Each part excludes only the faults that break it.
* *NeverThrows.* `FoundInv`: all that the transaction asked to delete is still found when the commit
  comes to it. It needs `FullInv`, which says when an index that is not level refuses every
  entry, as that is what keeps new entries from old ones.
* *Sane, of an indexed block.* On top of both, `TotalInv`, `DeletedInv` and `ListInv` count as for a block;
  the entries of the index and the records are marked at different stores, and are counted apart.
* *Implements, of an indexed block.* The invariant of *Agrees* and `MarkedInv`: past the last
  delete of the index's commit, all that was requested is marked. `StepLog` maps each step while the
  block is not `Broken`; by `StepBreaks`, a step that adds a fault (a write the index refuses, a
  delete, a death) leaves the committed records as they are, so that it is the log's `Break`.
* *LeaseKept.* `ManagerInv`: the manager looks at one lock or record at a time, and between its
  judgement and its last store the lock is past its lease, or `late` says that it was renewed. The other
  steps that change a state or a time are a thread's own (`Touches`).
* *Conservation.* `MutexInv`: one thread at a time is inside a priority's mutex, so that the owing
  threads of a client are at most one. `UnshownInv`: at the labels where its record must not show a lock, it
  does not; `ManagerInv`: the manager has not counted in this pass what it is about to count. Each action
  of a thread then changes the semaphore and the thread's own share of the sum `Permits` (`Value` of its
  label and of what its record shows) by opposite amounts (`Row`), the manager's change the record,
  `pending` and the shares of the threads at work on that lock, and lemmas on cardinalities turn the shares into the sum.
* *SumsAgree.* The lock count is compared with a sum over the threads of a process, which the community modules
  define by recursion. What the proofs need of it (it exists, is unique, takes up an element,
  changes with one of its terms) is shown on a smallest subset that would refute it (`SmallestSubset`),
  from the theorem that strict inclusion of finite sets is well-founded. The count and a thread's
  share of it change in one step (`Effects`), so the sum follows.
* *IdleThreads, HoldersFound.* `PlaceInv`: at each label of `lock_get` and of the
  release, which priorities a thread has taken and which it works on. `CountInv`: what a thread keeps is counted
  once and shown in the table; what it gives back is zero before it posts. A step disturbs
  the threads of its own client at the priority it works on, and there the mutex leaves it alone
  (`AtWorkAlone`); everywhere else the record and the counts stay. Both properties, and
  the lower bound of the types, are cases of it.
* *RunsOnce.* A task of a queue is added, queued, taken and done in this
  order and in one place at a time (`Accepted`, `QueuedOnce`, `TakenOnce`,
  `RunOnce`), through any interleaving of threads, adders and `stop()`.

**Only model-checked.** Everything under fairness (`LockIsReturned`,
`ResetTerminates`, `OrphanFreed`, `FreedAfterDeath`, `Reclaimed`, `PermitReturns`, `Flushed`,
`Registered`, `StopReturnsUnlessLost`), and the absence of deadlock in `sem`, `sem_levels` and `rwl`:
both speak of `ENABLED`, which is out of the prover's reach. Every invariant and every action
property of a passing run, and both refinements, are theorems. The type invariants of ExclusiveLock,
WriteLock, LockTable and ThreadPool, and the strengthenings above, are in no run.

The proofs found one thing that the runs had not. `CommitNeverThrows` used to exclude
fewer faults, and TLC agreed within the bounds of `index`. No invariant for it was inductive, and the
step that broke each belongs to a behaviour beyond those bounds, the last of the indexed block's
in section 6. `Sound` names that case.

## 6 What fails

Shown by a run (a finding in `PROJECT.json`):

* `table_exclusive`: after a removal, `add_lock` makes a second record for a
  name in use and two processes own its lock.
* `block_reset`: `start_transaction` that times out resets the transaction of
  another thread of the process, whose commit publishes nothing.
* `pool_stop`: a thread stores Available after its callback over the Stopped of
  `stop()`, which then waits in `join()` for ever.

Seen while modelling, in the model's behaviours but without a run of their own:

* Exclusive lock: `__release_lock` posts the semaphore before it clears the owner. A
  thread of the same process that acquires in between has its ownership
  erased, never posts, and the semaphore is down for good. An inner guard's destructor releases for the outer scope, so
  `MutualExclusion` fails with nested guards; `reset()` beside a holder posts for it, and beside a
  waiter posts again what the waiter takes: either admits two.
* Write lock: the manager's sweep, between `write_locked = true` and the time
  stamp, frees the lock that `get_lock` then reports as acquired. A failed `get_lock` returns a stale transaction id, or a
  sibling's; after a sweep an expired thread passes `has_write_lock` while a
  sibling is acquiring; an idle record is granted by `get_lock` and denied
  by `release_lock`; using a removed record dereferences null. The sweep beside `get_lock` may erase the new
  owner's transaction and leave its process named with none, or unlock the record that `get_lock` has
  just granted; a lock renewed after the sweep has read the clock counts as too old, and expires.
* Read/write lock: every reader is judged by the age of the first slot, so that live readers lose
  their slots and dead ones keep theirs; the sweep and a call both change the count
  without a lock, which loses a change or takes it twice, and a count above zero with
  no reader keeps writers out for good; a sweep under `write_lock` unlocks what was just
  granted; the transaction id of an expired writer stays, and `write_lock` of its process
  throws from then on; a reader that was timed out may pass with a slot that has a new reader, and free it.
* Table: `ref_count` is never incremented, so the first process that closes a block
  wipes the record that all others use; a record whose name the manager
  finds empty ends the manager; a restart without reset zeroes `used_count` beside
  live records, and removals then wrap it.
* Semaphores: the manager's judgement may be stale when it stores: it forces a lock that its client has given back,
  so that both post, or one that was locked again and is within its lease, and clears the time of that
  lease; a `remove_record` of a record that its client has just removed throws and ends the manager's
  thread, after which nothing is forced. The poll of `lock_get` may store None over what a
  sibling has locked since, which loses the permit. A client that gives back an expired lock and the manager that forces it both
  post, and one more than `max_concurrent` get in. A process that dies between its semaphore and its
  record loses a permit or leaves one to be posted twice; closing a client or
  removing its record loses the permits it holds. The look of `lock_get` at the locks it has taken
  resets a forced release to None, so that the counts of its threads are never reset and the last
  release posts nothing.
* Block: a transaction that has filled a block may write on; a delete listed
  twice, or of the record after the last one, is counted and not
  found; deletes of an expired transaction are committed by the next one;
  a death between the stores of `last_index` and `write_offset` breaks the block;
  `finish()` reopens an archived block; reads by default return deleted records.
  The file is 110% of the block size, while record headers are not counted.
* Indexed block: a write that the index refuses leaves its record in the block, and the commit
  publishes it without an entry. A death between the commits of index and block leaves the
  index ahead; a block with records then refuses every further one, and a block without records
  accepts them beside the old entries (`torn_first`), so that committed records are not found. The free space of an index
  file that is smaller than its header is computed as huge. An index that has missed a record (a write it
  refused) and was then torn may be caught up with by its block: its offset is behind its last entry, it accepts
  entries again, over old ones, and a commit that has to delete one of these throws half-way.
* Pool: a periodic task may run in two threads; a removed task may still be queued or
  running, and the server frees it at once; a task whose `add_task` passed its
  check before a flushing `stop()` may be queued after the flush; a pool that was never started
  and has a queue to flush waits for ever; "Can be restarted if required" is not so, since
  `start()` requires a state that nothing restores.

**Idealisations.** A lock does not expire inside a single operation of
BlockStore or IndexedBlock (`Expire`), though an operation may take longer than its lease. Their
lock record stays in the table, though `close` removes it for everyone
(LockTable has this). A block is not closed under a sibling's transaction; its `StartTimedOut` may
happen with the lock free, which the code does when the table's guard is busy for as long. In
ReadWriteLock a process dies outside the guard (ExclusiveLock has deaths inside), a call is shorter than a lease,
and an object that was not used for ten minutes does not report an error from `has_write_lock` and `has_thread_lock`,
so that more calls succeed than in the code; `ReleaseLoad` takes the test of `reader_count` with its
load, `SignWrite` and `Unlock` the stores to the owner (what a sweep under `write_lock` does is the fault `young`,
and the step of the sweep is an exception of `TxnIdFollowsLock`). In
Semaphores a semaphore saturates at `MaxPermits`, and a client with a lock or a fresh time is not idle. In
ThreadPool the iteration of the registry and an unlocked `remove_task` do not
corrupt the map. Racing assignments of a string or an enumeration are one step.

## 7 Not modelled

Each component and the reason is in `PROJECT.json`. In short:

* *No state that actors share*: types, schema parser and code generator, compression,
  configuration, logging, metrics, alarms, common helpers, file streams, block utilities,
  watergate's resources and file drivers, JNI. They are sequential, encode and decode,
  or do I/O, and make up most of the lines of the repository together with the vendored libraries.
* *Reduced to what the modelled parts see of it*: memory-mapped data, as stores that are atomic and at
  once visible; the lock registry (`shared_locks`), a map filled once by each process; node tables and mounts, written
  by the server as it starts.
* *Unfinished in the source*: the memory manager, which nothing uses; the insertion of the hash index,
  whose loop does not end where it inserts; with it the typed block, which adds encoding and that index to the indexed block.
* *Planned*: the bit set and the allocation of watergate's records (section 8).

Inside the modelled components: `dispose()` of the semaphore (shutdown), reads
of a block (they change nothing), record bytes, callbacks whose `error()`
throws (the process ends), destruction of a pool, the table and clients of the
read/write lock (they repeat those of the write lock), creation and recovery of block
files, watergate's diagnostics.

Two hazards have no property. A new watergate record is marked used before it has a time stamp
(`lock_table.cpp:158`), and belongs to the allocation that is not modelled. A periodic
task may run in two threads (`__threads.h:339`): the model has it, but nothing in the source
promises the contrary.

## 8 Plan

Written, the core first: ExclusiveLock, WriteLock, RecordLog and
BlockStore, LockTable, ThreadPool, then Semaphores, IndexedBlock, ReadWriteLock. Next:

1. `LockRecords` (watergate `lock_table.cpp`, bit set): `create_new_record` and `remove_record` of
   two clients against the manager's sweep, with `used_record` of 16 bits. Properties:
   a record has one client; the count is the number of used records. Two clients, two records.
2. `HashIndex` as an algorithm, against a reference definition over bounded inputs, with the rollback
   of its updates, once its insertion is finished in the source.
3. An abstract specification of a lease with one owner, that WriteLock implements until an expiry,
   and RecordLog over its promise; then the assumptions that section 6 names as idealisations
   would be theorems about a composition.
4. The threads of a process in IndexedBlock, which BlockStore has.
