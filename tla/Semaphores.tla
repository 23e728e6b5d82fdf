----------------------------- MODULE Semaphores -----------------------------
(* watergate: core/control/control.cpp, control_def.cpp, control_manager.cpp *)
(* and lock_table.h.                                                         *)
(*                                                                           *)
(* One controlled resource.  Every priority has a named semaphore with       *)
(* max_concurrent permits; a client process remembers the permits it holds   *)
(* in its record of the shared lock table, and shares them among its         *)
(* threads.  A lock of priority p takes the semaphores p, p-1 .. 0.  The     *)
(* manager takes no lock: it marks overdue records ForceReleased, posts the  *)
(* semaphores on their behalf, and removes the records of idle clients.      *)
(* A permit is represented twice, by the semaphore and by the record, and    *)
(* the two are never changed together.  Nor is the record tested and changed *)
(* together: who looks at it, the client or the manager, stores in a later   *)
(* step, and the other may have changed it in between.                       *)
(* Clock readings are abstracted to facts: the age of acquired_time, and     *)
(* whether last_active_ts is older than record_timeout.                      *)
EXTENDS Integers, FiniteSets, FiniteSetsExt

CONSTANTS
  Client,         \* processes with a record in the lock table
  Thread,         \* their threads, registered by register_thread
  ClientOf,       \* the process a thread belongs to
  Asks,           \* the priorities a thread asks for
  priorities,     \* __semaphore::priorities
  max_concurrent, \* permits of a semaphore
  quota,          \* __lock_table_header::quota, 0 for none
  Mortal,         \* bound: the clients that may crash, close or fall silent
  MaxPermits,     \* bound: a semaphore saturates here
  MaxCount        \* bound: the lock count of a process

ASSUME ClientAssumption == /\ ClientOf \in [Thread -> Client]
                           /\ IsFiniteSet(Client) /\ IsFiniteSet(Thread)
Priority == 0 .. priorities - 1
Ask == 1        \* the quota a lock call asks for
ASSUME SettingAssumption == /\ priorities \in Nat \ {0} /\ max_concurrent \in Nat \ {0}
                            /\ Asks \in [Thread -> SUBSET Priority]
                            /\ \A t \in Thread : Asks[t] # {}
                            /\ quota \in Nat /\ Mortal \subseteq Client
                            /\ MaxPermits \in Nat /\ MaxPermits > max_concurrent
                            /\ MaxCount \in Nat

ThreadsOf(c) == {t \in Thread : ClientOf[t] = c}

(* Age of acquired_time: the lease is running; it is over; the manager's     *)
(* lock_timeout after it is over too.  A cleared acquired_time is Overdue.   *)
Fresh == 0
Lapsed == 1
Overdue == 2

VARIABLES
  sem,        \* [Priority -> permits], the named semaphores
  used,       \* [Client -> BOOLEAN], __lock_record::used
  state,      \* [Client -> [Priority -> lock state]], lock.locks[p].state
  age,        \* [Client -> [Priority -> age]], of lock.locks[p].acquired_time
  quota_used, \* [Client -> Nat], lock.quota_used
  idle,       \* [Client -> BOOLEAN], app.last_active_ts is record_timeout old
  count,      \* [Client -> [Priority -> Nat]], counts[p]->count
  p_counts,   \* [Thread -> [Priority -> Nat]], thread_lock_record::p_counts
  id,         \* [Thread -> [Priority -> BOOLEAN]], the thread's lock index is set
  pc,         \* [Thread -> label]
  base,       \* [Thread -> Priority], the priority of this or of the next call
  low,        \* [Thread -> Priority], lock_get's locked_priority
  cur,        \* [Thread -> Priority], the priority being worked on
  alive,      \* [Client -> BOOLEAN]
  manager,    \* what the control thread is doing
  found,      \* {<<client, priority>>}, the lock or record it is looking at, or {}
  pending,    \* [Priority -> SUBSET Client], what check_expired_locks has counted
  stranded,   \* history [Client -> [Priority -> BOOLEAN]]: counts kept without a lock
  late        \* history: what the manager has judged is no longer so

record == <<used, state, age, quota_used, idle>>
process == <<count, p_counts, id>>
thread == <<pc, base, low, cur>>
control == <<manager, found, pending>>
vars == <<sem, record, process, thread, alive, control, stranded, late>>

Init == /\ sem = [p \in Priority |-> max_concurrent]
        /\ used = [c \in Client |-> TRUE]
        /\ state = [c \in Client |-> [p \in Priority |-> "None"]]
        /\ age = [c \in Client |-> [p \in Priority |-> Overdue]]
        /\ quota_used = [c \in Client |-> 0]
        /\ idle = [c \in Client |-> FALSE]
        /\ count = [c \in Client |-> [p \in Priority |-> 0]]
        /\ p_counts = [t \in Thread |-> [p \in Priority |-> 0]]
        /\ id = [t \in Thread |-> [p \in Priority |-> FALSE]]
        /\ pc = [t \in Thread |-> "run"]
        /\ base \in [Thread -> Priority] /\ (\A t \in Thread : base[t] \in Asks[t])
        /\ low = base /\ cur = base
        /\ alive = [c \in Client |-> TRUE]
        /\ manager = "locks" /\ found = {} /\ pending = [p \in Priority |-> {}]
        /\ stranded = [c \in Client |-> [p \in Priority |-> FALSE]] /\ late = FALSE

----------------------------------------------------------------------------
(* Helpers                                                                   *)

Goto(t, label) == pc' = [pc EXCEPT ![t] = label]
At(t, label) == alive[ClientOf[t]] /\ pc[t] = label
Set(f, c, p, v) == [f EXCEPT ![c][p] = v]
Posted(p) == [sem EXCEPT ![p] = IF @ < MaxPermits THEN @ + 1 ELSE @]

(* The labels at which a thread is inside counts[p]->priority_lock.          *)
Locking == {"look", "expired", "xfree", "xpost", "spent", "sstore", "spost",
            "refund", "wait", "took", "stamp"}
Releasing == {"ulook", "urefund", "overrun", "ofree", "opost", "unpost", "unrecord", "free"}
Inside == Locking \union Releasing
priority_lock(c, p) == {t \in ThreadsOf(c) : pc[t] \in Inside /\ cur[t] = p}

(* What is counted against the quota, when there is one.                      *)
Charge(n) == IF quota > 0 THEN n + Ask ELSE n

(* What the manager has judged is renewed before it acts on its judgement.   *)
Overtake(step, c, p) == late' = (late \/ (manager \in step /\ <<c, p>> \in found))

(* has_valid_lock stores last_active_ts and reads the state; a Locked lock it *)
(* then judges by a second look, is_lock_active, and by the quota.           *)
Heard(c) == /\ idle' = [idle EXCEPT ![c] = FALSE]
            /\ Overtake({"remove"}, c, 0)
is_lock_active(c, p) == state[c][p] = "Locked" /\ age[c][p] = Fresh
Spent(c) == quota > 0 /\ quota - quota_used[c] < Ask

(* It tells a forced release once, and gives a spent quota back after the    *)
(* lease.  (Under the mutex the store for a forced release may be taken with *)
(* the look: nobody else turns such a lock into anything but None.)          *)
ClearState(c, p) == state' = Set(state, c, p, "None")
ClearQuota(c) == quota_used' = [quota_used EXCEPT ![c] = 0]
ClearBase(c, p) == IF p = 0 THEN ClearQuota(c) ELSE UNCHANGED quota_used
QuotaBack(c, p) == state[c][p] = "QuotaReached" /\ age[c][p] # Fresh

\* Mutants: the threads keep their counts; the threads keep their lock.
ResetCountsOfProcess(c, p) ==
  /\ count' = Set(count, c, p, 0)
  /\ stranded' = Set(stranded, c, p, FALSE)
  /\ UNCHANGED <<p_counts, id>>
ResetCountsKept(c, p) ==
  /\ count' = Set(count, c, p, 0)
  /\ p_counts' = [t \in Thread |-> IF ClientOf[t] = c THEN [p_counts[t] EXCEPT ![p] = 0]
                                                      ELSE p_counts[t]]
  /\ stranded' = Set(stranded, c, p, FALSE)
  /\ UNCHANGED id
(* reset_thread_locks and counts[p]->count = 0.                              *)
ResetCounts(c, p) ==
  /\ count' = Set(count, c, p, 0)
  /\ p_counts' = [t \in Thread |-> IF ClientOf[t] = c THEN [p_counts[t] EXCEPT ![p] = 0]
                                                      ELSE p_counts[t]]
  /\ id' = [t \in Thread |-> IF ClientOf[t] = c THEN [id[t] EXCEPT ![p] = FALSE]
                                                ELSE id[t]]
  /\ stranded' = Set(stranded, c, p, FALSE)

(* One more lock of the thread on a permit its process has.                  *)
Count(t, p) == /\ count[ClientOf[t]][p] < MaxCount
               /\ count' = [count EXCEPT ![ClientOf[t]][p] = @ + 1]
               /\ p_counts' = [p_counts EXCEPT ![t][p] = @ + 1]
               /\ id' = [id EXCEPT ![t][p] = TRUE]

(* RELEASE_LOCK_RECORD.                                                      *)
ReleaseRecord(c, p) == /\ ClearState(c, p) /\ ClearBase(c, p)
                       /\ age' = Set(age, c, p, Overdue)

(* A call of lock() or release() is over; the next lock() may be of any      *)
(* priority.                                                                 *)
Return(t) == /\ Goto(t, "run")
             /\ \E p \in Asks[t] :  /\ base' = [base EXCEPT ![t] = p]
                                    /\ low' = [low EXCEPT ![t] = p]
                                    /\ cur' = [cur EXCEPT ![t] = p]

(* try_lock was granted: lock_get looks at what it has, from the highest     *)
(* down, before it tries the next priority, or lock() returns Locked.        *)
Granted(t, p) ==
  /\ low' = [low EXCEPT ![t] = p]
  /\ cur' = [cur EXCEPT ![t] = base[t]]
  /\ Goto(t, IF p = 0 THEN "held" ELSE "poll")
  /\ UNCHANGED base

(* lock_get gives back the priorities base .. low, which this call has taken.*)
GotoBase(t, label) == /\ Goto(t, label) /\ cur' = [cur EXCEPT ![t] = base[t]]
                      /\ UNCHANGED <<base, low>>
Undo(t) == GotoBase(t, "unlock")

(* try_lock was not granted: there is nothing to give back yet at the first. *)
Refused(t, p) == IF p = base[t] THEN Return(t) ELSE Undo(t)

(* The loop over the priorities to release.                                  *)
NextRelease(t) == IF cur[t] > low[t]
                  THEN /\ Goto(t, "unlock") /\ cur' = [cur EXCEPT ![t] = @ - 1]
                       /\ UNCHANGED <<base, low>>
                  ELSE Return(t)

----------------------------------------------------------------------------
(* lock: one call of lock_get (lock() calls it again while it is told Retry  *)
(* or QuotaReached)                                                          *)

(* try_lock, try_lock_base: under the process's mutex of the priority.       *)
Attempt(t, p, s) == /\ At(t, "run") \/ At(t, "lock")
                    /\ cur[t] = p
                    /\ priority_lock(ClientOf[t], p) = {}
                    /\ state[ClientOf[t]][p] = s
                    /\ Heard(ClientOf[t])
                    /\ UNCHANGED <<sem, used, age, alive, control>>

FindLock(t, p) == /\ Attempt(t, p, "Locked")
                  /\ Goto(t, "look")
                  /\ UNCHANGED <<state, quota_used, process, base, low, cur, stranded>>

FindNone(t, p) == /\ Attempt(t, p, "None")
                  /\ Goto(t, "wait")
                  /\ UNCHANGED <<state, quota_used, process, base, low, cur, stranded>>

FindRefund(t, p) == /\ QuotaBack(ClientOf[t], p) /\ Attempt(t, p, "QuotaReached")
                    /\ Goto(t, "refund")
                    /\ UNCHANGED <<state, quota_used, process, base, low, cur, stranded>>

BeRefused(t, p) == /\ ~QuotaBack(ClientOf[t], p) /\ Attempt(t, p, "QuotaReached")
                   /\ Refused(t, p)
                   /\ UNCHANGED <<state, quota_used, process, stranded>>

\* Mutant: the counts are not reset.
AcceptForcedKept(c, p) == /\ ClearState(c, p) /\ ClearBase(c, p)
                          /\ UNCHANGED <<process, stranded>>
AcceptForced(c, p) == ClearState(c, p) /\ ClearBase(c, p) /\ ResetCounts(c, p)

FindForced(t, p) == /\ Attempt(t, p, "ForceReleased")
                    /\ AcceptForced(ClientOf[t], p)
                    /\ Goto(t, "wait")
                    /\ UNCHANGED <<base, low, cur>>

(* The quota is given back.                                                  *)
Refund(t) == LET c == ClientOf[t]  p == cur[t] IN
             /\ \/ At(t, "refund") /\ Goto(t, "wait") /\ UNCHANGED <<base, low, cur>>
                \/ At(t, "urefund") /\ NextRelease(t)
             /\ ClearState(c, p) /\ ClearQuota(c)
             /\ UNCHANGED <<sem, used, age, idle, process, alive, control, stranded, late>>

(* The second look.                                                          *)
Look(t, active) == /\ active = is_lock_active(ClientOf[t], cur[t])
                   /\ UNCHANGED <<sem, used, state, age, idle, alive, control, stranded, late>>

(* The process has the permit.  (check_and_lock charges the quota.)          *)
Join(t) == LET p == cur[t]  c == ClientOf[t] IN
           /\ At(t, "look") /\ Look(t, TRUE) /\ ~Spent(c)
           /\ Count(t, p)
           /\ quota_used' = IF p = 0 THEN [quota_used EXCEPT ![c] = Charge(@)] ELSE quota_used
           /\ Granted(t, p)

FindExpired(t) == /\ At(t, "look") /\ Look(t, FALSE)
                  /\ Goto(t, "expired")
                  /\ UNCHANGED <<quota_used, process, base, low, cur>>

FindSpent(t) == /\ At(t, "look") /\ Look(t, TRUE) /\ Spent(ClientOf[t])
                /\ Goto(t, "spent")
                /\ UNCHANGED <<quota_used, process, base, low, cur>>

(* sem_wait or sem_trywait has taken a permit.                               *)
Take(t) == LET p == cur[t] IN
           /\ At(t, "wait") /\ sem[p] > 0
           /\ sem' = [sem EXCEPT ![p] = @ - 1]
           /\ Count(t, p)
           /\ Goto(t, "took")
           /\ UNCHANGED <<record, base, low, cur, alive, control, stranded, late>>

(* sem_trywait finds none: lock_get sleeps and goes round its loop.          *)
TryAgain(t) == /\ At(t, "wait") /\ cur[t] # base[t] /\ sem[cur[t]] = 0
               /\ GotoBase(t, "poll")
               /\ UNCHANGED <<sem, record, process, alive, control, stranded, late>>

(* sem_wait is interrupted: lock_get throws.                                 *)
Interrupted(t) == /\ At(t, "wait") /\ cur[t] = base[t]
                  /\ Return(t)
                  /\ UNCHANGED <<sem, record, process, alive, control, stranded, late>>

(* update_lock: the state first, the time it was acquired at second.         *)
UpdateState(t) == /\ At(t, "took")
                  /\ state' = Set(state, ClientOf[t], cur[t], "Locked")
                  /\ Goto(t, "stamp")
                  /\ UNCHANGED <<sem, used, age, quota_used, idle, process, base, low, cur,
                                 alive, control, stranded, late>>

UpdateTime(t) == LET p == cur[t] IN
                 /\ At(t, "stamp")
                 /\ age' = Set(age, ClientOf[t], p, Fresh)
                 /\ Overtake({"force", "clear"}, ClientOf[t], p)
                 /\ quota_used' = IF p = 0 THEN [quota_used EXCEPT ![ClientOf[t]] = Charge(0)]
                                           ELSE quota_used
                 /\ Granted(t, p)
                 /\ UNCHANGED <<sem, used, state, idle, process, alive, control, stranded>>

\* Mutant: the priorities that were taken are not given back.
TimeOutReturns(t) == /\ At(t, "poll") /\ cur[t] = base[t]
                     /\ Return(t)
                     /\ UNCHANGED <<sem, record, process, alive, control, stranded, late>>
(* lock_get's loop: its timeout is over ...                                  *)
TimeOut(t) == /\ At(t, "poll") /\ cur[t] = base[t]
              /\ Undo(t)
              /\ UNCHANGED <<sem, record, process, alive, control, stranded, late>>

(* ... or it looks at the locks it has taken, without the mutex: a sibling   *)
(* may have locked again when the look is followed by the store of None.     *)
(* (It may have renewed the time, too, by which a quota would be given back.)*)
Poll(t) == /\ At(t, "poll") /\ Heard(ClientOf[t])
           /\ UNCHANGED <<sem, used, state, age, quota_used, process, alive, control, stranded>>

PollLock(t) == /\ Poll(t) /\ state[ClientOf[t]][cur[t]] = "Locked"
               /\ Goto(t, "plook")
               /\ UNCHANGED <<base, low, cur>>

PollLost(t) ==
  LET c == ClientOf[t]  p == cur[t]
      To(label) == Goto(t, label) /\ UNCHANGED <<base, low, cur>> IN
  /\ Poll(t) /\ state[c][p] # "Locked"
  /\ \/ state[c][p] = "ForceReleased" /\ To("pforced")
     \/ QuotaBack(c, p) /\ To("prefund")
     \/ state[c][p] # "ForceReleased" /\ Undo(t)

PollValid(t) ==
  /\ At(t, "plook") /\ Look(t, TRUE)
  /\ IF cur[t] > low[t] THEN cur' = [cur EXCEPT ![t] = @ - 1] /\ Goto(t, "poll")
                        ELSE cur' = [cur EXCEPT ![t] = low[t] - 1] /\ Goto(t, "lock")
  /\ UNCHANGED <<quota_used, process, base, low>>

PollExpired(t) == /\ At(t, "plook") /\ Look(t, FALSE)
                  /\ Undo(t)
                  /\ UNCHANGED <<quota_used, process>>

PollClear(t) ==
  LET c == ClientOf[t]  p == cur[t] IN
  /\ alive[c] /\ pc[t] \in {"pforced", "prefund"}
  /\ ClearState(c, p)
  /\ IF pc[t] = "prefund" THEN ClearQuota(c) ELSE UNCHANGED quota_used
  /\ stranded' = IF count[c][p] > 0 THEN Set(stranded, c, p, TRUE) ELSE stranded
  /\ Undo(t)
  /\ UNCHANGED <<sem, used, age, idle, process, alive, control, late>>

----------------------------------------------------------------------------
(* reset_locks: counts, record, semaphore.  release_lock of the table only   *)
(* stores if the record is still Locked when it looks.                       *)

IfLocked(t, yes, no) == Goto(t, IF state[ClientOf[t]][cur[t]] = "Locked" THEN yes ELSE no)

Reset(t, from, store, post) == /\ At(t, from)
                               /\ ResetCounts(ClientOf[t], cur[t])
                               /\ IfLocked(t, store, post)
                               /\ UNCHANGED <<sem, record, base, low, cur, alive, control, late>>

ResetExpired(t) == Reset(t, "expired", "xfree", "xpost") \/ Reset(t, "overrun", "ofree", "opost")
ResetSpent(t)   == Reset(t, "spent", "sstore", "spost")

Free(t, from) == /\ At(t, from)
                 /\ ReleaseRecord(ClientOf[t], cur[t])
                 /\ UNCHANGED <<sem, used, idle, process, alive, control, stranded, late>>
FreeExpired(t) == /\ \/ Free(t, "xfree") /\ Goto(t, "xpost")
                     \/ Free(t, "ofree") /\ Goto(t, "opost")
                  /\ UNCHANGED <<base, low, cur>>

KeepSpent(t) == /\ At(t, "sstore")
                /\ state' = Set(state, ClientOf[t], cur[t], "QuotaReached")
                /\ Goto(t, "spost")
                /\ UNCHANGED <<sem, used, age, quota_used, idle, process, base, low, cur, alive,
                               control, stranded, late>>

Post(t, from) == /\ At(t, from)
                 /\ sem' = Posted(cur[t])
                 /\ UNCHANGED <<record, process, alive, control, stranded, late>>

(* try_lock goes on to wait, is refused; release_lock is done.               *)
PostExpired(t) == Post(t, "xpost") /\ Goto(t, "wait") /\ UNCHANGED <<base, low, cur>>
PostSpent(t)   == Post(t, "spost") /\ Refused(t, cur[t])
PostOverrun(t) == Post(t, "opost") /\ NextRelease(t)

----------------------------------------------------------------------------
(* release: release_lock of every priority, highest first                    *)

Unlocking(t) == /\ At(t, "held") \/ At(t, "unlock")
                /\ priority_lock(ClientOf[t], cur[t]) = {}

(* The thread's lock index is not set: the lock was reset under it.          *)
NotMine(t) == /\ Unlocking(t) /\ ~id[t][cur[t]]
              /\ NextRelease(t)
              /\ UNCHANGED <<sem, record, process, alive, control, stranded, late>>

Unlock(t) == /\ Unlocking(t) /\ id[t][cur[t]]
             /\ Heard(ClientOf[t])
             /\ UNCHANGED <<sem, used, age, alive, control>>

UnlockLock(t) == /\ Unlock(t) /\ state[ClientOf[t]][cur[t]] = "Locked"
                 /\ Goto(t, "ulook")
                 /\ UNCHANGED <<state, quota_used, process, base, low, cur, stranded>>

UnlockForced(t) == /\ Unlock(t) /\ state[ClientOf[t]][cur[t]] = "ForceReleased"
                   /\ AcceptForced(ClientOf[t], cur[t])
                   /\ NextRelease(t)

UnlockNothing(t) == /\ Unlock(t) /\ state[ClientOf[t]][cur[t]] \in {"None", "QuotaReached"}
                    /\ IF QuotaBack(ClientOf[t], cur[t])
                       THEN Goto(t, "urefund") /\ UNCHANGED <<base, low, cur>>
                       ELSE NextRelease(t)
                    /\ UNCHANGED <<state, quota_used, process, stranded>>

UnlockExpired(t) == /\ At(t, "ulook") /\ Look(t, FALSE)
                    /\ Goto(t, "overrun")
                    /\ UNCHANGED <<quota_used, process, base, low, cur>>

(* One count less; the last one gives the permit back.                       *)
CountDown(t) ==
  LET c == ClientOf[t]  p == cur[t]  last == count[c][p] <= 1 IN
  /\ At(t, "ulook") /\ Look(t, TRUE)
  /\ count' = [count EXCEPT ![c][p] = @ - 1]
  /\ p_counts' = [p_counts EXCEPT ![t][p] = @ - 1]
  /\ id' = IF last THEN [id EXCEPT ![t][p] = FALSE] ELSE id
  /\ IF last THEN Goto(t, "unpost") /\ UNCHANGED <<base, low, cur>>
             ELSE NextRelease(t)
  /\ UNCHANGED quota_used

(* sem_post comes before the record is released.                             *)
UnlockPost(t) == Post(t, "unpost") /\ Goto(t, "unrecord") /\ UNCHANGED <<base, low, cur>>

UnlockRecord(t) == /\ At(t, "unrecord")
                   /\ IF state[ClientOf[t]][cur[t]] = "Locked"
                      THEN Goto(t, "free") /\ UNCHANGED <<base, low, cur>>
                      ELSE NextRelease(t)
                   /\ UNCHANGED <<sem, record, process, alive, control, stranded, late>>

UnlockFree(t) == Free(t, "free") /\ NextRelease(t)

ThreadStep(t) ==
  \/ \E p \in Priority : FindLock(t, p) \/ FindNone(t, p) \/ FindRefund(t, p)
                         \/ BeRefused(t, p) \/ FindForced(t, p)
  \/ Refund(t) \/ Join(t) \/ FindExpired(t) \/ FindSpent(t)
  \/ Take(t) \/ TryAgain(t) \/ UpdateState(t) \/ UpdateTime(t)
  \/ TimeOut(t) \/ PollLock(t) \/ PollLost(t) \/ PollValid(t) \/ PollExpired(t) \/ PollClear(t)
  \/ ResetExpired(t) \/ ResetSpent(t) \/ FreeExpired(t) \/ KeepSpent(t)
  \/ PostExpired(t) \/ PostSpent(t) \/ PostOverrun(t)
  \/ NotMine(t) \/ UnlockLock(t) \/ UnlockForced(t) \/ UnlockNothing(t)
  \/ UnlockExpired(t) \/ CountDown(t) \/ UnlockPost(t) \/ UnlockRecord(t) \/ UnlockFree(t)

----------------------------------------------------------------------------
(* The end of a process                                                      *)

(* Its memory is gone, its record stays.                                     *)
Gone(c) ==
  /\ alive' = [alive EXCEPT ![c] = FALSE]
  /\ count' = [count EXCEPT ![c] = [p \in Priority |-> 0]]
  /\ p_counts' = [t \in Thread |-> IF ClientOf[t] = c THEN [p \in Priority |-> 0] ELSE p_counts[t]]
  /\ id' = [t \in Thread |-> IF ClientOf[t] = c THEN [p \in Priority |-> FALSE] ELSE id[t]]
  /\ pc' = [t \in Thread |-> IF ClientOf[t] = c THEN "run" ELSE pc[t]]
  /\ base' = [t \in Thread |-> IF ClientOf[t] = c THEN 0 ELSE base[t]]
  /\ low' = [t \in Thread |-> IF ClientOf[t] = c THEN 0 ELSE low[t]]
  /\ cur' = [t \in Thread |-> IF ClientOf[t] = c THEN 0 ELSE cur[t]]
  /\ stranded' = [stranded EXCEPT ![c] = [p \in Priority |-> FALSE]]

(* It crashes at any step.                                                   *)
Die(c) == /\ c \in Mortal /\ alive[c]
          /\ Gone(c)
          /\ UNCHANGED <<sem, record, control, late>>

(* RESET_RECORD, by remove_record.                                           *)
RemoveRecord(c) ==
  /\ used' = [used EXCEPT ![c] = FALSE]
  /\ state' = [state EXCEPT ![c] = [p \in Priority |-> "None"]]
  /\ age' = [age EXCEPT ![c] = [p \in Priority |-> Overdue]]
  /\ quota_used' = [quota_used EXCEPT ![c] = 0]
  /\ idle' = [idle EXCEPT ![c] = TRUE]

(* ~lock_table_client: the process closes its control_client.                *)
Close(c) == /\ c \in Mortal /\ alive[c] /\ \A t \in ThreadsOf(c) : pc[t] \in {"run", "held"}
            /\ Gone(c)
            /\ IF used[c] THEN RemoveRecord(c) ELSE UNCHANGED record
            /\ UNCHANGED <<sem, control, late>>

----------------------------------------------------------------------------
(* control_manager::run                                                      *)

(* check_expired_locks: the state of a record's lock, each once a pass, then *)
(* its time, then the two stores.  The manager decides by what it has read.  *)
\* Mutant: a process that has died is passed over.
FindLockedLiving(c, p) ==
  /\ manager = "locks" /\ used[c] /\ state[c][p] = "Locked" /\ c \notin pending[p] /\ alive[c]
  /\ manager' = "judge" /\ found' = {<<c, p>>}
  /\ UNCHANGED <<sem, record, process, thread, alive, pending, stranded, late>>
FindLocked(c, p) ==
  /\ manager = "locks" /\ used[c] /\ state[c][p] = "Locked" /\ c \notin pending[p]
  /\ manager' = "judge" /\ found' = {<<c, p>>}
  /\ UNCHANGED <<sem, record, process, thread, alive, pending, stranded, late>>

\* Mutant: a lock of any age is forced.
JudgeAny(c, p) ==
  /\ manager = "judge" /\ <<c, p>> \in found
  /\ manager' = "force" /\ late' = FALSE
  /\ UNCHANGED <<sem, record, process, thread, alive, found, pending, stranded>>
Judge(c, p) ==
  /\ manager = "judge" /\ <<c, p>> \in found
  /\ IF age[c][p] = Overdue THEN manager' = "force" /\ UNCHANGED found
                            ELSE manager' = "locks" /\ found' = {}
  /\ late' = FALSE
  /\ UNCHANGED <<sem, record, process, thread, alive, pending, stranded>>

ForceRelease(c, p) ==
  /\ manager = "force" /\ <<c, p>> \in found
  /\ state' = Set(state, c, p, "ForceReleased")
  /\ pending' = [pending EXCEPT ![p] = @ \union {c}]
  /\ manager' = "clear"
  /\ UNCHANGED <<sem, used, age, quota_used, idle, process, thread, alive, found, stranded, late>>

ClearTime(c, p) ==
  /\ manager = "clear" /\ <<c, p>> \in found
  /\ age' = Set(age, c, p, Overdue)
  /\ manager' = "locks" /\ found' = {} /\ late' = FALSE
  /\ UNCHANGED <<sem, used, state, quota_used, idle, process, thread, alive, pending, stranded>>

\* Mutant: what was posted is posted again by the next pass.
PostPendingKept ==
  /\ manager = "locks"
  /\ sem' = [p \in Priority |-> LET n == sem[p] + Cardinality(pending[p]) IN
                                IF n > MaxPermits THEN MaxPermits ELSE n]
  /\ manager' = IF \E c \in Client : used[c] /\ idle[c] THEN "records" ELSE "locks"
  /\ UNCHANGED <<record, found, pending, process, thread, alive, stranded, late>>
(* The semaphores of what was forced.  (A pass over the records that has     *)
(* nothing to find is over at once.)                                         *)
PostPending ==
  /\ manager = "locks"
  /\ sem' = [p \in Priority |-> LET n == sem[p] + Cardinality(pending[p]) IN
                                IF n > MaxPermits THEN MaxPermits ELSE n]
  /\ pending' = [p \in Priority |-> {}]
  /\ manager' = IF \E c \in Client : used[c] /\ idle[c] THEN "records" ELSE "locks"
  /\ UNCHANGED <<record, found, process, thread, alive, stranded, late>>

(* check_expired_records: the time, then the removal.  remove_record throws  *)
(* if the client has removed its record by then, and that ends the thread.   *)
FindIdle(c) == /\ manager = "records" /\ used[c] /\ idle[c]
               /\ manager' = "remove" /\ found' = {<<c, 0>>} /\ late' = FALSE
               /\ UNCHANGED <<sem, record, process, thread, alive, pending, stranded>>

Remove(c) == /\ manager = "remove" /\ <<c, 0>> \in found /\ used[c]
             /\ RemoveRecord(c)
             /\ stranded' = [stranded EXCEPT ![c] = [p \in Priority |-> @[p] \/ count[c][p] > 0]]
             /\ manager' = "records" /\ found' = {} /\ late' = FALSE
             /\ UNCHANGED <<sem, process, thread, alive, pending>>

RemoveTwice(c) == /\ manager = "remove" /\ <<c, 0>> \in found /\ ~used[c]
                  /\ manager' = "stopped" /\ found' = {} /\ late' = FALSE
                  /\ UNCHANGED <<sem, record, process, thread, alive, pending, stranded>>

EndRecords == /\ manager = "records"
              /\ manager' = "locks"
              /\ UNCHANGED <<sem, record, process, thread, alive, found, pending, stranded, late>>

----------------------------------------------------------------------------
(* Time                                                                      *)

Age(c, p) == /\ state[c][p] \in {"Locked", "QuotaReached"} /\ age[c][p] < Overdue
             /\ age' = [age EXCEPT ![c][p] = @ + 1]
             /\ UNCHANGED <<sem, used, state, quota_used, idle, process, thread, alive, control,
                            stranded, late>>

(* Ten minutes without a call: a lock that old was forced before.            *)
Idle(c) == /\ c \in Mortal /\ used[c] /\ ~idle[c]
           /\ \A p \in Priority : state[c][p] # "Locked" /\ age[c][p] # Fresh
           /\ idle' = [idle EXCEPT ![c] = TRUE]
           /\ UNCHANGED <<sem, used, state, age, quota_used, process, thread, alive, control,
                          stranded, late>>

----------------------------------------------------------------------------
ManagerStep == \/ \E c \in Client : \/ FindIdle(c) \/ Remove(c) \/ RemoveTwice(c)
                                    \/ \E p \in Priority : \/ FindLocked(c, p) \/ Judge(c, p)
                                                           \/ ForceRelease(c, p) \/ ClearTime(c, p)
               \/ PostPending \/ EndRecords

Next == \/ \E t \in Thread : ThreadStep(t) \/ Interrupted(t)
        \/ \E c \in Client : \/ Die(c) \/ Close(c) \/ Idle(c)
                             \/ \E p \in Priority : Age(c, p)
        \/ ManagerStep

(* A thread inside a call goes on.  The manager's loop goes round: it ends a *)
(* look it has begun and each pass, and does not pass over for ever a lock   *)
(* that stays overdue.  Time passes.                                         *)
Fairness ==
  /\ \A t \in Thread : WF_vars(pc[t] \notin {"run", "held"} /\ ThreadStep(t))
  /\ WF_vars(manager # "locks" /\ ManagerStep)
  /\ SF_vars(PostPending) /\ WF_vars(EndRecords)
  /\ SF_vars(\E c \in Client, p \in Priority : age[c][p] = Overdue /\ FindLocked(c, p))
  /\ WF_vars(\E c \in Client, p \in Priority : Age(c, p))

Spec == Init /\ [][Next]_vars
FairSpec == Spec /\ Fairness
----------------------------------------------------------------------------
(* Properties                                                                *)

LockState == {"None", "Locked", "ForceReleased", "QuotaReached"}
Label == {"run", "lock", "poll", "plook", "pforced", "prefund", "held", "unlock"} \union Inside

RecordOK == /\ state \in [Client -> [Priority -> LockState]]
            /\ age \in [Client -> [Priority -> {Fresh, Lapsed, Overdue}]]
            /\ used \in [Client -> BOOLEAN] /\ idle \in [Client -> BOOLEAN]
            /\ quota_used \in [Client -> Nat]
ThreadOK == /\ pc \in [Thread -> Label]
            /\ base \in [Thread -> Priority] /\ low \in [Thread -> Priority]
            /\ cur \in [Thread -> Priority]
            /\ alive \in [Client -> BOOLEAN]
ControlOK == /\ sem \in [Priority -> 0 .. MaxPermits]
             /\ manager \in {"locks", "judge", "force", "clear", "records", "remove", "stopped"}
             /\ found \in SUBSET (Client \X Priority) /\ pending \in [Priority -> SUBSET Client]
             /\ late \in BOOLEAN
CountsOK == /\ count \in [Client -> [Priority -> Nat]]
            /\ p_counts \in [Thread -> [Priority -> Nat]]
            /\ id \in [Thread -> [Priority -> BOOLEAN]]
            /\ stranded \in [Client -> [Priority -> BOOLEAN]]

(* Types: a count never goes below zero, a semaphore stays within its bound. *)
TypeOK == RecordOK /\ ThreadOK /\ ControlOK /\ CountsOK

(* The threads whose next access settles a permit that the record does not   *)
(* show: taken or about to be posted; or posted while the record is Locked.  *)
Owing(p) == {t \in Thread : /\ cur[t] = p
                            /\ \/ pc[t] \in {"took", "xpost", "spost", "opost"}
                               \/ /\ pc[t] \in {"look", "expired", "xfree", "spent", "sstore",
                                                "ulook", "overrun", "ofree", "unpost"}
                                  /\ state[ClientOf[t]][p] # "Locked"}
Repaid(p) == {t \in Thread : /\ cur[t] = p /\ pc[t] \in {"unrecord", "free"}
                             /\ state[ClientOf[t]][p] = "Locked"}

Lockers(p) == {c \in Client : state[c][p] = "Locked"}

(* Every permit of a semaphore, wherever it is.                              *)
Permits(p) == sem[p] + Cardinality(pending[p]) + Cardinality(Lockers(p)) + Cardinality(Owing(p))
                - Cardinality(Repaid(p))

(* A lock is forced while its client is giving it back: both will post.      *)
GivingBack == {"look", "expired", "xfree", "spent", "sstore",
               "ulook", "overrun", "ofree", "unpost", "unrecord", "free"}
ForcedTwice(p) ==
  \E t \in Thread : /\ cur[t] = p /\ pc[t] \in GivingBack
                    /\ state[ClientOf[t]][p] = "Locked"
                    /\ state'[ClientOf[t]][p] = "ForceReleased"

(* A lock is forced that its client has given back since the manager looked. *)
ForcedGone(p) == \E c \in Client : /\ state[c][p] # "Locked" /\ c \in pending'[p]
                                   /\ manager = "force" /\ <<c, p>> \in found

(* lock_get's look at a lock that was forced stores None over a lock that a  *)
(* sibling has taken since.                                                  *)
LookedLate(p) == \E t \in Thread : /\ pc[t] \in {"pforced", "prefund"} /\ pc'[t] # pc[t]
                                   /\ cur[t] = p
                                   /\ state[ClientOf[t]][p] = "Locked"

(* A process dies between posting the semaphore and clearing its record.     *)
DiedPosted(p) == \E t \in Repaid(p) : alive'[ClientOf[t]] # alive[ClientOf[t]]

(* A process dies holding a permit that no record shows.                     *)
DiedOwing(p) == \E t \in Owing(p) : alive'[ClientOf[t]] # alive[ClientOf[t]]

(* A record that shows a permit is removed.                                  *)
Removed(p) == \E c \in Lockers(p) : used[c] /\ ~used'[c]

(* Permits are neither multiplied nor lost, whatever the interleaving of     *)
(* clients and manager: only the steps above change their number.            *)
PermitsConserved ==
  [][\A p \in Priority :
       /\ Permits(p)' > Permits(p) => ForcedTwice(p) \/ ForcedGone(p) \/ DiedPosted(p)
       /\ Permits(p)' < Permits(p) => \/ DiedOwing(p) \/ Removed(p) \/ LookedLate(p)
                                      \/ sem'[p] = MaxPermits]_vars

(* The process's lock count is the sum of its threads' counts, across joins, *)
(* expiries, forced releases and timeouts.                                   *)
CountsAgree == \A c \in Client, p \in Priority :
                 count[c][p] = MapThenSumSet(LAMBDA t : p_counts[t][p], ThreadsOf(c))

(* What a thread has been granted and not begun to give back.                *)
Entitled(t) ==
  CASE pc[t] = "held" -> 0 .. base[t]
    [] pc[t] \in {"poll", "plook", "pforced", "prefund"} -> low[t] .. base[t]
    [] pc[t] \in {"lock"} \union Locking -> IF cur[t] = base[t] THEN {} ELSE low[t] .. base[t]
    [] pc[t] \in {"unlock"} \union Releasing -> low[t] .. cur[t]
    [] OTHER -> {}

(* No lock is left behind: a lock that the table shows, of a process that    *)
(* lives, belongs to a thread that was granted it or is at work on it.  The  *)
(* exceptions are clients whose counts were stranded, when lock_get's look   *)
(* at its locks swallowed a forced release or the record was removed.        *)
LockHasHolder ==
  \A c \in Client, p \in Priority :
    alive[c] /\ state[c][p] = "Locked" /\ ~stranded[c][p]
      => \E t \in ThreadsOf(c) : p \in Entitled(t) \/ t \in priority_lock(c, p)

(* A thread outside lock and release has no counts left, whichever way its   *)
(* last call ended: what thread_lock_record::test_assert asserts.            *)
IdleCountsZero ==
  \A t \in Thread, p \in Priority :
    pc[t] = "run" /\ ~stranded[ClientOf[t]][p] => p_counts[t][p] = 0

(* Within its lease a lock is only taken away, or its time with it, by its   *)
(* own process, or after its owner was not heard of for record_timeout.  The *)
(* exception: the lease, or the life sign, is younger than the look by which *)
(* the manager decided, whose stores then come too late.                     *)
Taken(c, p) == /\ state[c][p] = "Locked" /\ age[c][p] = Fresh
               /\ state'[c][p] # "Locked" \/ age'[c][p] = Overdue
LeaseRespected ==
  [][\A c \in Client, p \in Priority :
       Taken(c, p) => \/ idle[c] \/ alive'[c] # alive[c]
                      \/ \E t \in ThreadsOf(c) : pc'[t] # pc[t]
                      \/ late /\ (\E q \in Priority : <<c, q>> \in found)]_vars

(* A semaphore without permits gets one, though clients crash and never      *)
(* release, unless the permits are gone or held by a record that is no       *)
(* longer in the table, or the manager's thread has ended.                   *)
PermitReturns ==
  \A p \in Priority :
    (sem[p] = 0) ~> \/ sem[p] > 0 \/ Permits(p) < max_concurrent
                    \/ \E c \in Lockers(p) : ~used[c]
                    \/ manager = "stopped"
============================================================================
