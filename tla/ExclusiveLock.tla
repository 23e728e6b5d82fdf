--------------------------- MODULE ExclusiveLock ---------------------------
(* common/includes/exclusive_lock.h.                                        *)
(*                                                                          *)
(* A named POSIX semaphore with initial value 1, one per machine, wrapped   *)
(* by one exclusive_lock object per process.  The object's fields `locked`  *)
(* and `lock_owner` are plain members that every thread of the process      *)
(* reads and writes without synchronisation, so each of those accesses is   *)
(* a step of its own here (the racing string assignment is taken as one     *)
(* step).  A thread uses the lock through a scope guard                     *)
(* (exclusive_lock_guard), which releases in its destructor.                *)
EXTENDS Naturals

CONSTANTS
  Process,     \* processes that opened the semaphore
  Thread,      \* their threads
  Deployments, \* the ways threads may be spread over processes
  NoThread,    \* the empty lock_owner string
  MaxGuards,   \* bound on the guards one thread nests
  MaxCrashes   \* bound on process crashes

ASSUME ProcessAssumption == /\ Deployments \subseteq [Thread -> Process]
                            /\ NoThread \notin Thread
ASSUME BoundsAssumption == MaxGuards \in Nat /\ MaxCrashes \in Nat

VARIABLES
  semaphore,   \* value of the shared semaphore
  locked,      \* [Process -> BOOLEAN], exclusive_lock::locked
  lock_owner,  \* [Process -> Thread \cup {NoThread}]
  pc,          \* where a thread is inside the lock's code, "run" = outside
  guards,      \* live guards of a thread whose constructor returned the lock
  ProcessOf,   \* [Thread -> Process], fixed
  crashes,     \* crashes so far
  misuse       \* history: "none" until guards are nested or reset() is called

vars == <<semaphore, locked, lock_owner, pc, guards, ProcessOf, crashes, misuse>>
history == <<ProcessOf, crashes, misuse>>

PC == {"run", "sem_wait", "set_locked", "set_owner", "sem_post",
       "reset_locked", "reset_owner", "reset_try", "reset_post"}

Init == /\ semaphore = 1
        /\ locked = [p \in Process |-> FALSE]
        /\ lock_owner = [p \in Process |-> NoThread]
        /\ pc = [t \in Thread |-> "run"]
        /\ guards = [t \in Thread |-> 0]
        /\ ProcessOf \in Deployments
        /\ crashes = 0 /\ misuse = "none"

\* Mutant: "locked by some thread of this process".
is_lockedByProcess(t) == locked[ProcessOf[t]]
is_locked(t) == locked[ProcessOf[t]] /\ lock_owner[ProcessOf[t]] = t

Goto(t, label) == pc' = [pc EXCEPT ![t] = label]

(* A guard is built: the first of its thread, or inside the scope of        *)
(* another one.                                                             *)
NewGuard(t) == /\ pc[t] = "run" /\ guards[t] < MaxGuards
               /\ misuse' = IF guards[t] > 0 /\ misuse = "none" THEN "nested" ELSE misuse
               /\ UNCHANGED <<ProcessOf, crashes>>

(* The thread already owns the lock: no semaphore.                          *)
Reenter(t) == /\ NewGuard(t)
              /\ is_locked(t)
              /\ guards' = [guards EXCEPT ![t] = @ + 1]
              /\ UNCHANGED <<semaphore, locked, lock_owner, pc>>

(* __wait_lock: not the owner, so the thread blocks in sem_wait.            *)
WaitLock(t) == /\ NewGuard(t)
               /\ ~is_locked(t)
               /\ Goto(t, "sem_wait")
               /\ UNCHANGED <<semaphore, locked, lock_owner, guards>>

SemTake(t) == /\ semaphore > 0
              /\ semaphore' = semaphore - 1
              /\ Goto(t, "set_locked")
              /\ UNCHANGED <<locked, lock_owner, guards>>

SemWait(t) == pc[t] = "sem_wait" /\ SemTake(t) /\ UNCHANGED history

(* __try_lock succeeds; when sem_trywait fails it returns with no change.   *)
TryLock(t) == NewGuard(t) /\ ~is_locked(t) /\ SemTake(t)

(* set_locked(), the two assignments in order; then the guard is live.      *)
SetLocked(t) == /\ pc[t] = "set_locked"
                /\ locked' = [locked EXCEPT ![ProcessOf[t]] = TRUE]
                /\ Goto(t, "set_owner")
                /\ UNCHANGED <<semaphore, lock_owner, guards, history>>

\* Mutant: set_locked() forgets the owner.
SetOwnerForgotten(t) == /\ pc[t] = "set_owner"
                        /\ guards' = [guards EXCEPT ![t] = @ + 1]
                        /\ Goto(t, "run")
                        /\ UNCHANGED <<semaphore, locked, lock_owner, history>>
SetOwner(t) == /\ pc[t] = "set_owner"
               /\ lock_owner' = [lock_owner EXCEPT ![ProcessOf[t]] = t]
               /\ guards' = [guards EXCEPT ![t] = @ + 1]
               /\ Goto(t, "run")
               /\ UNCHANGED <<semaphore, locked, history>>

(* ~exclusive_lock_guard: releases the lock if the thread owns it, without  *)
(* regard for the guards of the enclosing scopes.                           *)
\* Mutant: a guard without a destructor.
DropGuardOnly(t) == /\ pc[t] = "run" /\ guards[t] > 0
                    /\ guards' = [guards EXCEPT ![t] = @ - 1]
                    /\ UNCHANGED <<semaphore, locked, lock_owner, pc, history>>
DropGuard(t) == /\ pc[t] = "run" /\ guards[t] > 0
                /\ guards' = [guards EXCEPT ![t] = @ - 1]
                /\ IF is_locked(t) THEN Goto(t, "sem_post") ELSE UNCHANGED pc
                /\ UNCHANGED <<semaphore, locked, lock_owner, history>>

(* __release_lock: the semaphore is posted before the owner is erased.      *)
SemPost(t) == /\ pc[t] = "sem_post"
              /\ semaphore' = semaphore + 1
              /\ Goto(t, "reset_locked")
              /\ UNCHANGED <<locked, lock_owner, guards, history>>

ResetLocked(t) == /\ pc[t] = "reset_locked"
                  /\ locked' = [locked EXCEPT ![ProcessOf[t]] = FALSE]
                  /\ Goto(t, "reset_owner")
                  /\ UNCHANGED <<semaphore, lock_owner, guards, history>>

ResetOwner(t) == /\ pc[t] = "reset_owner"
                 /\ lock_owner' = [lock_owner EXCEPT ![ProcessOf[t]] = NoThread]
                 /\ Goto(t, "run")
                 /\ UNCHANGED <<semaphore, locked, guards, history>>

(* A process dies: the kernel keeps the semaphore's value.  Its successor   *)
(* opens the semaphore again (O_CREAT without O_EXCL) and __create() starts *)
(* with a cleared object.                                                   *)
Crash(p) == /\ crashes < MaxCrashes
            /\ crashes' = crashes + 1
            /\ locked' = [locked EXCEPT ![p] = FALSE]
            /\ lock_owner' = [lock_owner EXCEPT ![p] = NoThread]
            /\ pc' = [t \in Thread |-> IF ProcessOf[t] = p THEN "run" ELSE pc[t]]
            /\ guards' = [t \in Thread |-> IF ProcessOf[t] = p THEN 0 ELSE guards[t]]
            /\ UNCHANGED <<semaphore, ProcessOf, misuse>>

(* reset(), called by a process that starts and was asked to reset, whatever*)
(* the others are doing: post until a trywait succeeds, post that one back, *)
(* clear the owner.                                                         *)
Starts(p) == \A t \in Thread : ProcessOf[t] = p => guards[t] = 0 /\ pc[t] = "run"
Reset(t) == /\ Starts(ProcessOf[t])
            /\ Goto(t, "reset_try")
            /\ misuse' = "reset"
            /\ UNCHANGED <<semaphore, locked, lock_owner, guards, ProcessOf, crashes>>

\* Mutant: the loop waits for a token instead of posting one.
ResetTryOnly(t) == /\ pc[t] = "reset_try"
                   /\ semaphore > 0
                   /\ semaphore' = semaphore - 1 /\ Goto(t, "reset_post")
                   /\ UNCHANGED <<locked, lock_owner, guards, history>>
ResetTry(t) == /\ pc[t] = "reset_try"
               /\ IF semaphore > 0
                  THEN semaphore' = semaphore - 1 /\ Goto(t, "reset_post")
                  ELSE semaphore' = semaphore + 1 /\ UNCHANGED pc
               /\ UNCHANGED <<locked, lock_owner, guards, history>>

ResetPost(t) == /\ pc[t] = "reset_post"
                /\ semaphore' = semaphore + 1
                /\ Goto(t, "reset_locked")
                /\ UNCHANGED <<locked, lock_owner, guards, history>>

Acquire(t) == SemWait(t) \/ SetLocked(t) \/ SetOwner(t)
Release(t) == DropGuard(t) \/ SemPost(t) \/ ResetLocked(t) \/ ResetOwner(t)
Recover(t) == ResetTry(t) \/ ResetPost(t)

Next == \/ \E t \in Thread : \/ Reenter(t) \/ WaitLock(t) \/ TryLock(t)
                             \/ Acquire(t) \/ Release(t)
                             \/ Reset(t) \/ Recover(t)
        \/ \E p \in Process : Crash(p)

Spec == Init /\ [][Next]_vars

(* A thread inside the lock's code is scheduled; guards are scopes, which   *)
(* are left.  sem_wait gets weak fairness only: no order among its waiters. *)
Fairness == \A t \in Thread : WF_vars(Acquire(t) \/ Release(t) \/ Recover(t))
FairSpec == Spec /\ Fairness

----------------------------------------------------------------------------
TypeOK == /\ semaphore \in Nat
          /\ locked \in [Process -> BOOLEAN]
          /\ lock_owner \in [Process -> Thread \cup {NoThread}]
          /\ pc \in [Thread -> PC]
          /\ guards \in [Thread -> Nat]
          /\ ProcessOf \in [Thread -> Process]
          /\ crashes \in Nat /\ misuse \in {"none", "nested", "reset"}

(* A thread that took the semaphore and has not posted it back.             *)
Holding(t) == \/ pc[t] \in {"set_locked", "set_owner", "sem_post"}
              \/ pc[t] = "run" /\ guards[t] > 0

(* "Only one process/thread can hold this lock at any given point of time": *)
(* no two threads, of one process or of two, are inside guarded scopes,     *)
(* until guards of a thread are nested (the inner destructor releases for   *)
(* the outer scope) or reset() is called (it posts what a holder will post  *)
(* again, or posts twice beside a waiter).                                  *)
MutualExclusion == misuse = "none" =>
  \A t, u \in Thread : Holding(t) /\ Holding(u) => t = u

(* Why it holds: a semaphore that is up has no holder, and the owner of a   *)
(* release overtaken by another acquisition is found again only when the    *)
(* semaphore is lost.                                                       *)
Lost == semaphore = 0 /\ \A t \in Thread : ~Holding(t)

SemaphoreInv == /\ semaphore \in {0, 1}
                /\ semaphore = 1 => \A t \in Thread : ~Holding(t)

GuardInv == \A t \in Thread :
              /\ pc[t] \notin {"reset_try", "reset_post"}
              /\ guards[t] \in {0, 1}
              /\ pc[t] # "run" => guards[t] = 0

OwnerInv == \A t \in Thread :
              lock_owner[ProcessOf[t]] = t
                => \/ Holding(t) \/ pc[t] \in {"reset_locked", "reset_owner"}
                   \/ Lost /\ ~locked[ProcessOf[t]]

IInv == /\ TypeOK /\ MutualExclusion
        /\ misuse = "none" => SemaphoreInv /\ GuardInv /\ OwnerInv

(* "Dispose the guard, will release the lock if acquired": a semaphore that *)
(* is down will come up again, for the thread that took it is known as the  *)
(* owner, or is on its way to becoming so or to posting it.                 *)
NotLost == semaphore = 0 =>
  \E t \in Thread : is_locked(t) \/ pc[t] \in {"set_locked", "set_owner", "sem_post"}

(* Where each process uses the lock in one thread, that is the case, until  *)
(* reset() takes a token of its own.                                        *)
Private == \A t, u \in Thread : ProcessOf[t] = ProcessOf[u] => t = u
NotLostIfPrivate == Private /\ crashes = 0 /\ misuse # "reset" => NotLost

(* Then every acquisition of the semaphore is followed by its return,       *)
(* whatever the other processes do and however guards are nested.           *)
LockIsReturned == (semaphore = 0) ~> (semaphore > 0 \/ crashes > 0 \/ ~Private)

(* The posting loop of reset() ends although waiters of other processes     *)
(* take the tokens it posts: it posts only what it finds missing.           *)
ResetTerminates ==
  \A t \in Thread : (pc[t] = "reset_try") ~> (pc[t] # "reset_try" \/ ~Private)
============================================================================
