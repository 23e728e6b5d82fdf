------------------------ MODULE ExclusiveLock_proof ------------------------
(* Mutual exclusion of common/includes/exclusive_lock.h, for any number of  *)
(* processes and threads, however threads are spread over processes.        *)
EXTENDS ExclusiveLock, TLAPS

LEMMA InitialType == Init => TypeOK
<1> SUFFICES ASSUME Init PROVE TypeOK
  OBVIOUS
<1>1. ProcessOf \in [Thread -> Process]
  BY ProcessAssumption DEF Init
<1>2. /\ semaphore \in Nat /\ crashes \in Nat /\ misuse \in {"none", "nested", "reset"}
      /\ locked \in [Process -> BOOLEAN]
      /\ lock_owner \in [Process -> Thread \cup {NoThread}]
  BY DEF Init
<1>3. pc \in [Thread -> PC] /\ guards \in [Thread -> Nat]
  BY DEF Init, PC
<1> QED
  BY <1>1, <1>2, <1>3 DEF TypeOK

(* The fields, the semaphore and the guard counts keep their types under    *)
(* every use of the lock, nested guards, crashes and reset() included.      *)
THEOREM TypeCorrect == Spec => []TypeOK
<1>1. Init => TypeOK
  BY InitialType
<1>2. ASSUME TypeOK, [Next]_vars PROVE TypeOK'
  <2> USE <1>2, ProcessAssumption DEF TypeOK, PC, Goto, history
  <2>1. ASSUME NEW t \in Thread, Reenter(t) PROVE TypeOK'
    BY <2>1 DEF Reenter, NewGuard
  <2>2. ASSUME NEW t \in Thread, WaitLock(t) PROVE TypeOK'
    BY <2>2 DEF WaitLock, NewGuard
  <2>3. ASSUME NEW t \in Thread, TryLock(t) PROVE TypeOK'
    BY <2>3 DEF TryLock, NewGuard, SemTake
  <2>4. ASSUME NEW t \in Thread, SemWait(t) PROVE TypeOK'
    BY <2>4 DEF SemWait, SemTake
  <2>5. ASSUME NEW t \in Thread, SetLocked(t) PROVE TypeOK'
    BY <2>5 DEF SetLocked
  <2>6. ASSUME NEW t \in Thread, SetOwner(t) PROVE TypeOK'
    BY <2>6 DEF SetOwner
  <2>7. ASSUME NEW t \in Thread, DropGuard(t) PROVE TypeOK'
    BY <2>7 DEF DropGuard
  <2>8. ASSUME NEW t \in Thread, SemPost(t) PROVE TypeOK'
    BY <2>8 DEF SemPost
  <2>9. ASSUME NEW t \in Thread, ResetLocked(t) PROVE TypeOK'
    BY <2>9 DEF ResetLocked
  <2>10. ASSUME NEW t \in Thread, ResetOwner(t) PROVE TypeOK'
    BY <2>10 DEF ResetOwner
  <2>11. ASSUME NEW t \in Thread, Reset(t) PROVE TypeOK'
    BY <2>11 DEF Reset
  <2>12. ASSUME NEW t \in Thread, ResetTry(t) PROVE TypeOK'
    BY <2>12 DEF ResetTry
  <2>13. ASSUME NEW t \in Thread, ResetPost(t) PROVE TypeOK'
    BY <2>13 DEF ResetPost
  <2>14. ASSUME NEW p \in Process, Crash(p) PROVE TypeOK'
    BY <2>14 DEF Crash
  <2>15. CASE UNCHANGED vars
    BY <2>15 DEF vars
  <2> QED
    BY <2>1, <2>2, <2>3, <2>4, <2>5, <2>6, <2>7, <2>8, <2>9,
       <2>10, <2>11, <2>12, <2>13, <2>14, <2>15
    DEF Next, Acquire, Release, Recover
<1> QED
  BY <1>1, <1>2, PTL DEF Spec

(* At most one thread of the machine is inside a guarded scope, although    *)
(* the threads of a process race on `locked` and `lock_owner` and processes *)
(* die at any step: until guards are nested or reset() is called, the race  *)
(* can lose the semaphore but never share it.                               *)
THEOREM Exclusive == Spec => []MutualExclusion
<1>1. Init => IInv
  <2>1. Init => TypeOK
    BY InitialType
  <2> QED
    BY <2>1, ProcessAssumption
    DEF Init, IInv, SemaphoreInv, GuardInv, OwnerInv, MutualExclusion, Holding
<1>2. ASSUME IInv, TypeOK', [Next]_vars PROVE IInv'
  <2> SUFFICES ASSUME misuse' = "none"
               PROVE MutualExclusion' /\ SemaphoreInv' /\ GuardInv' /\ OwnerInv'
    BY <1>2 DEF IInv, MutualExclusion
  <2> USE <1>2, ProcessAssumption
      DEF IInv, TypeOK, PC, SemaphoreInv, GuardInv, OwnerInv, MutualExclusion,
          Lost, Holding, Goto, is_locked, history
  <2>1. ASSUME NEW t \in Thread, Reenter(t) PROVE MutualExclusion' /\ SemaphoreInv' /\ GuardInv' /\ OwnerInv'
    BY <2>1 DEF Reenter, NewGuard
  <2>2. ASSUME NEW t \in Thread, WaitLock(t) PROVE MutualExclusion' /\ SemaphoreInv' /\ GuardInv' /\ OwnerInv'
    <3>1. guards[t] = 0 /\ misuse = "none"
      BY <2>2 DEF WaitLock, NewGuard
    <3>2. /\ pc' = [pc EXCEPT ![t] = "sem_wait"] /\ pc[t] = "run"
          /\ UNCHANGED <<semaphore, locked, lock_owner, guards, ProcessOf>>
          /\ ~locked[ProcessOf[t]] \/ lock_owner[ProcessOf[t]] # t
      BY <2>2 DEF WaitLock, NewGuard
    <3>3. pc'[t] = "sem_wait" /\ \A u \in Thread : u # t => pc'[u] = pc[u]
      BY <3>2
    <3>4. \A u \in Thread : Holding(u)' <=> Holding(u)
      BY <3>1, <3>2, <3>3
    <3>5. MutualExclusion' /\ SemaphoreInv' /\ GuardInv'
      BY <3>1, <3>2, <3>3, <3>4
    <3>6. OwnerInv'
      <4> SUFFICES ASSUME NEW u \in Thread, lock_owner[ProcessOf[u]] = u
                   PROVE \/ Holding(u) \/ pc'[u] \in {"reset_locked", "reset_owner"}
                         \/ Lost /\ ~locked[ProcessOf[u]]
        BY <3>2, <3>4
      <4>1. CASE u = t
        BY <4>1, <3>1, <3>2
      <4>2. CASE u # t
        BY <4>2, <3>1, <3>3
      <4> QED
        BY <4>1, <4>2
    <3> QED
      BY <3>5, <3>6
  <2>3. ASSUME NEW t \in Thread, TryLock(t) PROVE MutualExclusion' /\ SemaphoreInv' /\ GuardInv' /\ OwnerInv'
    BY <2>3 DEF TryLock, NewGuard, SemTake
  <2>4. ASSUME NEW t \in Thread, SemWait(t) PROVE MutualExclusion' /\ SemaphoreInv' /\ GuardInv' /\ OwnerInv'
    BY <2>4 DEF SemWait, SemTake
  <2>5. ASSUME NEW t \in Thread, SetLocked(t) PROVE MutualExclusion' /\ SemaphoreInv' /\ GuardInv' /\ OwnerInv'
    BY <2>5 DEF SetLocked
  <2>6. ASSUME NEW t \in Thread, SetOwner(t) PROVE MutualExclusion' /\ SemaphoreInv' /\ GuardInv' /\ OwnerInv'
    BY <2>6 DEF SetOwner
  <2>7. ASSUME NEW t \in Thread, DropGuard(t) PROVE MutualExclusion' /\ SemaphoreInv' /\ GuardInv' /\ OwnerInv'
    BY <2>7 DEF DropGuard
  <2>8. ASSUME NEW t \in Thread, SemPost(t) PROVE MutualExclusion' /\ SemaphoreInv' /\ GuardInv' /\ OwnerInv'
    BY <2>8 DEF SemPost
  <2>9. ASSUME NEW t \in Thread, ResetLocked(t) PROVE MutualExclusion' /\ SemaphoreInv' /\ GuardInv' /\ OwnerInv'
    BY <2>9 DEF ResetLocked
  <2>10. ASSUME NEW t \in Thread, ResetOwner(t) PROVE MutualExclusion' /\ SemaphoreInv' /\ GuardInv' /\ OwnerInv'
    BY <2>10 DEF ResetOwner
  <2>11. ASSUME NEW t \in Thread, Reset(t) PROVE MutualExclusion' /\ SemaphoreInv' /\ GuardInv' /\ OwnerInv'
    BY <2>11 DEF Reset
  <2>12. ASSUME NEW t \in Thread, ResetTry(t) PROVE MutualExclusion' /\ SemaphoreInv' /\ GuardInv' /\ OwnerInv'
    BY <2>12 DEF ResetTry
  <2>13. ASSUME NEW t \in Thread, ResetPost(t) PROVE MutualExclusion' /\ SemaphoreInv' /\ GuardInv' /\ OwnerInv'
    BY <2>13 DEF ResetPost
  <2>14. ASSUME NEW p \in Process, Crash(p) PROVE MutualExclusion' /\ SemaphoreInv' /\ GuardInv' /\ OwnerInv'
    BY <2>14 DEF Crash
  <2>15. CASE UNCHANGED vars
    BY <2>15 DEF vars
  <2> QED
    BY <2>1, <2>2, <2>3, <2>4, <2>5, <2>6, <2>7, <2>8, <2>9,
       <2>10, <2>11, <2>12, <2>13, <2>14, <2>15
    DEF Next, Acquire, Release, Recover
<1>3. IInv => MutualExclusion
  BY DEF IInv
<1> QED
  BY <1>1, <1>2, <1>3, TypeCorrect, PTL DEF Spec

(* Where a process has one thread that uses the lock, its fields follow the *)
(* thread: until a crash they are its own.                                  *)
FieldInv == \A t \in Thread :
              /\ pc[t] \notin {"reset_try", "reset_post"}
              /\ pc[t] = "run" => lock_owner[ProcessOf[t]] = t \/ ~locked[ProcessOf[t]]
              /\ pc[t] \in {"sem_wait", "set_locked", "reset_owner"} => ~locked[ProcessOf[t]]
              /\ pc[t] = "set_owner" => locked[ProcessOf[t]]

(* A thread that has posted and not yet erased its name is not the one that *)
(* the semaphore waits for.                                                 *)
Answers(t) == \/ is_locked(t) /\ pc[t] # "reset_locked"
              \/ pc[t] \in {"set_locked", "set_owner", "sem_post"}
AnswerInv == semaphore = 0 => \E t \in Thread : Answers(t)

(* The destructor of a guard returns what its constructor took: where every *)
(* process uses the lock in one thread, a semaphore that is down has a      *)
(* thread that knows that it is the owner, however guards are nested.       *)
THEOREM NeverLost == Spec => []NotLostIfPrivate
<1> DEFINE PInv == Private /\ crashes = 0 /\ misuse # "reset" => FieldInv /\ AnswerInv
<1>1. Init => PInv
  BY ProcessAssumption DEF Init, FieldInv, AnswerInv, Answers
<1>2. ASSUME TypeOK, TypeOK', PInv, [Next]_vars PROVE PInv'
  <2> SUFFICES ASSUME Private', crashes' = 0, misuse' # "reset" PROVE FieldInv' /\ AnswerInv'
    OBVIOUS
  <2>1. crashes = 0 /\ ProcessOf' = ProcessOf /\ Private /\ misuse # "reset"
    <3>1. ProcessOf' = ProcessOf
      BY <1>2 DEF Next, Reenter, WaitLock, TryLock, NewGuard, Acquire, SemWait, SetLocked, SetOwner,
         Release, DropGuard, SemPost, ResetLocked, ResetOwner, Reset, Recover, ResetTry, ResetPost,
         Crash, history, vars
    <3>2. crashes' = crashes \/ crashes' = crashes + 1
      BY <1>2 DEF Next, Reenter, WaitLock, TryLock, NewGuard, Acquire, SemWait, SetLocked, SetOwner,
         Release, DropGuard, SemPost, ResetLocked, ResetOwner, Reset, Recover, ResetTry, ResetPost,
         Crash, history, vars
    <3>3. misuse = "reset" => misuse' = "reset"
      BY <1>2 DEF Next, Reenter, WaitLock, TryLock, NewGuard, Acquire, SemWait, SetLocked, SetOwner,
         Release, DropGuard, SemPost, ResetLocked, ResetOwner, Reset, Recover, ResetTry, ResetPost,
         Crash, history, vars
    <3> QED
      BY <3>1, <3>2, <3>3, <1>2 DEF Private, TypeOK
  <2>2. FieldInv /\ AnswerInv
    BY <2>1, <1>2
  <2> USE <1>2, <2>1, <2>2 DEF TypeOK, Goto, history
  <2>3. ASSUME NEW t \in Thread, Reenter(t) PROVE FieldInv' /\ AnswerInv'
    BY <2>3 DEF Reenter, NewGuard, FieldInv, AnswerInv, Answers, is_locked
  <2>4. ASSUME NEW t \in Thread, WaitLock(t) PROVE FieldInv' /\ AnswerInv'
    <3>1. pc[t] = "run" /\ ~is_locked(t) /\ pc' = [pc EXCEPT ![t] = "sem_wait"]
      BY <2>4 DEF WaitLock, NewGuard
    <3>2. UNCHANGED <<semaphore, locked, lock_owner>>
      BY <2>4 DEF WaitLock, NewGuard
    <3> QED
      BY <3>1, <3>2 DEF FieldInv, AnswerInv, Answers, is_locked
  <2>5. ASSUME NEW t \in Thread, TryLock(t) \/ SemWait(t) PROVE FieldInv' /\ AnswerInv'
    <3>1. /\ (pc[t] = "run" /\ ~is_locked(t)) \/ pc[t] = "sem_wait"
          /\ pc' = [pc EXCEPT ![t] = "set_locked"]
      BY <2>5 DEF TryLock, SemWait, SemTake, NewGuard
    <3>2. UNCHANGED <<locked, lock_owner>>
      BY <2>5 DEF TryLock, SemWait, SemTake, NewGuard
    <3>3. pc'[t] = "set_locked"
      BY <3>1
    <3>4. FieldInv'
      BY <3>1, <3>2 DEF FieldInv, is_locked
    <3> QED
      BY <3>3, <3>4 DEF AnswerInv, Answers
  <2>6. ASSUME NEW t \in Thread, SetLocked(t) PROVE FieldInv' /\ AnswerInv'
    BY <2>6 DEF SetLocked, FieldInv, AnswerInv, Answers, is_locked, Private
  <2>7. ASSUME NEW t \in Thread, SetOwner(t) PROVE FieldInv' /\ AnswerInv'
    BY <2>7 DEF SetOwner, FieldInv, AnswerInv, Answers, is_locked, Private
  <2>8. ASSUME NEW t \in Thread, DropGuard(t) PROVE FieldInv' /\ AnswerInv'
    BY <2>8 DEF DropGuard, FieldInv, AnswerInv, Answers, is_locked
  <2>9. ASSUME NEW t \in Thread, SemPost(t) PROVE FieldInv' /\ AnswerInv'
    <3>1. semaphore' # 0
      BY <2>9 DEF SemPost
    <3>2. FieldInv'
      BY <2>9 DEF SemPost, FieldInv
    <3> QED
      BY <3>1, <3>2 DEF AnswerInv, Answers
  <2>10. ASSUME NEW t \in Thread, ResetLocked(t) PROVE FieldInv' /\ AnswerInv'
    <3>1. FieldInv'
      BY <2>10 DEF ResetLocked, FieldInv, Private
    <3>2. \A u \in Thread : Answers(u) => Answers(u)'
      BY <2>10 DEF ResetLocked, Answers, is_locked, Private
    <3> QED
      BY <2>10, <3>1, <3>2 DEF ResetLocked, AnswerInv
  <2>11. ASSUME NEW t \in Thread, ResetOwner(t) PROVE FieldInv' /\ AnswerInv'
    BY <2>11 DEF ResetOwner, FieldInv, AnswerInv, Answers, is_locked, Private
  <2>12. ASSUME NEW t \in Thread, Reset(t) PROVE FALSE
    BY <2>12 DEF Reset
  <2>13. ASSUME NEW t \in Thread, ResetTry(t) \/ ResetPost(t) PROVE FALSE
    BY <2>13 DEF ResetTry, ResetPost, FieldInv
  <2>14. ASSUME NEW p \in Process, Crash(p) PROVE FALSE
    BY <2>14 DEF Crash
  <2>15. CASE UNCHANGED vars
    BY <2>15 DEF vars, FieldInv, AnswerInv, Answers, is_locked
  <2> QED
    BY <2>3, <2>4, <2>5, <2>6, <2>7, <2>8, <2>9, <2>10, <2>11, <2>12, <2>13, <2>14, <2>15
    DEF Next, Acquire, Release, Recover
<1>3. PInv => NotLostIfPrivate
  BY DEF NotLostIfPrivate, NotLost, AnswerInv, Answers
<1> QED
  BY <1>1, <1>2, <1>3, TypeCorrect, PTL DEF Spec
============================================================================
