-------------------------- MODULE Semaphores_proof --------------------------
(* What holds of the semaphores for any number of clients, threads,          *)
(* priorities and permits.                                                   *)
EXTENDS Semaphores, FiniteSetTheorems, TLAPS

(* Where a thread is in its call: which priorities it has taken, and which   *)
(* one it works on.                                                          *)
Polls == {"poll", "plook", "pforced", "prefund"}
PlaceOK(t) ==
  /\ pc[t] = "run" => cur[t] = base[t] /\ low[t] = base[t]
  /\ pc[t] = "held" => cur[t] = base[t] /\ low[t] = 0
  /\ pc[t] \in Polls => 0 < low[t] /\ low[t] <= cur[t] /\ cur[t] <= base[t]
  /\ pc[t] \in {"lock"} \union Locking =>
       \/ cur[t] = base[t] /\ low[t] = base[t] /\ pc[t] # "lock"
       \/ cur[t] = low[t] - 1 /\ low[t] <= base[t]
  /\ pc[t] \in {"unlock"} \union Releasing => low[t] <= cur[t] /\ cur[t] <= base[t]
Place(t) == /\ pc[t] \in Label
            /\ base[t] \in Priority /\ low[t] \in Priority /\ cur[t] \in Priority
            /\ PlaceOK(t)
PlaceInv == \A t \in Thread : PlaceOK(t)

(* A thread moves alone.  It enters the mutex of its priority when that is   *)
(* free, stays at that priority inside, and is inside or finds the mutex     *)
(* free whatever it does, but for lock_get's look at what it has taken.      *)
Goes(t) == /\ pc' = [pc EXCEPT ![t] = pc'[t]] /\ base' = [base EXCEPT ![t] = base'[t]]
           /\ low' = [low EXCEPT ![t] = low'[t]] /\ cur' = [cur EXCEPT ![t] = cur'[t]]
           /\ alive' = alive
Enters(t) == /\ pc[t] \notin Polls => \/ pc[t] \in Inside
                                      \/ priority_lock(ClientOf[t], cur[t]) = {}
             /\ pc'[t] \in Inside => pc[t] \notin Polls /\ cur'[t] = cur[t]

(* Where a thread is after the helpers that several actions end with.        *)
LEMMA ReturnMoves ==
  ASSUME ThreadOK, NEW t \in Thread, alive' = alive, Return(t)
  PROVE  Goes(t) /\ Place(t)' /\ pc'[t] = "run"
<1>1. PICK p \in Asks[t] : /\ base' = [base EXCEPT ![t] = p] /\ low' = [low EXCEPT ![t] = p]
                           /\ cur' = [cur EXCEPT ![t] = p]
  BY DEF Return
<1>2. p \in Priority
  BY SettingAssumption
<1>3. pc' = [pc EXCEPT ![t] = "run"]
  BY DEF Return, Goto
<1> HIDE DEF Priority
<1> QED
  BY <1>1, <1>2, <1>3
  DEF ThreadOK, Goes, Place, PlaceOK, Label, Polls, Locking, Releasing, Inside

LEMMA BaseMoves ==
  ASSUME ThreadOK, NEW t \in Thread, PlaceOK(t), alive' = alive,
         \/ Undo(t) /\ low[t] <= base[t]
         \/ GotoBase(t, "poll") /\ 0 < low[t] /\ low[t] <= base[t]
  PROVE  Goes(t) /\ Place(t)' /\ pc'[t] \in {"unlock", "poll"} /\ (Undo(t) => pc'[t] = "unlock")
<1>1. /\ low[t] \in Int /\ base[t] \in Int
      /\ base[t] <= base[t]
  BY SettingAssumption DEF ThreadOK, Priority
<1> HIDE DEF Priority
<1>2. CASE Undo(t)
  BY <1>1, <1>2 DEF ThreadOK, Undo, GotoBase, Goto, Goes, Place, PlaceOK, Label, Polls, Locking,
     Releasing, Inside
<1>3. CASE GotoBase(t, "poll") /\ ~Undo(t)
  BY <1>1, <1>3 DEF ThreadOK, GotoBase, Goto, Goes, Place, PlaceOK, Label, Polls, Locking,
     Releasing, Inside
<1> QED
  BY <1>2, <1>3

LEMMA NextMoves ==
  ASSUME ThreadOK, NEW t \in Thread, alive' = alive, NextRelease(t),
         low[t] <= cur[t], cur[t] <= base[t]
  PROVE  /\ Goes(t) /\ Place(t)' /\ pc'[t] \in {"run", "unlock"}
         /\ pc'[t] = "unlock" => cur'[t] = cur[t] - 1 /\ low'[t] = low[t] /\ base'[t] = base[t]
<1>1. CASE cur[t] > low[t]
  <2>1. /\ cur[t] - 1 \in Priority /\ low[t] \in Int /\ base[t] \in Int /\ cur[t] \in Int
        /\ low[t] <= cur[t] - 1 /\ cur[t] - 1 <= base[t]
    BY <1>1, SettingAssumption DEF ThreadOK, Priority
  <2> HIDE DEF Priority
  <2> QED
    BY <1>1, <2>1 DEF ThreadOK, NextRelease, Goto, Goes, Place, PlaceOK, Label, Polls, Locking,
       Releasing, Inside
<1>2. CASE ~(cur[t] > low[t])
  BY <1>2, ReturnMoves DEF NextRelease
<1> QED
  BY <1>1, <1>2

LEMMA RefusedMoves ==
  ASSUME ThreadOK, NEW t \in Thread, PlaceOK(t), alive' = alive, Refused(t, cur[t]),
         pc[t] \in {"run", "lock"} \union Locking
  PROVE  /\ Goes(t) /\ Place(t)' /\ pc'[t] \in {"run", "unlock"}
         /\ pc'[t] = "unlock" => /\ cur[t] = low[t] - 1 /\ cur'[t] = base[t]
                                 /\ low'[t] = low[t] /\ base'[t] = base[t]
<1>1. CASE cur[t] = base[t]
  BY <1>1, ReturnMoves DEF Refused
<1>2. CASE cur[t] # base[t]
  <2>1. Undo(t)
    BY <1>2 DEF Refused
  <2>2. cur[t] = low[t] - 1 /\ low[t] <= base[t]
    BY <1>2 DEF PlaceOK
  <2>3. low'[t] = low[t] /\ base'[t] = base[t] /\ cur'[t] = base[t]
    BY <2>1 DEF Undo, GotoBase, ThreadOK
  <2> QED
    BY <2>1, <2>2, <2>3, BaseMoves
<1> QED
  BY <1>1, <1>2

LEMMA GrantedMoves ==
  ASSUME ThreadOK, NEW t \in Thread, PlaceOK(t), alive' = alive, Granted(t, cur[t]),
         pc[t] \in Locking
  PROVE  /\ Goes(t) /\ Place(t)' /\ pc'[t] \in {"held", "poll"}
         /\ low'[t] = cur[t] /\ base'[t] = base[t] /\ cur'[t] = base[t]
<1>1. /\ low[t] \in Int /\ base[t] \in Int /\ cur[t] \in Int /\ cur[t] >= 0
      /\ cur[t] <= base[t]
  BY SettingAssumption DEF ThreadOK, Priority, PlaceOK
<1> HIDE DEF Priority
<1> QED
  BY <1>1 DEF ThreadOK, Granted, Goto, Goes, Place, PlaceOK, Label, Polls, Locking, Releasing,
     Inside

LEMMA StayMoves ==
  ASSUME ThreadOK, NEW t \in Thread, PlaceOK(t), alive' = alive, UNCHANGED <<base, low, cur>>,
         NEW label, Goto(t, label),
         \/ pc[t] \in {"run", "lock"} \union Locking /\ label \in Locking
         \/ pc[t] \in {"held", "unlock"} \union Releasing /\ label \in Releasing
         \/ pc[t] \in Polls /\ label \in Polls
  PROVE  /\ Goes(t) /\ Place(t)' /\ pc'[t] = label
         /\ cur'[t] = cur[t] /\ low'[t] = low[t] /\ base'[t] = base[t]
<1>1. low[t] \in Int /\ base[t] \in Int /\ cur[t] \in Int /\ base[t] >= 0
  BY SettingAssumption DEF ThreadOK, Priority
<1> HIDE DEF Priority
<1>2. pc'[t] = label /\ Goes(t)
  BY DEF ThreadOK, Goto, Goes
<1>3. label \in Label
  BY DEF Label, Inside, Polls
<1> QED
  BY <1>1, <1>2, <1>3 DEF ThreadOK, Place, PlaceOK, Polls, Locking, Releasing


(* The same of every action of a thread.                                     *)
Moves(t) == Goes(t) /\ Place(t)' /\ Enters(t)

LEMMA ThreadMoves ==
  ASSUME ThreadOK, NEW t \in Thread, PlaceOK(t), ThreadStep(t) \/ Interrupted(t)
  PROVE  Moves(t)
<1>a. /\ cur[t] \in Int /\ low[t] \in Int /\ base[t] \in Int /\ \A q \in Priority : q >= 0
      /\ pc[t] \in Label
  BY SettingAssumption DEF ThreadOK, Priority
<1>c. pc[t] \in {"held", "unlock"} \union Releasing => low[t] <= cur[t] /\ cur[t] <= base[t]
  BY <1>a, SettingAssumption DEF PlaceOK, ThreadOK, Priority
<1>d. pc[t] = "wait" /\ cur[t] # base[t] => 0 < low[t] /\ low[t] <= base[t]
  BY <1>a, SettingAssumption DEF PlaceOK, ThreadOK, Priority, Locking
<1> HIDE DEF Priority, Return
<1>b. \A label : Goto(t, label) => pc'[t] = label
  BY DEF Goto, ThreadOK
<1> USE <1>a, <1>b, <1>c, <1>d DEF Moves, Enters, At
<1>1. ASSUME NEW p \in Priority, FindLock(t, p) PROVE Moves(t)
  BY <1>1, StayMoves DEF FindLock, Attempt, Polls, Inside, Locking, Releasing
<1>2. ASSUME NEW p \in Priority, FindNone(t, p) PROVE Moves(t)
  BY <1>2, StayMoves DEF FindNone, Attempt, Polls, Inside, Locking, Releasing
<1>3. ASSUME NEW p \in Priority, FindRefund(t, p) PROVE Moves(t)
  BY <1>3, StayMoves DEF FindRefund, Attempt, Polls, Inside, Locking, Releasing
<1>4. ASSUME NEW p \in Priority, BeRefused(t, p) PROVE Moves(t)
  BY <1>4, RefusedMoves DEF BeRefused, Attempt, Polls, Inside, Locking, Releasing
<1>5. ASSUME NEW p \in Priority, FindForced(t, p) PROVE Moves(t)
  BY <1>5, StayMoves DEF FindForced, Attempt, Polls, Inside, Locking, Releasing
<1>6. CASE Refund(t)
  BY <1>6, StayMoves, NextMoves DEF Refund, Polls, Inside, Locking, Releasing
<1>7. CASE Join(t)
  BY <1>7, GrantedMoves DEF Join, Look, Polls, Inside, Locking, Releasing
<1>8. CASE FindExpired(t)
  BY <1>8, StayMoves DEF FindExpired, Look, Polls, Inside, Locking, Releasing
<1>9. CASE FindSpent(t)
  BY <1>9, StayMoves DEF FindSpent, Look, Polls, Inside, Locking, Releasing
<1>10. CASE Take(t)
  BY <1>10, StayMoves DEF Take, Polls, Inside, Locking, Releasing
<1>11. CASE TryAgain(t)
  BY <1>11, BaseMoves DEF TryAgain, Polls, Inside, Locking, Releasing
<1>12. CASE UpdateState(t)
  BY <1>12, StayMoves DEF UpdateState, Polls, Inside, Locking, Releasing
<1>13. CASE UpdateTime(t)
  BY <1>13, GrantedMoves DEF UpdateTime, Polls, Inside, Locking, Releasing
<1>14. CASE TimeOut(t)
  BY <1>14, BaseMoves DEF TimeOut, PlaceOK, Polls, Inside, Locking, Releasing
<1>15. CASE PollLock(t)
  BY <1>15, StayMoves DEF PollLock, Poll, Polls, Inside, Locking, Releasing
<1>16. CASE PollLost(t)
  BY <1>16, BaseMoves, StayMoves DEF PollLost, Poll, PlaceOK, Polls, Inside, Locking, Releasing
<1>17. CASE PollValid(t)
  <2>1. pc[t] = "plook"
        /\ pc'[t] \in {"poll", "lock"} /\ alive' = alive /\ base' = base /\ low' = low
    BY <1>17 DEF PollValid, Look
  <2>2. 0 < low[t] /\ low[t] <= cur[t] /\ cur[t] <= base[t]
    BY <2>1 DEF PlaceOK, Polls
  <2>3. /\ pc' = [pc EXCEPT ![t] = pc'[t]] /\ cur' = [cur EXCEPT ![t] = cur'[t]]
        /\ pc'[t] = "poll" => cur'[t] = cur[t] - 1 /\ cur[t] > low[t]
        /\ pc'[t] = "lock" => cur'[t] = low[t] - 1
    BY <1>17 DEF PollValid, Goto, ThreadOK
  <2>4. cur'[t] \in Priority
    BY <2>1, <2>2, <2>3, SettingAssumption DEF ThreadOK, Priority
  <2>5. pc'[t] \in Label
    BY <2>1 DEF Label
  <2>6. Goes(t)
    BY <2>1, <2>3 DEF Goes, ThreadOK
  <2>7. PlaceOK(t)'
    BY <2>1, <2>2, <2>3 DEF PlaceOK, Polls, Locking, Releasing
  <2> QED
    BY <2>1, <2>4, <2>5, <2>6, <2>7 DEF Place, ThreadOK, Polls, Inside, Locking, Releasing
<1>18. CASE PollExpired(t)
  BY <1>18, BaseMoves DEF PollExpired, Look, PlaceOK, Polls, Inside, Locking, Releasing
<1>19. CASE PollClear(t)
  BY <1>19, BaseMoves DEF PollClear, PlaceOK, Polls, Inside, Locking, Releasing
<1>20. CASE ResetExpired(t)
  BY <1>20, StayMoves DEF ResetExpired, Reset, IfLocked, Polls, Inside, Locking, Releasing
<1>21. CASE ResetSpent(t)
  BY <1>21, StayMoves DEF ResetSpent, Reset, IfLocked, Polls, Inside, Locking, Releasing
<1>22. CASE FreeExpired(t)
  BY <1>22, StayMoves DEF FreeExpired, Free, Polls, Inside, Locking, Releasing
<1>23. CASE KeepSpent(t)
  BY <1>23, StayMoves DEF KeepSpent, Polls, Inside, Locking, Releasing
<1>24. CASE PostExpired(t)
  BY <1>24, StayMoves DEF PostExpired, Post, Polls, Inside, Locking, Releasing
<1>25. CASE PostSpent(t)
  BY <1>25, RefusedMoves DEF PostSpent, Post, Polls, Inside, Locking, Releasing
<1>26. CASE PostOverrun(t)
  BY <1>26, NextMoves DEF PostOverrun, Post, Polls, Inside, Locking, Releasing
<1>27. CASE NotMine(t)
  BY <1>27, NextMoves DEF NotMine, Unlocking, Polls, Inside, Locking, Releasing
<1>28. CASE UnlockLock(t)
  BY <1>28, StayMoves DEF UnlockLock, Unlock, Unlocking, Polls, Inside, Locking, Releasing
<1>29. CASE UnlockForced(t)
  BY <1>29, NextMoves DEF UnlockForced, Unlock, Unlocking, Polls, Inside, Locking, Releasing
<1>30. CASE UnlockNothing(t)
  BY <1>30, StayMoves, NextMoves DEF UnlockNothing, Unlock, Unlocking, Polls, Inside, Locking,
     Releasing
<1>31. CASE UnlockExpired(t)
  BY <1>31, StayMoves DEF UnlockExpired, Look, Polls, Inside, Locking, Releasing
<1>32. CASE CountDown(t)
  BY <1>32, StayMoves, NextMoves DEF CountDown, Look, Polls, Inside, Locking, Releasing
<1>33. CASE UnlockPost(t)
  BY <1>33, StayMoves DEF UnlockPost, Post, Polls, Inside, Locking, Releasing
<1>34. CASE UnlockRecord(t)
  BY <1>34, StayMoves, NextMoves DEF UnlockRecord, Polls, Inside, Locking, Releasing
<1>35. CASE UnlockFree(t)
  BY <1>35, NextMoves DEF UnlockFree, Free, Polls, Inside, Locking, Releasing
<1>36. CASE Interrupted(t)
  BY <1>36, ReturnMoves DEF Interrupted, Polls, Inside, Locking, Releasing
<1> QED
  BY <1>1, <1>2, <1>3, <1>4, <1>5, <1>6, <1>7, <1>8, <1>9, <1>10, <1>11, <1>12, <1>13, <1>14,
     <1>15, <1>16, <1>17, <1>18, <1>19, <1>20, <1>21, <1>22, <1>23, <1>24, <1>25, <1>26, <1>27,
     <1>28, <1>29, <1>30, <1>31, <1>32, <1>33, <1>34, <1>35, <1>36 DEF ThreadStep

(* What an action of a thread changes of the record, of the semaphores and   *)
(* of what the manager does: the lock it works on, of its own process.       *)
Touches(t) ==
  LET c == ClientOf[t]  p == cur[t] IN
  /\ UNCHANGED <<used, control>>
  /\ state' \in [Client -> [Priority -> LockState]]
  /\ age' \in [Client -> [Priority -> {Fresh, Lapsed, Overdue}]]
  /\ \A k \in Client, r \in Priority :
       k # c \/ r # p => state'[k][r] = state[k][r] /\ age'[k][r] = age[k][r]
  /\ quota_used' \in [Client -> Nat] /\ idle' \in [Client -> BOOLEAN]
  /\ late' \in BOOLEAN /\ (late => late')
  /\ \A k \in Client, r \in Priority :
       <<k, r>> \in found /\ manager \in {"force", "clear"} =>
         age[k][r] = Fresh \/ age'[k][r] # Fresh \/ late'
  /\ \A k \in Client : <<k, 0>> \in found /\ manager = "remove" => ~idle[k] \/ idle'[k] \/ late'
  /\ \/ sem' = sem
     \/ sem' = Posted(p)
     \/ sem[p] > 0 /\ sem' = [sem EXCEPT ![p] = @ - 1]

LEMMA ThreadTouches ==
  ASSUME RecordOK, ThreadOK, ControlOK, NEW t \in Thread, ThreadStep(t) \/ Interrupted(t)
  PROVE  Touches(t)
<1> DEFINE c == ClientOf[t]
           q == cur[t]
<1>a. c \in Client /\ q \in Priority
  BY ClientAssumption DEF ThreadOK
<1>b. /\ state[c][q] \in LockState /\ age[c][q] \in {Fresh, Lapsed, Overdue}
      /\ quota_used[c] \in Nat /\ idle[c] \in BOOLEAN /\ late \in BOOLEAN
  BY <1>a DEF RecordOK, ControlOK
<1> DEFINE S == /\ state' \in [Client -> [Priority -> LockState]]
                /\ \A k \in Client, r \in Priority : k # c \/ r # q => state'[k][r] = state[k][r]
           A == /\ age' \in [Client -> [Priority -> {Fresh, Lapsed, Overdue}]]
                /\ \A k \in Client, r \in Priority : k # c \/ r # q => age'[k][r] = age[k][r]
                /\ \A k \in Client, r \in Priority :
                     <<k, r>> \in found /\ manager \in {"force", "clear"} =>
                       age[k][r] = Fresh \/ age'[k][r] # Fresh \/ late'
           U == quota_used' \in [Client -> Nat]
           I == /\ idle' \in [Client -> BOOLEAN] /\ late' \in BOOLEAN /\ (late => late')
                /\ \A k \in Client : <<k, 0>> \in found /\ manager = "remove" =>
                                       ~idle[k] \/ idle'[k] \/ late'
           P == \/ sem' = sem
                \/ sem' = Posted(q)
                \/ sem[q] > 0 /\ sem' = [sem EXCEPT ![q] = @ - 1]
<1>c. \A v \in LockState : state' = Set(state, c, q, v) => S
  BY <1>a DEF RecordOK, Set
<1>d. state' = state => S
  BY DEF RecordOK
<1>e. /\ age' = Set(age, c, q, Overdue) => A
      /\ age' = Set(age, c, q, Fresh) /\ Overtake({"force", "clear"}, c, q) => A
  <2>1. ASSUME NEW v \in {Fresh, Lapsed, Overdue}, age' = Set(age, c, q, v)
        PROVE  /\ age' \in [Client -> [Priority -> {Fresh, Lapsed, Overdue}]] /\ age'[c][q] = v
               /\ \A k \in Client, r \in Priority : k # c \/ r # q => age'[k][r] = age[k][r]
    BY <1>a, <2>1 DEF RecordOK, Set
  <2>2. Overdue # Fresh
    BY DEF Overdue, Fresh
  <2>3. ASSUME age' = Set(age, c, q, Overdue) PROVE A
    BY <2>1, <2>2, <2>3
  <2>4. ASSUME age' = Set(age, c, q, Fresh), Overtake({"force", "clear"}, c, q) PROVE A
    BY <2>1, <2>4 DEF Overtake
  <2> QED
    BY <2>3, <2>4
<1>f. age' = age => A
  BY DEF RecordOK
<1>g. \A v \in Nat : quota_used' = [quota_used EXCEPT ![c] = v] => U
  BY <1>a DEF RecordOK
<1>h. quota_used' = quota_used => U
  BY DEF RecordOK
<1>i. Heard(c) => I
  BY <1>a DEF RecordOK, Heard, Overtake
<1>j. ASSUME idle' = idle, late' = late \/ Overtake({"force", "clear"}, c, q) PROVE I
  BY <1>a, <1>b, <1>j DEF RecordOK, Overtake
<1>k. S /\ A /\ U /\ I /\ P /\ UNCHANGED <<used, control>> => Touches(t)
  BY DEF Touches
<1>l. Charge(0) \in Nat /\ Charge(quota_used[c]) \in Nat
  BY <1>b DEF Charge, Ask
<1>m. /\ "None" \in LockState /\ "Locked" \in LockState /\ "QuotaReached" \in LockState
      /\ 0 \in Nat /\ Fresh \in {Fresh, Lapsed, Overdue} /\ Overdue \in {Fresh, Lapsed, Overdue}
  BY DEF LockState
<1>n. ClearState(c, q) => S
  BY <1>c, <1>m DEF ClearState
<1>o. ClearQuota(c) => U
  BY <1>g, <1>m DEF ClearQuota
<1>p. ClearBase(c, q) => U
  BY <1>h, <1>o DEF ClearBase
<1>q. ReleaseRecord(c, q) => S /\ A /\ U
  BY <1>e, <1>m, <1>n, <1>p DEF ReleaseRecord
<1>r. AcceptForced(c, q) => S /\ U
  BY <1>n, <1>p DEF AcceptForced
<1> HIDE DEF S, A, U, I, P, c, q
<1>1. ASSUME NEW p \in Priority, FindLock(t, p) PROVE Touches(t)
  BY <1>1, <1>d, <1>f, <1>h, <1>i, <1>k DEF FindLock, Attempt, c, P
<1>2. ASSUME NEW p \in Priority, FindNone(t, p) PROVE Touches(t)
  BY <1>2, <1>d, <1>f, <1>h, <1>i, <1>k DEF FindNone, Attempt, c, P
<1>3. ASSUME NEW p \in Priority, FindRefund(t, p) PROVE Touches(t)
  BY <1>3, <1>d, <1>f, <1>h, <1>i, <1>k DEF FindRefund, Attempt, c, P
<1>4. ASSUME NEW p \in Priority, BeRefused(t, p) PROVE Touches(t)
  BY <1>4, <1>d, <1>f, <1>h, <1>i, <1>k DEF BeRefused, Attempt, c, P
<1>5. ASSUME NEW p \in Priority, FindForced(t, p) PROVE Touches(t)
  BY <1>5, <1>f, <1>i, <1>k, <1>r DEF FindForced, Attempt, c, q, P
<1>6. CASE Refund(t)
  BY <1>6, <1>f, <1>j, <1>k, <1>n, <1>o DEF Refund, c, q, P
<1>7. CASE Join(t)
  BY <1>7, <1>d, <1>f, <1>g, <1>h, <1>j, <1>k, <1>l DEF Join, Look, c, q, P
<1>8. CASE FindExpired(t)
  BY <1>8, <1>d, <1>f, <1>h, <1>j, <1>k DEF FindExpired, Look, P
<1>9. CASE FindSpent(t)
  BY <1>9, <1>d, <1>f, <1>h, <1>j, <1>k DEF FindSpent, Look, P
<1>10. CASE Take(t)
  BY <1>10, <1>d, <1>f, <1>h, <1>j, <1>k DEF Take, record, P, q
<1>11. CASE TryAgain(t)
  BY <1>11, <1>d, <1>f, <1>h, <1>j, <1>k DEF TryAgain, record, P
<1>12. CASE UpdateState(t)
  BY <1>12, <1>c, <1>f, <1>h, <1>j, <1>k, <1>m DEF UpdateState, c, q, P
<1>13. CASE UpdateTime(t)
  BY <1>13, <1>d, <1>e, <1>g, <1>h, <1>j, <1>k, <1>l, <1>m DEF UpdateTime, c, q, P
<1>14. CASE TimeOut(t)
  BY <1>14, <1>d, <1>f, <1>h, <1>j, <1>k DEF TimeOut, record, P
<1>15. CASE PollLock(t)
  BY <1>15, <1>d, <1>f, <1>h, <1>i, <1>k DEF PollLock, Poll, c, P
<1>16. CASE PollLost(t)
  BY <1>16, <1>d, <1>f, <1>h, <1>i, <1>k DEF PollLost, Poll, c, P
<1>17. CASE PollValid(t)
  BY <1>17, <1>d, <1>f, <1>h, <1>j, <1>k DEF PollValid, Look, P
<1>18. CASE PollExpired(t)
  BY <1>18, <1>d, <1>f, <1>h, <1>j, <1>k DEF PollExpired, Look, P
<1>19. CASE PollClear(t)
  BY <1>19, <1>f, <1>h, <1>j, <1>k, <1>n, <1>o DEF PollClear, c, q, P
<1>20. CASE ResetExpired(t)
  BY <1>20, <1>d, <1>f, <1>h, <1>j, <1>k DEF ResetExpired, Reset, IfLocked, record, P
<1>21. CASE ResetSpent(t)
  BY <1>21, <1>d, <1>f, <1>h, <1>j, <1>k DEF ResetSpent, Reset, IfLocked, record, P
<1>22. CASE FreeExpired(t)
  BY <1>22, <1>j, <1>k, <1>q DEF FreeExpired, Free, c, q, P
<1>23. CASE KeepSpent(t)
  BY <1>23, <1>c, <1>f, <1>h, <1>j, <1>k, <1>m DEF KeepSpent, c, q, P
<1>24. CASE PostExpired(t)
  BY <1>24, <1>d, <1>f, <1>h, <1>j, <1>k DEF PostExpired, Post, record, P, q
<1>25. CASE PostSpent(t)
  BY <1>25, <1>d, <1>f, <1>h, <1>j, <1>k DEF PostSpent, Post, record, P, q
<1>26. CASE PostOverrun(t)
  BY <1>26, <1>d, <1>f, <1>h, <1>j, <1>k DEF PostOverrun, Post, record, P, q
<1>27. CASE NotMine(t)
  BY <1>27, <1>d, <1>f, <1>h, <1>j, <1>k DEF NotMine, Unlocking, record, P
<1>28. CASE UnlockLock(t)
  BY <1>28, <1>d, <1>f, <1>h, <1>i, <1>k DEF UnlockLock, Unlock, c, P
<1>29. CASE UnlockForced(t)
  BY <1>29, <1>f, <1>i, <1>k, <1>r DEF UnlockForced, Unlock, c, q, P
<1>30. CASE UnlockNothing(t)
  BY <1>30, <1>d, <1>f, <1>h, <1>i, <1>k DEF UnlockNothing, Unlock, c, P
<1>31. CASE UnlockExpired(t)
  BY <1>31, <1>d, <1>f, <1>h, <1>j, <1>k DEF UnlockExpired, Look, P
<1>32. CASE CountDown(t)
  BY <1>32, <1>d, <1>f, <1>h, <1>j, <1>k DEF CountDown, Look, P
<1>33. CASE UnlockPost(t)
  BY <1>33, <1>d, <1>f, <1>h, <1>j, <1>k DEF UnlockPost, Post, record, P, q
<1>34. CASE UnlockRecord(t)
  BY <1>34, <1>d, <1>f, <1>h, <1>j, <1>k DEF UnlockRecord, record, P
<1>35. CASE UnlockFree(t)
  BY <1>35, <1>j, <1>k, <1>q DEF UnlockFree, Free, c, q, P
<1>36. CASE Interrupted(t)
  BY <1>36, <1>d, <1>f, <1>h, <1>j, <1>k DEF Interrupted, record, P
<1> QED
  BY <1>1, <1>2, <1>3, <1>4, <1>5, <1>6, <1>7, <1>8, <1>9, <1>10, <1>11, <1>12, <1>13, <1>14,
     <1>15, <1>16, <1>17, <1>18, <1>19, <1>20, <1>21, <1>22, <1>23, <1>24, <1>25, <1>26, <1>27,
     <1>28, <1>29, <1>30, <1>31, <1>32, <1>33, <1>34, <1>35, <1>36 DEF ThreadStep

LEMMA PendingFinite ==
  ASSUME ControlOK, NEW q \in Priority
  PROVE  IsFiniteSet(pending[q]) /\ Cardinality(pending[q]) \in Nat
<1>1. pending[q] \subseteq Client /\ IsFiniteSet(Client)
  BY ClientAssumption DEF ControlOK
<1> QED
  BY <1>1, FS_Subset, FS_CardinalityType

(* The record, the semaphores and what the manager does keep their types.    *)
LEMMA TypesStep ==
  ASSUME RecordOK, ThreadOK, ControlOK, [Next]_vars
  PROVE  RecordOK' /\ ControlOK'
<1>b. 0 \in Priority
  BY SettingAssumption DEF Priority
<1>1. ASSUME NEW t \in Thread, ThreadStep(t) \/ Interrupted(t) PROVE RecordOK' /\ ControlOK'
  <2>1. Touches(t)
    BY <1>1, ThreadTouches
  <2>2. ClientOf[t] \in Client /\ cur[t] \in Priority
    BY ClientAssumption DEF ThreadOK
  <2>3. RecordOK'
    BY <2>1 DEF Touches, RecordOK
  <2>4. sem' \in [Priority -> 0 .. MaxPermits]
    <3>1. \/ sem' = sem \/ sem' = Posted(cur[t])
          \/ sem[cur[t]] > 0 /\ sem' = [sem EXCEPT ![cur[t]] = @ - 1]
      BY <2>1 DEF Touches
    <3> QED
      BY <2>2, <3>1, SettingAssumption DEF ControlOK, Posted
  <2> QED
    BY <2>1, <2>3, <2>4 DEF Touches, ControlOK, control
<1>2. ASSUME NEW c \in Client, Die(c) \/ Close(c) PROVE RecordOK' /\ ControlOK'
  <2>1. RecordOK'
    <3>1. CASE UNCHANGED record
      BY <3>1 DEF RecordOK, record
    <3>2. CASE RemoveRecord(c)
      BY <3>2 DEF RecordOK, RemoveRecord, LockState
    <3> QED
      BY <1>2, <3>1, <3>2 DEF Die, Close
  <2> QED
    BY <1>2, <2>1 DEF Die, Close, ControlOK, control
<1>3. ASSUME NEW c \in Client, Remove(c) PROVE RecordOK' /\ ControlOK'
  BY <1>3 DEF Remove, RemoveRecord, RecordOK, LockState, ControlOK
<1>4. ASSUME NEW c \in Client, FindIdle(c) \/ RemoveTwice(c) PROVE RecordOK' /\ ControlOK'
  <2>1. record' = record /\ sem' = sem /\ pending' = pending /\ late' \in BOOLEAN
        /\ (found' = {<<c, 0>>} \/ found' = {}) /\ manager' \in {"remove", "stopped"}
    BY <1>4 DEF FindIdle, RemoveTwice
  <2>2. found' \in SUBSET (Client \X Priority)
    BY <1>b, <2>1
  <2> QED
    BY <2>1, <2>2 DEF RecordOK, record, ControlOK
<1>5. ASSUME NEW c \in Client, Idle(c) PROVE RecordOK' /\ ControlOK'
  BY <1>5 DEF Idle, RecordOK, ControlOK, control
<1>6. ASSUME NEW c \in Client, NEW p \in Priority, Age(c, p) PROVE RecordOK' /\ ControlOK'
  <2>1. age[c][p] + 1 \in {Fresh, Lapsed, Overdue}
    BY <1>6 DEF Age, RecordOK, Fresh, Lapsed, Overdue
  <2>2. age' = Set(age, c, p, age[c][p] + 1)
    BY <1>6 DEF Age, Set, RecordOK
  <2>3. age' \in [Client -> [Priority -> {Fresh, Lapsed, Overdue}]]
    BY <2>1, <2>2 DEF Set, RecordOK
  <2> QED
    BY <1>6, <2>3 DEF Age, RecordOK, ControlOK, control
<1>7. ASSUME NEW c \in Client, NEW p \in Priority, FindLocked(c, p) \/ Judge(c, p)
      PROVE  RecordOK' /\ ControlOK'
  <2>1. record' = record /\ sem' = sem /\ pending' = pending /\ late' \in BOOLEAN
        /\ found' \in {{<<c, p>>}, {}, found} /\ manager' \in {"judge", "force", "locks"}
    BY <1>7 DEF FindLocked, Judge, ControlOK
  <2>2. found' \in SUBSET (Client \X Priority)
    BY <2>1 DEF ControlOK
  <2> QED
    BY <2>1, <2>2 DEF RecordOK, record, ControlOK
<1>8. ASSUME NEW c \in Client, NEW p \in Priority, ForceRelease(c, p) \/ ClearTime(c, p)
      PROVE  RecordOK' /\ ControlOK'
  <2>1. RecordOK'
    <3>1. state' = state \/ state' = Set(state, c, p, "ForceReleased")
      BY <1>8 DEF ForceRelease, ClearTime
    <3>2. age' = age \/ age' = Set(age, c, p, Overdue)
      BY <1>8 DEF ForceRelease, ClearTime
    <3>3. state' \in [Client -> [Priority -> LockState]]
      <4>1. ASSUME NEW v \in LockState, state' = Set(state, c, p, v)
            PROVE  state' \in [Client -> [Priority -> LockState]]
        BY <4>1 DEF RecordOK, Set
      <4>2. "ForceReleased" \in LockState
        BY DEF LockState
      <4> QED
        BY <3>1, <4>1, <4>2 DEF RecordOK
    <3>4. age' \in [Client -> [Priority -> {Fresh, Lapsed, Overdue}]]
      <4>1. ASSUME age' = Set(age, c, p, Overdue)
            PROVE  age' \in [Client -> [Priority -> {Fresh, Lapsed, Overdue}]]
        BY <4>1 DEF RecordOK, Set
      <4> QED
        BY <3>2, <4>1 DEF RecordOK
    <3> QED
      BY <1>8, <3>3, <3>4 DEF ForceRelease, ClearTime, RecordOK
  <2>2. ControlOK'
    <3>1. pending' \in [Priority -> SUBSET Client]
      BY <1>8 DEF ForceRelease, ClearTime, ControlOK
    <3> QED
      BY <1>8, <3>1 DEF ForceRelease, ClearTime, ControlOK
  <2> QED
    BY <2>1, <2>2
<1>9. CASE PostPending
  <2>1. \A p \in Priority : Cardinality(pending[p]) \in Nat
    BY PendingFinite
  <2> QED
    BY <1>9, <2>1, SettingAssumption DEF PostPending, RecordOK, record, ControlOK
<1>10. CASE EndRecords \/ UNCHANGED vars
  BY <1>10 DEF EndRecords, vars, RecordOK, record, ControlOK, control
<1> QED
  BY <1>1, <1>2, <1>3, <1>4, <1>5, <1>6, <1>7, <1>8, <1>9, <1>10 DEF Next, ManagerStep


(* A process that ends is in no call.                                        *)
LEMMA GonePlace ==
  ASSUME ThreadOK, PlaceInv, NEW c \in Client, Gone(c)
  PROVE  ThreadOK' /\ PlaceInv'
<1>1. 0 \in Priority
  BY SettingAssumption DEF Priority
<1>2. ThreadOK'
  BY <1>1 DEF ThreadOK, Gone, Label
<1>3. ASSUME NEW t \in Thread PROVE PlaceOK(t)'
  <2>1. CASE ClientOf[t] = c
    BY <2>1 DEF Gone, PlaceOK, Polls, Locking, Releasing
  <2>2. CASE ClientOf[t] # c
    <3>1. pc'[t] = pc[t] /\ base'[t] = base[t] /\ low'[t] = low[t] /\ cur'[t] = cur[t]
      BY <2>2 DEF Gone
    <3> QED
      BY <3>1 DEF PlaceInv, PlaceOK
  <2> QED
    BY <2>1, <2>2
<1> QED
  BY <1>2, <1>3 DEF PlaceInv

(* The other actions leave the threads where they are.                       *)
Still == \/ \E c \in Client : \/ Idle(c) \/ FindIdle(c) \/ Remove(c) \/ RemoveTwice(c)
                              \/ \E p \in Priority : \/ Age(c, p) \/ FindLocked(c, p) \/ Judge(c, p)
                                                     \/ ForceRelease(c, p) \/ ClearTime(c, p)
         \/ PostPending \/ EndRecords \/ UNCHANGED vars

LEMMA StillThreads ==
  ASSUME Still
  PROVE  UNCHANGED <<thread, alive, process>>
<1> QED
  BY DEF Still, Idle, FindIdle, Remove, RemoveTwice, Age, FindLocked, Judge, ForceRelease,
     ClearTime, PostPending,
     EndRecords, vars

LEMMA AllSteps ==
  ASSUME [Next]_vars
  PROVE  \/ \E t \in Thread : ThreadStep(t) \/ Interrupted(t)
         \/ \E c \in Client : Gone(c) /\ (Die(c) \/ Close(c))
         \/ Still
<1> QED
  BY DEF Next, ManagerStep, Still, Die, Close

(* All of it, where the threads are included.                                *)
BaseInv == RecordOK /\ ControlOK /\ ThreadOK /\ PlaceInv

LEMMA BaseHeld == Spec => []BaseInv
<1>1. Init => BaseInv
  <2> SUFFICES ASSUME Init PROVE BaseInv
    OBVIOUS
  <2>1. ThreadOK /\ PlaceInv
    <3>1. pc = [t \in Thread |-> "run"] /\ base \in [Thread -> Priority] /\ low = base /\ cur = base
          /\ alive \in [Client -> BOOLEAN]
      BY DEF Init
    <3>2. ThreadOK
      BY <3>1 DEF ThreadOK, Label
    <3>3. \A t \in Thread : pc[t] = "run" /\ low[t] = base[t] /\ cur[t] = base[t]
      BY <3>1
    <3> QED
      BY <3>2, <3>3 DEF PlaceInv, PlaceOK, Polls, Locking, Releasing
  <2> QED
    <3>1. RecordOK
      BY DEF Init, RecordOK, LockState
    <3>2. ControlOK
      <4>1. max_concurrent \in 0 .. MaxPermits
        BY SettingAssumption
      <4>2. sem \in [Priority -> 0 .. MaxPermits] /\ pending \in [Priority -> SUBSET Client]
        BY <4>1 DEF Init
      <4> QED
        BY <4>2 DEF Init, ControlOK
    <3> QED
      BY <2>1, <3>1, <3>2 DEF BaseInv
<1>2. ASSUME BaseInv, [Next]_vars PROVE BaseInv'
  <2>1. RecordOK' /\ ControlOK'
    BY <1>2, TypesStep DEF BaseInv
  <2>2. ASSUME NEW t \in Thread, ThreadStep(t) \/ Interrupted(t) PROVE ThreadOK' /\ PlaceInv'
    <3>1. Goes(t) /\ Place(t)'
      BY <1>2, <2>2, ThreadMoves DEF BaseInv, PlaceInv, Moves
    <3>2. ThreadOK'
      BY <1>2, <3>1 DEF BaseInv, ThreadOK, Goes, Place
    <3>3. ASSUME NEW u \in Thread PROVE PlaceOK(u)'
      <4>1. CASE u = t
        BY <3>1, <4>1 DEF Place
      <4>2. CASE u # t
        <5>1. pc'[u] = pc[u] /\ base'[u] = base[u] /\ low'[u] = low[u] /\ cur'[u] = cur[u]
          BY <1>2, <3>1, <4>2 DEF Goes, BaseInv, ThreadOK
        <5> QED
          BY <1>2, <5>1 DEF BaseInv, PlaceInv, PlaceOK
      <4> QED
        BY <4>1, <4>2
    <3> QED
      BY <3>2, <3>3 DEF PlaceInv
  <2>3. ASSUME NEW c \in Client, Gone(c) PROVE ThreadOK' /\ PlaceInv'
    BY <1>2, <2>3, GonePlace DEF BaseInv
  <2>4. ASSUME Still PROVE ThreadOK' /\ PlaceInv'
    BY <1>2, <2>4, StillThreads DEF BaseInv, ThreadOK, PlaceInv, PlaceOK, thread
  <2> QED
    BY <1>2, <2>1, <2>2, <2>3, <2>4, AllSteps DEF BaseInv
<1> QED
  BY <1>1, <1>2, PTL DEF Spec


(* What a thread and the lock that it works on count for, by where the       *)
(* thread is and by whether the table shows the lock: from the look at a     *)
(* lock until the semaphore is posted it is one permit, shown or not.        *)
One(P) == IF P THEN 1 ELSE 0
Owes == {"took", "xpost", "spost", "opost"}
Returns == {"look", "expired", "xfree", "spent", "sstore", "ulook", "overrun", "ofree", "unpost"}
Repays == {"unrecord", "free"}
Value(label, shown) == IF label \in Returns THEN 1 ELSE
                       IF label \in Owes THEN 1 + One(shown) ELSE
                       IF label \in Repays THEN 0 ELSE One(shown)
Shown(t) == state[ClientOf[t]][cur[t]] = "Locked"
ShownAfter(t) == state'[ClientOf[t]][cur[t]] = "Locked"

(* A thread that waits for a permit, or has just taken one, or gives a quota *)
(* back, has none in the record.                                             *)
Hides == {"xpost", "wait", "took", "refund", "urefund"}
Unshown(t) == pc[t] \in Hides => ~Shown(t)

(* The balance of a step of a thread; when it makes and when it ends a lock. *)
Before(t) == Value(pc[t], Shown(t))
After(t) == Value(pc'[t], ShownAfter(t))
Late(t) == pc[t] \in {"pforced", "prefund"} /\ pc'[t] = "unlock" /\ Shown(t) /\ ~ShownAfter(t)
           /\ sem' = sem
Row(t) == /\ \/ sem' = sem /\ After(t) = Before(t)
             \/ Late(t)
             \/ sem' = Posted(cur[t]) /\ Before(t) = After(t) + 1
             \/ /\ sem[cur[t]] > 0 /\ sem' = [sem EXCEPT ![cur[t]] = @ - 1]
                /\ After(t) = Before(t) + 1
          /\ ShownAfter(t) /\ ~Shown(t) => pc[t] = "took"
          /\ Shown(t) /\ ~ShownAfter(t) => pc[t] \in Inside \/ Late(t)
          /\ pc'[t] \in Hides => ~ShownAfter(t)
          /\ Shown(t) /\ (state' # state \/ age' # age) => pc'[t] # pc[t]

(* Where the helpers that several actions end with lead.                     *)
LEMMA Labels ==
  ASSUME ThreadOK, NEW t \in Thread
  PROVE  /\ \A label : Goto(t, label) \/ GotoBase(t, label) => pc'[t] = label
         /\ Undo(t) => pc'[t] = "unlock"
         /\ Return(t) => pc'[t] = "run"
         /\ NextRelease(t) => pc'[t] \in {"run", "unlock"}
         /\ \A p : Refused(t, p) => pc'[t] \in {"run", "unlock"}
         /\ \A p : Granted(t, p) => pc'[t] \in {"held", "poll"}
<1>1. \A label : Goto(t, label) \/ GotoBase(t, label) => pc'[t] = label
  BY DEF ThreadOK, Goto, GotoBase
<1>2. /\ Undo(t) => pc'[t] = "unlock"
      /\ Return(t) => pc'[t] = "run"
  BY <1>1 DEF Undo, Return
<1>3. /\ NextRelease(t) => pc'[t] \in {"run", "unlock"}
      /\ \A p : Refused(t, p) => pc'[t] \in {"run", "unlock"}
  BY <1>1, <1>2 DEF NextRelease, Refused
<1>4. \A p : Granted(t, p) => pc'[t] \in {"held", "poll"}
  BY <1>1 DEF Granted
<1> QED
  BY <1>1, <1>2, <1>3, <1>4

LEMMA ThreadRows ==
  ASSUME RecordOK, ThreadOK, NEW t \in Thread, Unshown(t), ThreadStep(t) \/ Interrupted(t)
  PROVE  Row(t)
<1> DEFINE c == ClientOf[t]
           q == cur[t]
           Out == {"run", "lock", "poll", "plook", "pforced", "prefund", "held", "unlock", "wait", "stamp",
                   "refund", "urefund"}
           X == Shown(t)
           Y == ShownAfter(t)
           Same == state' = state /\ age' = age
           L == pc[t]
           M == pc'[t]
           sub == /\ sem[q] > 0 /\ sem' = [sem EXCEPT ![q] = @ - 1]
<1>a. c \in Client /\ q \in Priority
  BY ClientAssumption DEF ThreadOK
<1>b. state' = state => (Y <=> X)
  BY DEF Shown, ShownAfter
<1>c. \A v : state' = Set(state, c, q, v) => (Y <=> v = "Locked")
  BY <1>a DEF RecordOK, Set, ShownAfter
<1>d. ClearState(c, q) \/ ReleaseRecord(c, q) \/ AcceptForced(c, q) => ~Y
  BY <1>c DEF ClearState, ReleaseRecord, AcceptForced
<1>e. /\ \A label : Goto(t, label) \/ GotoBase(t, label) => M = label
      /\ Undo(t) => M = "unlock"
      /\ Return(t) => M = "run"
      /\ NextRelease(t) => M \in {"run", "unlock"}
      /\ Refused(t, q) => M \in {"run", "unlock"}
      /\ Granted(t, q) => M \in {"held", "poll"}
  BY Labels
<1>f. L \in Hides => ~X
  BY DEF Unshown
<1>g. ASSUME sem' = sem, Same, \/ L \in Out /\ M \in Out
                               \/ X /\ L \in Out \union Returns /\ M \in Out \union Returns
                               \/ L \in Returns /\ M \in Returns
                               \/ ~X /\ L \in Returns \union Owes /\ M \in Returns \union Owes
                               \/ ~X /\ L \in Repays \union Out /\ M \in Out
                               \/ L \in Repays /\ M \in Repays,
             M \in Hides => ~X
      PROVE  Row(t)
  <2>1. After(t) = Before(t)
    BY <1>b, <1>g DEF After, Before, Value, One, Returns, Owes, Repays
  <2> QED
    BY <1>b, <1>g, <2>1 DEF Row
<1>h. ASSUME sem' = Posted(q), Same, \/ L \in Owes /\ M \in Out
                                     \/ L \in Returns /\ M \in Repays,
             M \in Hides => ~X
      PROVE  Row(t)
  <2>1. Before(t) = After(t) + 1
    BY <1>b, <1>h DEF After, Before, Value, One, Returns, Owes, Repays
  <2> QED
    BY <1>b, <1>h, <2>1 DEF Row
<1>i. ASSUME sem' = sem, ~Y, M # L, \/ L \in Out /\ M \in Out /\ ~X
                                    \/ L \in Returns /\ M \in Owes /\ L \in Inside
                                    \/ L \in Repays /\ M \in Out /\ L \in Inside
      PROVE  Row(t)
  <2>1. After(t) = Before(t)
    BY <1>i DEF After, Before, Value, One, Returns, Owes, Repays
  <2> QED
    BY <1>i, <2>1 DEF Row
<1>j. ASSUME sem' = sem, ~Y, ~X, L \in Out, M \in Out PROVE Row(t)
  <2>1. After(t) = Before(t)
    BY <1>j DEF After, Before, Value, One, Returns, Owes, Repays
  <2> QED
    BY <1>j, <2>1 DEF Row
<1> USE DEF At, Owes, Returns, Repays, Hides
<1> HIDE DEF X, Y, c, q
<1>1. ASSUME NEW p \in Priority, FindLock(t, p) PROVE Row(t)
  <2>1. sem' = sem /\ Same /\ L \in Out /\ M = "look" /\ X
    BY <1>1, <1>e DEF FindLock, Attempt, Shown, X, c, q
  <2> QED
    BY <1>g, <2>1
<1>2. ASSUME NEW p \in Priority, FindNone(t, p) PROVE Row(t)
  <2>1. sem' = sem /\ Same /\ L \in Out /\ M = "wait" /\ ~X
    BY <1>2, <1>e DEF FindNone, Attempt, Shown, X, c, q
  <2> QED
    BY <1>g, <2>1
<1>3. ASSUME NEW p \in Priority, FindRefund(t, p) PROVE Row(t)
  <2>1. sem' = sem /\ Same /\ L \in Out /\ M = "refund" /\ ~X
    BY <1>3, <1>e DEF FindRefund, Attempt, Shown, X, c, q
  <2> QED
    BY <1>g, <2>1
<1>4. ASSUME NEW p \in Priority, BeRefused(t, p) PROVE Row(t)
  <2>1. sem' = sem /\ Same /\ L \in Out /\ M \in {"run", "unlock"}
    BY <1>4, <1>e DEF BeRefused, Attempt, q
  <2> QED
    BY <1>g, <2>1
<1>5. ASSUME NEW p \in Priority, FindForced(t, p) PROVE Row(t)
  <2>1. sem' = sem /\ ~X /\ L \in Out /\ M \in Out /\ AcceptForced(c, q)
    BY <1>5, <1>e DEF FindForced, Attempt, Shown, X, c, q
  <2> QED
    BY <1>d, <1>j, <2>1
<1>6. CASE Refund(t)
  <2>1. sem' = sem /\ ClearState(c, q) /\ L \in Hides /\ L \in Out /\ M \in Out
    BY <1>6, <1>e DEF Refund, c, q
  <2> QED
    BY <1>d, <1>f, <1>j, <2>1
<1>7. CASE Join(t)
  <2>1. sem' = sem /\ Same /\ L = "look" /\ M \in {"held", "poll"} /\ X
    BY <1>7, <1>e DEF Join, Look, is_lock_active, Shown, X, c, q
  <2> QED
    BY <1>g, <2>1
<1>8. CASE FindExpired(t)
  <2>1. sem' = sem /\ Same /\ L = "look" /\ M = "expired"
    BY <1>8, <1>e DEF FindExpired, Look
  <2> QED
    BY <1>g, <2>1
<1>9. CASE FindSpent(t)
  <2>1. sem' = sem /\ Same /\ L = "look" /\ M = "spent"
    BY <1>9, <1>e DEF FindSpent, Look
  <2> QED
    BY <1>g, <2>1
<1>10. CASE Take(t)
  <2>1. L = "wait" /\ M = "took" /\ sem[q] > 0 /\ sem' = [sem EXCEPT ![q] = sem[q] - 1] /\ Same
    BY <1>10, <1>e DEF Take, record, q
  <2>2. After(t) = Before(t) + 1
    BY <1>b, <1>f, <2>1 DEF After, Before, Value, One, X, Y
  <2> QED
    BY <1>b, <1>f, <2>1, <2>2 DEF Row, X, Y, q
<1>11. CASE TryAgain(t)
  <2>1. sem' = sem /\ Same /\ L \in Out /\ M = "poll"
    BY <1>11, <1>e DEF TryAgain, record
  <2> QED
    BY <1>g, <2>1
<1>12. CASE UpdateState(t)
  <2>1. L = "took" /\ M = "stamp" /\ sem' = sem /\ state' = Set(state, c, q, "Locked")
    BY <1>12, <1>e DEF UpdateState, c, q
  <2>2. Y /\ ~X
    BY <1>c, <1>f, <2>1
  <2>3. After(t) = Before(t)
    BY <2>1, <2>2 DEF After, Before, Value, One, X, Y
  <2> QED
    BY <2>1, <2>2, <2>3 DEF Row, X, Y
<1>13. CASE UpdateTime(t)
  <2>1. L = "stamp" /\ M \in {"held", "poll"} /\ sem' = sem /\ state' = state
    BY <1>13, <1>e DEF UpdateTime, q
  <2>2. After(t) = Before(t)
    BY <1>b, <2>1 DEF After, Before, Value, One, X, Y
  <2> QED
    BY <1>b, <2>1, <2>2 DEF Row, X, Y
<1>14. CASE TimeOut(t)
  <2>1. sem' = sem /\ Same /\ L \in Out /\ M = "unlock"
    BY <1>14, <1>e DEF TimeOut, record
  <2> QED
    BY <1>g, <2>1
<1>15. CASE PollLock(t)
  <2>1. sem' = sem /\ Same /\ L \in Out /\ M = "plook"
    BY <1>15, <1>e DEF PollLock, Poll
  <2> QED
    BY <1>g, <2>1
<1>16. CASE PollLost(t)
  <2>1. sem' = sem /\ Same /\ L \in Out /\ M \in {"pforced", "prefund", "unlock"}
    BY <1>16, <1>e DEF PollLost, Poll
  <2> QED
    BY <1>g, <2>1
<1>17. CASE PollValid(t)
  <2>1. sem' = sem /\ Same /\ L \in Out /\ M \in {"poll", "lock"}
    BY <1>17, <1>e DEF PollValid, Look
  <2> QED
    BY <1>g, <2>1
<1>18. CASE PollExpired(t)
  <2>1. sem' = sem /\ Same /\ L \in Out /\ M = "unlock"
    BY <1>18, <1>e DEF PollExpired, Look
  <2> QED
    BY <1>g, <2>1
<1>19. CASE PollClear(t)
  <2>1. L \in {"pforced", "prefund"} /\ M = "unlock" /\ sem' = sem /\ ClearState(c, q)
    BY <1>19, <1>e DEF PollClear, c, q
  <2>2. CASE X
    BY <1>d, <2>1, <2>2 DEF Row, Late, X, Y
  <2> QED
    BY <1>d, <1>j, <2>1, <2>2
<1>20. CASE ResetExpired(t)
  <2>1. /\ sem' = sem /\ Same
        /\ \/ L = "expired" /\ M = IF X THEN "xfree" ELSE "xpost"
           \/ L = "overrun" /\ M = IF X THEN "ofree" ELSE "opost"
    BY <1>20, <1>e DEF ResetExpired, Reset, IfLocked, record, Shown, X
  <2> QED
    BY <1>g, <2>1
<1>21. CASE ResetSpent(t)
  <2>1. sem' = sem /\ Same /\ L = "spent" /\ M = IF X THEN "sstore" ELSE "spost"
    BY <1>21, <1>e DEF ResetSpent, Reset, IfLocked, record, Shown, X
  <2> QED
    BY <1>g, <2>1
<1>22. CASE FreeExpired(t)
  <2>1. sem' = sem /\ ReleaseRecord(c, q) /\ L \in {"xfree", "ofree"} /\ M \in {"xpost", "opost"}
    BY <1>22, <1>e DEF FreeExpired, Free, c, q
  <2> QED
    BY <1>d, <1>i, <2>1 DEF Inside, Locking, Releasing
<1>23. CASE KeepSpent(t)
  <2>1. /\ sem' = sem /\ state' = Set(state, c, q, "QuotaReached") /\ L = "sstore"
        /\ M = "spost"
    BY <1>23, <1>e DEF KeepSpent, c, q
  <2> QED
    BY <1>c, <1>i, <2>1 DEF Inside, Locking, Releasing
<1>24. CASE PostExpired(t)
  <2>1. sem' = Posted(q) /\ Same /\ L = "xpost" /\ M = "wait"
    BY <1>24, <1>e DEF PostExpired, Post, record, q
  <2> QED
    BY <1>f, <1>h, <2>1
<1>25. CASE PostSpent(t)
  <2>1. sem' = Posted(q) /\ Same /\ L = "spost" /\ M \in {"run", "unlock"}
    BY <1>25, <1>e DEF PostSpent, Post, record, q
  <2> QED
    BY <1>f, <1>h, <2>1
<1>26. CASE PostOverrun(t)
  <2>1. sem' = Posted(q) /\ Same /\ L = "opost" /\ M \in {"run", "unlock"}
    BY <1>26, <1>e DEF PostOverrun, Post, record, q
  <2> QED
    BY <1>f, <1>h, <2>1
<1>27. CASE NotMine(t)
  <2>1. sem' = sem /\ Same /\ L \in Out /\ M \in {"run", "unlock"}
    BY <1>27, <1>e DEF NotMine, Unlocking, record
  <2> QED
    BY <1>g, <2>1
<1>28. CASE UnlockLock(t)
  <2>1. sem' = sem /\ Same /\ L \in Out /\ M = "ulook" /\ X
    BY <1>28, <1>e DEF UnlockLock, Unlock, Unlocking, Shown, X
  <2> QED
    BY <1>g, <2>1
<1>29. CASE UnlockForced(t)
  <2>1. sem' = sem /\ ~X /\ L \in Out /\ M \in Out /\ AcceptForced(c, q)
    BY <1>29, <1>e DEF UnlockForced, Unlock, Unlocking, Shown, X, c, q
  <2> QED
    BY <1>d, <1>j, <2>1
<1>30. CASE UnlockNothing(t)
  <2>1. sem' = sem /\ Same /\ ~X /\ L \in Out /\ M \in {"urefund", "run", "unlock"}
    BY <1>30, <1>e DEF UnlockNothing, Unlock, Unlocking, Shown, X
  <2> QED
    BY <1>g, <2>1
<1>31. CASE UnlockExpired(t)
  <2>1. sem' = sem /\ Same /\ L = "ulook" /\ M = "overrun"
    BY <1>31, <1>e DEF UnlockExpired, Look
  <2> QED
    BY <1>g, <2>1
<1>32. CASE CountDown(t)
  <2>1. sem' = sem /\ Same /\ L = "ulook" /\ M \in {"unpost", "run", "unlock"} /\ X
    BY <1>32, <1>e DEF CountDown, Look, is_lock_active, Shown, X
  <2> QED
    BY <1>g, <2>1
<1>33. CASE UnlockPost(t)
  <2>1. sem' = Posted(q) /\ Same /\ L = "unpost" /\ M = "unrecord"
    BY <1>33, <1>e DEF UnlockPost, Post, record, q
  <2> QED
    BY <1>f, <1>h, <2>1
<1>34. CASE UnlockRecord(t)
  <2>1. sem' = sem /\ Same /\ L = "unrecord"
    BY <1>34 DEF UnlockRecord, record
  <2>2. CASE X
    <3>1. Goto(t, "free")
      BY <1>34, <2>2 DEF UnlockRecord, Shown, X
    <3> QED
      BY <1>e, <1>g, <2>1, <2>2, <3>1
  <2>3. CASE ~X
    <3>1. NextRelease(t)
      BY <1>34, <2>3 DEF UnlockRecord, Shown, X
    <3> QED
      BY <1>e, <1>g, <2>1, <2>3, <3>1
  <2> QED
    BY <2>2, <2>3
<1>35. CASE UnlockFree(t)
  <2>1. sem' = sem /\ ReleaseRecord(c, q) /\ L = "free" /\ M \in {"run", "unlock"}
    BY <1>35, <1>e DEF UnlockFree, Free, c, q
  <2> QED
    BY <1>d, <1>i, <2>1 DEF Inside, Locking, Releasing
<1>36. CASE Interrupted(t)
  <2>1. sem' = sem /\ Same /\ L \in Out /\ M = "run"
    BY <1>36, <1>e DEF Interrupted, record
  <2> QED
    BY <1>g, <2>1
<1> QED
  BY <1>1, <1>2, <1>3, <1>4, <1>5, <1>6, <1>7, <1>8, <1>9, <1>10, <1>11, <1>12, <1>13, <1>14,
     <1>15, <1>16, <1>17, <1>18, <1>19, <1>20, <1>21, <1>22, <1>23, <1>24, <1>25, <1>26, <1>27,
     <1>28, <1>29, <1>30, <1>31, <1>32, <1>33, <1>34, <1>35, <1>36 DEF ThreadStep

(* The mutexes exclude: two threads of a process are never at work on the    *)
(* same priority.                                                            *)
MutexInv == \A t, u \in Thread :
  /\ ClientOf[t] = ClientOf[u] /\ cur[t] = cur[u]
  /\ pc[t] \in Inside /\ pc[u] \in Inside
  => t = u
UnshownInv == \A t \in Thread : Unshown(t)

(* The others are where they were; nobody else is at work where a thread is. *)
LEMMA OthersStay ==
  ASSUME ThreadOK, MutexInv, NEW t \in Thread, Goes(t), Enters(t), NEW u \in Thread, u # t
  PROVE  /\ pc'[u] = pc[u] /\ base'[u] = base[u] /\ low'[u] = low[u] /\ cur'[u] = cur[u]
         /\ pc[t] \notin Polls /\ ClientOf[u] = ClientOf[t] /\ cur[u] = cur[t] => pc[u] \notin Inside
<1>1. pc'[u] = pc[u] /\ base'[u] = base[u] /\ low'[u] = low[u] /\ cur'[u] = cur[u]
  BY DEF Goes, ThreadOK
<1>2. ASSUME pc[t] \notin Polls, ClientOf[u] = ClientOf[t], cur[u] = cur[t], pc[u] \in Inside
      PROVE  FALSE
  BY <1>2 DEF Enters, MutexInv, priority_lock, ThreadsOf
<1> QED
  BY <1>1, <1>2

(* Its own lock apart, a thread makes and ends no lock.                      *)
LEMMA ThreadShows ==
  ASSUME ThreadOK, NEW t \in Thread, Touches(t), Row(t), NEW k \in Client, NEW q \in Priority,
         ~(state'[k][q] = "Locked" <=> state[k][q] = "Locked")
  PROVE  /\ k = ClientOf[t] /\ q = cur[t]
         /\ state'[k][q] = "Locked" => pc[t] = "took"
         /\ state[k][q] = "Locked" => pc[t] \in Inside \/ Late(t)
<1>1. k = ClientOf[t] /\ q = cur[t]
  BY DEF Touches
<1> QED
  BY <1>1 DEF Row, Shown, ShownAfter

(* The exclusion is kept by the threads, and what hides stays hidden.        *)
LEMMA MutexHeld == Spec => [](MutexInv /\ UnshownInv)
<1>1. Init => MutexInv /\ UnshownInv
  BY DEF Init, MutexInv, UnshownInv, Unshown, Inside, Locking, Releasing, Hides
<1>2. ASSUME BaseInv, MutexInv, UnshownInv, [Next]_vars PROVE MutexInv' /\ UnshownInv'
  <2> USE <1>2, ClientAssumption DEF BaseInv
  <2>1. ASSUME NEW t \in Thread, ThreadStep(t) \/ Interrupted(t) PROVE MutexInv' /\ UnshownInv'
    <3>1. Goes(t) /\ Enters(t) /\ Touches(t) /\ Row(t)
      BY <2>1, ThreadMoves, ThreadTouches, ThreadRows DEF PlaceInv, Moves, UnshownInv
    <3>2. MutexInv'
      <4> SUFFICES ASSUME NEW u \in Thread, NEW v \in Thread, u # v, u # t,
                          ClientOf[u] = ClientOf[v], cur'[u] = cur'[v],
                          pc'[u] \in Inside, pc'[v] \in Inside
                   PROVE  FALSE
        BY DEF MutexInv
      <4>1. cur'[u] = cur[u] /\ pc[u] \in Inside
        BY <3>1, OthersStay
      <4>2. CASE v # t
        <5>1. cur'[v] = cur[v] /\ pc[v] \in Inside
          BY <3>1, <4>2, OthersStay
        <5> QED
          BY <4>1, <5>1 DEF MutexInv
      <4>3. CASE v = t
        BY <3>1, <4>1, <4>3, OthersStay DEF Enters
      <4> QED
        BY <4>2, <4>3
    <3>3. UnshownInv'
      <4> SUFFICES ASSUME NEW u \in Thread, pc'[u] \in Hides, Shown(u)' PROVE FALSE
        BY DEF UnshownInv, Unshown
      <4>1. CASE u = t
        <5>1. cur'[t] = cur[t]
          BY <3>1, <4>1 DEF Enters, Hides, Inside, Locking, Releasing
        <5> QED
          BY <3>1, <4>1, <5>1 DEF Row, Shown, ShownAfter
      <4>2. CASE u # t
        <5>1. pc'[u] = pc[u] /\ cur'[u] = cur[u] /\ ClientOf[u] \in Client /\ cur[u] \in Priority
          BY <3>1, <4>2, OthersStay DEF ThreadOK
        <5>2. state[ClientOf[u]][cur[u]] # "Locked" /\ state'[ClientOf[u]][cur[u]] = "Locked"
          BY <5>1 DEF UnshownInv, Unshown, Shown
        <5>3. pc[t] = "took" /\ ClientOf[u] = ClientOf[t] /\ cur[u] = cur[t]
          BY <3>1, <5>1, <5>2, ThreadShows
        <5>4. pc[u] \in Inside /\ pc[t] \notin Polls
          BY <5>1, <5>3 DEF Hides, Inside, Locking, Releasing, Polls
        <5> QED
          BY <3>1, <4>2, <5>3, <5>4, OthersStay
      <4> QED
        BY <4>1, <4>2
    <3> QED
      BY <3>2, <3>3
  <2>2. ASSUME NEW c \in Client, Gone(c), Die(c) \/ Close(c) PROVE MutexInv' /\ UnshownInv'
    <3>1. \A t \in Thread : pc'[t] # "run" => pc'[t] = pc[t] /\ cur'[t] = cur[t]
      BY <2>2 DEF Gone, ThreadOK
    <3>2. \A k \in Client, q \in Priority : state'[k][q] = "Locked" => state[k][q] = "Locked"
      BY <2>2, SMTT(30) DEF Die, Close, RemoveRecord, record, RecordOK
    <3> QED
      BY <3>1, <3>2 DEF MutexInv, UnshownInv, Unshown, Shown, Inside, Locking, Releasing, Hides,
         ThreadOK
  <2>3. ASSUME Still PROVE MutexInv' /\ UnshownInv'
    <3>1. \A k \in Client, r \in Priority : state'[k][r] = "Locked" => state[k][r] = "Locked"
      <4>1. ASSUME NEW c \in Client, Remove(c)
            PROVE  \A k \in Client, r \in Priority : state'[k][r] = "Locked" => state[k][r] = "Locked"
        BY <4>1 DEF Remove, RemoveRecord, RecordOK
      <4>2. ASSUME NEW c \in Client, NEW q \in Priority, ForceRelease(c, q)
            PROVE  \A k \in Client, r \in Priority : state'[k][r] = "Locked" => state[k][r] = "Locked"
        BY <4>2 DEF ForceRelease, Set, RecordOK
      <4>3. state' = state \/ \E c \in Client : Remove(c) \/ \E q \in Priority : ForceRelease(c, q)
        BY <2>3 DEF Still, Idle, FindIdle, RemoveTwice, Age, FindLocked, Judge, ClearTime,
           PostPending,
           EndRecords, vars, record
      <4> QED
        BY <4>1, <4>2, <4>3
    <3>2. pc' = pc /\ cur' = cur
      BY <2>3, StillThreads DEF thread
    <3> QED
      BY <3>1, <3>2, SMTT(30) DEF MutexInv, UnshownInv, Unshown, Shown, ThreadOK
  <2> QED
    BY <2>1, <2>2, <2>3, AllSteps
<1> QED
  BY <1>1, <1>2, BaseHeld, PTL DEF Spec

(* The cardinality of a set of which one element comes or goes.              *)
LEMMA OneElement ==
  ASSUME NEW S, NEW T, NEW e, IsFiniteSet(S), \A x : x # e => (x \in T <=> x \in S)
  PROVE  /\ Cardinality(S) \in Nat /\ Cardinality(T) \in Nat
         /\ Cardinality(T) = Cardinality(S) + One(e \in T) - One(e \in S)
<1>0. Cardinality(S) \in Nat
  BY FS_CardinalityType
<1>1. CASE e \in T
  <2>1. T = S \cup {e}
    BY <1>1
  <2> QED
    BY <1>0, <1>1, <2>1, FS_AddElement DEF One
<1>2. CASE e \notin T
  <2>1. T = S \ {e}
    BY <1>2
  <2>2. CASE e \in S
    <3>1. Cardinality(T) = Cardinality(S) - 1 /\ IsFiniteSet(T)
      BY <2>1, <2>2, FS_RemoveElement
    <3>2. Cardinality(T) \in Nat
      BY <3>1, FS_CardinalityType
    <3> QED
      BY <1>0, <1>2, <2>2, <3>1, <3>2 DEF One
  <2>3. CASE e \notin S
    <3>1. T = S
      BY <2>1, <2>3
    <3> QED
      BY <1>0, <1>2, <2>3, <3>1 DEF One
  <2> QED
    BY <2>2, <2>3
<1> QED
  BY <1>1, <1>2

LEMMA Finite ==
  ASSUME NEW q
  PROVE  /\ IsFiniteSet(Lockers(q)) /\ IsFiniteSet(Owing(q)) /\ IsFiniteSet(Repaid(q))
         /\ Cardinality(Lockers(q)) \in Nat /\ Cardinality(Owing(q)) \in Nat
         /\ Cardinality(Repaid(q)) \in Nat
<1>1. Lockers(q) \subseteq Client /\ Owing(q) \subseteq Thread /\ Repaid(q) \subseteq Thread
  BY DEF Lockers, Owing, Repaid
<1> QED
  BY <1>1, ClientAssumption, FS_Subset, FS_CardinalityType

(* A step of a thread changes the number of permits by what it does to the   *)
(* semaphore, to the lock it works on and to its own debts.                  *)
LEMMA ThreadBalance ==
  ASSUME BaseInv, MutexInv, NEW t \in Thread, Goes(t), Enters(t), Touches(t), Row(t), ~Late(t),
         NEW q \in Priority
  PROVE  LET c == ClientOf[t] IN
         /\ Permits(q) \in Int /\ sem[q] \in Nat
         /\ Permits(q)' = Permits(q) + (sem'[q] - sem[q])
                          + (One(state'[c][q] = "Locked") - One(state[c][q] = "Locked"))
                          + (One(t \in Owing(q)') - One(t \in Owing(q)))
                          - (One(t \in Repaid(q)') - One(t \in Repaid(q)))
<1> DEFINE c == ClientOf[t]
<1>1. c \in Client /\ cur[t] \in Priority /\ ThreadOK /\ ControlOK
  BY ClientAssumption DEF BaseInv, ThreadOK
<1>2. pending' = pending
  BY DEF Touches, control
<1>3. \A k \in Client : k # c => (state'[k][q] = "Locked" <=> state[k][q] = "Locked")
  BY <1>1, ThreadShows
<1>4. Cardinality(Lockers(q)') = Cardinality(Lockers(q)) + One(state'[c][q] = "Locked")
                                                         - One(state[c][q] = "Locked")
  <2>1. \A x : x # c => (x \in Lockers(q)' <=> x \in Lockers(q))
    BY <1>3 DEF Lockers
  <2>2. (c \in Lockers(q)' <=> state'[c][q] = "Locked")
        /\ (c \in Lockers(q) <=> state[c][q] = "Locked")
    BY <1>1 DEF Lockers
  <2> QED
    BY <2>1, <2>2, Finite, OneElement DEF One
<1>5. \A u \in Thread : u # t => (u \in Owing(q)' <=> u \in Owing(q)) /\ (u \in Repaid(q)' <=> u \in Repaid(q))
  <2> SUFFICES ASSUME NEW u \in Thread, u # t
               PROVE  (u \in Owing(q)' <=> u \in Owing(q)) /\ (u \in Repaid(q)' <=> u \in Repaid(q))
    OBVIOUS
  <2>1. pc'[u] = pc[u] /\ cur'[u] = cur[u]
    BY <1>1, OthersStay
  <2>2. CASE state'[ClientOf[u]][q] = "Locked" <=> state[ClientOf[u]][q] = "Locked"
    BY <2>1, <2>2 DEF Owing, Repaid
  <2>3. CASE ~(state'[ClientOf[u]][q] = "Locked" <=> state[ClientOf[u]][q] = "Locked")
    <3>1. pc[t] \in Inside /\ ClientOf[u] = c /\ q = cur[t]
      BY <1>1, <2>3, ThreadShows, ClientAssumption DEF Inside, Locking
    <3>2. ~(cur[u] = q /\ pc[u] \in Inside)
      BY <3>1 DEF MutexInv
    <3> QED
      BY <2>1, <3>2 DEF Owing, Repaid, Inside, Locking, Releasing
  <2> QED
    BY <2>2, <2>3
<1>6. Cardinality(Owing(q)') = Cardinality(Owing(q)) + One(t \in Owing(q)') - One(t \in Owing(q))
  <2>1. \A x : x # t => (x \in Owing(q)' <=> x \in Owing(q))
    BY <1>5 DEF Owing
  <2> QED
    BY <2>1, Finite, OneElement
<1>7. Cardinality(Repaid(q)') = Cardinality(Repaid(q)) + One(t \in Repaid(q)') - One(t \in Repaid(q))
  <2>1. \A x : x # t => (x \in Repaid(q)' <=> x \in Repaid(q))
    BY <1>5 DEF Repaid
  <2> QED
    BY <2>1, Finite, OneElement
<1>8. sem[q] \in Nat /\ sem'[q] \in Int
  <2>1. \/ sem' = sem \/ sem' = Posted(cur[t])
        \/ sem' = [sem EXCEPT ![cur[t]] = @ - 1]
    BY DEF Touches
  <2> QED
    BY <1>1, <2>1, SettingAssumption DEF ControlOK, Posted
<1> QED
  BY <1>1, <1>2, <1>4, <1>6, <1>7, <1>8, Finite, PendingFinite DEF Permits, One

LEMMA ValueBalance ==
  ASSUME BaseInv, MutexInv, NEW t \in Thread, Goes(t), Enters(t), Touches(t), Row(t), ~Late(t),
         NEW q \in Priority
  PROVE  /\ Permits(q) \in Int /\ sem[q] \in Nat
         /\ q = cur[t] => Permits(q)' = Permits(q) + (sem'[q] - sem[q]) + After(t) - Before(t)
         /\ q # cur[t] => Permits(q)' = Permits(q) + (sem'[q] - sem[q])
<1> DEFINE c == ClientOf[t]
           L == state[c][q] = "Locked"
           M == state'[c][q] = "Locked"
<1>1. /\ Permits(q) \in Int /\ sem[q] \in Nat
      /\ Permits(q)' = Permits(q) + (sem'[q] - sem[q]) + (One(M) - One(L))
                       + (One(t \in Owing(q)') - One(t \in Owing(q)))
                       - (One(t \in Repaid(q)') - One(t \in Repaid(q)))
  BY ThreadBalance
<1>2. ThreadOK /\ ControlOK /\ c \in Client /\ cur[t] \in Priority
  BY ClientAssumption DEF BaseInv, ThreadOK
<1>a. sem'[q] \in Int
  <2>1. \/ sem' = sem \/ sem' = Posted(cur[t])
        \/ sem' = [sem EXCEPT ![cur[t]] = @ - 1]
    BY DEF Touches
  <2> QED
    BY <1>2, <2>1, SettingAssumption DEF ControlOK, Posted
<1>3. CASE q = cur[t]
  <2>1. t \in Owing(q) <=> pc[t] \in Owes \/ (pc[t] \in Returns /\ ~L)
    BY <1>3 DEF Owing, Owes, Returns
  <2>2. t \in Repaid(q) <=> pc[t] \in Repays /\ L
    BY <1>3 DEF Repaid, Repays
  <2>3. t \in Owing(q)' <=> pc'[t] \in Owes \/ (pc'[t] \in Returns /\ ~M)
    BY <1>3 DEF Owing, Owes, Returns, Enters, Inside, Locking, Releasing
  <2>4. t \in Repaid(q)' <=> pc'[t] \in Repays /\ M
    BY <1>3 DEF Repaid, Repays, Enters, Inside, Locking, Releasing
  <2>5. One(L) + One(t \in Owing(q)) - One(t \in Repaid(q)) = Value(pc[t], L)
    BY <2>1, <2>2 DEF One, Value, Owes, Returns, Repays
  <2>6. One(M) + One(t \in Owing(q)') - One(t \in Repaid(q)') = Value(pc'[t], M)
    BY <2>3, <2>4 DEF One, Value, Owes, Returns, Repays
  <2> DEFINE v == Value(pc[t], L)   l == One(L)   o == One(t \in Owing(q))   r == One(t \in Repaid(q))
             w == Value(pc'[t], M)  m == One(M)   n == One(t \in Owing(q)')  k == One(t \in Repaid(q)')
  <2>7. v \in Int
        /\ w \in Int /\ l \in Int /\ o \in Int /\ r \in Int /\ m \in Int /\ n \in Int /\ k \in Int
    BY DEF Value, One
  <2>8. /\ Permits(q)' = Permits(q) + (sem'[q] - sem[q]) + (m - l) + (n - o) - (k - r)
        /\ v = l + o - r /\ w = m + n - k
    BY <1>1, <2>5, <2>6
  <2>9. Permits(q)' = Permits(q) + (sem'[q] - sem[q]) + w - v
    <3> HIDE DEF v, w, l, o, r, m, n, k
    <3> QED
      BY <1>1, <1>a, <2>7, <2>8
  <2> QED
    BY <1>1, <1>3, <2>9 DEF Before, After, Shown, ShownAfter, L, M
<1>4. CASE q # cur[t]
  <2>1. t \notin Owing(q) /\ t \notin Repaid(q)
    BY <1>4 DEF Owing, Repaid
  <2>2. t \notin Owing(q)' /\ t \notin Repaid(q)'
    BY <1>4 DEF Owing, Repaid, Enters, Inside, Locking, Releasing
  <2>3. M <=> L
    BY <1>2, <1>4, ThreadShows
  <2> QED
    BY <1>1, <1>a, <1>4, <2>1, <2>2, <2>3 DEF One
<1> QED
  BY <1>3, <1>4

(* A lock that its client does not end itself is no longer shown: if a       *)
(* thread has decided to give it back, its permit is now counted twice.      *)
Giving(c, q) == \E t \in Thread : ClientOf[t] = c /\ cur[t] = q /\ pc[t] \in Returns \union Repays

LEMMA TakenBalance ==
  ASSUME MutexInv, NEW c \in Client, NEW q \in Priority,
         \A t \in Thread : \/ pc'[t] = pc[t] /\ cur'[t] = cur[t]
                           \/ pc[t] \notin Inside /\ pc'[t] \notin Inside,
         \A k \in Client : k # c => (state'[k][q] = "Locked" <=> state[k][q] = "Locked"),
         state[c][q] = "Locked", state'[c][q] # "Locked"
  PROVE  /\ Cardinality(Lockers(q)') = Cardinality(Lockers(q)) - 1
         /\ Cardinality(Owing(q)') \in Nat /\ Cardinality(Repaid(q)') \in Nat
         /\ Cardinality(Owing(q)') - Cardinality(Repaid(q)')
              = Cardinality(Owing(q)) - Cardinality(Repaid(q)) + One(Giving(c, q))
<1>1. Cardinality(Lockers(q)') = Cardinality(Lockers(q)) - 1
  <2>1. \A x : x # c => (x \in Lockers(q)' <=> x \in Lockers(q))
    BY DEF Lockers
  <2>2. c \in Lockers(q) /\ c \notin Lockers(q)'
    BY DEF Lockers
  <2> QED
    BY <2>1, <2>2, Finite, OneElement DEF One
<1>2. \A t \in Thread : ~(ClientOf[t] = c /\ cur[t] = q /\ pc[t] \in Inside)
        => (t \in Owing(q)' <=> t \in Owing(q)) /\ (t \in Repaid(q)' <=> t \in Repaid(q))
  BY ClientAssumption DEF Owing, Repaid, Inside, Locking, Releasing
<1>3. CASE Giving(c, q)
  <2>1. PICK u \in Thread : ClientOf[u] = c /\ cur[u] = q /\ pc[u] \in Returns \union Repays
    BY <1>3 DEF Giving
  <2>2. \A x : x # u => (x \in Owing(q)' <=> x \in Owing(q)) /\ (x \in Repaid(q)' <=> x \in Repaid(q))
    <3> SUFFICES ASSUME NEW x \in Thread, x # u
                 PROVE  (x \in Owing(q)' <=> x \in Owing(q)) /\ (x \in Repaid(q)' <=> x \in Repaid(q))
      BY DEF Owing, Repaid
    <3>1. ~(ClientOf[x] = c /\ cur[x] = q /\ pc[x] \in Inside)
      BY <2>1 DEF MutexInv, Returns, Repays, Inside, Locking, Releasing
    <3> QED
      BY <1>2, <3>1
  <2>3. CASE pc[u] \in Returns
    <3>1. u \notin Owing(q) /\ u \in Owing(q)' /\ u \notin Repaid(q) /\ u \notin Repaid(q)'
      BY <2>1, <2>3 DEF Owing, Repaid, Returns, Inside, Locking, Releasing
    <3>2. Cardinality(Owing(q)') = Cardinality(Owing(q)) + 1 /\ Cardinality(Owing(q)') \in Nat
      BY <2>2, <3>1, Finite, OneElement DEF One
    <3>3. Cardinality(Repaid(q)') = Cardinality(Repaid(q)) /\ Cardinality(Repaid(q)') \in Nat
      BY <2>2, <3>1, Finite, OneElement DEF One
    <3> QED
      BY <1>1, <1>3, <3>2, <3>3, Finite DEF One
  <2>4. CASE pc[u] \in Repays
    <3>1. u \notin Owing(q) /\ u \notin Owing(q)' /\ u \in Repaid(q) /\ u \notin Repaid(q)'
      BY <2>1, <2>4 DEF Owing, Repaid, Repays, Inside, Locking, Releasing
    <3>2. Cardinality(Owing(q)') = Cardinality(Owing(q)) /\ Cardinality(Owing(q)') \in Nat
      BY <2>2, <3>1, Finite, OneElement DEF One
    <3>3. Cardinality(Repaid(q)') = Cardinality(Repaid(q)) - 1 /\ Cardinality(Repaid(q)') \in Nat
      BY <2>2, <3>1, Finite, OneElement DEF One
    <3> QED
      BY <1>1, <1>3, <3>2, <3>3, Finite DEF One
  <2> QED
    BY <2>1, <2>3, <2>4
<1>4. CASE ~Giving(c, q)
  <2>1. Owing(q)' = Owing(q) /\ Repaid(q)' = Repaid(q)
    <3>1. ASSUME NEW x \in Thread
          PROVE (x \in Owing(q)' <=> x \in Owing(q)) /\ (x \in Repaid(q)' <=> x \in Repaid(q))
      <4>1. CASE ClientOf[x] = c /\ cur[x] = q
        BY <1>4, <4>1 DEF Giving, Owing, Repaid, Returns, Repays, Inside, Locking, Releasing
      <4>2. CASE ~(ClientOf[x] = c /\ cur[x] = q)
        BY <1>2, <4>2
      <4> QED
        BY <4>1, <4>2
    <3> QED
      BY <3>1 DEF Owing, Repaid
  <2> QED
    BY <1>1, <1>4, <2>1, Finite DEF One
<1> QED
  BY <1>3, <1>4

(* The balance of each step of a thread.                                     *)
LEMMA ThreadConserves ==
  ASSUME BaseInv, MutexInv, UnshownInv, NEW t \in Thread, ThreadStep(t) \/ Interrupted(t),
         NEW q \in Priority
  PROVE  /\ Permits(q) \in Int /\ Permits(q)' \in Int /\ Permits(q)' <= Permits(q)
         /\ Permits(q)' < Permits(q) => sem'[q] = MaxPermits \/ LookedLate(q)
<1> DEFINE p == cur[t]
           c == ClientOf[t]
<1>1. Goes(t) /\ Enters(t) /\ Touches(t) /\ Row(t)
  BY ThreadMoves, ThreadTouches, ThreadRows DEF BaseInv, PlaceInv, Moves, UnshownInv
<1>2. ThreadOK /\ ControlOK /\ RecordOK /\ c \in Client /\ p \in Priority
  BY ClientAssumption DEF BaseInv, ThreadOK
<1>3. After(t) \in Int /\ Before(t) \in Int
  BY DEF After, Before, Value, One
<1>4. CASE ~Late(t)
  <2>1. /\ Permits(q) \in Int /\ sem[q] \in Nat /\ sem[q] <= MaxPermits
        /\ q = p => Permits(q)' = Permits(q) + (sem'[q] - sem[q]) + After(t) - Before(t)
        /\ q # p => Permits(q)' = Permits(q) + (sem'[q] - sem[q])
    BY <1>1, <1>2, <1>4, ValueBalance, SettingAssumption DEF ControlOK
  <2>2. CASE sem' = sem /\ After(t) = Before(t)
    BY <1>3, <2>1, <2>2
  <2>3. CASE sem' = Posted(p) /\ Before(t) = After(t) + 1
    <3>1. CASE q = p
      BY <1>2, <1>3, <2>1, <2>3, <3>1, SettingAssumption DEF Posted, ControlOK
    <3>2. CASE q # p
      BY <1>2, <2>1, <2>3, <3>2 DEF Posted, ControlOK
    <3> QED
      BY <3>1, <3>2
  <2>4. CASE sem' = [sem EXCEPT ![p] = sem[p] - 1] /\ After(t) = Before(t) + 1
    <3>1. CASE q = p
      BY <1>2, <1>3, <2>1, <2>4, <3>1 DEF ControlOK
    <3>2. CASE q # p
      BY <1>2, <2>1, <2>4, <3>2 DEF ControlOK
    <3> QED
      BY <3>1, <3>2
  <2> QED
    BY <1>1, <1>4, <2>2, <2>3, <2>4 DEF Row
<1>5. CASE Late(t)
  <2>1. sem' = sem /\ pending' = pending
    BY <1>1, <1>5 DEF Late, Touches, control
  <2>2. \A u \in Thread : \/ pc'[u] = pc[u] /\ cur'[u] = cur[u]
                          \/ pc[u] \notin Inside /\ pc'[u] \notin Inside
    BY <1>1, <1>2, <1>5, OthersStay DEF Late, Inside, Locking, Releasing
  <2>3. /\ sem[q] \in Nat /\ Cardinality(pending[q]) \in Nat
        /\ Cardinality(Lockers(q)) \in Nat /\ Cardinality(Owing(q)) \in Nat
        /\ Cardinality(Repaid(q)) \in Nat
    BY <1>2, Finite, PendingFinite DEF ControlOK
  <2>4. CASE q = p
    <3>1. \A k \in Client : k # c => (state'[k][q] = "Locked" <=> state[k][q] = "Locked")
      BY <1>1, <1>2, ThreadShows
    <3>2. state[c][q] = "Locked" /\ state'[c][q] # "Locked"
      BY <1>5, <2>4 DEF Late, Shown, ShownAfter
    <3>3. LookedLate(q)
      BY <1>5, <2>4, <3>2 DEF LookedLate, Late
    <3> HIDE DEF Giving
    <3>4. One(Giving(c, q)) \in {0, 1}
      BY DEF One
    <3>5. Permits(q)' = Permits(q) - 1 + One(Giving(c, q))
      BY <1>2, <2>1, <2>2, <2>3, <3>1, <3>2, <3>4, TakenBalance DEF Permits
    <3>6. Permits(q) \in Int
      BY <2>3 DEF Permits
    <3> QED
      BY <3>3, <3>4, <3>5, <3>6
  <2>5. CASE q # p
    <3>1. \A k \in Client : state'[k][q] = "Locked" <=> state[k][q] = "Locked"
      BY <1>1, <1>2, <2>5, ThreadShows
    <3>2. Lockers(q)' = Lockers(q)
      BY <3>1 DEF Lockers
    <3>3. Owing(q)' = Owing(q) /\ Repaid(q)' = Repaid(q)
      BY <2>2, <3>1, ClientAssumption DEF Owing, Repaid, Inside, Locking, Releasing
    <3>4. Permits(q)' = Permits(q) /\ Permits(q) \in Int
      BY <2>1, <2>3, <3>2, <3>3 DEF Permits
    <3> QED
      BY <3>4
  <2> QED
    BY <2>4, <2>5
<1> QED
  BY <1>4, <1>5

(* A process that ends takes its debts with it, and nobody else's.           *)
LEMMA EndBalance ==
  ASSUME ThreadOK, NEW c \in Client, NEW q \in Priority, alive[c], Gone(c),
         \A k \in Client : k # c => (state'[k][q] = "Locked" <=> state[k][q] = "Locked")
  PROVE  /\ ~DiedOwing(q) => Owing(q)' = Owing(q)
         /\ ~DiedPosted(q) => Repaid(q)' = Repaid(q)
         /\ Owing(q)' \subseteq Owing(q) /\ Repaid(q)' \subseteq Repaid(q)
<1>1. alive'[c] # alive[c]
  BY DEF Gone, ThreadOK
<1>2. ASSUME NEW t \in Thread, ClientOf[t] = c PROVE t \notin Owing(q)' /\ t \notin Repaid(q)'
  <2>1. pc'[t] = "run"
    BY <1>2 DEF Gone
  <2> QED
    BY <2>1 DEF Owing, Repaid
<1>3. ASSUME NEW t \in Thread, ClientOf[t] # c
      PROVE  (t \in Owing(q)' <=> t \in Owing(q)) /\ (t \in Repaid(q)' <=> t \in Repaid(q))
  <2>1. pc'[t] = pc[t] /\ cur'[t] = cur[t] /\ ClientOf[t] \in Client
    BY <1>3, ClientAssumption DEF Gone
  <2> QED
    BY <1>3, <2>1 DEF Owing, Repaid
<1>4. \A t \in Thread : ClientOf[t] = c => (t \in Owing(q) => DiedOwing(q)) /\ (t \in Repaid(q) => DiedPosted(q))
  BY <1>1 DEF DiedOwing, DiedPosted
<1>5. \A x : /\ (x \in Owing(q)' => x \in Thread) /\ (x \in Owing(q) => x \in Thread)
             /\ (x \in Repaid(q)' => x \in Thread) /\ (x \in Repaid(q) => x \in Thread)
  BY DEF Owing, Repaid
<1> QED
  BY <1>2, <1>3, <1>4, <1>5

(* The manager looks at one lock or record at a time, has not counted it in  *)
(* this pass, and what it has judged holds, unless that is marked late.      *)
ManagerInv ==
  /\ \A x, y \in found : x = y
  /\ \A c \in Client, p \in Priority : <<c, p>> \in found =>
       /\ manager \in {"judge", "force"} => c \notin pending[p]
       /\ manager \in {"force", "clear"} => age[c][p] # Fresh \/ late
  /\ \A c \in Client : <<c, 0>> \in found /\ manager = "remove" => idle[c] \/ late

LEMMA ManagerHeld == Spec => []ManagerInv
<1>1. Init => ManagerInv
  BY DEF Init, ManagerInv
<1>2. ASSUME BaseInv, ManagerInv, [Next]_vars PROVE ManagerInv'
  <2> USE <1>2 DEF BaseInv
  <2>a. 0 \in Priority
    BY SettingAssumption DEF Priority
  <2>1. ASSUME NEW t \in Thread, ThreadStep(t) \/ Interrupted(t) PROVE ManagerInv'
    <3>1. Touches(t)
      BY <2>1, ThreadTouches
    <3>2. manager' = manager /\ found' = found /\ pending' = pending
      BY <3>1 DEF Touches, control
    <3> QED
      BY <3>1, <3>2 DEF Touches, ManagerInv
  <2>2. ASSUME NEW c \in Client, Die(c) \/ Close(c) PROVE ManagerInv'
    <3>1. manager' = manager /\ found' = found /\ pending' = pending /\ late' = late
      BY <2>2 DEF Die, Close, control
    <3>2. \/ record' = record
          \/ /\ age' = [age EXCEPT ![c] = [p \in Priority |-> Overdue]]
             /\ idle' = [idle EXCEPT ![c] = TRUE]
      BY <2>2 DEF Die, Close, RemoveRecord
    <3>3. \A k \in Client : idle[k] => idle'[k]
      BY <3>2 DEF RecordOK, record
    <3>4. \A k \in Client, p \in Priority : age[k][p] # Fresh => age'[k][p] # Fresh
      BY <3>2 DEF RecordOK, record, Overdue, Fresh
    <3> QED
      BY <3>1, <3>3, <3>4 DEF ManagerInv
  <2>3. ASSUME NEW c \in Client, Idle(c) PROVE ManagerInv'
    BY <2>3 DEF Idle, ManagerInv, RecordOK, control
  <2>4. ASSUME NEW c \in Client, FindIdle(c) PROVE ManagerInv'
    BY <2>4 DEF FindIdle, ManagerInv, record
  <2>5. ASSUME NEW c \in Client, Remove(c) \/ RemoveTwice(c) PROVE ManagerInv'
    BY <2>5 DEF Remove, RemoveTwice, ManagerInv
  <2>6. ASSUME NEW c \in Client, NEW p \in Priority, Age(c, p) PROVE ManagerInv'
    <3>1. \A k \in Client, r \in Priority : age[k][r] # Fresh => age'[k][r] # Fresh
      BY <2>6 DEF Age, RecordOK, Fresh, Lapsed, Overdue
    <3>2. UNCHANGED <<manager, found, pending, late, idle>>
      BY <2>6 DEF Age, control
    <3> QED
      BY <3>1, <3>2 DEF ManagerInv
  <2>7. ASSUME NEW c \in Client, NEW p \in Priority, FindLocked(c, p) PROVE ManagerInv'
    BY <2>7 DEF FindLocked, ManagerInv
  <2>8. ASSUME NEW c \in Client, NEW p \in Priority, Judge(c, p) PROVE ManagerInv'
    <3>1. /\ manager = "judge" /\ <<c, p>> \in found /\ UNCHANGED <<age, idle, pending>>
          /\ \/ age[c][p] = Overdue /\ manager' = "force" /\ found' = found
             \/ manager' = "locks" /\ found' = {}
      BY <2>8 DEF Judge, record
    <3>2. CASE age[c][p] = Overdue /\ manager' = "force" /\ found' = found
      <4>1. \A k \in Client, r \in Priority : <<k, r>> \in found => k = c /\ r = p
        BY <3>1 DEF ManagerInv
      <4> QED
        BY <3>1, <3>2, <4>1 DEF ManagerInv, Overdue, Fresh
    <3> QED
      BY <3>1, <3>2 DEF ManagerInv
  <2>9. ASSUME NEW c \in Client, NEW p \in Priority, ForceRelease(c, p) PROVE ManagerInv'
    BY <2>9 DEF ForceRelease, ManagerInv
  <2>10. ASSUME NEW c \in Client, NEW p \in Priority, ClearTime(c, p) PROVE ManagerInv'
    BY <2>10 DEF ClearTime, ManagerInv
  <2>11. CASE PostPending \/ EndRecords
    BY <2>11 DEF PostPending, EndRecords, ManagerInv, record
  <2>12. CASE UNCHANGED vars
    BY <2>12 DEF vars, record, control, ManagerInv
  <2> QED
    BY <2>1, <2>2, <2>3, <2>4, <2>5, <2>6, <2>7, <2>8, <2>9, <2>10, <2>11, <2>12
    DEF Next, ManagerStep
<1> QED
  BY <1>1, <1>2, BaseHeld, PTL DEF Spec

(* Within its lease a lock is only taken away by its own process, by the     *)
(* removal of an idle client, or by a manager whose judgement was overtaken, *)
(* however many clients, threads and priorities.                             *)
THEOREM LeaseKept == Spec => LeaseRespected
<1> DEFINE Respected(c, p) == Taken(c, p) => \/ idle[c] \/ alive'[c] # alive[c]
                                             \/ \E t \in ThreadsOf(c) : pc'[t] # pc[t]
                                             \/ late /\ (\E q \in Priority : <<c, q>> \in found)
<1>1. ASSUME BaseInv, ManagerInv, UnshownInv, [Next]_vars, NEW k \in Client, NEW r \in Priority
      PROVE  Respected(k, r)
  <2> SUFFICES ASSUME Taken(k, r)
               PROVE  \/ idle[k] \/ alive'[k] # alive[k]
                      \/ \E t \in ThreadsOf(k) : pc'[t] # pc[t]
                      \/ late /\ (\E q \in Priority : <<k, q>> \in found)
    BY Zenon
  <2> USE <1>1 DEF BaseInv
  <2>a. /\ state[k][r] = "Locked" /\ age[k][r] = Fresh
        /\ state'[k][r] # state[k][r] \/ age'[k][r] # age[k][r]
        /\ state'[k][r] # "Locked" \/ age'[k][r] = Overdue
    BY DEF Taken, Overdue, Fresh
  <2>b. 0 \in Priority
    BY SettingAssumption DEF Priority
  <2>1. ASSUME NEW t \in Thread, ThreadStep(t) \/ Interrupted(t)
        PROVE  \E u \in ThreadsOf(k) : pc'[u] # pc[u]
    <3>1. Touches(t) /\ Row(t)
      BY <2>1, ThreadTouches, ThreadRows DEF UnshownInv
    <3>2. k = ClientOf[t] /\ r = cur[t]
      BY <2>a, <3>1 DEF Touches
    <3>3. pc'[t] # pc[t]
      BY <2>a, <3>1, <3>2 DEF Row, Shown
    <3> QED
      BY <3>2, <3>3 DEF ThreadsOf
  <2>2. ASSUME NEW c \in Client, Gone(c), Die(c) \/ Close(c) PROVE alive'[k] # alive[k]
    <3>1. c = k
      BY <2>2, <2>a DEF Die, Close, RemoveRecord, record, RecordOK
    <3> QED
      BY <2>2, <3>1 DEF Die, Close, Gone, ThreadOK
  <2>3. ASSUME NEW c \in Client, Remove(c)
        PROVE  idle[k] \/ (late /\ (\E q \in Priority : <<k, q>> \in found))
    <3>1. c = k
      BY <2>3, <2>a DEF Remove, RemoveRecord, RecordOK
    <3> QED
      BY <2>3, <2>b, <3>1 DEF Remove, ManagerInv
  <2>4. ASSUME NEW c \in Client, NEW p \in Priority, ForceRelease(c, p) \/ ClearTime(c, p)
        PROVE  late /\ (\E q \in Priority : <<k, q>> \in found)
    <3>1. c = k /\ p = r
      BY <2>4, <2>a DEF ForceRelease, ClearTime, Set, RecordOK
    <3>2. <<k, r>> \in found /\ manager \in {"force", "clear"}
      BY <2>4, <3>1 DEF ForceRelease, ClearTime
    <3> QED
      BY <2>a, <3>2 DEF ManagerInv
  <2>5. ASSUME NEW c \in Client, NEW p \in Priority, Age(c, p) PROVE FALSE
    BY <2>5, <2>a DEF Age, RecordOK, Fresh, Lapsed, Overdue
  <2>6. ASSUME state' = state, age' = age PROVE FALSE
    BY <2>6, <2>a
  <2>7. ASSUME Still PROVE \/ idle[k]
                           \/ late /\ (\E q \in Priority : <<k, q>> \in found)
    BY <2>3, <2>4, <2>5, <2>6, <2>7
    DEF Still, Idle, FindIdle, RemoveTwice, FindLocked, Judge, PostPending, EndRecords, vars, record
  <2> QED
    BY <2>1, <2>2, <2>7, AllSteps
<1>2. BaseInv /\ ManagerInv /\ UnshownInv /\ [Next]_vars
        => [\A c \in Client, p \in Priority :
              Taken(c, p) => \/ idle[c] \/ alive'[c] # alive[c]
                             \/ \E t \in ThreadsOf(c) : pc'[t] # pc[t]
                             \/ late /\ (\E q \in Priority : <<c, q>> \in found)]_vars
  BY <1>1
<1> QED
  BY <1>2, BaseHeld, ManagerHeld, MutexHeld, PTL DEF Spec, LeaseRespected

(* Permits are neither multiplied nor lost but by the steps that the property *)
(* names, however many clients, threads, priorities and permits.           *)
THEOREM Conservation == Spec => PermitsConserved
<1> DEFINE More(q) == Permits(q)' > Permits(q) => ForcedTwice(q) \/ ForcedGone(q) \/ DiedPosted(q)
           Less(q) == Permits(q)' < Permits(q) => \/ DiedOwing(q) \/ Removed(q) \/ LookedLate(q)
                                                  \/ sem'[q] = MaxPermits
<1>1. ASSUME BaseInv, ManagerInv, MutexInv, UnshownInv, [Next]_vars, NEW q \in Priority
      PROVE  More(q) /\ Less(q)
  <2> USE DEF BaseInv
  <2>a. /\ sem[q] \in Nat /\ Cardinality(pending[q]) \in Nat /\ IsFiniteSet(pending[q])
        /\ Cardinality(Lockers(q)) \in Nat /\ Cardinality(Owing(q)) \in Nat /\ Cardinality(Repaid(q)) \in Nat
    BY <1>1, Finite, PendingFinite DEF ControlOK
  <2>b. Permits(q) \in Int
    BY <2>a DEF Permits
  <2>c. ASSUME Permits(q)' = Permits(q) PROVE More(q) /\ Less(q)
    BY <2>b, <2>c
  <2>1. ASSUME NEW t \in Thread, ThreadStep(t) \/ Interrupted(t) PROVE More(q) /\ Less(q)
    <3>1. /\ Permits(q) \in Int /\ Permits(q)' \in Int /\ Permits(q)' <= Permits(q)
          /\ Permits(q)' < Permits(q) => sem'[q] = MaxPermits \/ LookedLate(q)
      BY <1>1, <2>1, ThreadConserves
    <3> QED
      BY <3>1
  <2>2. ASSUME NEW c \in Client, Die(c) PROVE More(q) /\ Less(q)
    <3>1. sem' = sem /\ pending' = pending /\ state' = state /\ alive[c] /\ Gone(c)
      BY <2>2 DEF Die, record, control
    <3>2. /\ ~DiedOwing(q) => Owing(q)' = Owing(q)
          /\ ~DiedPosted(q) => Repaid(q)' = Repaid(q)
          /\ Owing(q)' \subseteq Owing(q) /\ Repaid(q)' \subseteq Repaid(q)
      BY <1>1, <3>1, EndBalance
    <3>3. Lockers(q)' = Lockers(q)
      BY <3>1 DEF Lockers
    <3>4. /\ Cardinality(Owing(q)') \in Nat /\ Cardinality(Owing(q)') <= Cardinality(Owing(q))
          /\ Cardinality(Repaid(q)') \in Nat /\ Cardinality(Repaid(q)') <= Cardinality(Repaid(q))
      BY <3>2, Finite, FS_Subset, FS_CardinalityType
    <3> QED
      BY <2>a, <3>1, <3>2, <3>3, <3>4 DEF Permits
  <2>3. ASSUME NEW c \in Client, Close(c) PROVE More(q) /\ Less(q)
    <3>1. /\ sem' = sem /\ pending' = pending /\ alive[c] /\ Gone(c)
          /\ \A t \in ThreadsOf(c) : pc[t] \in {"run", "held"}
          /\ IF used[c] THEN RemoveRecord(c) ELSE UNCHANGED record
      BY <2>3 DEF Close, control
    <3>2. \A k \in Client : k # c => (state'[k][q] = "Locked" <=> state[k][q] = "Locked")
      BY <1>1, <3>1 DEF RemoveRecord, record, RecordOK
    <3>3. ~DiedOwing(q) /\ ~DiedPosted(q)
      <4>1. \A t \in Thread : ClientOf[t] = c => t \notin Owing(q) /\ t \notin Repaid(q)
        BY <3>1 DEF Owing, Repaid, ThreadsOf
      <4>2. \A t \in Thread : ClientOf[t] # c => alive'[ClientOf[t]] = alive[ClientOf[t]]
        BY <1>1, <3>1 DEF Gone, ThreadOK
      <4>3. Owing(q) \subseteq Thread /\ Repaid(q) \subseteq Thread
        BY DEF Owing, Repaid
      <4> QED
        BY <4>1, <4>2, <4>3 DEF DiedOwing, DiedPosted
    <3>4. Owing(q)' = Owing(q) /\ Repaid(q)' = Repaid(q)
      BY <1>1, <3>1, <3>2, <3>3, EndBalance
    <3>5. CASE state'[c][q] = "Locked" <=> state[c][q] = "Locked"
      <4>1. Lockers(q)' = Lockers(q)
        BY <3>2, <3>5 DEF Lockers
      <4>2. Permits(q)' = Permits(q)
        BY <3>1, <3>4, <4>1 DEF Permits
      <4> QED
        BY <2>c, <4>2
    <3>6. CASE ~(state'[c][q] = "Locked" <=> state[c][q] = "Locked")
      <4>1. used[c] /\ ~used'[c] /\ state[c][q] = "Locked" /\ state'[c][q] # "Locked"
        BY <1>1, <3>1, <3>6 DEF RemoveRecord, record, RecordOK
      <4>2. Removed(q)
        BY <4>1 DEF Removed, Lockers
      <4>3. \A x : x # c => (x \in Lockers(q)' <=> x \in Lockers(q))
        BY <3>2 DEF Lockers
      <4>4. c \in Lockers(q) /\ c \notin Lockers(q)'
        BY <4>1 DEF Lockers
      <4>5. Cardinality(Lockers(q)') = Cardinality(Lockers(q)) - 1
        BY <4>3, <4>4, Finite, OneElement DEF One
      <4>6. Permits(q)' = Permits(q) - 1
        BY <2>a, <3>1, <3>4, <4>5 DEF Permits
      <4> QED
        BY <2>b, <4>2, <4>6
    <3> QED
      BY <3>5, <3>6
  <2>4. ASSUME NEW c \in Client, Remove(c) PROVE More(q) /\ Less(q)
    <3>1. sem' = sem /\ pending' = pending /\ pc' = pc /\ cur' = cur
      BY <2>4 DEF Remove, thread
    <3>2. \A k \in Client : k # c => (state'[k][q] = "Locked" <=> state[k][q] = "Locked")
      BY <1>1, <2>4 DEF Remove, RemoveRecord, RecordOK
    <3>3. used[c] /\ ~used'[c] /\ state'[c][q] # "Locked"
      BY <1>1, <2>4 DEF Remove, RemoveRecord, RecordOK
    <3>4. CASE state[c][q] = "Locked"
      <4>1. Removed(q)
        BY <3>3, <3>4 DEF Removed, Lockers
      <4>2. Permits(q)' = Permits(q) - 1 + One(Giving(c, q))
        <5> HIDE DEF Giving
        <5>1. One(Giving(c, q)) \in Int
          BY DEF One
        <5> QED
          BY <1>1, <2>a, <3>1, <3>2, <3>3, <3>4, <5>1, TakenBalance DEF Permits
      <4>3. Permits(q)' <= Permits(q) /\ Permits(q)' \in Int
        BY <2>b, <4>2 DEF One
      <4> QED
        BY <2>b, <4>1, <4>3
    <3>5. CASE state[c][q] # "Locked"
      <4>1. \A k \in Client : (state'[k][q] = "Locked" <=> state[k][q] = "Locked")
        BY <3>2, <3>3, <3>5
      <4>2. Lockers(q)' = Lockers(q) /\ Owing(q)' = Owing(q) /\ Repaid(q)' = Repaid(q)
        BY <3>1, <4>1, ClientAssumption DEF Lockers, Owing, Repaid
      <4>3. Permits(q)' = Permits(q)
        BY <3>1, <4>2 DEF Permits
      <4> QED
        BY <2>c, <4>3
    <3> QED
      BY <3>4, <3>5
  <2>5. ASSUME NEW c \in Client, NEW p \in Priority, ForceRelease(c, p) PROVE More(q) /\ Less(q)
    <3>1. /\ sem' = sem /\ pc' = pc /\ cur' = cur /\ manager = "force" /\ <<c, p>> \in found
          /\ state' = [state EXCEPT ![c][p] = "ForceReleased"]
          /\ pending' = [pending EXCEPT ![p] = @ \union {c}]
      BY <2>5 DEF ForceRelease, thread, Set
    <3>2. CASE q = p
      <4>1. \A k \in Client : k # c => (state'[k][q] = "Locked" <=> state[k][q] = "Locked")
        BY <1>1, <3>1 DEF RecordOK
      <4>2. state'[c][q] = "ForceReleased"
        BY <1>1, <3>1, <3>2 DEF RecordOK
      <4>3. pending'[q] = pending[q] \union {c} /\ c \notin pending[q]
        BY <1>1, <3>1, <3>2 DEF ControlOK, ManagerInv
      <4>4. Cardinality(pending'[q]) = Cardinality(pending[q]) + 1
        BY <2>a, <4>3, FS_AddElement
      <4>5. CASE state[c][q] = "Locked"
        <5>1. One(Giving(c, q)) \in {0, 1} /\ (One(Giving(c, q)) # 0 => Giving(c, q))
          BY DEF One
        <5>2. Giving(c, q) => ForcedTwice(q)
          BY <4>2, <4>5 DEF Giving, ForcedTwice, Returns, Repays, GivingBack
        <5>3. Permits(q)' = Permits(q) + One(Giving(c, q))
          <6> HIDE DEF Giving
          <6> QED
            BY <1>1, <2>a, <3>1, <4>1, <4>2, <4>4, <4>5, <5>1, TakenBalance DEF Permits
        <5> QED
          BY <2>b, <5>1, <5>2, <5>3
      <4>6. CASE state[c][q] # "Locked"
        <5>1. ForcedGone(q)
          BY <3>1, <3>2, <4>3, <4>6 DEF ForcedGone
        <5>2. \A k \in Client : state'[k][q] = "Locked" <=> state[k][q] = "Locked"
          BY <4>1, <4>2, <4>6
        <5>3. Lockers(q)' = Lockers(q) /\ Owing(q)' = Owing(q) /\ Repaid(q)' = Repaid(q)
          BY <3>1, <5>2, ClientAssumption DEF Lockers, Owing, Repaid
        <5>4. Permits(q)' = Permits(q) + 1
          BY <2>a, <3>1, <4>4, <5>3 DEF Permits
        <5> QED
          BY <2>b, <5>1, <5>4
      <4> QED
        BY <4>5, <4>6
    <3>3. CASE q # p
      <4>1. \A k \in Client : state'[k][q] = state[k][q]
        BY <1>1, <3>1, <3>3 DEF RecordOK
      <4>2. Lockers(q)' = Lockers(q) /\ Owing(q)' = Owing(q) /\ Repaid(q)' = Repaid(q)
        BY <3>1, <4>1, ClientAssumption DEF Lockers, Owing, Repaid
      <4>3. pending'[q] = pending[q]
        BY <1>1, <3>1, <3>3 DEF ControlOK
      <4>4. Permits(q)' = Permits(q)
        BY <3>1, <4>2, <4>3 DEF Permits
      <4> QED
        BY <2>c, <4>4
    <3> QED
      BY <3>2, <3>3
  <2>6. CASE PostPending
    <3>1. pending'[q] = {} /\ state' = state /\ pc' = pc /\ cur' = cur
          /\ sem'[q] = IF sem[q] + Cardinality(pending[q]) > MaxPermits THEN MaxPermits
                       ELSE sem[q] + Cardinality(pending[q])
      BY <2>6 DEF PostPending, record, thread
    <3>2. Lockers(q)' = Lockers(q) /\ Owing(q)' = Owing(q) /\ Repaid(q)' = Repaid(q)
      BY <3>1 DEF Lockers, Owing, Repaid
    <3>3. Cardinality(pending'[q]) = 0
      BY <3>1, FS_EmptySet
    <3>4. \/ Permits(q)' = Permits(q)
          \/ Permits(q)' \in Int /\ Permits(q)' < Permits(q) /\ sem'[q] = MaxPermits
      BY <2>a, <3>1, <3>2, <3>3, SettingAssumption DEF Permits
    <3> QED
      BY <2>b, <2>c, <3>4
  <2>7. ASSUME sem' = sem, pending' = pending, state' = state, pc' = pc, cur' = cur
        PROVE More(q) /\ Less(q)
    <3>1. Permits(q)' = Permits(q)
      BY <2>7 DEF Permits, Lockers, Owing, Repaid
    <3> QED
      BY <2>c, <3>1
  <2>8. ASSUME Still PROVE More(q) /\ Less(q)
    <3>1. \/ \E c \in Client : Remove(c) \/ \E p \in Priority : ForceRelease(c, p)
          \/ PostPending
          \/ sem' = sem /\ pending' = pending /\ state' = state
      BY <2>8 DEF Still, Idle, FindIdle, RemoveTwice, Age, FindLocked, Judge, ClearTime, EndRecords,
         vars, record, control
    <3>2. pc' = pc /\ cur' = cur
      BY <2>8, StillThreads DEF thread
    <3> HIDE DEF More, Less
    <3> QED
      BY <2>4, <2>5, <2>6, <2>7, <3>1, <3>2
  <2> HIDE DEF More, Less
  <2> QED
    BY <1>1, <2>1, <2>2, <2>3, <2>8, AllSteps
<1>2. BaseInv /\ ManagerInv /\ MutexInv /\ UnshownInv /\ [Next]_vars
        => [\A p \in Priority :
              /\ Permits(p)' > Permits(p) => ForcedTwice(p) \/ ForcedGone(p) \/ DiedPosted(p)
              /\ Permits(p)' < Permits(p) => \/ DiedOwing(p) \/ Removed(p) \/ LookedLate(p)
                                             \/ sem'[p] = MaxPermits]_vars
  BY <1>1
<1> QED
  BY <1>2, BaseHeld, ManagerHeld, MutexHeld, PTL DEF Spec, PermitsConserved


(* Of the subsets of a finite set with some property, one has no smaller one *)
(* with it: the form of induction that these proofs use.                     *)
LEMMA SmallestSubset ==
  ASSUME NEW S, IsFiniteSet(S), NEW T \in SUBSET (SUBSET S), T # {}
  PROVE  \E s \in T : \A u \in T : u \subseteq s => u = s
<1>1. IsWellFoundedOn(StrictSubsetOrdering(S), SUBSET S)
  BY FS_StrictSubsetOrderingWellFounded, FS_FiniteSubsetsOfFinite
<1>2. PICK s \in T : \A u \in T : <<u, s>> \notin StrictSubsetOrdering(S)
  BY <1>1, WFMin, Zenon
<1>3. \A u \in T : u \subseteq s => u = s
  BY <1>2 DEF StrictSubsetOrdering
<1> QED
  BY <1>3

(* The sum of the counts that the threads of S have at p, and the function   *)
(* that computes it subset by subset.                                        *)
CountSum(F, p, S) == MapThenSumSet(LAMBDA t : F[t][p], S)
Some(s) == CHOOSE t \in s : TRUE
Adds(g, F, p, S) ==
  g = [s \in SUBSET S |-> IF s = {} THEN 0 ELSE F[Some(s)][p] + g[s \ {Some(s)}]]

LEMMA SumByParts ==
  ASSUME NEW F, NEW p, NEW S
  PROVE  CountSum(F, p, S) = (CHOOSE g : Adds(g, F, p, S))[S]
BY Zenon DEF CountSum, MapThenSumSet, MapThenFoldSet, Adds, Some

LEMMA SomeElement ==
  ASSUME NEW s, s # {}
  PROVE  Some(s) \in s
BY DEF Some

(* Two such functions agree where both are defined.                          *)
LEMMA SumUnique ==
  ASSUME NEW F, NEW p, NEW S, IsFiniteSet(S), NEW A \in SUBSET S, NEW B \in SUBSET S,
         NEW g, Adds(g, F, p, A), NEW h, Adds(h, F, p, B)
  PROVE  \A s \in SUBSET (A \cap B) : g[s] = h[s]
<1> DEFINE Bad == {s \in SUBSET (A \cap B) : g[s] # h[s]}
<1>1. ASSUME Bad # {} PROVE FALSE
  <2>1. Bad \in SUBSET (SUBSET S)
    OBVIOUS
  <2>2. PICK s \in Bad : \A u \in Bad : u \subseteq s => u = s
    <3> HIDE DEF Bad
    <3> QED
      BY <1>1, <2>1, SmallestSubset
  <2>3. s \in SUBSET A /\ s \in SUBSET B /\ g[s] # h[s]
    OBVIOUS
  <2>4. CASE s = {}
    BY <2>3, <2>4 DEF Adds
  <2>5. CASE s # {}
    <3> DEFINE x == Some(s)
    <3>1. x \in s
      BY <2>5, SomeElement
    <3>2. g[s] = F[x][p] + g[s \ {x}] /\ h[s] = F[x][p] + h[s \ {x}]
      BY <2>3, <2>5 DEF Adds
    <3>3. s \ {x} \in SUBSET (A \cap B) /\ s \ {x} # s
      BY <2>3, <3>1
    <3>4. s \ {x} \notin Bad
      BY <2>2, <3>3
    <3> QED
      BY <2>3, <3>2, <3>3, <3>4
  <2> QED
    BY <2>4, <2>5
<1> QED
  BY <1>1

LEMMA SumExists ==
  ASSUME NEW F, NEW p, NEW S, IsFiniteSet(S)
  PROVE  \E g : Adds(g, F, p, S)
<1> DEFINE Bad == {s \in SUBSET S : ~ \E g : Adds(g, F, p, s)}
<1>1. ASSUME Bad # {} PROVE FALSE
  <2>1. Bad \in SUBSET (SUBSET S)
    OBVIOUS
  <2>2. PICK s \in Bad : \A u \in Bad : u \subseteq s => u = s
    <3> HIDE DEF Bad
    <3> QED
      BY <1>1, <2>1, SmallestSubset
  <2> DEFINE H(u) == CHOOSE g : Adds(g, F, p, u)
             Rest(u) == u \ {Some(u)}
             G == [u \in SUBSET s |-> IF u = {} THEN 0 ELSE F[Some(u)][p] + H(Rest(u))[Rest(u)]]
  <2>3. ASSUME NEW u \in SUBSET s, u # s PROVE Adds(H(u), F, p, u)
    <3>1. \E g : Adds(g, F, p, u)
      BY <2>2, <2>3
    <3> QED
      BY <3>1, Zenon
  <2>4. ASSUME NEW u \in SUBSET s, u # {} PROVE G[Rest(u)] = H(Rest(u))[Rest(u)]
    <3> DEFINE w == Rest(u)
    <3>1. w \in SUBSET s /\ w # s
      BY <2>4, SomeElement
    <3>2. Adds(H(w), F, p, w)
      BY <3>1, <2>3
    <3>3. CASE w = {}
      <4>1. H(w)[w] = 0
        <5> HIDE DEF H, w
        <5> QED
          BY <3>2, <3>3 DEF Adds
      <4> QED
        BY <3>1, <3>3, <4>1
    <3>4. CASE w # {}
      <4>1. H(w)[w] = F[Some(w)][p] + H(w)[Rest(w)]
        <5> HIDE DEF H, w
        <5> QED
          BY <3>2, <3>4 DEF Adds
      <4>2. Rest(w) \in SUBSET w /\ Rest(w) \in SUBSET s /\ Rest(w) # s
        BY <3>1, <3>4, SomeElement
      <4>3. Adds(H(Rest(w)), F, p, Rest(w))
        BY <4>2, <2>3
      <4>4. H(w)[Rest(w)] = H(Rest(w))[Rest(w)]
        <5> HIDE DEF H, w, Rest
        <5>1. w \in SUBSET S /\ Rest(w) \in SUBSET S /\ Rest(w) \in SUBSET (w \cap Rest(w))
          BY <3>1, <4>2
        <5>2. \A v \in SUBSET (w \cap Rest(w)) : H(w)[v] = H(Rest(w))[v]
          <6> DEFINE v == Rest(w)  g == H(w)  h == H(v)
          <6>1. w \in SUBSET S /\ v \in SUBSET S /\ Adds(g, F, p, w) /\ Adds(h, F, p, v)
            BY <3>2, <4>3, <5>1
          <6> HIDE DEF v, g, h
          <6>2. \A u1 \in SUBSET (w \cap v) : g[u1] = h[u1]
            BY <6>1, SumUnique
          <6> QED
            BY <6>2 DEF v, g, h
        <5> QED
          BY <5>1, <5>2
      <4>5. G[w] = F[Some(w)][p] + H(Rest(w))[Rest(w)]
        <5> HIDE DEF H, w, Rest
        <5> QED
          BY <3>1, <3>4
      <4> HIDE DEF H, G
      <4> QED
        BY <4>1, <4>4, <4>5
    <3> QED
      BY <3>3, <3>4
  <2>5. Adds(G, F, p, s)
    <3>1. G = [u \in SUBSET s |-> IF u = {} THEN 0 ELSE F[Some(u)][p] + G[u \ {Some(u)}]]
      <4>1. \A u \in SUBSET s : u # {} => G[u \ {Some(u)}] = H(Rest(u))[Rest(u)]
        BY <2>4
      <4> HIDE DEF H
      <4> QED
        BY <4>1
    <3> QED
      BY <3>1 DEF Adds
  <2> QED
    BY <2>2, <2>5
<1>2. S \notin Bad
  BY <1>1
<1> QED
  BY <1>2

LEMMA SumAdds ==
  ASSUME NEW F, NEW p, NEW S, IsFiniteSet(S)
  PROVE  \E g : Adds(g, F, p, S) /\ CountSum(F, p, S) = g[S]
<1> DEFINE g == CHOOSE g : Adds(g, F, p, S)
<1>1. Adds(g, F, p, S)
  BY SumExists, Zenon
<1>2. CountSum(F, p, S) = g[S]
  BY SumByParts, Zenon
<1> HIDE DEF g
<1> QED
  BY <1>1, <1>2

(* The sum is a natural number, none of the counts exceeds it, and it is zero *)
(* only if they are.                                                         *)
LEMMA SumBounds ==
  ASSUME NEW F, NEW p, NEW S, IsFiniteSet(S), \A t \in S : F[t][p] \in Nat
  PROVE  /\ CountSum(F, p, S) \in Nat
         /\ \A t \in S : F[t][p] <= CountSum(F, p, S)
         /\ CountSum(F, p, S) > 0 => \E t \in S : F[t][p] > 0
<1>1. PICK g : Adds(g, F, p, S) /\ CountSum(F, p, S) = g[S]
  BY SumAdds
<1> DEFINE Good(s) == /\ g[s] \in Nat
                      /\ \A t \in s : F[t][p] <= g[s]
                      /\ g[s] > 0 => \E t \in s : F[t][p] > 0
           Bad == {s \in SUBSET S : ~Good(s)}
<1>2. ASSUME Bad # {} PROVE FALSE
  <2>1. Bad \in SUBSET (SUBSET S)
    OBVIOUS
  <2>2. PICK s \in Bad : \A u \in Bad : u \subseteq s => u = s
    <3> HIDE DEF Bad
    <3> QED
      BY <1>2, <2>1, SmallestSubset
  <2>3. CASE s = {}
    <3>1. g[s] = 0
      BY <1>1, <2>3 DEF Adds
    <3> QED
      BY <2>2, <2>3, <3>1
  <2>4. CASE s # {}
    <3> DEFINE x == Some(s)
               r == s \ {x}
    <3>1. x \in s
      BY <2>4, SomeElement
    <3> HIDE DEF x
    <3>2. g[s] = F[x][p] + g[r]
      BY <1>1, <2>4 DEF Adds, x
    <3>3. Good(r)
      BY <2>2, <3>1
    <3>4. F[x][p] \in Nat /\ s = r \union {x}
      BY <3>1
    <3> HIDE DEF r
    <3>5. Good(s)
      BY <3>2, <3>3, <3>4
    <3> QED
      BY <3>5
  <2> QED
    BY <2>3, <2>4
<1>3. Good(S)
  BY <1>2
<1> QED
  BY <1>1, <1>3

(* A change of one count changes the sum by as much.                         *)
LEMMA SumChanges ==
  ASSUME NEW F, NEW G, NEW p, NEW S, IsFiniteSet(S), \A t \in S : F[t][p] \in Int,
         NEW e \in S, NEW d \in Int, G[e][p] = F[e][p] + d,
         \A t \in S \ {e} : G[t][p] = F[t][p]
  PROVE  CountSum(F, p, S) \in Int /\ CountSum(G, p, S) = CountSum(F, p, S) + d
<1>1. PICK f : Adds(f, F, p, S) /\ CountSum(F, p, S) = f[S]
  BY SumAdds
<1>2. PICK g : Adds(g, G, p, S) /\ CountSum(G, p, S) = g[S]
  BY SumAdds
<1> DEFINE Good(s) == f[s] \in Int /\ g[s] = IF e \in s THEN f[s] + d ELSE f[s]
           Bad == {s \in SUBSET S : ~Good(s)}
<1>3. ASSUME Bad # {} PROVE FALSE
  <2>1. Bad \in SUBSET (SUBSET S)
    OBVIOUS
  <2>2. PICK s \in Bad : \A u \in Bad : u \subseteq s => u = s
    <3> HIDE DEF Bad
    <3> QED
      BY <1>3, <2>1, SmallestSubset
  <2>3. CASE s = {}
    <3>1. f[s] = 0 /\ g[s] = 0
      BY <1>1, <1>2, <2>3 DEF Adds
    <3> QED
      BY <2>2, <2>3, <3>1
  <2>4. CASE s # {}
    <3> DEFINE x == Some(s)
               r == s \ {x}
    <3>1. x \in s
      BY <2>4, SomeElement
    <3> HIDE DEF x
    <3>2. f[s] = F[x][p] + f[r] /\ g[s] = G[x][p] + g[r]
      BY <1>1, <1>2, <2>4 DEF Adds, x
    <3>3. Good(r)
      BY <2>2, <3>1
    <3>4. F[x][p] \in Int /\ s = r \union {x} /\ x \notin r /\ x \in S
      BY <3>1
    <3> HIDE DEF r
    <3>5. Good(s)
      BY <3>2, <3>3, <3>4
    <3> QED
      BY <3>5
  <2> QED
    BY <2>3, <2>4
<1>4. Good(S)
  BY <1>3
<1> QED
  BY <1>1, <1>2, <1>4

(* The same counts have the same sum.                                        *)
LEMMA SumSame ==
  ASSUME NEW F, NEW G, NEW p, NEW S, IsFiniteSet(S), \A t \in S : F[t][p] \in Int,
         \A t \in S : G[t][p] = F[t][p]
  PROVE  CountSum(G, p, S) = CountSum(F, p, S)
<1>1. CASE S = {}
  <2>1. PICK f : Adds(f, F, p, S) /\ CountSum(F, p, S) = f[S]
    BY SumAdds
  <2>2. PICK g : Adds(g, G, p, S) /\ CountSum(G, p, S) = g[S]
    BY SumAdds
  <2> QED
    BY <1>1, <2>1, <2>2 DEF Adds
<1>2. CASE S # {}
  <2>1. PICK e : e \in S
    BY <1>2
  <2>2. F[e][p] \in Int /\ G[e][p] = F[e][p] + 0
    BY <2>1
  <2>3. CountSum(F, p, S) \in Int /\ CountSum(G, p, S) = CountSum(F, p, S) + 0
    BY <2>1, <2>2, SumChanges
  <2> QED
    BY <2>3
<1> QED
  BY <1>1, <1>2


(* What a thread has counted and not yet begun to give back.                 *)
Keeps(t) == IF pc[t] \in {"took", "stamp"} THEN Entitled(t) \union {cur[t]} ELSE Entitled(t)

(* A step changes that at most at the priority that the thread is at.        *)
KeepsRow(t) ==
  /\ \A q \in Priority : q # cur[t] => (q \in Keeps(t)' <=> q \in Keeps(t))
  /\ pc[t] \notin Polls /\ pc'[t] \in {"run", "unlock"} => cur[t] \notin Keeps(t)'
  /\ pc[t] \in Polls => cur[t] \in Keeps(t)'

LEMMA KeepsMoves ==
  ASSUME ThreadOK, NEW t \in Thread, PlaceOK(t), ThreadStep(t) \/ Interrupted(t)
  PROVE  KeepsRow(t)
<1>a. /\ cur[t] \in Int /\ low[t] \in Int /\ base[t] \in Int /\ cur[t] >= 0 /\ base[t] >= 0
      /\ \A q \in Priority : q \in Int /\ q >= 0
  BY SettingAssumption DEF ThreadOK, Priority
<1>c. pc[t] = "wait" /\ cur[t] # base[t] => cur[t] = low[t] - 1 /\ low[t] <= base[t]
  BY DEF PlaceOK, Locking
<1> HIDE DEF Priority
<1>b. \A label : Goto(t, label) => pc'[t] = label
  BY DEF Goto, ThreadOK
<1> DEFINE Up == {"run", "lock"} \union Locking
           Down == {"held", "unlock"} \union Releasing
<1>d. \A label : GotoBase(t, label) =>
        pc'[t] = label /\ cur'[t] = base[t] /\ low'[t] = low[t] /\ base'[t] = base[t]
  BY <1>b DEF GotoBase, ThreadOK
<1>e. Return(t) => pc'[t] = "run"
  BY <1>b DEF Return
<1>f. ASSUME NEW label, Goto(t, label), UNCHANGED <<base, low, cur>>,
             \/ pc[t] \in Up \ {"took", "stamp"} /\ label \in Locking
             \/ pc[t] = "took" /\ label = "stamp"
             \/ pc[t] \in Down /\ label \in Releasing
             \/ pc[t] \in Polls /\ label \in Polls
      PROVE  KeepsRow(t)
  <2>1. pc'[t] = label /\ cur'[t] = cur[t] /\ low'[t] = low[t] /\ base'[t] = base[t]
    BY <1>b, <1>f
  <2>2. CASE pc[t] \in Up \ {"took", "stamp"} /\ label \in Locking
    BY <1>a, <2>1, <2>2 DEF KeepsRow, Keeps, Entitled, PlaceOK, Locking, Releasing, Polls
  <2>3. CASE pc[t] = "took" /\ label = "stamp"
    BY <1>a, <2>1, <2>3 DEF KeepsRow, Keeps, Entitled, PlaceOK, Locking, Releasing, Polls
  <2>4. CASE pc[t] \in Down /\ label \in Releasing
    BY <1>a, <2>1, <2>4 DEF KeepsRow, Keeps, Entitled, PlaceOK, Locking, Releasing, Polls
  <2>5. CASE pc[t] \in Polls /\ label \in Polls
    BY <1>a, <2>1, <2>5 DEF KeepsRow, Keeps, Entitled, PlaceOK, Locking, Releasing, Polls
  <2> QED
    BY <1>f, <2>2, <2>3, <2>4, <2>5
<1>g. ASSUME Return(t), \/ pc[t] \in Up \ {"took", "stamp"} /\ cur[t] = base[t]
                        \/ pc[t] \in Down /\ cur[t] = low[t]
      PROVE  KeepsRow(t)
  <2>1. \A q : q \notin Keeps(t)'
    BY <1>e, <1>g DEF Keeps, Entitled, Locking, Releasing
  <2>2. \A q \in Priority : q # cur[t] => q \notin Keeps(t)
    BY <1>a, <1>g DEF Keeps, Entitled, Locking, Releasing, PlaceOK
  <2> HIDE DEF Keeps
  <2> QED
    BY <1>g, <2>1, <2>2 DEF KeepsRow, Locking, Releasing, Polls
<1>h. ASSUME NextRelease(t), pc[t] \in Down PROVE KeepsRow(t)
  <2>1. CASE cur[t] > low[t]
    <3>1. pc'[t] = "unlock" /\ cur'[t] = cur[t] - 1 /\ low'[t] = low[t] /\ base'[t] = base[t]
      BY <1>b, <1>h, <2>1 DEF NextRelease, ThreadOK
    <3> QED
      BY <1>a, <1>h, <2>1, <3>1 DEF KeepsRow, Keeps, Entitled, PlaceOK, Locking, Releasing, Polls
  <2>2. CASE ~(cur[t] > low[t])
    <3>1. Return(t) /\ cur[t] = low[t]
      BY <1>a, <1>h, <2>2 DEF NextRelease, PlaceOK, Releasing
    <3> QED
      BY <1>g, <1>h, <3>1
  <2> QED
    BY <2>1, <2>2
<1>i. ASSUME Undo(t), \/ pc[t] \in Up \ {"took", "stamp"} /\ cur[t] # base[t]
                      \/ pc[t] \in Polls
      PROVE  KeepsRow(t)
  <2>1. pc'[t] = "unlock" /\ cur'[t] = base[t] /\ low'[t] = low[t] /\ base'[t] = base[t]
    BY <1>d, <1>i DEF Undo
  <2>2. CASE pc[t] \in Polls
    BY <1>a, <2>1, <2>2 DEF KeepsRow, Keeps, Entitled, PlaceOK, Locking, Releasing, Polls
  <2>3. CASE pc[t] \in Up \ {"took", "stamp"} /\ cur[t] # base[t]
    BY <1>a, <2>1, <2>3 DEF KeepsRow, Keeps, Entitled, PlaceOK, Locking, Releasing, Polls
  <2> QED
    BY <1>i, <2>2, <2>3
<1>j. ASSUME Refused(t, cur[t]), pc[t] \in Up \ {"took", "stamp"} PROVE KeepsRow(t)
  BY <1>g, <1>i, <1>j DEF Refused
<1>k. ASSUME Granted(t, cur[t]), pc[t] \in {"look", "stamp"} PROVE KeepsRow(t)
  <2>1. /\ pc'[t] = IF cur[t] = 0 THEN "held" ELSE "poll"
        /\ low'[t] = cur[t] /\ cur'[t] = base[t] /\ base'[t] = base[t]
    BY <1>b, <1>k DEF Granted, ThreadOK
  <2>2. CASE cur[t] = 0
    BY <1>a, <1>k, <2>1, <2>2 DEF KeepsRow, Keeps, Entitled, PlaceOK, Locking, Releasing, Polls
  <2>3. CASE cur[t] # 0
    BY <1>a, <1>k, <2>1, <2>3 DEF KeepsRow, Keeps, Entitled, PlaceOK, Locking, Releasing, Polls
  <2> QED
    BY <2>2, <2>3
<1>l. ASSUME GotoBase(t, "poll"), pc[t] = "wait", cur[t] # base[t] PROVE KeepsRow(t)
  BY <1>a, <1>c, <1>d, <1>l DEF KeepsRow, Keeps, Entitled, Locking, Releasing, Polls
<1>m. ASSUME PollValid(t) PROVE KeepsRow(t)
  <2>1. /\ pc[t] = "plook" /\ low'[t] = low[t] /\ base'[t] = base[t]
        /\ \/ pc'[t] = "poll" /\ cur[t] > low[t]
           \/ pc'[t] = "lock" /\ cur'[t] = low[t] - 1
    BY <1>b, <1>m DEF PollValid, At, ThreadOK
  <2> QED
    BY <1>a, <2>1 DEF KeepsRow, Keeps, Entitled, PlaceOK, Locking, Releasing, Polls
<1> HIDE DEF KeepsRow, Return

<1>1. ASSUME NEW p \in Priority, FindLock(t, p) PROVE KeepsRow(t)
  BY <1>1, <1>f DEF FindLock, Attempt, At, Locking, Releasing, Polls
<1>2. ASSUME NEW p \in Priority, FindNone(t, p) PROVE KeepsRow(t)
  BY <1>2, <1>f DEF FindNone, Attempt, At, Locking, Releasing, Polls
<1>3. ASSUME NEW p \in Priority, FindRefund(t, p) PROVE KeepsRow(t)
  BY <1>3, <1>f DEF FindRefund, Attempt, At, Locking, Releasing, Polls
<1>4. ASSUME NEW p \in Priority, BeRefused(t, p) PROVE KeepsRow(t)
  BY <1>4, <1>j DEF BeRefused, Attempt, At, Locking
<1>5. ASSUME NEW p \in Priority, FindForced(t, p) PROVE KeepsRow(t)
  BY <1>5, <1>f DEF FindForced, Attempt, At, Locking, Releasing, Polls
<1>6. CASE Refund(t)
  BY <1>6, <1>f, <1>h DEF Refund, At, Locking, Releasing
<1>7. CASE Join(t)
  BY <1>7, <1>k DEF Join, Look, At
<1>8. CASE FindExpired(t)
  BY <1>8, <1>f DEF FindExpired, Look, At, Locking, Releasing, Polls
<1>9. CASE FindSpent(t)
  BY <1>9, <1>f DEF FindSpent, Look, At, Locking, Releasing, Polls
<1>10. CASE Take(t)
  BY <1>10, <1>f DEF Take, At, Locking, Releasing, Polls
<1>11. CASE TryAgain(t)
  BY <1>11, <1>l DEF TryAgain, At
<1>12. CASE UpdateState(t)
  BY <1>12, <1>f DEF UpdateState, At, Locking, Releasing, Polls
<1>13. CASE UpdateTime(t)
  BY <1>13, <1>k DEF UpdateTime, At
<1>14. CASE TimeOut(t)
  BY <1>14, <1>i DEF TimeOut, At, Polls
<1>15. CASE PollLock(t)
  BY <1>15, <1>f DEF PollLock, Poll, At, Locking, Releasing, Polls
<1>16. CASE PollLost(t)
  BY <1>16, <1>f, <1>i DEF PollLost, Poll, At, Polls
<1>17. CASE PollValid(t)
  BY <1>17, <1>m DEF PollValid
<1>18. CASE PollExpired(t)
  BY <1>18, <1>i DEF PollExpired, Look, At, Polls
<1>19. CASE PollClear(t)
  BY <1>19, <1>i DEF PollClear, At, Polls
<1>20. CASE ResetExpired(t)
  BY <1>20, <1>f DEF ResetExpired, Reset, IfLocked, At, Locking, Releasing
<1>21. CASE ResetSpent(t)
  BY <1>21, <1>f DEF ResetSpent, Reset, IfLocked, At, Locking, Releasing
<1>22. CASE FreeExpired(t)
  BY <1>22, <1>f DEF FreeExpired, Free, At, Locking, Releasing, Polls
<1>23. CASE KeepSpent(t)
  BY <1>23, <1>f DEF KeepSpent, At, Locking, Releasing, Polls
<1>24. CASE PostExpired(t)
  BY <1>24, <1>f DEF PostExpired, Post, At, Locking, Releasing, Polls
<1>25. CASE PostSpent(t)
  BY <1>25, <1>j DEF PostSpent, Post, At, Locking
<1>26. CASE PostOverrun(t)
  BY <1>26, <1>h DEF PostOverrun, Post, At, Releasing
<1>27. CASE NotMine(t)
  BY <1>27, <1>h DEF NotMine, Unlocking, At, Releasing
<1>28. CASE UnlockLock(t)
  BY <1>28, <1>f DEF UnlockLock, Unlock, Unlocking, At, Locking, Releasing, Polls
<1>29. CASE UnlockForced(t)
  BY <1>29, <1>h DEF UnlockForced, Unlock, Unlocking, At, Releasing
<1>30. CASE UnlockNothing(t)
  BY <1>30, <1>f, <1>h DEF UnlockNothing, Unlock, Unlocking, At, Releasing
<1>31. CASE UnlockExpired(t)
  BY <1>31, <1>f DEF UnlockExpired, Look, At, Locking, Releasing, Polls
<1>32. CASE CountDown(t)
  BY <1>32, <1>f, <1>h DEF CountDown, Look, At, Releasing
<1>33. CASE UnlockPost(t)
  BY <1>33, <1>f DEF UnlockPost, Post, At, Locking, Releasing, Polls
<1>34. CASE UnlockRecord(t)
  BY <1>34, <1>f, <1>h DEF UnlockRecord, At, Releasing
<1>35. CASE UnlockFree(t)
  BY <1>35, <1>h DEF UnlockFree, Free, At, Releasing
<1>36. CASE Interrupted(t)
  BY <1>36, <1>g DEF Interrupted, At, Locking
<1> QED
  BY <1>1, <1>2, <1>3, <1>4, <1>5, <1>6, <1>7, <1>8, <1>9, <1>10, <1>11, <1>12, <1>13, <1>14,
     <1>15, <1>16, <1>17, <1>18, <1>19, <1>20, <1>21, <1>22, <1>23, <1>24, <1>25, <1>26, <1>27,
     <1>28, <1>29, <1>30, <1>31, <1>32, <1>33, <1>34, <1>35, <1>36 DEF ThreadStep


(* What is in the books of the processes, and what a step of a thread does   *)
(* to them.                                                                  *)
ShapeOK == /\ count \in [Client -> [Priority -> Int]]
           /\ p_counts \in [Thread -> [Priority -> Int]]
           /\ id \in [Thread -> [Priority -> BOOLEAN]]
           /\ stranded \in [Client -> [Priority -> BOOLEAN]]
Books(t) == \/ UNCHANGED <<process, stranded>> /\ (pc[t] \in Polls => state' = state)
            \/ pc[t] \notin Polls /\ Count(t, cur[t]) /\ stranded' = stranded
            \/ pc[t] \notin Polls /\ ResetCounts(ClientOf[t], cur[t])
            \/ pc[t] \notin Polls /\ CountDown(t) /\ stranded' = stranded
            \/ PollClear(t) /\ process' = process

LEMMA ThreadBooks ==
  ASSUME NEW t \in Thread, ThreadStep(t) \/ Interrupted(t)
  PROVE  Books(t)

<1> USE DEF Books, Polls, At
<1>1. ASSUME NEW p \in Priority, FindLock(t, p) PROVE Books(t)
  BY <1>1 DEF FindLock, Attempt
<1>2. ASSUME NEW p \in Priority, FindNone(t, p) PROVE Books(t)
  BY <1>2 DEF FindNone, Attempt
<1>3. ASSUME NEW p \in Priority, FindRefund(t, p) PROVE Books(t)
  BY <1>3 DEF FindRefund, Attempt
<1>4. ASSUME NEW p \in Priority, BeRefused(t, p) PROVE Books(t)
  BY <1>4 DEF BeRefused, Attempt
<1>5. ASSUME NEW p \in Priority, FindForced(t, p) PROVE Books(t)
  BY <1>5 DEF FindForced, Attempt, AcceptForced
<1>6. CASE Refund(t)
  BY <1>6 DEF Refund
<1>7. CASE Join(t)
  BY <1>7 DEF Join, Look
<1>8. CASE FindExpired(t)
  BY <1>8 DEF FindExpired, Look
<1>9. CASE FindSpent(t)
  BY <1>9 DEF FindSpent, Look
<1>10. CASE Take(t)
  BY <1>10 DEF Take
<1>11. CASE TryAgain(t)
  BY <1>11 DEF TryAgain, record
<1>12. CASE UpdateState(t)
  BY <1>12 DEF UpdateState
<1>13. CASE UpdateTime(t)
  BY <1>13 DEF UpdateTime
<1>14. CASE TimeOut(t)
  BY <1>14 DEF TimeOut, record
<1>15. CASE PollLock(t)
  BY <1>15 DEF PollLock, Poll
<1>16. CASE PollLost(t)
  BY <1>16 DEF PollLost, Poll
<1>17. CASE PollValid(t)
  BY <1>17 DEF PollValid, Look
<1>18. CASE PollExpired(t)
  BY <1>18 DEF PollExpired, Look
<1>19. CASE PollClear(t)
  BY <1>19 DEF PollClear
<1>20. CASE ResetExpired(t)
  BY <1>20 DEF ResetExpired, Reset
<1>21. CASE ResetSpent(t)
  BY <1>21 DEF ResetSpent, Reset
<1>22. CASE FreeExpired(t)
  BY <1>22 DEF FreeExpired, Free
<1>23. CASE KeepSpent(t)
  BY <1>23 DEF KeepSpent
<1>24. CASE PostExpired(t)
  BY <1>24 DEF PostExpired, Post
<1>25. CASE PostSpent(t)
  BY <1>25 DEF PostSpent, Post
<1>26. CASE PostOverrun(t)
  BY <1>26 DEF PostOverrun, Post
<1>27. CASE NotMine(t)
  BY <1>27 DEF NotMine, Unlock, Unlocking
<1>28. CASE UnlockLock(t)
  BY <1>28 DEF UnlockLock, Unlock, Unlocking
<1>29. CASE UnlockForced(t)
  BY <1>29 DEF UnlockForced, AcceptForced, Unlock, Unlocking
<1>30. CASE UnlockNothing(t)
  BY <1>30 DEF UnlockNothing, Unlock, Unlocking
<1>31. CASE UnlockExpired(t)
  BY <1>31 DEF UnlockExpired, Look
<1>32. CASE CountDown(t)
  BY <1>32 DEF CountDown, Look
<1>33. CASE UnlockPost(t)
  BY <1>33 DEF UnlockPost, Post
<1>34. CASE UnlockRecord(t)
  BY <1>34 DEF UnlockRecord, record
<1>35. CASE UnlockFree(t)
  BY <1>35 DEF UnlockFree, Free
<1>36. CASE Interrupted(t)
  BY <1>36 DEF Interrupted, record
<1> QED
  BY <1>1, <1>2, <1>3, <1>4, <1>5, <1>6, <1>7, <1>8, <1>9, <1>10, <1>11, <1>12, <1>13, <1>14,
     <1>15, <1>16, <1>17, <1>18, <1>19, <1>20, <1>21, <1>22, <1>23, <1>24, <1>25, <1>26, <1>27,
     <1>28, <1>29, <1>30, <1>31, <1>32, <1>33, <1>34, <1>35, <1>36 DEF ThreadStep


LEMMA ShapeStep ==
  ASSUME ThreadOK, ShapeOK, [Next]_vars
  PROVE  ShapeOK'
<1> HIDE DEF Priority
<1> USE ClientAssumption
<1>a. ASSUME UNCHANGED <<process, stranded>> PROVE ShapeOK'
  BY <1>a DEF ShapeOK, process
<1>1. ASSUME NEW t \in Thread, ThreadStep(t) \/ Interrupted(t) PROVE ShapeOK'
  <2>a. ClientOf[t] \in Client /\ cur[t] \in Priority
    BY DEF ThreadOK
  <2>1. ASSUME Count(t, cur[t]), stranded' = stranded PROVE ShapeOK'
    BY <2>a, <2>1 DEF ShapeOK, Count
  <2>2. ASSUME ResetCounts(ClientOf[t], cur[t]) PROVE ShapeOK'
    BY <2>a, <2>2 DEF ShapeOK, ResetCounts, Set
  <2>3. ASSUME CountDown(t), stranded' = stranded PROVE ShapeOK'
    <3>1. /\ count' = [count EXCEPT ![ClientOf[t]][cur[t]] = @ - 1]
          /\ p_counts' = [p_counts EXCEPT ![t][cur[t]] = @ - 1]
          /\ id' = [id EXCEPT ![t][cur[t]] = FALSE] \/ id' = id
      BY <2>3 DEF CountDown
    <3>2. count' \in [Client -> [Priority -> Int]]
      BY <2>a, <3>1 DEF ShapeOK
    <3>3. p_counts' \in [Thread -> [Priority -> Int]]
      BY <2>a, <3>1 DEF ShapeOK
    <3>4. id' \in [Thread -> [Priority -> BOOLEAN]]
      <4>1. id \in [Thread -> [Priority -> BOOLEAN]]
        BY DEF ShapeOK
      <4>2. CASE id' = [id EXCEPT ![t][cur[t]] = FALSE]
        BY <4>1, <4>2, Zenon
      <4> QED
        BY <3>1, <4>1, <4>2
    <3> QED
      BY <2>3, <3>2, <3>3, <3>4 DEF ShapeOK
  <2>4. ASSUME PollClear(t), process' = process PROVE ShapeOK'
    BY <2>a, <2>4 DEF PollClear, ShapeOK, process, Set
  <2> QED
    BY <1>a, <1>1, <2>1, <2>2, <2>3, <2>4, ThreadBooks DEF Books
<1>2. ASSUME NEW c \in Client, Gone(c) PROVE ShapeOK'
  BY <1>2 DEF ShapeOK, Gone
<1>3. ASSUME Still PROVE ShapeOK'
  <2>1. process' = process
    BY <1>3, StillThreads
  <2>2. stranded' = stranded \/ \E c \in Client : Remove(c)
    BY <1>3 DEF Still, Idle, FindIdle, RemoveTwice, Age, FindLocked, Judge, ForceRelease, ClearTime,
       PostPending, EndRecords, vars
  <2>3. ASSUME NEW c \in Client, Remove(c) PROVE ShapeOK'
    BY <2>1, <2>3 DEF Remove, ShapeOK, process
  <2> QED
    BY <1>a, <2>1, <2>2, <2>3
<1> QED
  BY <1>1, <1>2, <1>3, AllSteps
(* The invariant of the counts of a process c at a priority p ...            *)
SumOK(c, p) == count[c][p] = CountSum(p_counts, p, ThreadsOf(c))
ShownOK(c, p) == ~stranded[c][p] =>
  /\ count[c][p] > 0 => \/ state[c][p] \in {"Locked", "ForceReleased"}
                        \/ \E t \in priority_lock(c, p) : pc[t] = "took"
  /\ alive[c] /\ state[c][p] = "Locked" => count[c][p] > 0 \/ priority_lock(c, p) # {}

(* ... and of those of one of its threads.                                   *)
OwnOK(t, p) ==
  /\ p_counts[t][p] >= 0
  /\ ~id[t][p] => p_counts[t][p] = 0
  /\ p \in Keeps(t) /\ id[t][p] => p_counts[t][p] >= 1
  /\ pc[t] \in {"took", "stamp", "ulook"} /\ p = cur[t] => id[t][p]
Emptied == {"xfree", "xpost", "sstore", "spost", "ofree", "opost", "unpost", "unrecord", "free"}
ZeroOK(t, p) == p = cur[t] =>
  /\ pc[t] \in Emptied => count[ClientOf[t]][p] = 0
  /\ pc[t] \in {"spost", "opost"} => state[ClientOf[t]][p] # "Locked"
OnceOK(t, p) == ~stranded[ClientOf[t]][p] =>
  /\ p_counts[t][p] <= 1
  /\ p \notin Keeps(t) => p_counts[t][p] = 0
  /\ pc[t] \in {"wait", "refund", "urefund"} /\ p = cur[t] => count[ClientOf[t]][p] = 0

CountInv == /\ \A c \in Client, p \in Priority : SumOK(c, p) /\ ShownOK(c, p)
            /\ \A t \in Thread, p \in Priority : OwnOK(t, p) /\ ZeroOK(t, p) /\ OnceOK(t, p)

(* What the proof of it uses: of a state, and of a step of a thread.         *)
Known == BaseInv /\ MutexInv /\ UnshownInv /\ ShapeOK /\ CountInv
Facts(t) == Moves(t) /\ Touches(t) /\ Row(t) /\ KeepsRow(t) /\ Books(t)

LEMMA ThreadFacts ==
  ASSUME BaseInv, UnshownInv, NEW t \in Thread, ThreadStep(t) \/ Interrupted(t)
  PROVE  Facts(t)
BY ThreadMoves, ThreadTouches, ThreadRows, KeepsMoves, ThreadBooks
   DEF BaseInv, PlaceInv, UnshownInv, Facts

LEMMA OtherThreads ==
  ASSUME Known, NEW t \in Thread, Facts(t), NEW u \in Thread, u # t
  PROVE  /\ pc'[u] = pc[u] /\ cur'[u] = cur[u] /\ Keeps(u)' = Keeps(u)
         /\ pc[t] \notin Polls /\ ClientOf[u] = ClientOf[t] /\ cur[u] = cur[t] => pc[u] \notin Inside
<1>1. ThreadOK /\ MutexInv /\ Goes(t) /\ Enters(t)
  BY DEF Known, BaseInv, Facts, Moves
<1>2. /\ pc'[u] = pc[u] /\ base'[u] = base[u] /\ low'[u] = low[u] /\ cur'[u] = cur[u]
      /\ pc[t] \notin Polls /\ ClientOf[u] = ClientOf[t] /\ cur[u] = cur[t] => pc[u] \notin Inside
  BY <1>1, OthersStay
<1>3. Keeps(u)' = Keeps(u)
  BY <1>2 DEF Keeps, Entitled
<1> QED
  BY <1>2, <1>3

(* What a step leaves alone: the counts and locks of other processes and of  *)
(* other priorities than the one the thread is at.                           *)
Elsewhere(t) ==
  /\ alive' = alive
  /\ \A k \in Client, q \in Priority : k # ClientOf[t] \/ q # cur[t] =>
       count'[k][q] = count[k][q] /\ state'[k][q] = state[k][q] /\ stranded'[k][q] = stranded[k][q]
  /\ \A u \in Thread, q \in Priority : ClientOf[u] # ClientOf[t] \/ q # cur[t] =>
       p_counts'[u][q] = p_counts[u][q] /\ id'[u][q] = id[u][q]

LEMMA StaysElsewhere ==
  ASSUME ThreadOK, ShapeOK, NEW t \in Thread, Facts(t)
  PROVE  Elsewhere(t)
<1>a. /\ ClientOf \in [Thread -> Client] /\ ClientOf[t] \in Client /\ cur[t] \in Priority
  BY ClientAssumption DEF ThreadOK
<1> HIDE DEF Priority
<1> DEFINE C == \A k \in Client, q \in Priority :
                  k # ClientOf[t] \/ q # cur[t] => count'[k][q] = count[k][q]
           S == \A k \in Client, q \in Priority :
                  k # ClientOf[t] \/ q # cur[t] => stranded'[k][q] = stranded[k][q]
           P == \A u \in Thread, q \in Priority :
                  ClientOf[u] # ClientOf[t] \/ q # cur[t] => p_counts'[u][q] = p_counts[u][q]
           I == \A u \in Thread, q \in Priority :
                  ClientOf[u] # ClientOf[t] \/ q # cur[t] => id'[u][q] = id[u][q]
<1>i. ASSUME NEW b \in BOOLEAN, id' = [id EXCEPT ![t][cur[t]] = b] PROVE I
  <2> SUFFICES ASSUME NEW u \in Thread, NEW q \in Priority, ClientOf[u] # ClientOf[t] \/ q # cur[t]
               PROVE  id'[u][q] = id[u][q]
    OBVIOUS
  <2>1. id' = [id EXCEPT ![t][cur[t]] = b] /\ id \in [Thread -> [Priority -> BOOLEAN]]
    BY <1>i DEF ShapeOK
  <2>2. CASE u # t
    BY <2>1, <2>2, Zenon
  <2>3. CASE u = t
    <3>1. id'[t] = [id[t] EXCEPT ![cur[t]] = b] /\ id[t] \in [Priority -> BOOLEAN] /\ q # cur[t]
      BY <2>1, <2>3, Zenon
    <3> QED
      BY <2>3, <3>1, Zenon
  <2> QED
    BY <2>2, <2>3
<1>1. ASSUME process' = process PROVE C /\ P /\ I
  BY <1>1 DEF process
<1>2. ASSUME Count(t, cur[t]) PROVE C /\ P /\ I
  <2>1. I
    BY <1>2, <1>i DEF Count
  <2>2. P
    BY <1>a, <1>2 DEF Count, ShapeOK
  <2>3. C
    BY <1>a, <1>2 DEF Count, ShapeOK
  <2> QED
    BY <2>1, <2>2, <2>3
<1>3. ASSUME ResetCounts(ClientOf[t], cur[t]) PROVE C /\ P /\ I /\ S
  <2>1. P /\ I
    BY <1>a, <1>3 DEF ResetCounts, ShapeOK
  <2>2. C /\ S
    BY <1>a, <1>3 DEF ResetCounts, Set, ShapeOK
  <2> QED
    BY <2>1, <2>2
<1>4. ASSUME CountDown(t) PROVE C /\ P /\ I
  <2>1. /\ count' = [count EXCEPT ![ClientOf[t]][cur[t]] = count[ClientOf[t]][cur[t]] - 1]
        /\ p_counts' = [p_counts EXCEPT ![t][cur[t]] = p_counts[t][cur[t]] - 1]
    BY <1>4 DEF CountDown
  <2>2. id' = id \/ id' = [id EXCEPT ![t][cur[t]] = FALSE]
    BY <1>4, Zenon DEF CountDown
  <2>3. I
    BY <2>2, <1>i
  <2>4. C
    BY <1>a, <2>1 DEF ShapeOK
  <2>5. P
    BY <1>a, <2>1 DEF ShapeOK
  <2> QED
    BY <2>3, <2>4, <2>5
<1>5. stranded' = stranded => S
  OBVIOUS
<1>6. ASSUME PollClear(t) PROVE S
  BY <1>a, <1>6 DEF PollClear, Set, ShapeOK
<1>7. C /\ P /\ I /\ S
  <2> HIDE DEF C, P, I, S
  <2> QED
    BY <1>1, <1>2, <1>3, <1>4, <1>5, <1>6 DEF Facts, Books
<1> QED
  BY <1>7 DEF Elsewhere, Facts, Moves, Goes, Touches

(* What a step does to the counts at the priority it is at.                  *)
Steady(c, p) == /\ count'[c][p] = count[c][p] /\ stranded'[c][p] = stranded[c][p]
               /\ \A u \in ThreadsOf(c) : p_counts'[u][p] = p_counts[u][p] /\ id'[u][p] = id[u][p]
Up(t, p) == /\ count'[ClientOf[t]][p] = count[ClientOf[t]][p] + 1
            /\ stranded'[ClientOf[t]][p] = stranded[ClientOf[t]][p]
            /\ p_counts'[t][p] = p_counts[t][p] + 1 /\ id'[t][p]
            /\ \A u \in Thread \ {t} : p_counts'[u][p] = p_counts[u][p] /\ id'[u][p] = id[u][p]
Down(t, p) == /\ count'[ClientOf[t]][p] = count[ClientOf[t]][p] - 1
              /\ stranded'[ClientOf[t]][p] = stranded[ClientOf[t]][p]
              /\ p_counts'[t][p] = p_counts[t][p] - 1
              /\ id'[t][p] <=> count[ClientOf[t]][p] > 1
              /\ \A u \in Thread \ {t} : p_counts'[u][p] = p_counts[u][p] /\ id'[u][p] = id[u][p]
Zeroed(c, p) == /\ count'[c][p] = 0 /\ ~stranded'[c][p]
                /\ \A u \in ThreadsOf(c) : p_counts'[u][p] = 0 /\ ~id'[u][p]

LEMMA CountEffect ==
  ASSUME ShapeOK, NEW t \in Thread, NEW p \in Priority, Count(t, p), stranded' = stranded
  PROVE  Up(t, p)
<1> HIDE DEF Priority
<1>1. ClientOf[t] \in Client
  BY ClientAssumption
<1>2. /\ count'[ClientOf[t]][p] = count[ClientOf[t]][p] + 1
      /\ p_counts'[t][p] = p_counts[t][p] + 1
      /\ \A u \in Thread \ {t} : p_counts'[u][p] = p_counts[u][p]
  BY <1>1 DEF Count, ShapeOK
<1>3. id'[t][p] /\ \A u \in Thread \ {t} : id'[u][p] = id[u][p]
  BY Zenon DEF Count, ShapeOK
<1> QED
  BY <1>2, <1>3 DEF Up

LEMMA ResetEffect ==
  ASSUME ShapeOK, NEW c \in Client, NEW p \in Priority, ResetCounts(c, p)
  PROVE  Zeroed(c, p)
<1> HIDE DEF Priority
<1> QED
  BY DEF ResetCounts, Set, Zeroed, ShapeOK, ThreadsOf

LEMMA SteadyEffect ==
  ASSUME UNCHANGED <<process, stranded>>, NEW c, NEW p
  PROVE  Steady(c, p)
BY DEF process, Steady

LEMMA DownEffect ==
  ASSUME ThreadOK, ShapeOK, CountInv, NEW t \in Thread, CountDown(t), stranded' = stranded
  PROVE  Down(t, cur[t])
<1> DEFINE c == ClientOf[t]  p == cur[t]
<1> HIDE DEF Priority
<1>1. c \in Client /\ p \in Priority
  BY ClientAssumption DEF ThreadOK
<1>2. /\ count' = [count EXCEPT ![c][p] = count[c][p] - 1]
      /\ p_counts' = [p_counts EXCEPT ![t][p] = p_counts[t][p] - 1]
      /\ stranded' = stranded /\ id[t][p]
  BY <1>1 DEF CountDown, At, CountInv, OwnOK
<1>3. id' = IF count[c][p] <= 1 THEN [id EXCEPT ![t][p] = FALSE] ELSE id
  BY Zenon DEF CountDown
<1> HIDE DEF c, p
<1>4. count[c][p] \in Int /\ p_counts[t][p] \in Int
  BY <1>1 DEF ShapeOK
<1>5. /\ count'[c][p] = count[c][p] - 1 /\ p_counts'[t][p] = p_counts[t][p] - 1
      /\ \A u \in Thread \ {t} : p_counts'[u][p] = p_counts[u][p]
  BY <1>1, <1>2 DEF ShapeOK
<1>6. CASE count[c][p] <= 1
  <2>1. ~id'[t][p] /\ \A u \in Thread \ {t} : id'[u][p] = id[u][p]
    BY <1>1, <1>3, <1>6, Zenon DEF ShapeOK
  <2> QED
    BY <1>2, <1>4, <1>5, <1>6, <2>1 DEF Down, c, p
<1>7. CASE ~(count[c][p] <= 1)
  BY <1>2, <1>3, <1>4, <1>5, <1>7 DEF Down, c, p
<1> QED
  BY <1>6, <1>7

(* The count of the process stays the sum of its threads' counts.            *)
LEMMA ThreadsFinite ==
  ASSUME NEW c
  PROVE  IsFiniteSet(ThreadsOf(c)) /\ ThreadsOf(c) \subseteq Thread
<1>1. ThreadsOf(c) \subseteq Thread
  BY DEF ThreadsOf
<1> QED
  BY <1>1, ClientAssumption, FS_Subset

LEMMA SumIsZero ==
  ASSUME NEW F, NEW c, NEW p, \A t \in ThreadsOf(c) : F[t][p] = 0
  PROVE  CountSum(F, p, ThreadsOf(c)) = 0
BY ThreadsFinite, SumBounds

LEMMA SumStep ==
  ASSUME ShapeOK, NEW c \in Client, NEW p \in Priority, SumOK(c, p),
         \/ Steady(c, p) \/ Zeroed(c, p)
         \/ \E t \in ThreadsOf(c) : Up(t, p) \/ Down(t, p)
  PROVE  SumOK(c, p)'
<1> HIDE DEF Priority
<1> DEFINE S == ThreadsOf(c)
<1>a. IsFiniteSet(S) /\ \A t \in S : t \in Thread /\ ClientOf[t] = c /\ p_counts[t][p] \in Int
  BY ThreadsFinite DEF ShapeOK, ThreadsOf
<1>b. count[c][p] \in Int /\ count[c][p] = CountSum(p_counts, p, S)
  BY DEF ShapeOK, SumOK
<1> HIDE DEF S
<1>c. ASSUME count'[c][p] = CountSum(p_counts', p, S) PROVE SumOK(c, p)'
  BY <1>c DEF SumOK, S, ThreadsOf
<1>1. CASE Steady(c, p)
  <2>1. \A t \in S : p_counts'[t][p] = p_counts[t][p]
    BY <1>1 DEF Steady, S
  <2>2. CountSum(p_counts', p, S) = CountSum(p_counts, p, S)
    BY <1>a, <2>1, SumSame
  <2> QED
    BY <1>1, <1>b, <1>c, <2>2 DEF Steady
<1>2. CASE Zeroed(c, p)
  <2>1. CountSum(p_counts', p, S) = 0
    BY <1>2, SumIsZero DEF Zeroed, S
  <2> QED
    BY <1>2, <1>c, <2>1 DEF Zeroed
<1>3. ASSUME NEW t \in S, NEW d \in Int, count'[c][p] = count[c][p] + d,
             p_counts'[t][p] = p_counts[t][p] + d,
             \A u \in Thread \ {t} : p_counts'[u][p] = p_counts[u][p]
      PROVE  SumOK(c, p)'
  <2>1. \A u \in S \ {t} : p_counts'[u][p] = p_counts[u][p]
    BY <1>3, <1>a
  <2>2. CountSum(p_counts', p, S) = CountSum(p_counts, p, S) + d
    BY <1>3, <1>a, <2>1, SumChanges
  <2> QED
    BY <1>3, <1>b, <1>c, <2>2
<1>4. ASSUME NEW t \in S, Up(t, p) PROVE SumOK(c, p)'
  BY <1>3, <1>4, <1>a DEF Up
<1>5. ASSUME NEW t \in S, Down(t, p) PROVE SumOK(c, p)'
  <2>1. count'[c][p] = count[c][p] + (-1) /\ p_counts'[t][p] = p_counts[t][p] + (-1)
    BY <1>5, <1>a, <1>b DEF Down
  <2> QED
    BY <1>3, <1>5, <2>1 DEF Down
<1> QED
  BY <1>1, <1>2, <1>4, <1>5 DEF S

(* A thread that changes a lock or its counts is alone in the mutex.         *)
Alone(t) == \A u \in ThreadsOf(ClientOf[t]) \ {t} : cur[u] = cur[t] => pc[u] \notin Inside

LEMMA AtWorkAlone ==
  ASSUME Known, NEW t \in Thread, Facts(t), pc[t] \notin Polls
  PROVE  Alone(t)
BY OtherThreads DEF Alone, ThreadsOf

Effect(t, p) == Steady(ClientOf[t], p) \/ Up(t, p) \/ Down(t, p) \/ Zeroed(ClientOf[t], p)

LEMMA Effects ==
  ASSUME ThreadOK, ShapeOK, CountInv, NEW t \in Thread, Books(t), pc[t] \notin Polls
  PROVE  Effect(t, cur[t])
<1>a. ClientOf[t] \in Client /\ cur[t] \in Priority
  BY ClientAssumption DEF ThreadOK
<1>b. UNCHANGED <<process, stranded>> => Effect(t, cur[t])
  BY SteadyEffect DEF Effect
<1>c. Count(t, cur[t]) /\ stranded' = stranded => Effect(t, cur[t])
  BY <1>a, CountEffect DEF Effect
<1>d. ResetCounts(ClientOf[t], cur[t]) => Effect(t, cur[t])
  BY <1>a, ResetEffect DEF Effect
<1>e. CountDown(t) /\ stranded' = stranded => Effect(t, cur[t])
  BY DownEffect DEF Effect
<1>f. ~PollClear(t)
  BY DEF PollClear, Polls
<1> QED
  BY <1>b, <1>c, <1>d, <1>e, <1>f DEF Books

(* Elsewhere the invariant stays.                                            *)
LEMMA ElsewhereStep ==
  ASSUME Known, NEW t \in Thread, Facts(t),
         NEW k \in Client, NEW q \in Priority, k # ClientOf[t] \/ q # cur[t]
  PROVE  /\ SumOK(k, q)' /\ ShownOK(k, q)'
         /\ \A u \in ThreadsOf(k) : OwnOK(u, q)' /\ ZeroOK(u, q)' /\ OnceOK(u, q)'
<1> HIDE DEF Priority
<1>a. /\ \A u \in Thread \ {t} : pc'[u] = pc[u] /\ cur'[u] = cur[u]
      /\ pc'[t] \in Inside => cur'[t] = cur[t]
  BY OtherThreads DEF Facts, Moves, Enters
<1>b. /\ count'[k][q] = count[k][q] /\ state'[k][q] = state[k][q]
      /\ stranded'[k][q] = stranded[k][q] /\ alive' = alive
      /\ \A u \in ThreadsOf(k) : u \in Thread /\ ClientOf[u] = k
           /\ p_counts'[u][q] = p_counts[u][q] /\ id'[u][q] = id[u][q]
  BY StaysElsewhere DEF Known, BaseInv, Elsewhere, ThreadsOf
<1>c. /\ SumOK(k, q) /\ ShownOK(k, q)
      /\ \A u \in ThreadsOf(k) : OwnOK(u, q) /\ ZeroOK(u, q) /\ OnceOK(u, q)
  BY DEF Known, CountInv, ThreadsOf
<1>d. SumOK(k, q)'
  BY <1>b, <1>c, SumStep DEF Known, Steady
<1>e. \A u \in ThreadsOf(k) :
        \/ pc'[u] = pc[u] /\ cur'[u] = cur[u]
        \/ ~(pc'[u] \in Inside /\ cur'[u] = q) /\ ~(pc[u] \in Inside /\ cur[u] = q)
  BY <1>a, <1>b
<1>f. ShownOK(k, q)'
  <2>1. \A L \in SUBSET Inside : \A u \in ThreadsOf(k) :
          pc'[u] \in L /\ cur'[u] = q <=> pc[u] \in L /\ cur[u] = q
    BY <1>e
  <2>2. \A u \in ThreadsOf(k) : u \in priority_lock(k, q)' <=> u \in priority_lock(k, q)
    BY <2>1 DEF priority_lock, ThreadsOf
  <2>4. \A u : (u \in priority_lock(k, q) \/ u \in priority_lock(k, q)') => u \in ThreadsOf(k)
    BY DEF priority_lock, ThreadsOf
  <2>5. priority_lock(k, q)' = priority_lock(k, q)
    BY <2>2, <2>4
  <2>6. \A u \in priority_lock(k, q) : pc'[u] = "took" <=> pc[u] = "took"
    BY <1>e DEF priority_lock
  <2> HIDE DEF priority_lock
  <2> QED
    BY <1>b, <1>c, <2>5, <2>6 DEF ShownOK
<1>g. ASSUME NEW u \in ThreadsOf(k) PROVE OwnOK(u, q)' /\ ZeroOK(u, q)' /\ OnceOK(u, q)'
  <2>1. q \in Keeps(u)' <=> q \in Keeps(u)
    BY <1>b, OtherThreads DEF Facts, KeepsRow
  <2>2. OwnOK(u, q) /\ ZeroOK(u, q) /\ OnceOK(u, q) /\ ClientOf[u] = k
    BY <1>b, <1>c
  <2>3. \/ pc'[u] = pc[u] /\ cur'[u] = cur[u]
        \/ ~(pc'[u] \in Inside /\ cur'[u] = q) /\ ~(pc[u] \in Inside /\ cur[u] = q)
    BY <1>e
  <2> HIDE DEF Keeps
  <2>4. OwnOK(u, q)'
    BY <1>b, <2>1, <2>2, <2>3 DEF OwnOK, Inside, Locking, Releasing
  <2>5. ZeroOK(u, q)'
    BY <1>b, <2>2, <2>3 DEF ZeroOK, Emptied, Inside, Locking, Releasing
  <2>6. OnceOK(u, q)'
    BY <1>b, <2>1, <2>2, <2>3 DEF OnceOK, Inside, Locking, Releasing
  <2> QED
    BY <2>4, <2>5, <2>6
<1> QED
  BY <1>d, <1>f, <1>g

(* The other threads of the process keep their part of it where t is at.     *)
LEMMA NeighboursStep ==
  ASSUME Known, NEW t \in Thread, Facts(t), pc[t] \notin Polls,
         NEW u \in ThreadsOf(ClientOf[t]) \ {t}
  PROVE  \A p \in {cur[t]} : OwnOK(u, p)' /\ ZeroOK(u, p)' /\ OnceOK(u, p)'
<1> HIDE DEF Priority
<1> SUFFICES ASSUME NEW p \in {cur[t]} PROVE OwnOK(u, p)' /\ ZeroOK(u, p)' /\ OnceOK(u, p)'
  OBVIOUS
<1> DEFINE c == ClientOf[t]
<1>a. /\ pc'[u] = pc[u] /\ cur'[u] = cur[u] /\ u \in Thread /\ ClientOf[u] = c
      /\ p \in Priority /\ c \in Client /\ p = cur[t]
  BY OtherThreads, ClientAssumption DEF ThreadsOf, Known, BaseInv, ThreadOK
<1>b. Keeps(u)' = Keeps(u) /\ ~(pc[u] \in Inside /\ cur[u] = p)
  BY <1>a, OtherThreads
<1>c. OwnOK(u, p) /\ ZeroOK(u, p) /\ OnceOK(u, p)
  BY <1>a DEF Known, CountInv
<1>d. \/ p_counts'[u][p] = p_counts[u][p] /\ id'[u][p] = id[u][p] /\ stranded'[c][p] = stranded[c][p]
      \/ p_counts'[u][p] = 0 /\ ~id'[u][p]
  BY <1>a, Effects DEF Known, BaseInv, Facts, Effect, Steady, Up, Down, Zeroed, ThreadsOf
<1> HIDE DEF Keeps
<1>1. OwnOK(u, p)'
  BY <1>a, <1>b, <1>c, <1>d DEF OwnOK, Inside, Locking, Releasing, Known, ShapeOK
<1>2. ZeroOK(u, p)'
  BY <1>a, <1>b DEF ZeroOK, Emptied, Inside, Locking, Releasing
<1>3. OnceOK(u, p)'
  BY <1>a, <1>b, <1>c, <1>d DEF OnceOK, Inside, Locking, Releasing
<1> QED
  BY <1>1, <1>2, <1>3

LEMMA OwnBounds ==
  ASSUME ShapeOK, CountInv, NEW t \in Thread, NEW p \in Priority
  PROVE  /\ count[ClientOf[t]][p] \in Nat /\ p_counts[t][p] \in Nat
         /\ p_counts[t][p] <= count[ClientOf[t]][p]
<1> HIDE DEF Priority
<1> DEFINE c == ClientOf[t]
<1>1. c \in Client /\ t \in ThreadsOf(c) /\ \A u \in ThreadsOf(c) : u \in Thread
  BY ClientAssumption DEF ThreadsOf
<1>2. \A u \in ThreadsOf(c) : p_counts[u][p] \in Nat
  BY <1>1 DEF CountInv, OwnOK, ShapeOK
<1>3. count[c][p] = CountSum(p_counts, p, ThreadsOf(c))
  BY <1>1 DEF CountInv, SumOK
<1> HIDE DEF c
<1>4. /\ CountSum(p_counts, p, ThreadsOf(c)) \in Nat
      /\ \A u \in ThreadsOf(c) : p_counts[u][p] <= CountSum(p_counts, p, ThreadsOf(c))
  BY <1>2, ThreadsFinite, SumBounds
<1> QED
  BY <1>1, <1>2, <1>3, <1>4 DEF c

(* What the invariant tells a thread that is alone about its lock.           *)
LEMMA AloneShown ==
  ASSUME CountInv, NEW t \in Thread, NEW p \in Priority, p = cur[t], Alone(t),
         ~stranded[ClientOf[t]][p]
  PROVE  /\ pc[t] # "took" /\ count[ClientOf[t]][p] > 0
              => state[ClientOf[t]][p] \in {"Locked", "ForceReleased"}
         /\ pc[t] \notin Inside /\ alive[ClientOf[t]] /\ state[ClientOf[t]][p] = "Locked"
              => count[ClientOf[t]][p] > 0
<1> HIDE DEF Priority
<1>1. ClientOf[t] \in Client /\ ShownOK(ClientOf[t], p)
  BY ClientAssumption DEF CountInv
<1>2. \A u \in priority_lock(ClientOf[t], p) : u = t /\ pc[t] \in Inside
  BY DEF Alone, priority_lock
<1> QED
  BY <1>1, <1>2 DEF ShownOK

(* It suffices for the lock to be seen to, that the thread is in the mutex   *)
(* or that the table and the count agree.                                    *)
LEMMA ShownBySelf ==
  ASSUME NEW t \in Thread, NEW p \in Priority,
         pc'[t] \in Inside => cur'[t] = p,
         ~stranded'[ClientOf[t]][p] =>
           /\ count'[ClientOf[t]][p] > 0
                => state'[ClientOf[t]][p] \in {"Locked", "ForceReleased"} \/ pc'[t] = "took"
           /\ alive'[ClientOf[t]] /\ state'[ClientOf[t]][p] = "Locked"
                => count'[ClientOf[t]][p] > 0 \/ pc'[t] \in Inside
  PROVE  ShownOK(ClientOf[t], p)'
<1> HIDE DEF Priority
<1>1. pc'[t] \in Inside => t \in priority_lock(ClientOf[t], p)'
  BY DEF priority_lock, ThreadsOf
<1>2. pc'[t] = "took" => pc'[t] \in Inside
  BY DEF Inside, Locking, Releasing
<1> HIDE DEF priority_lock
<1> QED
  BY <1>1, <1>2 DEF ShownOK

Mine(t, p) == OwnOK(t, p)' /\ ZeroOK(t, p)' /\ OnceOK(t, p)' /\ ShownOK(ClientOf[t], p)'

LEMMA MineSteady ==
  ASSUME ShapeOK, CountInv, NEW t \in Thread, NEW p \in {cur[t]}, p \in Priority,
         Steady(ClientOf[t], p), alive' = alive, pc'[t] \in Inside => cur'[t] = p,
         p \in Keeps(t)' => p \in Keeps(t),
         p \in Keeps(t) /\ p \notin Keeps(t)' => p_counts[t][p] = 0 \/ stranded[ClientOf[t]][p],
         pc'[t] \in {"took", "stamp", "ulook"} => id[t][p],
         pc'[t] \in Emptied => count[ClientOf[t]][p] = 0,
         pc'[t] \in {"spost", "opost"} => state'[ClientOf[t]][p] # "Locked",
         pc'[t] \in {"wait", "refund", "urefund"} =>
           count[ClientOf[t]][p] = 0 \/ stranded[ClientOf[t]][p],
         ~stranded[ClientOf[t]][p] =>
           /\ count[ClientOf[t]][p] > 0
                => state'[ClientOf[t]][p] \in {"Locked", "ForceReleased"} \/ pc'[t] = "took"
           /\ alive[ClientOf[t]] /\ state'[ClientOf[t]][p] = "Locked"
                => count[ClientOf[t]][p] > 0 \/ pc'[t] \in Inside
  PROVE  Mine(t, p)
<1> HIDE DEF Priority, Keeps
<1>1. OwnOK(t, p) /\ ZeroOK(t, p) /\ OnceOK(t, p)
  BY DEF CountInv
<1>2. /\ count'[ClientOf[t]][p] = count[ClientOf[t]][p]
      /\ stranded'[ClientOf[t]][p] = stranded[ClientOf[t]][p]
      /\ p_counts'[t][p] = p_counts[t][p] /\ id'[t][p] = id[t][p]
  BY DEF Steady, ThreadsOf
<1>3. OwnOK(t, p)'
  BY <1>1, <1>2 DEF OwnOK, Inside, Locking, Releasing
<1>4. ZeroOK(t, p)'
  BY <1>2 DEF ZeroOK, Emptied, Inside, Locking, Releasing
<1>5. OnceOK(t, p)'
  BY <1>1, <1>2 DEF OnceOK, Inside, Locking, Releasing
<1>6. ShownOK(ClientOf[t], p)'
  BY <1>2, ShownBySelf
<1> QED
  BY <1>3, <1>4, <1>5, <1>6 DEF Mine

LEMMA MineUp ==
  ASSUME ShapeOK, CountInv, NEW t \in Thread, NEW p \in {cur[t]}, p \in Priority,
         Up(t, p), pc'[t] \in Inside => cur'[t] = p,
         p \notin Keeps(t), p \in Keeps(t)', pc'[t] \in {"held", "poll", "took"},
         pc'[t] = "took" \/ state'[ClientOf[t]][p] = "Locked"
  PROVE  Mine(t, p)
<1> HIDE DEF Priority, Keeps
<1>1. OwnOK(t, p) /\ OnceOK(t, p) /\ count[ClientOf[t]][p] \in Nat /\ p_counts[t][p] \in Nat
  BY OwnBounds DEF CountInv
<1>3. OwnOK(t, p)'
  BY <1>1 DEF OwnOK, Up
<1>4. ZeroOK(t, p)'
  BY DEF ZeroOK, Emptied
<1>5. OnceOK(t, p)'
  BY <1>1 DEF OnceOK, Up
<1>6. ShownOK(ClientOf[t], p)'
  BY <1>1, ShownBySelf DEF Up, Inside, Locking, Releasing
<1> QED
  BY <1>3, <1>4, <1>5, <1>6 DEF Mine

LEMMA MineDown ==
  ASSUME ShapeOK, CountInv, NEW t \in Thread, NEW p \in {cur[t]}, p \in Priority,
         Down(t, p), pc'[t] \in Inside => cur'[t] = p,
         p \in Keeps(t), id[t][p], state'[ClientOf[t]][p] = "Locked",
         IF count[ClientOf[t]][p] <= 1 THEN pc'[t] = "unpost"
                                       ELSE pc'[t] \notin Inside /\ p \notin Keeps(t)'
  PROVE  Mine(t, p)
<1> HIDE DEF Priority, Keeps
<1>1. /\ OwnOK(t, p) /\ OnceOK(t, p) /\ count[ClientOf[t]][p] \in Nat /\ p_counts[t][p] \in Nat
      /\ p_counts[t][p] <= count[ClientOf[t]][p]
  BY OwnBounds DEF CountInv
<1>2. p_counts[t][p] >= 1
  BY <1>1 DEF OwnOK
<1>3. OwnOK(t, p)'
  BY <1>1, <1>2 DEF OwnOK, Down, Inside, Locking, Releasing
<1>4. ZeroOK(t, p)'
  BY <1>1, <1>2 DEF ZeroOK, Emptied, Down, Inside, Locking, Releasing
<1>5. OnceOK(t, p)'
  BY <1>1, <1>2 DEF OnceOK, Down, Inside, Locking, Releasing
<1>6. ShownOK(ClientOf[t], p)'
  BY <1>1, <1>2, ShownBySelf DEF Down, Inside, Locking, Releasing
<1> QED
  BY <1>3, <1>4, <1>5, <1>6 DEF Mine

LEMMA MineZeroed ==
  ASSUME NEW t \in Thread, NEW p \in {cur[t]}, p \in Priority,
         Zeroed(ClientOf[t], p), pc'[t] \in Inside => cur'[t] = p,
         pc'[t] \notin {"took", "stamp", "ulook"},
         \/ state'[ClientOf[t]][p] # "Locked"
         \/ pc'[t] \in Inside /\ pc'[t] \notin {"spost", "opost"}
  PROVE  Mine(t, p)
<1> HIDE DEF Priority, Keeps
<1>2. /\ count'[ClientOf[t]][p] = 0 /\ p_counts'[t][p] = 0 /\ ~id'[t][p]
  BY DEF Zeroed, ThreadsOf
<1>3. OwnOK(t, p)'
  BY <1>2 DEF OwnOK, Inside, Locking, Releasing
<1>4. ZeroOK(t, p)'
  BY <1>2 DEF ZeroOK, Emptied, Inside, Locking, Releasing
<1>5. OnceOK(t, p)'
  BY <1>2 DEF OnceOK, Inside, Locking, Releasing
<1>6. ShownOK(ClientOf[t], p)'
  BY <1>2, ShownBySelf
<1> QED
  BY <1>3, <1>4, <1>5, <1>6 DEF Mine
LEMMA MineStep ==
  ASSUME Known, NEW t \in Thread, Facts(t), ThreadStep(t) \/ Interrupted(t),
         pc[t] \notin Polls, NEW q \in {cur[t]}
  PROVE  Mine(t, q)
<1> DEFINE c == ClientOf[t]
           L == pc[t]
           M == pc'[t]
           Same == UNCHANGED <<process, stranded>>
<1>a. /\ q = cur[t] /\ q \in Priority /\ c \in Client /\ state[c][q] \in LockState
      /\ ThreadOK /\ RecordOK /\ ShapeOK /\ CountInv /\ PlaceOK(t) /\ Place(t)'
      /\ M \in Inside => cur'[t] = q
  BY ClientAssumption DEF Known, BaseInv, PlaceInv, ThreadOK, RecordOK, Facts, Moves, Enters
<1>b. Alone(t) /\ alive' = alive
  BY <1>a, AtWorkAlone DEF Facts, Moves, Goes
<1>n. \A r \in Priority : r \in Int /\ r >= 0
  BY SettingAssumption DEF Priority
<1>k. /\ L \in ({"run", "lock"} \union Locking) \ {"took", "stamp"} => q \notin Keeps(t)
      /\ L \in {"held", "unlock", "took", "stamp"} \union Releasing => q \in Keeps(t)
  <2>1. base[t] \in Priority /\ low[t] \in Priority
    BY <1>a DEF ThreadOK
  <2> HIDE DEF Priority
  <2> QED
    BY <1>a, <1>n, <2>1 DEF PlaceOK, Keeps, Entitled, Locking, Releasing, Polls
<1>l. /\ M \in Locking \ {"took", "stamp"} => q \notin Keeps(t)'
      /\ M \in {"took", "stamp"} \union Releasing => q \in Keeps(t)'
      /\ M \in {"run", "unlock"} => q \notin Keeps(t)'
  <2>1. base'[t] \in Priority /\ low'[t] \in Priority /\ PlaceOK(t)'
    BY <1>a DEF Place
  <2>2. M \in {"run", "unlock"} => q \notin Keeps(t)'
    BY <1>a DEF Facts, KeepsRow
  <2> HIDE DEF Priority
  <2> QED
    BY <1>a, <1>n, <2>1, <2>2 DEF PlaceOK, Keeps, Entitled, Locking, Releasing, Polls, Inside
<1>g. Granted(t, q) /\ PlaceOK(t) /\ L \in Locking => q \in Keeps(t)' /\ M \in {"held", "poll"}
  <2>1. Granted(t, q) => /\ M = (IF q = 0 THEN "held" ELSE "poll")
                         /\ low'[t] = q /\ cur'[t] = base[t] /\ base'[t] = base[t]
    BY <1>a DEF Granted, Goto, ThreadOK
  <2>2. base[t] \in Priority /\ low[t] \in Priority
    BY <1>a DEF ThreadOK
  <2> HIDE DEF Priority
  <2> QED
    BY <1>a, <1>n, <2>1, <2>2 DEF PlaceOK, Keeps, Entitled, Locking, Releasing, Polls
<1>h. L = "wait" /\ cur[t] # base[t] /\ GotoBase(t, "poll") => q \notin Keeps(t)' /\ M = "poll"
  <2>1. GotoBase(t, "poll") => /\ M = "poll"
                               /\ low'[t] = low[t] /\ cur'[t] = base[t] /\ base'[t] = base[t]
    BY <1>a DEF GotoBase, Goto, ThreadOK
  <2>2. base[t] \in Priority /\ low[t] \in Priority
    BY <1>a DEF ThreadOK
  <2> HIDE DEF Priority
  <2> QED
    BY <1>a, <1>n, <2>1, <2>2 DEF PlaceOK, Keeps, Entitled, Locking, Releasing, Polls
<1> HIDE DEF Priority, Keeps
<1>c. count[c][q] \in Nat /\ p_counts[t][q] \in Nat /\ p_counts[t][q] <= count[c][q]
  BY <1>a, OwnBounds
<1>d. ~stranded[c][q] =>
        /\ L # "took" /\ count[c][q] > 0 => state[c][q] \in {"Locked", "ForceReleased"}
        /\ L \notin Inside /\ alive[c] /\ state[c][q] = "Locked" => count[c][q] > 0
  BY <1>a, <1>b, AloneShown
<1>e. /\ OwnOK(t, q) /\ ZeroOK(t, q) /\ OnceOK(t, q)
      /\ L \in Hides => state[c][q] # "Locked"
  BY <1>a DEF Known, CountInv, UnshownInv, Unshown, Shown
<1>f. /\ L \in {"took", "stamp", "ulook"} => id[t][q]
      /\ L \in Emptied => count[c][q] = 0 /\ p_counts[t][q] = 0
      /\ L \in {"spost", "opost"} => state[c][q] # "Locked"
      /\ L \in {"wait", "refund", "urefund"} =>
           stranded[c][q] \/ (count[c][q] = 0 /\ p_counts[t][q] = 0)
      /\ ~id[t][q] => p_counts[t][q] = 0
      /\ L \in {"took", "stamp"} => count[c][q] > 0
  BY <1>a, <1>c, <1>e, <1>k DEF OwnOK, ZeroOK, OnceOK
<1>o. ClearState(c, q) => state'[c][q] = "None"
  BY <1>a DEF ClearState, Set, RecordOK
<1>p. /\ \A label : Goto(t, label) \/ GotoBase(t, label) => M = label
      /\ Undo(t) => M = "unlock"
      /\ Return(t) => M = "run"
      /\ NextRelease(t) => M \in {"run", "unlock"}
      /\ \A p : Refused(t, p) => M \in {"run", "unlock"}
  BY <1>a, Labels
(* A step that leaves the counts as they are ...                             *)
<1>s. ASSUME Same,
             q \in Keeps(t)' => q \in Keeps(t),
             q \in Keeps(t) /\ q \notin Keeps(t)' => p_counts[t][q] = 0 \/ stranded[c][q],
             M \in {"took", "stamp", "ulook"} => id[t][q],
             M \in Emptied => count[c][q] = 0,
             M \in {"spost", "opost"} => state'[c][q] # "Locked",
             M \in {"wait", "refund", "urefund"} => count[c][q] = 0 \/ stranded[c][q],
             ~stranded[c][q] =>
               /\ count[c][q] > 0 => state'[c][q] \in {"Locked", "ForceReleased"} \/ M = "took"
               /\ alive[c] /\ state'[c][q] = "Locked" => count[c][q] > 0 \/ M \in Inside
      PROVE  Mine(t, q)
  <2>1. Steady(c, q)
    BY <1>s, SteadyEffect
  <2> QED
    BY <1>a, <1>b, <1>s, <2>1, MineSteady
(* ... within the mutex, or out of it.                                       *)
<1>t. ASSUME Same, M \in Inside,
             \/ L \in {"run", "lock"} \union Locking /\ M \in Locking
                /\ (L \in {"took", "stamp"} <=> M \in {"took", "stamp"})
             \/ L \in {"held", "unlock"} \union Releasing /\ M \in Releasing,
             M \in {"took", "stamp", "ulook"} => id[t][q],
             M \in Emptied => count[c][q] = 0,
             M \in {"spost", "opost"} => state'[c][q] # "Locked",
             M \in {"wait", "refund", "urefund"} => count[c][q] = 0 \/ stranded[c][q],
             \/ state'[c][q] = state[c][q] /\ L # "took"
             \/ state'[c][q] = "Locked"
             \/ count[c][q] = 0 \/ stranded[c][q]
      PROVE  Mine(t, q)
  <2>1. q \in Keeps(t)' <=> q \in Keeps(t)
    BY <1>k, <1>l, <1>t DEF Locking, Releasing
  <2>2. ~stranded[c][q] /\ count[c][q] > 0 =>
          state'[c][q] \in {"Locked", "ForceReleased"} \/ M = "took"
    BY <1>c, <1>d, <1>t
  <2> QED
    BY <1>s, <1>t, <2>1, <2>2
<1>u. ASSUME Same, M \in {"run", "unlock"}, L \notin {"took", "stamp"},
             state'[c][q] # "Locked" \/ stranded[c][q],
             count[c][q] = 0 \/ stranded[c][q] \/ (p_counts[t][q] = 0 /\ state'[c][q] = state[c][q])
      PROVE  Mine(t, q)
  <2>1. q \notin Keeps(t)'
    BY <1>l, <1>u
  <2>2. p_counts[t][q] = 0 \/ stranded[c][q]
    BY <1>c, <1>u
  <2>3. M \notin Inside /\ M \notin Emptied /\ M \notin {"took", "stamp", "ulook"}
        /\ M \notin {"wait", "refund", "urefund"} /\ M \notin {"spost", "opost"}
    BY <1>u DEF Inside, Locking, Releasing, Emptied
  <2>4. ~stranded[c][q] /\ count[c][q] > 0 =>
          state'[c][q] \in {"Locked", "ForceReleased"} \/ M = "took"
    BY <1>c, <1>d, <1>u
  <2> QED
    BY <1>s, <1>u, <2>1, <2>2, <2>3, <2>4
(* The counts are reset.                                                     *)
<1>z. ASSUME ResetCounts(c, q), M \notin {"took", "stamp", "ulook"},
             \/ state'[c][q] # "Locked"
             \/ M \in Inside /\ M \notin {"spost", "opost"}
      PROVE  Mine(t, q)
  <2>1. Zeroed(c, q)
    BY <1>a, <1>z, ResetEffect
  <2> QED
    BY <1>a, <1>z, <2>1, MineZeroed
<1>y. AcceptForced(c, q) => ResetCounts(c, q) /\ state'[c][q] = "None"
  BY <1>o DEF AcceptForced
<1>x. ReleaseRecord(c, q) => state'[c][q] = "None"
  BY <1>o DEF ReleaseRecord
<1> USE <1>a
<1> HIDE DEF Same

<1>1. ASSUME NEW p \in Priority, FindLock(t, p) PROVE Mine(t, q)
  <2>1. L \in {"run", "lock"} /\ M = "look" /\ Same /\ state' = state
    BY <1>1, <1>p DEF FindLock, Attempt, At, Same
  <2> QED
    BY <2>1, <1>t DEF Inside, Locking, Releasing, Emptied
<1>2. ASSUME NEW p \in Priority, FindNone(t, p) PROVE Mine(t, q)
  <2>1. L \in {"run", "lock"} /\ M = "wait" /\ Same /\ state' = state
        /\ state[c][q] \notin {"Locked", "ForceReleased"}
    BY <1>2, <1>p DEF FindNone, Attempt, At, Same
  <2> QED
    BY <2>1, <1>c, <1>d, <1>t DEF Inside, Locking, Releasing, Emptied
<1>3. ASSUME NEW p \in Priority, FindRefund(t, p) PROVE Mine(t, q)
  <2>1. L \in {"run", "lock"} /\ M = "refund" /\ Same /\ state' = state
        /\ state[c][q] \notin {"Locked", "ForceReleased"}
    BY <1>3, <1>p DEF FindRefund, Attempt, At, Same
  <2> QED
    BY <2>1, <1>c, <1>d, <1>t DEF Inside, Locking, Releasing, Emptied
<1>4. ASSUME NEW p \in Priority, BeRefused(t, p) PROVE Mine(t, q)
  <2>1. L \in {"run", "lock"} /\ M \in {"run", "unlock"} /\ Same /\ state' = state
        /\ state[c][q] \notin {"Locked", "ForceReleased"}
    BY <1>4, <1>p DEF BeRefused, Attempt, At, Same
  <2> QED
    BY <2>1, <1>c, <1>d, <1>u
<1>5. ASSUME NEW p \in Priority, FindForced(t, p) PROVE Mine(t, q)
  <2>1. M = "wait" /\ ResetCounts(c, q) /\ state'[c][q] = "None"
    BY <1>5, <1>p, <1>y DEF FindForced, Attempt, At, Same
  <2> QED
    BY <2>1, <1>z
<1>6. CASE Refund(t)
  <2>1. /\ Same /\ state'[c][q] = "None"
       /\ \/ L = "refund" /\ M = "wait"
          \/ L = "urefund" /\ M \in {"run", "unlock"}
    BY <1>6, <1>o, <1>p DEF Refund, At, Same
  <2> QED
    BY <2>1, <1>f, <1>t, <1>u DEF Inside, Locking, Releasing, Emptied
<1>7. CASE Join(t)
  <2>1. L = "look" /\ Count(t, q) /\ stranded' = stranded /\ Granted(t, q)
        /\ state' = state /\ state[c][q] = "Locked"
    BY <1>7 DEF Join, At, Look, is_lock_active
  <2>2. q \notin Keeps(t) /\ q \in Keeps(t)' /\ M \in {"held", "poll"}
    BY <1>g, <1>k, <2>1 DEF Locking
  <2>3. Up(t, q)
    BY <2>1, CountEffect
  <2> QED
    BY <2>1, <2>2, <2>3, MineUp
<1>8. CASE FindExpired(t)
  <2>1. L = "look" /\ M = "expired" /\ Same /\ state' = state
    BY <1>8, <1>p DEF FindExpired, Look, At, Same
  <2> QED
    BY <2>1, <1>t DEF Inside, Locking, Releasing, Emptied
<1>9. CASE FindSpent(t)
  <2>1. L = "look" /\ M = "spent" /\ Same /\ state' = state
    BY <1>9, <1>p DEF FindSpent, Look, At, Same
  <2> QED
    BY <2>1, <1>t DEF Inside, Locking, Releasing, Emptied
<1>10. CASE Take(t)
  <2>1. L = "wait" /\ M = "took" /\ Count(t, q) /\ stranded' = stranded
    BY <1>10, <1>p DEF Take, At
  <2>2. q \notin Keeps(t) /\ q \in Keeps(t)'
    BY <1>k, <1>l, <2>1 DEF Locking
  <2>3. Up(t, q)
    BY <2>1, CountEffect
  <2> QED
    BY <2>1, <2>2, <2>3, MineUp
<1>11. CASE TryAgain(t)
  <2>1. L = "wait" /\ Same /\ state' = state /\ M = "poll" /\ q \notin Keeps(t)'
    BY <1>11, <1>h DEF TryAgain, At, Same, record
  <2>2. state'[c][q] # "Locked" /\ (~stranded[c][q] => count[c][q] = 0) /\ q \notin Keeps(t)
    BY <1>e, <1>f, <1>k, <2>1 DEF Hides, Locking
  <2>3. M \notin Emptied /\ M \notin Inside
    BY <2>1 DEF Emptied, Inside, Locking, Releasing
  <2> QED
    BY <1>c, <1>s, <2>1, <2>2, <2>3
<1>12. CASE UpdateState(t)
  <2>1. L = "took" /\ M = "stamp" /\ Same /\ state'[c][q] = "Locked"
    BY <1>12, <1>p DEF UpdateState, At, Same, Set, RecordOK
  <2> QED
    BY <2>1, <1>f, <1>t DEF Inside, Locking, Releasing, Emptied
<1>13. CASE UpdateTime(t)
  <2>1. L = "stamp" /\ Same /\ state' = state /\ Granted(t, q)
    BY <1>13 DEF UpdateTime, At, Same
  <2>2. q \in Keeps(t) /\ q \in Keeps(t)' /\ M \in {"held", "poll"} /\ count[c][q] > 0
    BY <1>f, <1>g, <1>k, <2>1 DEF Locking
  <2>3. M \notin Emptied /\ M \notin Inside
    BY <2>2 DEF Emptied, Inside, Locking, Releasing
  <2> QED
    BY <1>d, <1>s, <2>1, <2>2, <2>3
<1>14. CASE TimeOut(t)
  BY <1>14 DEF TimeOut, At, Polls
<1>15. CASE PollLock(t)
  BY <1>15 DEF PollLock, Poll, At, Polls
<1>16. CASE PollLost(t)
  BY <1>16 DEF PollLost, Poll, At, Polls
<1>17. CASE PollValid(t)
  BY <1>17 DEF PollValid, At, Polls
<1>18. CASE PollExpired(t)
  BY <1>18 DEF PollExpired, At, Polls
<1>19. CASE PollClear(t)
  BY <1>19 DEF PollClear, At, Polls
<1>20. CASE ResetExpired(t)
  <2>1. M \in {"xfree", "xpost", "ofree", "opost"} /\ ResetCounts(c, q)
        /\ (state'[c][q] = "Locked" => M \in {"xfree", "ofree"})
    BY <1>20, <1>p DEF ResetExpired, Reset, IfLocked, record
  <2> QED
    BY <1>z, <2>1 DEF Inside, Locking, Releasing
<1>21. CASE ResetSpent(t)
  <2>1. M \in {"sstore", "spost"} /\ ResetCounts(c, q)
        /\ (state'[c][q] = "Locked" => M = "sstore")
    BY <1>21, <1>p DEF ResetSpent, Reset, IfLocked, record
  <2> QED
    BY <1>z, <2>1 DEF Inside, Locking, Releasing
<1>22. CASE FreeExpired(t)
  <2>1. /\ Same /\ state'[c][q] = "None"
       /\ ((L = "xfree" /\ M = "xpost") \/ (L = "ofree" /\ M = "opost"))
    BY <1>22, <1>p, <1>x DEF FreeExpired, Free, At, Same
  <2> QED
    BY <2>1, <1>f, <1>t DEF Inside, Locking, Releasing, Emptied
<1>23. CASE KeepSpent(t)
  <2>1. L = "sstore" /\ M = "spost" /\ Same /\ state'[c][q] = "QuotaReached"
    BY <1>23, <1>p DEF KeepSpent, At, Same, Set, RecordOK
  <2> QED
    BY <2>1, <1>f, <1>t DEF Inside, Locking, Releasing, Emptied
<1>24. CASE PostExpired(t)
  <2>1. L = "xpost" /\ M = "wait" /\ Same /\ state' = state
    BY <1>24, <1>p DEF PostExpired, Post, At, Same, record
  <2> QED
    BY <2>1, <1>f, <1>t DEF Inside, Locking, Releasing, Emptied
<1>25. CASE PostSpent(t)
  <2>1. L = "spost" /\ M \in {"run", "unlock"} /\ Same /\ state' = state
    BY <1>25, <1>p DEF PostSpent, Post, At, Same, record
  <2> QED
    BY <2>1, <1>f, <1>u DEF Emptied
<1>26. CASE PostOverrun(t)
  <2>1. L = "opost" /\ M \in {"run", "unlock"} /\ Same /\ state' = state
    BY <1>26, <1>p DEF PostOverrun, Post, At, Same, record
  <2> QED
    BY <2>1, <1>f, <1>u DEF Emptied
<1>27. CASE NotMine(t)
  <2>1. /\ L \in {"held", "unlock"} /\ M \in {"run", "unlock"} /\ Same /\ state' = state
        /\ ~id[t][q]
    BY <1>27, <1>p DEF NotMine, Unlocking, At, Same, record
  <2>2. p_counts[t][q] = 0 /\ q \notin Keeps(t)'
    BY <1>f, <1>l, <2>1
  <2>3. M \notin Emptied /\ M \notin Inside /\ L \notin Inside
    BY <2>1 DEF Emptied, Inside, Locking, Releasing
  <2> QED
    BY <1>d, <1>s, <2>1, <2>2, <2>3
<1>28. CASE UnlockLock(t)
  <2>1. L \in {"held", "unlock"} /\ M = "ulook" /\ Same /\ state' = state /\ id[t][q]
    BY <1>28, <1>p DEF UnlockLock, Unlock, Unlocking, At, Same
  <2> QED
    BY <2>1, <1>t DEF Inside, Locking, Releasing, Emptied
<1>29. CASE UnlockForced(t)
  <2>1. M \in {"run", "unlock"} /\ ResetCounts(c, q) /\ state'[c][q] = "None"
    BY <1>29, <1>p, <1>y DEF UnlockForced
  <2> QED
    BY <2>1, <1>z
<1>30. CASE UnlockNothing(t)
  <2>1. /\ L \in {"held", "unlock"} /\ M \in {"urefund", "run", "unlock"} /\ Same /\ state' = state
       /\ state[c][q] \notin {"Locked", "ForceReleased"}
    BY <1>30, <1>p DEF UnlockNothing, Unlock, Unlocking, At, Same
  <2> QED
    BY <2>1, <1>c, <1>d, <1>t, <1>u DEF Inside, Locking, Releasing, Emptied
<1>31. CASE UnlockExpired(t)
  <2>1. L = "ulook" /\ M = "overrun" /\ Same /\ state' = state
    BY <1>31, <1>p DEF UnlockExpired, Look, At, Same
  <2> QED
    BY <2>1, <1>t DEF Inside, Locking, Releasing, Emptied
<1>32. CASE CountDown(t)
  <2>1. L = "ulook" /\ state' = state /\ state[c][q] = "Locked" /\ stranded' = stranded
    BY <1>32 DEF CountDown, At, Look, is_lock_active
  <2>2. IF count[c][q] <= 1 THEN M = "unpost" ELSE NextRelease(t)
    BY <1>32, <1>p DEF CountDown
  <2>3. NextRelease(t) => M \notin Inside /\ q \notin Keeps(t)'
    BY <1>l, <1>p DEF Inside, Locking, Releasing
  <2>4. Down(t, q) /\ q \in Keeps(t) /\ id[t][q]
    BY <1>32, <1>f, <1>k, <2>1, DownEffect DEF Releasing
  <2> QED
    BY <2>1, <2>2, <2>3, <2>4, MineDown
<1>33. CASE UnlockPost(t)
  <2>1. L = "unpost" /\ M = "unrecord" /\ Same /\ state' = state
    BY <1>33, <1>p DEF UnlockPost, Post, At, Same, record
  <2> QED
    BY <2>1, <1>f, <1>t DEF Inside, Locking, Releasing, Emptied
<1>34. CASE UnlockRecord(t)
  <2>1. /\ L = "unrecord" /\ Same /\ state' = state
       /\ \/ M = "free"
          \/ M \in {"run", "unlock"} /\ state[c][q] # "Locked"
    BY <1>34, <1>p DEF UnlockRecord, At, Same, record
  <2> QED
    BY <2>1, <1>f, <1>t, <1>u DEF Inside, Locking, Releasing, Emptied
<1>35. CASE UnlockFree(t)
  <2>1. L = "free" /\ M \in {"run", "unlock"} /\ Same /\ state'[c][q] = "None"
    BY <1>35, <1>p, <1>x DEF UnlockFree, Free, At, Same
  <2> QED
    BY <2>1, <1>f, <1>u DEF Emptied
<1>36. CASE Interrupted(t)
  <2>1. L = "wait" /\ M = "run" /\ Same /\ state' = state
    BY <1>36, <1>p DEF Interrupted, At, Same, record
  <2> QED
    BY <2>1, <1>e, <1>f, <1>u DEF Hides
<1> QED
  BY <1>1, <1>2, <1>3, <1>4, <1>5, <1>6, <1>7, <1>8, <1>9, <1>10, <1>11, <1>12, <1>13, <1>14,
     <1>15, <1>16, <1>17, <1>18, <1>19, <1>20, <1>21, <1>22, <1>23, <1>24, <1>25, <1>26, <1>27,
     <1>28, <1>29, <1>30, <1>31, <1>32, <1>33, <1>34, <1>35, <1>36 DEF ThreadStep
(* What is true of a lock's counts when its threads neither count nor move   *)
(* in or out of the mutex: the lock may be taken away, if that is noted.     *)
LEMMA CountsStay ==
  ASSUME ShapeOK, CountInv, NEW k \in Client, NEW q \in Priority,
         count'[k][q] = count[k][q], alive'[k] = alive[k],
         stranded[k][q] => stranded'[k][q],
         \/ stranded'[k][q]
         \/ state'[k][q] = state[k][q]
         \/ state'[k][q] = "ForceReleased"
         \/ state'[k][q] = "None" /\ count[k][q] = 0,
         state'[k][q] \in {state[k][q], "None", "ForceReleased"},
         \A u \in ThreadsOf(k) :
           /\ p_counts'[u][q] = p_counts[u][q] /\ id'[u][q] = id[u][q]
           /\ q \in Keeps(u)' <=> q \in Keeps(u)
           /\ \/ pc'[u] = pc[u] /\ cur'[u] = cur[u]
              \/ pc'[u] \notin Inside /\ pc[u] \notin Inside
  PROVE  /\ SumOK(k, q)' /\ ShownOK(k, q)'
         /\ \A u \in ThreadsOf(k) : OwnOK(u, q)' /\ ZeroOK(u, q)' /\ OnceOK(u, q)'
<1> HIDE DEF Priority, Keeps
<1>1. /\ SumOK(k, q) /\ ShownOK(k, q)
      /\ \A u \in ThreadsOf(k) : OwnOK(u, q) /\ ZeroOK(u, q) /\ OnceOK(u, q)
      /\ \A u \in ThreadsOf(k) : u \in Thread /\ ClientOf[u] = k
  BY DEF CountInv, ThreadsOf
<1>2. SumOK(k, q)'
  <2>1. CountSum(p_counts', q, ThreadsOf(k)) = CountSum(p_counts, q, ThreadsOf(k))
    <3>1. \A u \in ThreadsOf(k) : p_counts[u][q] \in Int
      BY <1>1 DEF ShapeOK
    <3> QED
      BY <3>1, ThreadsFinite, SumSame
  <2> QED
    BY <1>1, <2>1 DEF SumOK, ThreadsOf
<1>3. ShownOK(k, q)'
  <2>1. \A u \in ThreadsOf(k) : u \in priority_lock(k, q)' <=> u \in priority_lock(k, q)
    BY DEF priority_lock, ThreadsOf
  <2>2. \A u : (u \in priority_lock(k, q) \/ u \in priority_lock(k, q)') => u \in ThreadsOf(k)
    BY DEF priority_lock, ThreadsOf
  <2>3. priority_lock(k, q)' = priority_lock(k, q)
    BY <2>1, <2>2
  <2>4. \A u \in priority_lock(k, q) : pc'[u] = pc[u]
    BY DEF priority_lock
  <2> HIDE DEF priority_lock
  <2> QED
    BY <1>1, <2>3, <2>4 DEF ShownOK
<1>4. ASSUME NEW u \in ThreadsOf(k) PROVE OwnOK(u, q)' /\ ZeroOK(u, q)' /\ OnceOK(u, q)'
  <2>1. OwnOK(u, q) /\ ZeroOK(u, q) /\ OnceOK(u, q) /\ ClientOf[u] = k
    BY <1>1
  <2>2. OwnOK(u, q)'
    BY <2>1 DEF OwnOK, Inside, Locking, Releasing
  <2>3. ZeroOK(u, q)'
    BY <2>1 DEF ZeroOK, Emptied, Inside, Locking, Releasing
  <2>4. OnceOK(u, q)'
    BY <2>1 DEF OnceOK, Inside, Locking, Releasing
  <2> QED
    BY <2>2, <2>3, <2>4
<1> QED
  BY <1>2, <1>3, <1>4

CountsOf(k, q) == /\ SumOK(k, q) /\ ShownOK(k, q)
                  /\ \A u \in ThreadsOf(k) : OwnOK(u, q) /\ ZeroOK(u, q) /\ OnceOK(u, q)

LEMMA CountTypes ==
  ASSUME ShapeOK, CountInv, NEW k \in Client, NEW q \in Priority
  PROVE  count[k][q] \in Nat
<1> HIDE DEF Priority
<1>1. \A u \in ThreadsOf(k) : p_counts[u][q] \in Nat
  BY DEF CountInv, OwnOK, ThreadsOf, ShapeOK
<1> QED
  BY <1>1, ThreadsFinite, SumBounds DEF CountInv, SumOK

(* lock_get's look at the locks it has taken, without the mutex.             *)
LEMMA PollStep ==
  ASSUME Known, NEW t \in Thread, Facts(t), pc[t] \in Polls,
         NEW k \in Client, NEW q \in Priority
  PROVE  CountsOf(k, q)'
<1>a. /\ ClientOf[t] \in Client /\ cur[t] \in Priority
      /\ RecordOK /\ ThreadOK /\ ShapeOK /\ CountInv
  BY ClientAssumption DEF Known, BaseInv, ThreadOK
<1> HIDE DEF Priority
<1>1. /\ pc[t] \notin Inside /\ pc'[t] \notin Inside
      /\ q \in Keeps(t)' <=> q \in Keeps(t)
      /\ alive' = alive
  <2>1. cur[t] \in Keeps(t)
    <3>1. PlaceOK(t) /\ low[t] \in Int /\ cur[t] \in Int /\ base[t] \in Int
      BY <1>a, SettingAssumption DEF Known, BaseInv, PlaceInv, ThreadOK, Priority
    <3> QED
      BY <3>1 DEF PlaceOK, Polls, Keeps, Entitled, Locking, Releasing
  <2>2. pc[t] \notin Inside
    BY DEF Polls, Inside, Locking, Releasing
  <2> HIDE DEF Keeps
  <2> QED
    BY <2>1, <2>2 DEF Facts, KeepsRow, Moves, Enters, Goes
<1>2. process' = process /\ ((stranded' = stranded /\ state' = state) \/ PollClear(t))
  <2>1. ~CountDown(t)
    BY DEF CountDown, At, Polls
  <2> QED
    BY <2>1 DEF Facts, Books, process
<1>3. /\ stranded[k][q] => stranded'[k][q]
      /\ \/ stranded'[k][q]
         \/ state'[k][q] = state[k][q]
         \/ state'[k][q] = "None" /\ count[k][q] = 0
      /\ state'[k][q] \in {state[k][q], "None"}
  <2>1. CASE stranded' = stranded /\ state' = state
    BY <2>1
  <2>2. CASE PollClear(t)
    <3> DEFINE c == ClientOf[t]  p == cur[t]
    <3>1. /\ state' = [state EXCEPT ![c][p] = "None"]
          /\ stranded' = IF count[c][p] > 0 THEN [stranded EXCEPT ![c][p] = TRUE] ELSE stranded
      BY <2>2 DEF PollClear, ClearState, Set
    <3>2. count[k][q] \in Nat
      BY <1>a, CountTypes
    <3>3. CASE k # c \/ q # p
      BY <1>a, <3>1, <3>3 DEF RecordOK, ShapeOK
    <3>4. CASE k = c /\ q = p
      BY <1>a, <3>1, <3>2, <3>4 DEF RecordOK, ShapeOK
    <3> QED
      BY <3>3, <3>4
  <2> QED
    BY <1>2, <2>1, <2>2
<1>4. \A u \in ThreadsOf(k) :
        /\ p_counts'[u][q] = p_counts[u][q] /\ id'[u][q] = id[u][q]
        /\ q \in Keeps(u)' <=> q \in Keeps(u)
        /\ \/ pc'[u] = pc[u] /\ cur'[u] = cur[u]
           \/ pc'[u] \notin Inside /\ pc[u] \notin Inside
  <2> HIDE DEF Keeps
  <2> QED
    BY <1>1, <1>2, OtherThreads DEF process, ThreadsOf
<1>5. count'[k][q] = count[k][q] /\ alive'[k] = alive[k]
  BY <1>1, <1>2 DEF process
<1> HIDE DEF Keeps
<1>6. /\ SumOK(k, q)' /\ ShownOK(k, q)'
      /\ \A u \in ThreadsOf(k) : OwnOK(u, q)' /\ ZeroOK(u, q)' /\ OnceOK(u, q)'
  BY <1>a, <1>3, <1>4, <1>5, CountsStay
<1> QED
  BY <1>6 DEF CountsOf, ThreadsOf

LEMMA ThreadCounts ==
  ASSUME Known, NEW t \in Thread, ThreadStep(t) \/ Interrupted(t)
  PROVE  CountInv'
<1>a. /\ ThreadOK /\ ShapeOK /\ CountInv /\ Facts(t) /\ ClientOf[t] \in Client /\ cur[t] \in Priority
      /\ \A u \in Thread : ClientOf[u] \in Client /\ u \in ThreadsOf(ClientOf[u])
  BY ClientAssumption, ThreadFacts DEF Known, BaseInv, ThreadOK, ThreadsOf
<1> HIDE DEF Priority
<1>b. ASSUME \A k \in Client, q \in Priority : CountsOf(k, q)' PROVE CountInv'
  BY <1>a, <1>b DEF CountsOf, CountInv, ThreadsOf
<1> SUFFICES ASSUME NEW k \in Client, NEW q \in Priority PROVE CountsOf(k, q)'
  BY <1>b
<1>1. CASE pc[t] \in Polls
  BY <1>1, <1>a, PollStep
<1>2. CASE pc[t] \notin Polls
  <2>2. CASE k # ClientOf[t] \/ q # cur[t]
    <3>1. /\ SumOK(k, q)' /\ ShownOK(k, q)'
          /\ \A u \in ThreadsOf(k) : OwnOK(u, q)' /\ ZeroOK(u, q)' /\ OnceOK(u, q)'
      BY <1>a, <2>2, ElsewhereStep
    <3> QED
      BY <3>1 DEF CountsOf, ThreadsOf
  <2>3. CASE k = ClientOf[t] /\ q = cur[t]
    <3>1. Mine(t, q)
      BY <1>a, <1>2, <2>3, MineStep
    <3>2. \A u \in ThreadsOf(k) \ {t} : OwnOK(u, q)' /\ ZeroOK(u, q)' /\ OnceOK(u, q)'
      BY <1>a, <1>2, <2>3, NeighboursStep
    <3>3. SumOK(k, q)'
      <4>1. SumOK(k, q) /\ t \in ThreadsOf(k)
        BY <2>3, <1>a DEF CountInv
      <4>2. Steady(k, q) \/ Zeroed(k, q) \/ Up(t, q) \/ Down(t, q)
        BY <1>a, <1>2, <2>3, Effects DEF Facts, Effect
      <4> QED
        BY <1>a, <4>1, <4>2, SumStep
    <3> QED
      BY <2>3, <3>1, <3>2, <3>3 DEF CountsOf, Mine, ThreadsOf
  <2> QED
    BY <2>2, <2>3
<1> QED
  BY <1>1, <1>2

(* The manager, time, and the other processes when one ends.                 *)
LEMMA OutsideCounts ==
  ASSUME ShapeOK, CountInv, NEW k \in Client, NEW q \in Priority,
         alive'[k] = alive[k], count'[k][q] = count[k][q],
         stranded[k][q] => stranded'[k][q],
         \/ stranded'[k][q]
         \/ state'[k][q] = state[k][q]
         \/ state'[k][q] = "ForceReleased"
         \/ state'[k][q] = "None" /\ count[k][q] = 0,
         state'[k][q] \in {state[k][q], "None", "ForceReleased"},
         \A u \in ThreadsOf(k) :
           /\ p_counts'[u][q] = p_counts[u][q] /\ id'[u][q] = id[u][q]
           /\ pc'[u] = pc[u] /\ cur'[u] = cur[u] /\ base'[u] = base[u] /\ low'[u] = low[u]
  PROVE  CountsOf(k, q)'
<1> HIDE DEF Priority
<1>1. \A u \in ThreadsOf(k) : Keeps(u)' = Keeps(u)
  <2> SUFFICES ASSUME NEW u \in ThreadsOf(k) PROVE Keeps(u)' = Keeps(u)
    OBVIOUS
  <2>1. pc'[u] = pc[u] /\ cur'[u] = cur[u] /\ base'[u] = base[u] /\ low'[u] = low[u]
    OBVIOUS
  <2> QED
    BY <2>1 DEF Keeps, Entitled
<1> HIDE DEF Keeps
<1>7. /\ SumOK(k, q)' /\ ShownOK(k, q)'
      /\ \A u \in ThreadsOf(k) : OwnOK(u, q)' /\ ZeroOK(u, q)' /\ OnceOK(u, q)'
  BY <1>1, CountsStay
<1> QED
  BY <1>7 DEF CountsOf, ThreadsOf

LEMMA GoneCounts ==
  ASSUME ThreadOK, ShapeOK, NEW c \in Client, Gone(c), NEW q \in Priority
  PROVE  CountsOf(c, q)'
<1> HIDE DEF Priority
<1>1. /\ count'[c][q] = 0 /\ ~alive'[c]
      /\ \A u \in ThreadsOf(c) : /\ p_counts'[u][q] = 0 /\ ~id'[u][q] /\ pc'[u] = "run"
                                 /\ u \in Thread /\ ClientOf[u] = c
  BY DEF Gone, ThreadOK, ShapeOK, ThreadsOf
<1>2. SumOK(c, q)'
  <2>1. CountSum(p_counts', q, ThreadsOf(c)) = 0
    BY <1>1, SumIsZero
  <2> QED
    BY <1>1, <2>1 DEF SumOK, ThreadsOf
<1>3. ShownOK(c, q)'
  BY <1>1 DEF ShownOK
<1>4. \A u \in ThreadsOf(c) : OwnOK(u, q)' /\ ZeroOK(u, q)' /\ OnceOK(u, q)'
  <2>1. \A u \in ThreadsOf(c) : q \notin Keeps(u)'
    BY <1>1 DEF Keeps, Entitled, Locking, Releasing
  <2> HIDE DEF Keeps
  <2> QED
    BY <1>1, <2>1 DEF OwnOK, ZeroOK, OnceOK, Emptied
<1> QED
  BY <1>2, <1>3, <1>4 DEF CountsOf, ThreadsOf

LEMMA EndCounts ==
  ASSUME RecordOK, ThreadOK, ShapeOK, CountInv, NEW c \in Client, Die(c) \/ Close(c),
         NEW k \in Client, NEW q \in Priority
  PROVE  CountsOf(k, q)'
<1> HIDE DEF Priority
<1>1. Gone(c)
  BY DEF Die, Close
<1>2. CASE k = c
  BY <1>1, <1>2, GoneCounts
<1>3. CASE k # c
  <2>1. /\ alive'[k] = alive[k] /\ count'[k] = count[k] /\ stranded'[k] = stranded[k]
        /\ \A u \in ThreadsOf(k) :
             /\ p_counts'[u] = p_counts[u] /\ id'[u] = id[u]
             /\ pc'[u] = pc[u] /\ cur'[u] = cur[u] /\ base'[u] = base[u] /\ low'[u] = low[u]
    BY <1>1, <1>3, ClientAssumption DEF Gone, ThreadsOf, ThreadOK, ShapeOK
  <2>2. state'[k][q] = state[k][q]
    BY <1>3 DEF Die, Close, RemoveRecord, record, RecordOK
  <2> QED
    BY <2>1, <2>2, OutsideCounts
<1> QED
  BY <1>2, <1>3

LEMMA StillCounts ==
  ASSUME RecordOK, ShapeOK, CountInv, Still, NEW k \in Client, NEW q \in Priority
  PROVE  CountsOf(k, q)'
<1> HIDE DEF Priority
<1>a. /\ alive'[k] = alive[k] /\ count'[k][q] = count[k][q]
      /\ \A u \in ThreadsOf(k) :
           /\ p_counts'[u][q] = p_counts[u][q] /\ id'[u][q] = id[u][q]
           /\ pc'[u] = pc[u] /\ cur'[u] = cur[u] /\ base'[u] = base[u] /\ low'[u] = low[u]
  BY StillThreads DEF process, thread
<1>1. ASSUME NEW c \in Client, Remove(c) PROVE CountsOf(k, q)'
  <2>1. /\ state' = [state EXCEPT ![c] = [p \in Priority |-> "None"]]
        /\ stranded' = [stranded EXCEPT ![c] = [p \in Priority |-> @[p] \/ count[c][p] > 0]]
    BY <1>1 DEF Remove, RemoveRecord
  <2>2. CASE k # c
    <3>1. state'[k][q] = state[k][q] /\ stranded'[k][q] = stranded[k][q]
      BY <2>1, <2>2 DEF RecordOK, ShapeOK
    <3> QED
      BY <1>a, <3>1, OutsideCounts
  <2>3. CASE k = c
    <3>1. state'[k][q] = "None"
      BY <2>1, <2>3 DEF RecordOK
    <3>2. stranded'[k][q] <=> stranded[k][q] \/ count[k][q] > 0
      BY <2>1, <2>3, Zenon DEF ShapeOK
    <3>3. stranded'[k][q] \/ count[k][q] = 0
      BY <3>2, CountTypes
    <3> QED
      BY <1>a, <3>1, <3>2, <3>3, OutsideCounts
  <2> QED
    BY <2>2, <2>3
<1>2. ASSUME NEW c \in Client, NEW p \in Priority, ForceRelease(c, p) PROVE CountsOf(k, q)'
  <2>1. stranded' = stranded
    BY <1>2 DEF ForceRelease
  <2>2. state'[k][q] = state[k][q] \/ state'[k][q] = "ForceReleased"
    BY <1>2 DEF ForceRelease, Set, RecordOK
  <2> QED
    BY <1>a, <2>1, <2>2, OutsideCounts
<1>3. \/ state' = state /\ stranded' = stranded
      \/ \E c \in Client : Remove(c) \/ \E p \in Priority : ForceRelease(c, p)
  BY DEF Still, Idle, FindIdle, RemoveTwice, Age, FindLocked, Judge, ClearTime, PostPending,
     EndRecords, vars, record
<1> QED
  BY <1>a, <1>1, <1>2, <1>3, OutsideCounts

LEMMA CountsHeld == Spec => [](ShapeOK /\ CountInv)
<1>1. Init => ShapeOK /\ CountInv
  <2> SUFFICES ASSUME Init PROVE ShapeOK /\ CountInv
    OBVIOUS
  <2>1. ShapeOK
    BY DEF Init, ShapeOK
  <2>2. ASSUME NEW c \in Client, NEW p \in Priority PROVE SumOK(c, p) /\ ShownOK(c, p)
    <3>1. \A t \in ThreadsOf(c) : p_counts[t][p] = 0
      BY DEF Init, ThreadsOf
    <3>2. SumOK(c, p)
      BY <3>1, SumIsZero DEF Init, SumOK
    <3> QED
      BY <3>2 DEF Init, ShownOK
  <2>3. ASSUME NEW t \in Thread, NEW p \in Priority
        PROVE OwnOK(t, p) /\ ZeroOK(t, p) /\ OnceOK(t, p)
    <3>1. p \notin Keeps(t) /\ pc[t] = "run" /\ p_counts[t][p] = 0
      BY DEF Init, Keeps, Entitled, Locking, Releasing
    <3> HIDE DEF Keeps
    <3> QED
      BY <3>1 DEF OwnOK, ZeroOK, OnceOK, Emptied
  <2> QED
    BY <2>1, <2>2, <2>3 DEF CountInv
<1>2. ASSUME BaseInv, MutexInv, UnshownInv, ShapeOK, CountInv, [Next]_vars
      PROVE  ShapeOK' /\ CountInv'
  <2>1. ShapeOK'
    BY <1>2, ShapeStep DEF BaseInv
  <2>2. ASSUME NEW t \in Thread, ThreadStep(t) \/ Interrupted(t) PROVE CountInv'
    BY <1>2, <2>2, ThreadCounts DEF Known
  <2>3. ASSUME \A k \in Client, q \in Priority : CountsOf(k, q)' PROVE CountInv'
    <3>1. \A u \in Thread : ClientOf[u] \in Client /\ u \in ThreadsOf(ClientOf[u])
      BY ClientAssumption DEF ThreadsOf
    <3> HIDE DEF Priority
    <3> QED
      BY <2>3, <3>1 DEF CountsOf, CountInv, ThreadsOf
  <2> QED
    BY <1>2, <2>1, <2>2, <2>3, AllSteps, EndCounts, StillCounts DEF BaseInv
<1> QED
  BY <1>1, <1>2, BaseHeld, MutexHeld, PTL DEF Spec

(* The lock count of a process is the sum of its threads' counts, for any    *)
(* number of threads.                                                        *)
THEOREM SumsAgree == Spec => []CountsAgree
<1>1. ASSUME CountInv PROVE CountsAgree
  <2> SUFFICES ASSUME NEW c \in Client, NEW p \in Priority
               PROVE  count[c][p] = MapThenSumSet(LAMBDA t : p_counts[t][p], ThreadsOf(c))
    BY Zenon DEF CountsAgree
  <2>1. SumOK(c, p)
    BY <1>1 DEF CountInv
  <2> QED
    BY <2>1, Zenon DEF SumOK, CountSum
<1> QED
  BY <1>1, CountsHeld, PTL

(* A thread outside lock and release has no counts left, unless they were    *)
(* stranded.                                                                 *)
THEOREM IdleThreads == Spec => []IdleCountsZero
<1>1. ASSUME CountInv PROVE IdleCountsZero
  <2> HIDE DEF Priority
  <2> SUFFICES ASSUME NEW t \in Thread, NEW p \in Priority, pc[t] = "run",
                      ~stranded[ClientOf[t]][p]
               PROVE  p_counts[t][p] = 0
    BY DEF IdleCountsZero
  <2> QED
    BY <1>1 DEF CountInv, OnceOK, Keeps, Entitled, Locking, Releasing
<1> QED
  BY <1>1, CountsHeld, PTL

(* A lock that the table shows belongs to a thread of its process that was   *)
(* granted it or is at work on it, unless its counts were stranded.          *)
THEOREM HoldersFound == Spec => []LockHasHolder
<1>1. ASSUME ShapeOK, CountInv PROVE LockHasHolder
  <2> HIDE DEF Priority
  <2> SUFFICES ASSUME NEW c \in Client, NEW p \in Priority, alive[c], state[c][p] = "Locked",
                      ~stranded[c][p]
               PROVE  \E t \in ThreadsOf(c) : p \in Entitled(t) \/ t \in priority_lock(c, p)
    BY DEF LockHasHolder
  <2>1. CASE priority_lock(c, p) # {}
    BY <2>1 DEF priority_lock
  <2>2. CASE priority_lock(c, p) = {}
    <3>1. count[c][p] > 0 /\ count[c][p] = CountSum(p_counts, p, ThreadsOf(c))
      BY <1>1, <2>2 DEF CountInv, ShownOK, SumOK
    <3>2. \A t \in ThreadsOf(c) : t \in Thread /\ ClientOf[t] = c /\ p_counts[t][p] \in Nat
      BY <1>1 DEF CountInv, OwnOK, ShapeOK, ThreadsOf
    <3>3. PICK t \in ThreadsOf(c) : p_counts[t][p] > 0
      BY <3>1, <3>2, ThreadsFinite, SumBounds
    <3>4. p \in Keeps(t)
      BY <1>1, <3>2, <3>3 DEF CountInv, OnceOK
    <3>5. ~(pc[t] \in {"took", "stamp"} /\ cur[t] = p)
      BY <2>2 DEF priority_lock, Inside, Locking
    <3> QED
      BY <3>4, <3>5 DEF Keeps
  <2> QED
    BY <2>1, <2>2
<1> QED
  BY <1>1, CountsHeld, PTL

(* Every variable keeps its type; in particular no count goes below zero.    *)
THEOREM TypeCorrect == Spec => []TypeOK
<1>1. ASSUME BaseInv, ShapeOK, CountInv PROVE TypeOK
  <2> HIDE DEF Priority
  <2>1. \A t \in Thread, p \in Priority : p_counts[t][p] \in Nat
    BY <1>1 DEF ShapeOK, CountInv, OwnOK
  <2>2. \A c \in Client, p \in Priority : count[c][p] \in Nat
    <3> SUFFICES ASSUME NEW c \in Client, NEW p \in Priority PROVE count[c][p] \in Nat
      OBVIOUS
    <3>1. \A t \in ThreadsOf(c) : p_counts[t][p] \in Nat
      BY <2>1 DEF ThreadsOf
    <3> QED
      BY <1>1, <3>1, ThreadsFinite, SumBounds DEF CountInv, SumOK
  <2>3. CountsOK
    <3>1. count \in [Client -> [Priority -> Nat]]
      BY <1>1, <2>2 DEF ShapeOK
    <3>2. p_counts \in [Thread -> [Priority -> Nat]]
      BY <1>1, <2>1 DEF ShapeOK
    <3> QED
      BY <1>1, <3>1, <3>2 DEF ShapeOK, CountsOK
  <2> QED
    BY <1>1, <2>3 DEF TypeOK, BaseInv
<1> QED
  BY <1>1, BaseHeld, CountsHeld, PTL
=============================================================================
