------------------------- MODULE ReadWriteLock_proof -------------------------
(* What holds of the read/write lock for any number of processes, threads and *)
(* reader slots.                                                              *)
EXTENDS ReadWriteLock, FiniteSetTheorems, WellFoundedInduction, TLAPS

(* find_free_reader's slot is a free one.                                     *)
LEMMA FreeSlot ==
  ASSUME NEW S \in SUBSET Nat, S # {}
  PROVE  Min(S) \in S /\ \A x \in S : Min(S) <= x
<1> DEFINE Up == {0 .. x : x \in S}
<1>1. Up \subseteq FiniteSubsetsOf(Nat) /\ Up # {}
  <2>1. ASSUME NEW x \in S PROVE 0 .. x \in SUBSET Nat /\ IsFiniteSet(0 .. x)
    BY FS_Interval
  <2> QED
    BY <2>1 DEF FiniteSubsetsOf
<1>2. PICK D \in Up : \A E \in Up : ~(<<E, D>> \in StrictSubsetOrdering(Nat))
  <2> HIDE DEF Up
  <2> QED
    BY <1>1, FS_StrictSubsetOrderingWellFounded, WFMin
<1>3. PICK x \in S : D = 0 .. x
  BY <1>2
<1>4. ASSUME NEW y \in S PROVE x <= y
  <2>1. ~(<<0 .. y, 0 .. x>> \in StrictSubsetOrdering(Nat))
    BY <1>2, <1>3
  <2>2. 0 .. y \in FiniteSubsetsOf(Nat) /\ 0 .. x \in FiniteSubsetsOf(Nat)
    BY <1>1
  <2>3. ~(0 .. y \subseteq 0 .. x /\ 0 .. y # 0 .. x)
    BY <2>1, <2>2 DEF StrictSubsetOrdering
  <2> QED
    BY <2>3
<1> QED
  BY <1>4 DEF Min

LEMMA OwnerType ==
  /\ \A p \in Process \cup {NoProcess}, t \in Thread \cup {NoThread}, x \in 0 .. MaxTxn :
       [process_id |-> p, thread_id |-> t, txn_id |-> x] \in Owner
  /\ NoOwner \in Owner
  /\ owner \in Owner => /\ owner.thread_id \in Thread \cup {NoThread}
                        /\ owner.process_id \in Process \cup {NoProcess}
                        /\ owner.txn_id \in 0 .. MaxTxn
<1>1. 0 \in 0 .. MaxTxn
  BY BoundAssumption
<1> QED
  BY <1>1 DEF Owner, NoOwner, NoTxn

(* A call that claims a slot gets one, and the counts stay unsigned.          *)
THEOREM TypeCorrect == Spec => []TypeOK
<1>1. Init => TypeOK
  <2> USE ProcessAssumption, BoundAssumption DEF Init, Slot, First, NoSlot, NoTxn, NoOwner, Label, Lease
  <2>1. Init => WriterOK
    <3>1. NoOwner \in Owner /\ 0 \in 0 .. MaxTxn /\ 1 \in 1 .. MaxTxn + 1
      BY OwnerType
    <3> QED
      BY <3>1 DEF WriterOK
  <2>2. Init => ReadersOK /\ ManagerOK
    BY DEF ReadersOK, ManagerOK
  <2>3. Init => CallOK
    BY DEF CallOK
  <2>4. Init => HistoryOK
    BY DEF HistoryOK
  <2> QED
    BY <2>1, <2>2, <2>3, <2>4 DEF TypeOK
<1>2. ASSUME TypeOK, [Next]_vars PROVE TypeOK'
  <2> USE <1>2, ProcessAssumption, BoundAssumption
      DEF TypeOK, WriterOK, ReadersOK, CallOK, ManagerOK, HistoryOK, Label, Lease, Slot, NoSlot, NoTxn,
          Enter, At, Leave, Fault, Manage, writer, slots, object, call, manager, leases, bounds
  <2>1. ASSUME NEW t \in Thread, ReadAgain(t) PROVE TypeOK'
    BY <2>1 DEF ReadAgain
  <2>2. ASSUME NEW t \in Thread, ClaimSlot(t) PROVE TypeOK'
    <3>1. Slot \ Used \in SUBSET Nat /\ Slot \ Used # {}
      BY <2>2 DEF ClaimSlot, Used
    <3>2. Min(Slot \ Used) \in Slot
      BY <3>1, FreeSlot
    <3> QED
      BY <2>2, <3>2 DEF ClaimSlot
  <2>3. ASSUME NEW t \in Thread, ReleaseLoad(t) PROVE TypeOK'
    BY <2>3 DEF ReleaseLoad, has_thread_lock
  <2>4. ASSUME NEW t \in Thread, ReleaseNothing(t) PROVE TypeOK'
    BY <2>4 DEF ReleaseNothing
  <2>5. ASSUME NEW t \in Thread, AskWrite(t) PROVE TypeOK'
    BY <2>5 DEF AskWrite
  <2>6. ASSUME NEW t \in Thread, GiveUp(t) PROVE TypeOK'
    BY <2>6 DEF GiveUp
  <2>7. ASSUME NEW t \in Thread, GrantWrite(t) PROVE TypeOK'
    BY <2>7 DEF GrantWrite
  <2>8. ASSUME NEW t \in Thread, ReleaseWrite(t) PROVE TypeOK'
    <3>1. WriterOK'
      BY <2>8, OwnerType, 0 \in 0 .. MaxTxn DEF ReleaseWrite
    <3>2. ReadersOK' /\ ManagerOK'
      BY <2>8 DEF ReleaseWrite, NoOwner
    <3>3. CallOK' /\ HistoryOK'
      BY <2>8 DEF ReleaseWrite, NoOwner
    <3> QED
      BY <3>1, <3>2, <3>3 DEF TypeOK
  <2>9. ASSUME NEW t \in Thread, ReleaseLost(t) PROVE TypeOK'
    BY <2>9 DEF ReleaseLost
  <2>10. ASSUME NEW t \in Thread, StampSlot(t) PROVE TypeOK'
    BY <2>10 DEF StampSlot
  <2>11. ASSUME NEW t \in Thread, Register(t) PROVE TypeOK'
    <3>1. WriterOK'
      BY <2>11 DEF Register
    <3>2. ReadersOK'
      <4>1. mine \in Slot
        BY <2>11 DEF Register
      <4> HIDE DEF Slot
      <4> QED
        BY <2>11, <4>1 DEF Register
    <3>4. ManagerOK'
      BY <2>11 DEF Register
    <3>3. CallOK' /\ HistoryOK'
      BY <2>11 DEF Register
    <3> QED
      BY <3>1, <3>2, <3>3, <3>4 DEF TypeOK
  <2>12. ASSUME NEW t \in Thread, CountLoad(t) PROVE TypeOK'
    BY <2>12 DEF CountLoad
  <2>13. ASSUME NEW t \in Thread, CountStore(t) PROVE TypeOK'
    BY <2>13 DEF CountStore
  <2>14. ASSUME NEW t \in Thread, ReleaseStore(t) PROVE TypeOK'
    BY <2>14 DEF ReleaseStore
  <2>15. ASSUME NEW t \in Thread, ReleaseSlot(t) PROVE TypeOK'
    <3>1. WriterOK'
      BY <2>15 DEF ReleaseSlot
    <3>2. ReadersOK' /\ ManagerOK'
      BY <2>15 DEF ReleaseSlot
    <3>3. CallOK' /\ HistoryOK'
      BY <2>15 DEF ReleaseSlot
    <3> QED
      BY <3>1, <3>2, <3>3 DEF TypeOK
  <2>16. ASSUME NEW t \in Thread, SignWrite(t) PROVE TypeOK'
    <3>1. WriterOK'
      <4>1. next_txn \in 0 .. MaxTxn
        BY <2>16 DEF SignWrite
      <4>2. owner' \in Owner
        BY <2>16, <4>1, OwnerType DEF SignWrite
      <4>3. next_txn' \in 1 .. MaxTxn + 1
        BY <2>16, <4>1 DEF SignWrite
      <4>4. txn_id' \in [Process -> 0 .. MaxTxn]
        BY <2>16, <4>1 DEF SignWrite
      <4> QED
        BY <2>16, <4>2, <4>3, <4>4 DEF SignWrite
    <3>2. ReadersOK' /\ ManagerOK'
      BY <2>16 DEF SignWrite
    <3>3. CallOK' /\ HistoryOK'
      BY <2>16 DEF SignWrite
    <3> QED
      BY <3>1, <3>2, <3>3 DEF TypeOK
  <2>17. CASE CheckWriter
    BY <2>17 DEF CheckWriter
  <2>18. CASE Unlock
    <3>1. WriterOK'
      BY <2>18, OwnerType, 0 \in 0 .. MaxTxn DEF Unlock
    <3>2. ReadersOK' /\ ManagerOK'
      BY <2>18 DEF Unlock
    <3>3. CallOK' /\ HistoryOK'
      BY <2>18 DEF Unlock
    <3> QED
      BY <3>1, <3>2, <3>3 DEF TypeOK
  <2>19. CASE Look
    BY <2>19 DEF Look, NextSlot, First
  <2>20. CASE Free
    BY <2>20 DEF Free
  <2>21. CASE Load
    BY <2>21 DEF Load
  <2>22. CASE Store
    BY <2>22 DEF Store, NextSlot, First
  <2>23. ASSUME NEW p \in Process, Die(p) PROVE TypeOK'
    BY <2>23 DEF Die
  <2>24. ASSUME NEW i \in Slot, AgeSlot(i) PROVE TypeOK'
    BY <2>24 DEF AgeSlot
  <2>25. CASE AgeWriter
    BY <2>25 DEF AgeWriter
  <2>26. CASE UNCHANGED vars
    BY <2>26 DEF vars
  <2> QED
    BY <2>1, <2>2, <2>3, <2>4, <2>5, <2>6, <2>7, <2>8, <2>9, <2>10, <2>11, <2>12,
       <2>13, <2>14, <2>15, <2>16, <2>17, <2>18, <2>19, <2>20, <2>21, <2>22, <2>23, <2>24,
       <2>25, <2>26
    DEF Next, CallStep, ManagerStep
<1> QED
  BY <1>1, <1>2, PTL DEF Spec

(* The number of used slots when one is claimed, and when one is freed.       *)
LEMMA UsedCount ==
  ASSUME TypeOK
  PROVE  /\ IsFiniteSet(Used) /\ Cardinality(Used) \in Nat
         /\ \A i \in Used : Cardinality(Used) > 0
<1>1. IsFiniteSet(Used)
  <2>1. IsFiniteSet(Slot) /\ Used \in SUBSET Slot
    BY FS_Interval, BoundAssumption DEF Slot, Used
  <2> QED
    BY <2>1, FS_Subset
<1>2. Cardinality(Used) \in Nat
  BY <1>1, FS_CardinalityType
<1> QED
  BY <1>1, <1>2, FS_EmptySet

LEMMA UsedClaimed ==
  ASSUME TypeOK, NEW i \in Slot, slot_used' = [slot_used EXCEPT ![i] = TRUE]
  PROVE  Cardinality(Used') = IF slot_used[i] THEN Cardinality(Used) ELSE Cardinality(Used) + 1
<1>1. Used' = Used \cup {i}
  BY DEF Used, TypeOK, ReadersOK
<1>2. i \in Used <=> slot_used[i]
  BY DEF Used
<1> QED
  BY <1>1, <1>2, UsedCount, FS_AddElement

LEMMA UsedFreed ==
  ASSUME TypeOK, NEW i \in Slot, slot_used' = [slot_used EXCEPT ![i] = FALSE]
  PROVE  Cardinality(Used') = IF slot_used[i] THEN Cardinality(Used) - 1 ELSE Cardinality(Used)
<1>1. Used' = Used \ {i}
  BY DEF Used, TypeOK, ReadersOK
<1>2. i \in Used <=> slot_used[i]
  BY DEF Used
<1> QED
  BY <1>1, <1>2, UsedCount, FS_RemoveElement

(* Why the count agrees: the slot that a call is at work on stays used, and   *)
(* what the call or the sweep is about to write is one more or one less than  *)
(* what is there.                                                             *)
Counting == pc \in {"register", "stamp", "load", "store"}
Difference == reader_count + (IF Counting THEN 1 ELSE 0)
                = Cardinality(Used) + (IF m_pc \in {"load", "store"} THEN 1 ELSE 0)
                                    - (IF pc = "free" THEN 1 ELSE 0)
Quiet == faults \cap {"raced", "crossed"} = {}
CountInv ==
  Quiet => /\ Difference
           /\ mine # NoSlot => slot_used[mine]
           /\ Counting => reader_count < MaxReaders
           /\ pc = "unstore" => seen > 0

LEMMA Counted == Spec => []CountInv
<1>1. Init => CountInv
  <2>1. Init => Used = {}
    BY DEF Init, Used
  <2>2. Init => Cardinality(Used) = 0
    BY <2>1, FS_EmptySet
  <2> QED
    BY <2>2 DEF Init, CountInv, Difference, Counting
<1>2. ASSUME TypeOK, TypeOK', CountInv, [Next]_vars PROVE CountInv'
  <2> SUFFICES ASSUME Quiet' PROVE CountInv'
    BY DEF CountInv
  <2> DEFINE N == Cardinality(Used)
  <2> DEFINE Goal == /\ Difference'
                     /\ mine' # NoSlot => slot_used'[mine']
                     /\ Counting' => reader_count' < MaxReaders
                     /\ pc' = "unstore" => seen' > 0
  <2> SUFFICES Goal
    BY DEF CountInv
  <2>a. N \in Nat /\ ((\E i \in Slot : slot_used[i]) => N > 0)
    BY <1>2, UsedCount DEF Used
  <2>b. slot_used' = slot_used => N' = N
    BY DEF Used
  <2>c. \A i \in Slot : slot_used' = [slot_used EXCEPT ![i] = TRUE]
                         => N' = IF slot_used[i] THEN N ELSE N + 1
    BY <1>2, UsedClaimed
  <2>d. \A i \in Slot : slot_used' = [slot_used EXCEPT ![i] = FALSE]
                         => N' = IF slot_used[i] THEN N - 1 ELSE N
    BY <1>2, UsedFreed
  <2>e. ReadersOK /\ CallOK /\ ManagerOK /\ reader_count' \in 0 .. Modulus - 1
    BY <1>2 DEF TypeOK, ReadersOK
  <2>f. \A n \in 0 .. Modulus - 1 : /\ n > 0 => (n - 1) % Modulus = n - 1
                                    /\ n < MaxReaders => (n + 1) % Modulus = n + 1
    BY BoundAssumption
  <2> HIDE DEF N
  <2> USE <1>2, <2>a, <2>b, <2>c, <2>d, <2>e, <2>f, BoundAssumption
      DEF CountInv, Difference, Counting, Quiet, ReadersOK, CallOK, ManagerOK, Label, NoSlot,
          Enter, At, Leave, Fault, Manage, writer, slots, object, call, manager, leases, bounds
  <2>1. ASSUME NEW t \in Thread, ReadAgain(t) PROVE Goal
    BY <2>1 DEF ReadAgain, N
  <2>2. ASSUME NEW t \in Thread, ClaimSlot(t) PROVE Goal
    <3>1. Slot \ Used \in SUBSET Nat /\ Slot \ Used # {}
      BY <2>2 DEF ClaimSlot, Used, Slot
    <3>2. Min(Slot \ Used) \in Slot /\ ~slot_used[Min(Slot \ Used)]
      BY <3>1, FreeSlot DEF Used
    <3>3. mine' = Min(Slot \ Used) /\ slot_used' = [slot_used EXCEPT ![mine'] = TRUE]
      BY <2>2 DEF ClaimSlot
    <3>4. N' = N + 1 /\ slot_used'[mine']
      BY <3>2, <3>3
    <3>5. reader_count' = reader_count /\ reader_count < MaxReaders /\ pc = "none" /\ pc' = "stamp"
          /\ m_pc' = m_pc
      BY <2>2 DEF ClaimSlot
    <3>6. Difference
      BY <2>2 DEF ClaimSlot
    <3> HIDE DEF CallOK, ReadersOK, ManagerOK
    <3> QED
      BY <3>4, <3>5, <3>6 DEF N
  <2>3. ASSUME NEW t \in Thread, ReleaseLoad(t) PROVE Goal
    BY <2>3 DEF ReleaseLoad, has_thread_lock, N
  <2>4. ASSUME NEW t \in Thread, ReleaseNothing(t) PROVE Goal
    BY <2>4 DEF ReleaseNothing, N
  <2>5. ASSUME NEW t \in Thread, AskWrite(t) PROVE Goal
    BY <2>5 DEF AskWrite, N
  <2>6. ASSUME NEW t \in Thread, GiveUp(t) PROVE Goal
    BY <2>6 DEF GiveUp, N
  <2>7. ASSUME NEW t \in Thread, GrantWrite(t) PROVE Goal
    BY <2>7 DEF GrantWrite, N
  <2>8. ASSUME NEW t \in Thread, ReleaseWrite(t) PROVE Goal
    BY <2>8 DEF ReleaseWrite, N
  <2>9. ASSUME NEW t \in Thread, ReleaseLost(t) PROVE Goal
    BY <2>9 DEF ReleaseLost, N
  <2>10. ASSUME NEW t \in Thread, StampSlot(t) PROVE Goal
    BY <2>10 DEF StampSlot, N
  <2>11. ASSUME NEW t \in Thread, Register(t) PROVE Goal
    BY <2>11 DEF Register, N
  <2>12. ASSUME NEW t \in Thread, CountLoad(t) PROVE Goal
    BY <2>12 DEF CountLoad, N
  <2>13. ASSUME NEW t \in Thread, CountStore(t) PROVE Goal
    <3>1. seen = reader_count /\ Quiet /\ Counting
      BY <2>13 DEF CountStore
    <3>2. reader_count' = reader_count + 1
      BY <3>1, <2>13 DEF CountStore
    <3>3. pc' = "none" /\ mine' = NoSlot /\ m_pc' = m_pc /\ N' = N /\ pc = "store"
      BY <2>13 DEF CountStore
    <3> HIDE DEF CallOK, ManagerOK
    <3> QED
      BY <3>1, <3>2, <3>3 DEF N
  <2>14. ASSUME NEW t \in Thread, ReleaseStore(t) PROVE Goal
    <3>1. seen = reader_count /\ Quiet /\ seen > 0
      BY <2>14 DEF ReleaseStore
    <3>2. reader_count' = reader_count - 1
      BY <3>1, <2>14 DEF ReleaseStore
    <3>3. pc' = "free" /\ mine' = mine /\ m_pc' = m_pc /\ N' = N /\ slot_used' = slot_used
          /\ pc = "unstore"
      BY <2>14 DEF ReleaseStore
    <3> HIDE DEF CallOK, ManagerOK
    <3> QED
      BY <3>1, <3>2, <3>3 DEF N
  <2>15. ASSUME NEW t \in Thread, ReleaseSlot(t) PROVE Goal
    <3>1. Quiet /\ mine \in Slot /\ slot_used[mine]
      BY <2>15 DEF ReleaseSlot
    <3>2. N' = N - 1
      BY <3>1, <2>15 DEF ReleaseSlot
    <3>3. pc' = "none" /\ mine' = NoSlot /\ m_pc' = m_pc /\ pc = "free"
          /\ reader_count' = reader_count
      BY <2>15 DEF ReleaseSlot
    <3> HIDE DEF CallOK, ManagerOK
    <3> QED
      BY <3>1, <3>2, <3>3 DEF N
  <2>16. ASSUME NEW t \in Thread, SignWrite(t) PROVE Goal
    BY <2>16 DEF SignWrite, N
  <2>17. CASE CheckWriter
    BY <2>17 DEF CheckWriter, N
  <2>18. CASE Unlock
    BY <2>18 DEF Unlock, N
  <2>19. CASE Look
    BY <2>19 DEF Look, NextSlot, N
  <2>20. CASE Free
    <3>1. mine # m_slot /\ slot_used[m_slot]
      BY <2>20 DEF Free, Crossed
    <3>2. slot_used' = [slot_used EXCEPT ![m_slot] = FALSE]
      BY <2>20 DEF Free
    <3>3. N' = N - 1
      BY <3>1, <3>2
    <3>4. mine # NoSlot => slot_used'[mine]
      BY <3>1, <3>2, <2>20 DEF Free
    <3>5. reader_count' = reader_count /\ pc' = pc /\ mine' = mine /\ seen' = seen
          /\ m_pc = "free" /\ m_pc' = "load"
      BY <2>20 DEF Free
    <3>6. CountInv /\ Quiet
      BY <2>20 DEF Free
    <3> HIDE DEF CallOK, ReadersOK, ManagerOK
    <3> QED
      BY <3>3, <3>4, <3>5, <3>6 DEF N
  <2>21. CASE Load
    BY <2>21 DEF Load, N
  <2>22. CASE Store
    <3>1. m_seen = reader_count /\ Quiet
      BY <2>22 DEF Store
    <3>2. pc = "free" \/ Counting => N > 0
      BY <3>1
    <3>3. reader_count > 0
      BY <3>1, <3>2, <2>22 DEF Store, N
    <3>4. reader_count' = reader_count - 1
      BY <3>1, <3>3, <2>22 DEF Store
    <3>5. m_pc = "store" /\ m_pc' \notin {"load", "store"}
      BY <2>22 DEF Store, NextSlot
    <3>6. pc' = pc /\ mine' = mine /\ seen' = seen /\ slot_used' = slot_used /\ N' = N
      BY <2>22 DEF Store
    <3> HIDE DEF CallOK, ManagerOK
    <3> QED
      BY <3>1, <3>4, <3>5, <3>6 DEF N
  <2>23. ASSUME NEW p \in Process, Die(p) PROVE Goal
    BY <2>23 DEF Die, N
  <2>24. ASSUME NEW i \in Slot, AgeSlot(i) PROVE Goal
    BY <2>24 DEF AgeSlot, N
  <2>25. CASE AgeWriter
    BY <2>25 DEF AgeWriter, N
  <2>26. CASE UNCHANGED vars
    BY <2>26 DEF vars, N
  <2> QED
    BY <2>1, <2>2, <2>3, <2>4, <2>5, <2>6, <2>7, <2>8, <2>9, <2>10, <2>11, <2>12,
       <2>13, <2>14, <2>15, <2>16, <2>17, <2>18, <2>19, <2>20, <2>21, <2>22, <2>23, <2>24,
       <2>25, <2>26
    DEF Next, CallStep, ManagerStep
<1>3. Spec => []TypeOK
  BY TypeCorrect
<1> QED
  BY <1>1, <1>2, <1>3, PTL DEF Spec

(* The count of readers is the number of used slots, with at most one on the  *)
(* way in or out on each side, as long as the sweep and the calls have not    *)
(* met on one slot or in the middle of an increment.                          *)
THEOREM CountKept == Spec => []CountAgrees
<1>1. CountInv => CountAgrees
  BY DEF CountInv, Difference, Counting, Quiet, CountAgrees
<1> QED
  BY <1>1, Counted, PTL

(* Whom the record names: nobody while the lock is free and until the thread  *)
(* that was granted it has signed, if no sweep has come in between.           *)
OwnerInv == "young" \notin faults =>
              /\ ~write_locked \/ pc = "sign" => owner.process_id = NoProcess
              /\ pc = "sign" => write_locked

(* A process's transaction id is cleared by what takes the write lock from    *)
(* it: the release, the death, and nothing else but the sweep.                *)
THEOREM TxnIdCleared == Spec => TxnIdFollowsLock
<1>1. Init => OwnerInv
  BY DEF Init, OwnerInv, NoOwner
<1>2. ASSUME TypeOK, OwnerInv, [Next]_vars PROVE OwnerInv'
  <2> USE <1>2 DEF OwnerInv, TypeOK, CallOK, Enter, At, Leave, Fault, Manage, NoOwner,
          writer, slots, object, call, manager, leases, bounds
  <2>1. ASSUME NEW t \in Thread, ReadAgain(t) PROVE OwnerInv'
    BY <2>1 DEF ReadAgain
  <2>2. ASSUME NEW t \in Thread, ClaimSlot(t) PROVE OwnerInv'
    BY <2>2 DEF ClaimSlot
  <2>3. ASSUME NEW t \in Thread, ReleaseLoad(t) PROVE OwnerInv'
    BY <2>3 DEF ReleaseLoad
  <2>4. ASSUME NEW t \in Thread, ReleaseNothing(t) PROVE OwnerInv'
    BY <2>4 DEF ReleaseNothing
  <2>5. ASSUME NEW t \in Thread, AskWrite(t) PROVE OwnerInv'
    BY <2>5 DEF AskWrite
  <2>6. ASSUME NEW t \in Thread, GiveUp(t) PROVE OwnerInv'
    BY <2>6 DEF GiveUp
  <2>7. ASSUME NEW t \in Thread, GrantWrite(t) PROVE OwnerInv'
    BY <2>7 DEF GrantWrite
  <2>8. ASSUME NEW t \in Thread, ReleaseWrite(t) PROVE OwnerInv'
    BY <2>8 DEF ReleaseWrite
  <2>9. ASSUME NEW t \in Thread, ReleaseLost(t) PROVE OwnerInv'
    BY <2>9 DEF ReleaseLost
  <2>10. ASSUME NEW t \in Thread, StampSlot(t) PROVE OwnerInv'
    BY <2>10 DEF StampSlot
  <2>11. ASSUME NEW t \in Thread, Register(t) PROVE OwnerInv'
    BY <2>11 DEF Register
  <2>12. ASSUME NEW t \in Thread, CountLoad(t) PROVE OwnerInv'
    BY <2>12 DEF CountLoad
  <2>13. ASSUME NEW t \in Thread, CountStore(t) PROVE OwnerInv'
    BY <2>13 DEF CountStore
  <2>14. ASSUME NEW t \in Thread, ReleaseStore(t) PROVE OwnerInv'
    BY <2>14 DEF ReleaseStore
  <2>15. ASSUME NEW t \in Thread, ReleaseSlot(t) PROVE OwnerInv'
    BY <2>15 DEF ReleaseSlot
  <2>16. ASSUME NEW t \in Thread, SignWrite(t) PROVE OwnerInv'
    BY <2>16 DEF SignWrite
  <2>17. CASE CheckWriter
    BY <2>17 DEF CheckWriter
  <2>18. CASE Unlock
    BY <2>18 DEF Unlock
  <2>19. CASE Look
    BY <2>19 DEF Look
  <2>20. CASE Free
    BY <2>20 DEF Free
  <2>21. CASE Load
    BY <2>21 DEF Load
  <2>22. CASE Store
    BY <2>22 DEF Store
  <2>23. ASSUME NEW p \in Process, Die(p) PROVE OwnerInv'
    BY <2>23 DEF Die
  <2>24. ASSUME NEW i \in Slot, AgeSlot(i) PROVE OwnerInv'
    BY <2>24 DEF AgeSlot
  <2>25. CASE AgeWriter
    BY <2>25 DEF AgeWriter
  <2>26. CASE UNCHANGED vars
    BY <2>26 DEF vars
  <2> QED
    BY <2>1, <2>2, <2>3, <2>4, <2>5, <2>6, <2>7, <2>8, <2>9, <2>10, <2>11, <2>12,
       <2>13, <2>14, <2>15, <2>16, <2>17, <2>18, <2>19, <2>20, <2>21, <2>22, <2>23, <2>24,
       <2>25, <2>26
    DEF Next, CallStep, ManagerStep
<1>3. ASSUME TypeOK, OwnerInv, [Next]_vars, NEW q \in Process,
             Holding(q), ~Holding(q)', m_pc # "unlock", "young" \notin faults
      PROVE  txn_id'[q] = NoTxn
  <2> DEFINE Kept == write_locked' = write_locked /\ owner' = owner /\ txn_id' = txn_id
  <2>0. Kept => FALSE
    BY <1>3 DEF Holding
  <2> HIDE DEF Kept
  <2> USE <1>3, <2>0, ProcessAssumption
      DEF OwnerInv, TypeOK, WriterOK, CallOK, Enter, At, Leave, Manage, Holding, NoOwner, Kept,
          writer, slots, object, call, manager, leases, bounds
  <2>1. ASSUME NEW t \in Thread, ReadAgain(t) PROVE txn_id'[q] = NoTxn
    BY <2>1 DEF ReadAgain
  <2>2. ASSUME NEW t \in Thread, ClaimSlot(t) PROVE txn_id'[q] = NoTxn
    BY <2>2 DEF ClaimSlot
  <2>3. ASSUME NEW t \in Thread, ReleaseLoad(t) PROVE txn_id'[q] = NoTxn
    BY <2>3 DEF ReleaseLoad
  <2>4. ASSUME NEW t \in Thread, ReleaseNothing(t) PROVE txn_id'[q] = NoTxn
    BY <2>4 DEF ReleaseNothing
  <2>5. ASSUME NEW t \in Thread, AskWrite(t) PROVE txn_id'[q] = NoTxn
    BY <2>5 DEF AskWrite
  <2>6. ASSUME NEW t \in Thread, GiveUp(t) PROVE txn_id'[q] = NoTxn
    BY <2>6 DEF GiveUp
  <2>7. ASSUME NEW t \in Thread, GrantWrite(t) PROVE txn_id'[q] = NoTxn
    BY <2>7 DEF GrantWrite
  <2>8. ASSUME NEW t \in Thread, ReleaseWrite(t) PROVE txn_id'[q] = NoTxn
    BY <2>8 DEF ReleaseWrite, has_write_lock
  <2>9. ASSUME NEW t \in Thread, ReleaseLost(t) PROVE txn_id'[q] = NoTxn
    BY <2>9 DEF ReleaseLost
  <2>10. ASSUME NEW t \in Thread, StampSlot(t) PROVE txn_id'[q] = NoTxn
    BY <2>10 DEF StampSlot
  <2>11. ASSUME NEW t \in Thread, Register(t) PROVE txn_id'[q] = NoTxn
    BY <2>11 DEF Register
  <2>12. ASSUME NEW t \in Thread, CountLoad(t) PROVE txn_id'[q] = NoTxn
    BY <2>12 DEF CountLoad
  <2>13. ASSUME NEW t \in Thread, CountStore(t) PROVE txn_id'[q] = NoTxn
    BY <2>13 DEF CountStore
  <2>14. ASSUME NEW t \in Thread, ReleaseStore(t) PROVE txn_id'[q] = NoTxn
    BY <2>14 DEF ReleaseStore
  <2>15. ASSUME NEW t \in Thread, ReleaseSlot(t) PROVE txn_id'[q] = NoTxn
    BY <2>15 DEF ReleaseSlot
  <2>16. ASSUME NEW t \in Thread, SignWrite(t) PROVE txn_id'[q] = NoTxn
    BY <2>16 DEF SignWrite
  <2>17. CASE CheckWriter
    BY <2>17 DEF CheckWriter
  <2>18. CASE Unlock
    BY <2>18 DEF Unlock
  <2>19. CASE Look
    BY <2>19 DEF Look
  <2>20. CASE Free
    BY <2>20 DEF Free
  <2>21. CASE Load
    BY <2>21 DEF Load
  <2>22. CASE Store
    BY <2>22 DEF Store
  <2>23. ASSUME NEW p \in Process, Die(p) PROVE txn_id'[q] = NoTxn
    BY <2>23 DEF Die
  <2>24. ASSUME NEW i \in Slot, AgeSlot(i) PROVE txn_id'[q] = NoTxn
    BY <2>24 DEF AgeSlot
  <2>25. CASE AgeWriter
    BY <2>25 DEF AgeWriter
  <2>26. CASE UNCHANGED vars
    BY <2>26 DEF vars
  <2> QED
    BY <2>1, <2>2, <2>3, <2>4, <2>5, <2>6, <2>7, <2>8, <2>9, <2>10, <2>11, <2>12,
       <2>13, <2>14, <2>15, <2>16, <2>17, <2>18, <2>19, <2>20, <2>21, <2>22, <2>23, <2>24,
       <2>25, <2>26
    DEF Next, CallStep, ManagerStep
<1>4. TypeOK /\ OwnerInv /\ [Next]_vars
        => [\A p \in Process : Holding(p) /\ ~Holding(p)' /\ m_pc # "unlock" /\ "young" \notin faults
              => txn_id'[p] = NoTxn]_vars
  BY <1>3
<1>5. Spec => []TypeOK
  BY TypeCorrect
<1> QED
  BY <1>1, <1>2, <1>4, <1>5, PTL DEF Spec, TxnIdFollowsLock

(* Why readers and writers exclude each other: a reader whose lease runs has  *)
(* a used slot that bears its name, so that it is counted; a call has its     *)
(* hands on a slot of its own; a writer is alone from write_locked on.        *)
HasSlot(u) == /\ reader_threads[u] \in Slot /\ slot_used[reader_threads[u]]
              /\ reader[reader_threads[u]] = u
ReadsInv == \A u \in Thread : reads[u] = "on" => HasSlot(u)
SlotInv == /\ pc \in {"stamp", "register"} =>
                 \A u \in Thread : reads[u] = "on" => u # guard /\ reader_threads[u] # mine
           /\ pc \in {"load", "store", "unstore", "free"} => reader_threads[guard] = mine
           /\ pc \in {"load", "store"} => reader[mine] = guard
Alone == \A u \in Thread : reads[u] # "on"
WriteInv == /\ \A t \in Thread : writes[t] = "on" =>
                 /\ write_locked /\ ~Counting /\ pc # "sign" /\ Alone
                 /\ owner.thread_id = t
            /\ pc = "sign" => write_locked /\ Alone /\ \A u \in Thread : writes[u] # "on"
SoloInv == faults = {} => ReadsInv /\ SlotInv /\ WriteInv

(* As long as the sweep has not freed what is in use, a writer is alone for   *)
(* the time of its lease and nobody writes while a reader's lease runs.       *)
THEOREM Exclusion == Spec => []ExclusionKept
<1>1. Init => SoloInv
  BY DEF Init, SoloInv, ReadsInv, SlotInv, WriteInv
<1>2. ASSUME TypeOK, TypeOK', CountInv, SoloInv, [Next]_vars PROVE SoloInv'
  <2> SUFFICES ASSUME faults' = {} PROVE ReadsInv' /\ SlotInv' /\ WriteInv'
    BY DEF SoloInv
  <2>a. ReadersOK /\ CallOK /\ ManagerOK /\ reads \in [Thread -> Lease] /\ writes \in [Thread -> Lease]
    BY <1>2 DEF TypeOK, HistoryOK
  <2> USE <1>2, <2>a, ProcessAssumption
      DEF SoloInv, ReadsInv, SlotInv, WriteInv, Alone, HasSlot, Counting, ReadersOK, CallOK, ManagerOK,
          Label, Lease, NoSlot, Enter, At, Leave, Fault, Manage, writer, slots, object, call, manager, leases, bounds
  <2> HIDE DEF Slot, TypeOK, CountInv
  <2>1. ASSUME NEW t \in Thread, ReadAgain(t) PROVE ReadsInv' /\ SlotInv' /\ WriteInv'
    BY <2>1 DEF ReadAgain, has_thread_lock
  <2>2. ASSUME NEW t \in Thread, ClaimSlot(t) PROVE ReadsInv' /\ SlotInv' /\ WriteInv'
    <3>1. Slot \ Used \in SUBSET Nat /\ Slot \ Used # {}
      BY <2>2 DEF ClaimSlot, Used, Slot
    <3>2. Min(Slot \ Used) \in Slot /\ ~slot_used[Min(Slot \ Used)]
      BY <3>1, FreeSlot DEF Used
    <3>3. mine' \notin Used /\ ~has_thread_lock(t) /\ slot_used' = [slot_used EXCEPT ![mine'] = TRUE]
      BY <2>2, <3>2 DEF ClaimSlot, Used
    <3>4. \A u \in Thread : reads[u] = "on" => u # t /\ reader_threads[u] # mine'
      <4>1. \A u \in Thread : reads[u] = "on" => HasSlot(u)
        BY <2>2 DEF ClaimSlot
      <4> QED
        BY <3>3, <4>1 DEF has_thread_lock, Used, Slot
    <3>5. ReadsInv'
      BY <3>3, <2>2 DEF ClaimSlot
    <3>6. SlotInv'
      BY <3>4, <2>2 DEF ClaimSlot
    <3>7. WriteInv'
      BY <2>2 DEF ClaimSlot
    <3> QED
      BY <3>5, <3>6, <3>7
  <2>3. ASSUME NEW t \in Thread, ReleaseLoad(t) PROVE ReadsInv' /\ SlotInv' /\ WriteInv'
    BY <2>3 DEF ReleaseLoad, has_thread_lock
  <2>4. ASSUME NEW t \in Thread, ReleaseNothing(t) PROVE ReadsInv' /\ SlotInv' /\ WriteInv'
    BY <2>4 DEF ReleaseNothing
  <2>5. ASSUME NEW t \in Thread, AskWrite(t) PROVE ReadsInv' /\ SlotInv' /\ WriteInv'
    BY <2>5 DEF AskWrite
  <2>6. ASSUME NEW t \in Thread, GiveUp(t) PROVE ReadsInv' /\ SlotInv' /\ WriteInv'
    BY <2>6 DEF GiveUp
  <2>7. ASSUME NEW t \in Thread, GrantWrite(t) PROVE ReadsInv' /\ SlotInv' /\ WriteInv'
    <3>1. Alone
      <4> SUFFICES ASSUME NEW u \in Thread, reads[u] = "on" PROVE FALSE
        BY DEF Alone
      <4>1. Cardinality(Used) > 0 /\ Cardinality(Used) \in Nat
        BY <2>7, UsedCount DEF GrantWrite, Used
      <4>2. Difference /\ pc = "none" /\ reader_count = 0
        BY <2>7 DEF GrantWrite, CountInv, Quiet
      <4> QED
        BY <4>1, <4>2 DEF Difference
    <3> QED
      BY <2>7, <3>1 DEF GrantWrite
  <2>8. ASSUME NEW t \in Thread, ReleaseWrite(t) PROVE ReadsInv' /\ SlotInv' /\ WriteInv'
    BY <2>8 DEF ReleaseWrite, has_write_lock
  <2>9. ASSUME NEW t \in Thread, ReleaseLost(t) PROVE ReadsInv' /\ SlotInv' /\ WriteInv'
    BY <2>9 DEF ReleaseLost, has_write_lock
  <2>10. ASSUME NEW t \in Thread, StampSlot(t) PROVE ReadsInv' /\ SlotInv' /\ WriteInv'
    BY <2>10 DEF StampSlot
  <2>11. ASSUME NEW t \in Thread, Register(t) PROVE ReadsInv' /\ SlotInv' /\ WriteInv'
    BY <2>11 DEF Register
  <2>12. ASSUME NEW t \in Thread, CountLoad(t) PROVE ReadsInv' /\ SlotInv' /\ WriteInv'
    BY <2>12 DEF CountLoad
  <2>13. ASSUME NEW t \in Thread, CountStore(t) PROVE ReadsInv' /\ SlotInv' /\ WriteInv'
    <3>1. mine \in Slot /\ slot_used[mine]
      BY <2>13 DEF CountStore, CountInv, Quiet
    <3>2. ReadsInv'
      BY <3>1, <2>13 DEF CountStore
    <3>3. SlotInv'
      BY <2>13 DEF CountStore
    <3>4. WriteInv'
      BY <2>13 DEF CountStore
    <3> QED
      BY <3>2, <3>3, <3>4
  <2>14. ASSUME NEW t \in Thread, ReleaseStore(t) PROVE ReadsInv' /\ SlotInv' /\ WriteInv'
    BY <2>14 DEF ReleaseStore
  <2>15. ASSUME NEW t \in Thread, ReleaseSlot(t) PROVE ReadsInv' /\ SlotInv' /\ WriteInv'
    BY <2>15 DEF ReleaseSlot
  <2>16. ASSUME NEW t \in Thread, SignWrite(t) PROVE ReadsInv' /\ SlotInv' /\ WriteInv'
    BY <2>16 DEF SignWrite
  <2>17. CASE CheckWriter
    BY <2>17 DEF CheckWriter
  <2>18. CASE Unlock
    BY <2>18 DEF Unlock
  <2>19. CASE Look
    BY <2>19 DEF Look, NextSlot
  <2>20. CASE Free
    BY <2>20 DEF Free, Crossed, Live
  <2>21. CASE Load
    BY <2>21 DEF Load
  <2>22. CASE Store
    BY <2>22 DEF Store, NextSlot
  <2>23. ASSUME NEW p \in Process, Die(p) PROVE ReadsInv' /\ SlotInv' /\ WriteInv'
    BY <2>23 DEF Die
  <2>24. ASSUME NEW i \in Slot, AgeSlot(i) PROVE ReadsInv' /\ SlotInv' /\ WriteInv'
    BY <2>24 DEF AgeSlot
  <2>25. CASE AgeWriter
    BY <2>25 DEF AgeWriter
  <2>26. CASE UNCHANGED vars
    BY <2>26 DEF vars
  <2> QED
    BY <2>1, <2>2, <2>3, <2>4, <2>5, <2>6, <2>7, <2>8, <2>9, <2>10, <2>11, <2>12,
       <2>13, <2>14, <2>15, <2>16, <2>17, <2>18, <2>19, <2>20, <2>21, <2>22, <2>23, <2>24,
       <2>25, <2>26
    DEF Next, CallStep, ManagerStep
<1>3. SoloInv => ExclusionKept
  BY DEF SoloInv, WriteInv, Alone, ExclusionKept, Excluding
<1>4. Spec => []TypeOK /\ []CountInv
  BY TypeCorrect, Counted, PTL
<1> QED
  BY <1>1, <1>2, <1>3, <1>4, PTL DEF Spec
=============================================================================
