------------------------- MODULE BlockStore_proof -------------------------
(* The records of core/src/base_block.cpp, for any number of processes and  *)
(* threads, however threads are spread over processes, and any block size.  *)
EXTENDS BlockStore, SequenceTheorems, FiniteSetTheorems, TLAPS

LEMMA MarkType ==
  ASSUME FileOK, NEW s, NEW st \in RecordState
  PROVE  [file EXCEPT ![s].state = st] \in [Slot -> [index : Index, state : RecordState]]
  BY DEF FileOK

LEMMA SetupType ==
  ASSUME HeaderOK, ObjectsOK, NEW p \in Process, setup_transaction(p)
  PROVE  rollback_info' \in [Process -> [in_transaction : BOOLEAN, last_index : Index,
                                        write_offset : Index, used_bytes : Nat]]
  BY BoundAssumption DEF HeaderOK, ObjectsOK, setup_transaction, Slot, Index

LEMMA NoRollbackType ==
  NoRollback \in [in_transaction : BOOLEAN, last_index : Index,
                  write_offset : Index, used_bytes : Nat]
<1>1. 0 \in Index
  BY BoundAssumption DEF Index
<1> QED
  BY <1>1 DEF NoRollback

LEMMA StepType == ASSUME TypeOK, HolderInv, OffsetInv, [Next]_vars PROVE TypeOK'
<1>2. FileOK /\ HeaderOK /\ ObjectsOK /\ ThreadsOK /\ HolderInv /\ OffsetInv
  BY DEF TypeOK
<1>3. ASSUME [Next]_vars PROVE FileOK' /\ HeaderOK' /\ ObjectsOK' /\ ThreadsOK'
  <2> USE <1>2, <1>3, ProcessAssumption
      DEF Goto, shared, local, lock, commit, history
  <2>1. ASSUME NEW t \in Thread, Close(t) PROVE FileOK' /\ HeaderOK' /\ ObjectsOK' /\ ThreadsOK'
    <3>1. FileOK'
      BY <2>1 DEF FileOK, Close, Ready, Fault
    <3>2. HeaderOK'
      BY <2>1 DEF HeaderOK, Close, Ready, Fault
    <3>3. ObjectsOK'
      <4>2. <<>> \in Seq(Slot)
        OBVIOUS
      <4>3. deletes' \in [Process -> Seq(Slot)]
        BY <2>1, <4>2 DEF Close, ObjectsOK, ThreadsOK
      <4>4. open' \in [Process -> BOOLEAN] /\ has_txn' \in [Process -> BOOLEAN]
        BY <2>1 DEF Close, ObjectsOK, ThreadsOK
      <4> QED
        BY <2>1, NoRollbackType, <4>3, <4>4 DEF Close, ObjectsOK, ThreadsOK
    <3>4. ThreadsOK'
      BY <2>1 DEF ThreadsOK, PC, Faults, Close, Ready, Fault
    <3> QED
      BY <3>1, <3>2, <3>3, <3>4
  <2>2. ASSUME NEW t \in Thread, Start(t) PROVE FileOK' /\ HeaderOK' /\ ObjectsOK' /\ ThreadsOK'
    <3>1. FileOK'
      BY <2>2 DEF FileOK, Start, Ready, setup_transaction
    <3>2. HeaderOK'
      BY <2>2 DEF HeaderOK, Start, Ready, setup_transaction
    <3>3. ObjectsOK'
      BY <2>2, SetupType DEF ObjectsOK, ThreadsOK, Start
    <3>4. ThreadsOK'
      BY <2>2 DEF ThreadsOK, PC, Faults, Start, Ready, setup_transaction
    <3> QED
      BY <3>1, <3>2, <3>3, <3>4
  <2>3. ASSUME NEW t \in Thread, StartAgain(t) PROVE FileOK' /\ HeaderOK' /\ ObjectsOK' /\ ThreadsOK'
    <3>1. FileOK'
      BY <2>3 DEF FileOK, StartAgain, Ready, setup_transaction
    <3>2. HeaderOK'
      BY <2>3 DEF HeaderOK, StartAgain, Ready, setup_transaction
    <3>3. ObjectsOK'
      BY <2>3, SetupType DEF ObjectsOK, ThreadsOK, StartAgain
    <3>4. ThreadsOK'
      BY <2>3 DEF ThreadsOK, PC, Faults, StartAgain, Ready, setup_transaction
    <3> QED
      BY <3>1, <3>2, <3>3, <3>4
  <2>4. ASSUME NEW t \in Thread, StartTimedOut(t) PROVE FileOK' /\ HeaderOK' /\ ObjectsOK' /\ ThreadsOK'
    <3>1. FileOK'
      BY <2>4 DEF FileOK, StartTimedOut, Ready, setup_transaction, Fault
    <3>2. HeaderOK'
      BY <2>4 DEF HeaderOK, StartTimedOut, Ready, setup_transaction, Fault
    <3>3. ObjectsOK'
      BY <2>4, SetupType DEF ObjectsOK, ThreadsOK, StartTimedOut
    <3>4. ThreadsOK'
      BY <2>4 DEF ThreadsOK, PC, Faults, StartTimedOut, Ready, setup_transaction, Fault
    <3> QED
      BY <3>1, <3>2, <3>3, <3>4
  <2>5. ASSUME NEW t \in Thread, Write(t) PROVE FileOK' /\ HeaderOK' /\ ObjectsOK' /\ ThreadsOK'
    <3>1. FileOK'
      BY <2>5, BoundAssumption DEF FileOK, ObjectsOK, ThreadsOK, Write, RecordState, Index
    <3>2. HeaderOK'
      BY <2>5 DEF HeaderOK, Write, Ready, in_transaction
    <3>3. ObjectsOK'
      <4> DEFINE r == rollback_info[ProcessOf[t]]
      <4>1. ProcessOf[t] \in Process /\ r \in [in_transaction : BOOLEAN, last_index : Index, write_offset : Index, used_bytes : Nat]
        BY DEF ObjectsOK, ThreadsOK
      <4>2. r.write_offset + 1 \in Index /\ r.last_index + 1 \in Index
        BY <2>5, <4>1, BoundAssumption DEF Write, in_transaction, OffsetInv, Slot, Index
      <4>3. r.used_bytes + RecordSize \in Nat
        BY <4>1, SizeAssumption
      <4>6. rollback_info' \in [Process -> [in_transaction : BOOLEAN, last_index : Index,
                                            write_offset : Index, used_bytes : Nat]]
        BY <2>5, <4>1, <4>2, <4>3 DEF Write, ObjectsOK
      <4> QED
        BY <2>5, <4>6 DEF Write, ObjectsOK
    <3>4. ThreadsOK'
      <4>1. written + 1 \in Nat
        BY DEF ThreadsOK
      <4> QED
        BY <2>5, <4>1 DEF ThreadsOK, Write
    <3> QED
      BY <3>1, <3>2, <3>3, <3>4
  <2>6. ASSUME NEW t \in Thread, NEW i \in Slot, delete_record(t, i) PROVE FileOK' /\ HeaderOK' /\ ObjectsOK' /\ ThreadsOK'
    <3>1. FileOK'
      BY <2>6 DEF FileOK, delete_record, Ready, in_transaction, Fault, Readable
    <3>2. HeaderOK'
      BY <2>6 DEF HeaderOK, delete_record, Ready, in_transaction, Fault, Readable
    <3>3. ObjectsOK'
      <4>1. ProcessOf[t] \in Process /\ deletes[ProcessOf[t]] \in Seq(Slot)
        BY DEF ObjectsOK, ThreadsOK
      <4>2. Append(deletes[ProcessOf[t]], i) \in Seq(Slot)
        BY <4>1
      <4> QED
        BY <2>6, <4>1, <4>2 DEF ObjectsOK, delete_record
    <3>4. ThreadsOK'
      BY <2>6 DEF ThreadsOK, PC, Faults, delete_record, Ready, in_transaction, Fault, Readable
    <3> QED
      BY <3>1, <3>2, <3>3, <3>4
  <2>7. ASSUME NEW t \in Thread, Commit(t) PROVE FileOK' /\ HeaderOK' /\ ObjectsOK' /\ ThreadsOK'
    <3>1. FileOK'
      BY <2>7 DEF FileOK, Commit, Ready, in_transaction
    <3>2. HeaderOK'
      BY <2>7 DEF HeaderOK, Commit, Ready, in_transaction
    <3>3. ObjectsOK'
      BY <2>7 DEF ObjectsOK, ThreadsOK, Commit, Ready, in_transaction
    <3>4. ThreadsOK'
      BY <2>7 DEF ThreadsOK, PC, Faults, Commit, Ready, in_transaction
    <3> QED
      BY <3>1, <3>2, <3>3, <3>4
  <2>8. ASSUME NEW t \in Thread, MarkDeleted(t) PROVE FileOK' /\ HeaderOK' /\ ObjectsOK' /\ ThreadsOK'
    <3>1. FileOK'
      <4>1. "DELETED" \in RecordState
        BY DEF RecordState
      <4>2. CASE UNCHANGED file
        BY <4>2 DEF FileOK
      <4>3. CASE \E s \in Slot : file' = [file EXCEPT ![s].state = "DELETED"]
        BY <4>1, <4>3, MarkType DEF FileOK
      <4> QED
        BY <2>8, <4>2, <4>3 DEF MarkDeleted, Readable
    <3>2. HeaderOK'
      BY <2>8 DEF HeaderOK, MarkDeleted, Readable
    <3>3. ObjectsOK'
      BY <2>8 DEF ObjectsOK, ThreadsOK, MarkDeleted, Readable
    <3>4. ThreadsOK'
      BY <2>8 DEF ThreadsOK, PC, Faults, MarkDeleted, Readable
    <3> QED
      BY <3>1, <3>2, <3>3, <3>4
  <2>9. ASSUME NEW t \in Thread, CountDeleted(t) PROVE FileOK' /\ HeaderOK' /\ ObjectsOK' /\ ThreadsOK'
    <3>1. FileOK'
      BY <2>9 DEF FileOK, CountDeleted
    <3>2. HeaderOK'
      <4>1. header.deleted_records + 1 \in Nat
        BY DEF HeaderOK
      <4> QED
        BY <2>9, <4>1 DEF HeaderOK, CountDeleted
    <3>3. ObjectsOK'
      BY <2>9 DEF ObjectsOK, ThreadsOK, CountDeleted
    <3>4. ThreadsOK'
      <4>1. cursor + 1 \in Nat
        BY DEF ThreadsOK
      <4> QED
        BY <2>9, <4>1 DEF ThreadsOK, CountDeleted, PC
    <3> QED
      BY <3>1, <3>2, <3>3, <3>4
  <2>10. ASSUME NEW t \in Thread, ClearDeletes(t) PROVE FileOK' /\ HeaderOK' /\ ObjectsOK' /\ ThreadsOK'
    <3>1. FileOK'
      BY <2>10 DEF FileOK, ClearDeletes
    <3>2. HeaderOK'
      BY <2>10 DEF HeaderOK, ClearDeletes
    <3>3. ObjectsOK'
      BY <2>10 DEF ObjectsOK, ThreadsOK, ClearDeletes
    <3>4. ThreadsOK'
      <4>1. header.write_offset \in Nat
        BY DEF HeaderOK, Slot
      <4> QED
        BY <2>10, <4>1 DEF ThreadsOK, ClearDeletes, PC
    <3> QED
      BY <3>1, <3>2, <3>3, <3>4
  <2>11. ASSUME NEW t \in Thread, MarkReadable(t) PROVE FileOK' /\ HeaderOK' /\ ObjectsOK' /\ ThreadsOK'
    <3>1. FileOK'
      BY <2>11, MarkType DEF FileOK, MarkReadable, RecordState
    <3>2. HeaderOK'
      BY <2>11 DEF HeaderOK, MarkReadable
    <3>3. ObjectsOK'
      BY <2>11 DEF ObjectsOK, ThreadsOK, MarkReadable
    <3>4. ThreadsOK'
      <4>1. cursor + 1 \in Nat /\ added + 1 \in Nat
        BY DEF ThreadsOK
      <4> QED
        BY <2>11, <4>1 DEF ThreadsOK, MarkReadable
    <3> QED
      BY <3>1, <3>2, <3>3, <3>4
  <2>12. ASSUME NEW t \in Thread, PublishIndex(t) PROVE FileOK' /\ HeaderOK' /\ ObjectsOK' /\ ThreadsOK'
    <3>1. FileOK'
      BY <2>12 DEF FileOK, PublishIndex
    <3>2. HeaderOK'
      <4>1. rollback_info[ProcessOf[t]].last_index \in Slot
        BY <2>12 DEF PublishIndex, HolderInv, OffsetInv, ThreadsOK
      <4> QED
        BY <2>12, <4>1 DEF HeaderOK, PublishIndex
    <3>3. ObjectsOK'
      BY <2>12 DEF ObjectsOK, ThreadsOK, PublishIndex
    <3>4. ThreadsOK'
      BY <2>12 DEF ThreadsOK, PC, Faults, PublishIndex
    <3> QED
      BY <3>1, <3>2, <3>3, <3>4
  <2>13. ASSUME NEW t \in Thread, PublishUsed(t) PROVE FileOK' /\ HeaderOK' /\ ObjectsOK' /\ ThreadsOK'
    <3>1. FileOK'
      BY <2>13 DEF FileOK, PublishUsed
    <3>2. HeaderOK'
      <4>1. rollback_info[ProcessOf[t]].used_bytes \in Nat
        BY DEF ObjectsOK, ThreadsOK
      <4>2. header.used_bytes + rollback_info[ProcessOf[t]].used_bytes \in Nat
        BY <4>1 DEF HeaderOK
      <4> QED
        BY <2>13, <4>2 DEF HeaderOK, PublishUsed
    <3>3. ObjectsOK'
      BY <2>13 DEF ObjectsOK, ThreadsOK, PublishUsed
    <3>4. ThreadsOK'
      BY <2>13 DEF ThreadsOK, PC, Faults, PublishUsed
    <3> QED
      BY <3>1, <3>2, <3>3, <3>4
  <2>14. ASSUME NEW t \in Thread, PublishOffset(t) PROVE FileOK' /\ HeaderOK' /\ ObjectsOK' /\ ThreadsOK'
    <3>1. FileOK'
      BY <2>14 DEF FileOK, PublishOffset
    <3>2. HeaderOK'
      <4>1. rollback_info[ProcessOf[t]].write_offset \in Slot
        BY <2>14 DEF PublishOffset, HolderInv, OffsetInv, ThreadsOK
      <4> QED
        BY <2>14, <4>1 DEF HeaderOK, PublishOffset
    <3>3. ObjectsOK'
      BY <2>14 DEF ObjectsOK, ThreadsOK, PublishOffset
    <3>4. ThreadsOK'
      BY <2>14 DEF ThreadsOK, PC, Faults, PublishOffset
    <3> QED
      BY <3>1, <3>2, <3>3, <3>4
  <2>15. ASSUME NEW t \in Thread, PublishCounts(t) PROVE FileOK' /\ HeaderOK' /\ ObjectsOK' /\ ThreadsOK'
    <3>1. FileOK'
      BY <2>15 DEF FileOK, PublishCounts
    <3>2. HeaderOK'
      <4>1. header.commit_sequence + 1 \in Nat /\ header.total_records + added \in Nat
        BY DEF HeaderOK, ThreadsOK
      <4> QED
        BY <2>15, <4>1 DEF HeaderOK, PublishCounts
    <3>3. ObjectsOK'
      BY <2>15 DEF ObjectsOK, ThreadsOK, PublishCounts
    <3>4. ThreadsOK'
      BY <2>15 DEF ThreadsOK, PC, Faults, PublishCounts
    <3> QED
      BY <3>1, <3>2, <3>3, <3>4
  <2>16. ASSUME NEW t \in Thread, EndCommit(t) PROVE FileOK' /\ HeaderOK' /\ ObjectsOK' /\ ThreadsOK'
    <3>1. FileOK'
      BY <2>16 DEF FileOK, EndCommit, end_transaction
    <3>2. HeaderOK'
      BY <2>16 DEF HeaderOK, EndCommit, end_transaction
    <3>3. ObjectsOK'
      <4> QED
        BY <2>16, NoRollbackType DEF EndCommit, end_transaction, ObjectsOK, ThreadsOK
    <3>4. ThreadsOK'
      BY <2>16 DEF ThreadsOK, PC, Faults, EndCommit, end_transaction
    <3> QED
      BY <3>1, <3>2, <3>3, <3>4
  <2>17. ASSUME NEW t \in Thread, force_rollback(t) PROVE FileOK' /\ HeaderOK' /\ ObjectsOK' /\ ThreadsOK'
    <3>1. FileOK'
      BY <2>17 DEF FileOK, force_rollback, Ready, in_transaction, end_transaction
    <3>2. HeaderOK'
      BY <2>17 DEF HeaderOK, force_rollback, Ready, in_transaction, end_transaction
    <3>3. ObjectsOK'
      <4>2. <<>> \in Seq(Slot)
        OBVIOUS
      <4> QED
        BY <2>17, NoRollbackType, <4>2 DEF force_rollback, end_transaction, ObjectsOK, ThreadsOK
    <3>4. ThreadsOK'
      BY <2>17 DEF ThreadsOK, PC, Faults, force_rollback, Ready, in_transaction, end_transaction
    <3> QED
      BY <3>1, <3>2, <3>3, <3>4
  <2>18. ASSUME NEW p \in Process, Open(p) PROVE FileOK' /\ HeaderOK' /\ ObjectsOK' /\ ThreadsOK'
    <3>1. FileOK'
      BY <2>18 DEF FileOK, Open
    <3>2. HeaderOK'
      BY <2>18 DEF HeaderOK, Open
    <3>3. ObjectsOK'
      BY <2>18 DEF ObjectsOK, ThreadsOK, Open
    <3>4. ThreadsOK'
      BY <2>18 DEF ThreadsOK, PC, Faults, Open
    <3> QED
      BY <3>1, <3>2, <3>3, <3>4
  <2>19. ASSUME NEW p \in Process, finish(p) PROVE FileOK' /\ HeaderOK' /\ ObjectsOK' /\ ThreadsOK'
    <3>1. FileOK'
      BY <2>19 DEF FileOK, finish, SetWriteState
    <3>2. HeaderOK'
      BY <2>19 DEF HeaderOK, finish, SetWriteState, WriteState
    <3>3. ObjectsOK'
      BY <2>19 DEF ObjectsOK, ThreadsOK, finish, SetWriteState
    <3>4. ThreadsOK'
      BY <2>19 DEF ThreadsOK, PC, Faults, finish, SetWriteState
    <3> QED
      BY <3>1, <3>2, <3>3, <3>4
  <2>20. ASSUME NEW p \in Process, archive(p) PROVE FileOK' /\ HeaderOK' /\ ObjectsOK' /\ ThreadsOK'
    <3>1. FileOK'
      BY <2>20 DEF FileOK, archive, SetWriteState
    <3>2. HeaderOK'
      BY <2>20 DEF HeaderOK, archive, SetWriteState, WriteState
    <3>3. ObjectsOK'
      BY <2>20 DEF ObjectsOK, ThreadsOK, archive, SetWriteState
    <3>4. ThreadsOK'
      BY <2>20 DEF ThreadsOK, PC, Faults, archive, SetWriteState
    <3> QED
      BY <3>1, <3>2, <3>3, <3>4
  <2>21. ASSUME NEW p \in Process, Crash(p) PROVE FileOK' /\ HeaderOK' /\ ObjectsOK' /\ ThreadsOK'
    <3>1. FileOK'
      BY <2>21 DEF FileOK, Crash, Fault
    <3>2. HeaderOK'
      BY <2>21 DEF HeaderOK, Crash, Fault
    <3>3. ObjectsOK'
      <4>2. <<>> \in Seq(Slot)
        OBVIOUS
      <4> QED
        BY <2>21, NoRollbackType, <4>2 DEF Crash, ObjectsOK
    <3>4. ThreadsOK'
      <4> DEFINE mine == {t \in Thread : ProcessOf[t] = p}
      <4>1. crashes + 1 \in Nat
        BY DEF ThreadsOK
      <4>2. pc' \in [Thread -> PC]
        BY <2>21 DEF Crash, ThreadsOK, PC
      <4>3. faults' \subseteq Faults
        BY <2>21 DEF Crash, Fault, ThreadsOK, Faults
      <4>4. cursor' \in Nat /\ added' \in Nat
        BY <2>21 DEF Crash, ThreadsOK
      <4>5. holder' \in Thread \cup {NoThread, DeadThread}
        BY <2>21 DEF Crash, ThreadsOK
      <4>6. ProcessOf' = ProcessOf /\ written' = written /\ crashes' = crashes + 1
        BY <2>21 DEF Crash
      <4> QED
        BY <4>1, <4>2, <4>3, <4>4, <4>5, <4>6 DEF ThreadsOK
    <3> QED
      BY <3>1, <3>2, <3>3, <3>4
  <2>22. CASE Expire
    <3>1. FileOK'
      BY <2>22 DEF FileOK, Expire, Fault
    <3>2. HeaderOK'
      BY <2>22 DEF HeaderOK, Expire, Fault
    <3>3. ObjectsOK'
      BY <2>22 DEF ObjectsOK, ThreadsOK, Expire, Fault
    <3>4. ThreadsOK'
      BY <2>22 DEF ThreadsOK, PC, Faults, Expire, Fault
    <3> QED
      BY <3>1, <3>2, <3>3, <3>4
  <2>23. CASE UNCHANGED vars
    BY <2>23 DEF vars, FileOK, HeaderOK, ObjectsOK, ThreadsOK
  <2> QED
    BY <2>1, <2>2, <2>3, <2>4, <2>5, <2>6, <2>7, <2>8, <2>9, <2>10, <2>11, <2>12,
       <2>13, <2>14, <2>15, <2>16, <2>17, <2>18, <2>19, <2>20, <2>21, <2>22, <2>23
    DEF Next, CommitStep
<1> QED
  BY <1>3 DEF TypeOK

----------------------------------------------------------------------------
(* A commit runs in the thread that holds the lock, and the process of the  *)
(* holder is in a transaction: a close under a sibling's transaction is the *)
(* one step that would break it, and is not modelled.                       *)
LEMMA StepHolder == ASSUME TypeOK, HolderInv, [Next]_vars PROVE HolderInv'
<1>1. ObjectsOK /\ ThreadsOK
  BY DEF TypeOK
<1>2. ASSUME [Next]_vars PROVE HolderInv'
  <2> USE <1>1, <1>2, ProcessAssumption
      DEF HolderInv, ObjectsOK, ThreadsOK, Goto, shared, local, lock, commit, history
  <2>1. ASSUME NEW t \in Thread, Close(t) PROVE HolderInv'
    BY <2>1 DEF Close, Ready, Fault
  <2>2. ASSUME NEW t \in Thread, Start(t) PROVE HolderInv'
    BY <2>2 DEF Start, Ready, setup_transaction
  <2>3. ASSUME NEW t \in Thread, StartAgain(t) PROVE HolderInv'
    BY <2>3 DEF StartAgain, Ready, setup_transaction
  <2>4. ASSUME NEW t \in Thread, StartTimedOut(t) PROVE HolderInv'
    BY <2>4 DEF StartTimedOut, Ready, setup_transaction, Fault
  <2>5. ASSUME NEW t \in Thread, Write(t) PROVE HolderInv'
    BY <2>5 DEF Write, Ready, in_transaction
  <2>6. ASSUME NEW t \in Thread, NEW i \in Slot, delete_record(t, i) PROVE HolderInv'
    BY <2>6 DEF delete_record, Ready, in_transaction, Fault, Readable
  <2>7. ASSUME NEW t \in Thread, Commit(t) PROVE HolderInv'
    BY <2>7 DEF Commit, Ready, in_transaction
  <2>8. ASSUME NEW t \in Thread, MarkDeleted(t) PROVE HolderInv'
    BY <2>8 DEF MarkDeleted, Readable
  <2>9. ASSUME NEW t \in Thread, CountDeleted(t) PROVE HolderInv'
    BY <2>9 DEF CountDeleted
  <2>10. ASSUME NEW t \in Thread, ClearDeletes(t) PROVE HolderInv'
    BY <2>10 DEF ClearDeletes
  <2>11. ASSUME NEW t \in Thread, MarkReadable(t) PROVE HolderInv'
    BY <2>11 DEF MarkReadable
  <2>12. ASSUME NEW t \in Thread, PublishIndex(t) PROVE HolderInv'
    BY <2>12 DEF PublishIndex
  <2>13. ASSUME NEW t \in Thread, PublishUsed(t) PROVE HolderInv'
    BY <2>13 DEF PublishUsed
  <2>14. ASSUME NEW t \in Thread, PublishOffset(t) PROVE HolderInv'
    BY <2>14 DEF PublishOffset
  <2>15. ASSUME NEW t \in Thread, PublishCounts(t) PROVE HolderInv'
    BY <2>15 DEF PublishCounts
  <2>16. ASSUME NEW t \in Thread, EndCommit(t) PROVE HolderInv'
    BY <2>16 DEF EndCommit, end_transaction
  <2>17. ASSUME NEW t \in Thread, force_rollback(t) PROVE HolderInv'
    BY <2>17 DEF force_rollback, Ready, in_transaction, end_transaction
  <2>18. ASSUME NEW p \in Process, Open(p) PROVE HolderInv'
    BY <2>18 DEF Open
  <2>19. ASSUME NEW p \in Process, finish(p) PROVE HolderInv'
    BY <2>19 DEF finish, SetWriteState
  <2>20. ASSUME NEW p \in Process, archive(p) PROVE HolderInv'
    BY <2>20 DEF archive, SetWriteState
  <2>21. ASSUME NEW p \in Process, Crash(p) PROVE HolderInv'
    BY <2>21 DEF Crash, Fault
  <2>22. CASE Expire
    BY <2>22 DEF Expire, Fault
  <2>23. CASE UNCHANGED vars
    BY <2>23 DEF vars
  <2> QED
    BY <2>1, <2>2, <2>3, <2>4, <2>5, <2>6, <2>7, <2>8, <2>9, <2>10, <2>11, <2>12,
       <2>13, <2>14, <2>15, <2>16, <2>17, <2>18, <2>19, <2>20, <2>21, <2>22, <2>23
    DEF Next, CommitStep
<1> QED
  BY <1>2

LEMMA BothAdvance ==
  ASSUME NEW a \in Nat, NEW b \in Nat, NEW c \in Nat, NEW d \in Nat,
         c <= b, a + c = b + d
  PROVE  c <= b + 1 /\ (a + 1) + c = (b + 1) + d
  OBVIOUS

LEMMA WriteAdvances ==
  ASSUME HeaderOK, ObjectsOK, ThreadsOK, OffsetInv, NEW t \in Thread, Write(t)
  PROVE  LET r == rollback_info'[ProcessOf[t]] IN
         /\ header.write_offset <= r.write_offset
         /\ r.last_index + header.write_offset = r.write_offset + header.last_index
<1> DEFINE r == rollback_info[ProcessOf[t]]
<1>1. ProcessOf[t] \in Process
  BY DEF ThreadsOK
<1>2. r.last_index \in Nat /\ r.write_offset \in Nat
  BY <1>1 DEF ObjectsOK, Index
<1>3. header.last_index \in Nat /\ header.write_offset \in Nat
  BY DEF HeaderOK, Slot
<1>4. header.write_offset <= r.write_offset
      /\ r.last_index + header.write_offset = r.write_offset + header.last_index
  BY DEF OffsetInv, Write, Ready, in_transaction, Preparing
<1>5. header.write_offset <= r.write_offset + 1
      /\ (r.last_index + 1) + header.write_offset = (r.write_offset + 1) + header.last_index
  BY <1>2, <1>3, <1>4, BothAdvance
<1>6. rollback_info'[ProcessOf[t]].last_index = r.last_index + 1
      /\ rollback_info'[ProcessOf[t]].write_offset = r.write_offset + 1
  BY <1>1 DEF Write, ObjectsOK
<1> QED
  BY <1>5, <1>6

(* Index and offset of the transaction run ahead of the header's together.  *)
LEMMA StepOffset == ASSUME TypeOK, HolderInv, HolderInv', OffsetInv, [Next]_vars PROVE OffsetInv'
<1>1. HeaderOK /\ ObjectsOK /\ ThreadsOK
  BY DEF TypeOK
<1>2. ASSUME [Next]_vars PROVE OffsetInv'
  <2> USE <1>1, <1>2, ProcessAssumption, BoundAssumption
      DEF HolderInv, OffsetInv, HeaderOK, ObjectsOK, ThreadsOK, Slot, Index, Goto,
          Preparing, Publishing, NoRollback, shared, local, lock, commit, history
  <2>1. ASSUME NEW t \in Thread, Close(t) PROVE OffsetInv'
    <3> DEFINE q == ProcessOf[t]
    <3>1. q \in Process /\ header' = header /\ pc' = pc /\ ProcessOf' = ProcessOf
          /\ rollback_info' = [rollback_info EXCEPT ![q] = NoRollback]
      BY <2>1 DEF Close
    <3>2. holder' \in {holder, NoThread} /\ holder' # t
      BY <2>1 DEF Close
    <3>3. \A u \in Thread : holder' = u => ProcessOf[u] # q
      BY <2>1, <3>2 DEF Close
    <3>4. \A p \in Process : rollback_info'[p].in_transaction => rollback_info'[p] = rollback_info[p]
      BY <3>1
    <3>5. \A u \in Thread : holder' = u => holder = u /\ rollback_info'[ProcessOf[u]] = rollback_info[ProcessOf[u]]
      BY <3>1, <3>2, <3>3
    <3> QED
      BY <3>1, <3>4, <3>5
  <2>2. ASSUME NEW t \in Thread, Start(t) PROVE OffsetInv'
    BY <2>2 DEF Start, Ready, setup_transaction
  <2>3. ASSUME NEW t \in Thread, StartAgain(t) PROVE OffsetInv'
    BY <2>3, SMTT(30) DEF StartAgain, Ready, setup_transaction
  <2>4. ASSUME NEW t \in Thread, StartTimedOut(t) PROVE OffsetInv'
    BY <2>4, SMTT(30) DEF StartTimedOut, Ready, setup_transaction, Fault
  <2>5. ASSUME NEW t \in Thread, Write(t) PROVE OffsetInv'
    <3> DEFINE q == ProcessOf[t]
    <3>1. q \in Process /\ header' = header /\ pc' = pc /\ ProcessOf' = ProcessOf /\ holder' = holder
          /\ holder = t /\ rollback_info[q].in_transaction /\ rollback_info[q].last_index <= MaxRecords
      BY <2>5 DEF Write, in_transaction
    <3>2. rollback_info'[q].last_index = rollback_info[q].last_index + 1
          /\ rollback_info'[q].write_offset = rollback_info[q].write_offset + 1
          /\ \A p \in Process \ {q} : rollback_info'[p] = rollback_info[p]
      BY <2>5, <3>1 DEF Write
    <3>3. pc[t] = "run"
      BY <2>5 DEF Write, Ready
    <3>4. \A p \in Process : rollback_info'[p].in_transaction =>
            /\ rollback_info'[p].write_offset \in Slot /\ rollback_info'[p].last_index \in Slot
            /\ rollback_info'[p].write_offset <= rollback_info'[p].last_index
      <4>1. ASSUME NEW p \in Process \ {q}, rollback_info'[p].in_transaction
            PROVE  /\ rollback_info'[p].write_offset \in Slot /\ rollback_info'[p].last_index \in Slot
                   /\ rollback_info'[p].write_offset <= rollback_info'[p].last_index
        BY <4>1, <3>2
      <4>2. /\ rollback_info'[q].write_offset \in Slot /\ rollback_info'[q].last_index \in Slot
            /\ rollback_info'[q].write_offset <= rollback_info'[q].last_index
        BY <3>1, <3>2
      <4> QED
        BY <4>1, <4>2
    <3>5. header.write_offset <= rollback_info'[q].write_offset
          /\ rollback_info'[q].last_index + header.write_offset
               = rollback_info'[q].write_offset + header.last_index
      BY <2>5, WriteAdvances
    <3> QED
      BY <3>1, <3>3, <3>4, <3>5
  <2>6. ASSUME NEW t \in Thread, NEW i \in Slot, delete_record(t, i) PROVE OffsetInv'
    BY <2>6 DEF delete_record, Ready, in_transaction, Fault, Readable
  <2>7. ASSUME NEW t \in Thread, Commit(t) PROVE OffsetInv'
    BY <2>7 DEF Commit, Ready, in_transaction
  <2>8. ASSUME NEW t \in Thread, MarkDeleted(t) PROVE OffsetInv'
    <3>1. UNCHANGED <<header, rollback_info, holder, ProcessOf>>
      BY <2>8 DEF MarkDeleted
    <3>2. pc' \in {[pc EXCEPT ![t] = "count"], [pc EXCEPT ![t] = "run"]} /\ pc[t] = "deletes"
      BY <2>8 DEF MarkDeleted
    <3> QED
      BY <3>1, <3>2
  <2>9. ASSUME NEW t \in Thread, CountDeleted(t) PROVE OffsetInv'
    BY <2>9 DEF CountDeleted
  <2>10. ASSUME NEW t \in Thread, ClearDeletes(t) PROVE OffsetInv'
    BY <2>10 DEF ClearDeletes
  <2>11. ASSUME NEW t \in Thread, MarkReadable(t) PROVE OffsetInv'
    BY <2>11 DEF MarkReadable
  <2>12. ASSUME NEW t \in Thread, PublishIndex(t) PROVE OffsetInv'
    <3> DEFINE q == ProcessOf[t]
    <3>1. q \in Process /\ UNCHANGED <<rollback_info, holder, ProcessOf>>
          /\ pc' = [pc EXCEPT ![t] = "used"] /\ pc[t] = "records" /\ holder = t
      BY <2>12 DEF PublishIndex
    <3>2. header'.last_index = rollback_info[q].last_index
          /\ header'.write_offset = header.write_offset
      BY <2>12 DEF PublishIndex
    <3>3. rollback_info[q].in_transaction /\ rollback_info[q].write_offset <= rollback_info[q].last_index
          /\ header.write_offset <= rollback_info[q].write_offset
      BY <3>1
    <3>4. \A u \in Thread : holder = u => u = t
      BY <3>1
    <3>5. header'.write_offset <= header'.last_index
      BY <3>1, <3>2, <3>3
    <3> QED
      BY <3>1, <3>2, <3>3, <3>4, <3>5
  <2>13. ASSUME NEW t \in Thread, PublishUsed(t) PROVE OffsetInv'
    BY <2>13 DEF PublishUsed
  <2>14. ASSUME NEW t \in Thread, PublishOffset(t) PROVE OffsetInv'
    BY <2>14, SMTT(30) DEF PublishOffset
  <2>15. ASSUME NEW t \in Thread, PublishCounts(t) PROVE OffsetInv'
    BY <2>15 DEF PublishCounts
  <2>16. ASSUME NEW t \in Thread, EndCommit(t) PROVE OffsetInv'
    BY <2>16, SMTT(30) DEF EndCommit, end_transaction
  <2>17. ASSUME NEW t \in Thread, force_rollback(t) PROVE OffsetInv'
    BY <2>17 DEF force_rollback, Ready, in_transaction, end_transaction
  <2>18. ASSUME NEW p \in Process, Open(p) PROVE OffsetInv'
    BY <2>18 DEF Open
  <2>19. ASSUME NEW p \in Process, finish(p) PROVE OffsetInv'
    BY <2>19 DEF finish, SetWriteState
  <2>20. ASSUME NEW p \in Process, archive(p) PROVE OffsetInv'
    BY <2>20 DEF archive, SetWriteState
  <2>21. ASSUME NEW p \in Process, Crash(p) PROVE OffsetInv'
    BY <2>21 DEF Crash, Fault
  <2>22. CASE Expire
    BY <2>22 DEF Expire, Fault
  <2>23. CASE UNCHANGED vars
    BY <2>23 DEF vars
  <2> QED
    BY <2>1, <2>2, <2>3, <2>4, <2>5, <2>6, <2>7, <2>8, <2>9, <2>10, <2>11, <2>12,
       <2>13, <2>14, <2>15, <2>16, <2>17, <2>18, <2>19, <2>20, <2>21, <2>22, <2>23
    DEF Next, CommitStep
<1> QED
  BY <1>2

----------------------------------------------------------------------------
(* The invariant, without what concerns the records.                        *)
LEMMA InitBase == Init => TypeOK /\ HolderInv /\ OffsetInv
<1> SUFFICES ASSUME Init PROVE TypeOK /\ HolderInv /\ OffsetInv
  OBVIOUS
<1> USE ProcessAssumption, BoundAssumption
<1>1. FileOK
  BY DEF Init, FileOK, Index, RecordState
<1>2. HeaderOK
  BY DEF Init, HeaderOK, Slot, WriteState
<1>3. ObjectsOK
  <2>1. <<>> \in Seq(Slot)
    OBVIOUS
  <2> QED
    BY <2>1, NoRollbackType DEF Init, ObjectsOK
<1>4. ThreadsOK
  BY DEF Init, ThreadsOK, PC, Faults
<1>5. HolderInv
  BY DEF Init, HolderInv
<1>6. OffsetInv
  BY <1>4 DEF Init, OffsetInv, NoRollback, ThreadsOK
<1> QED
  BY <1>1, <1>2, <1>3, <1>4, <1>5, <1>6 DEF TypeOK

(* base_block.cpp: the header, the rollback information and the list of     *)
(* deletes hold values of their types after every operation, death and      *)
(* expiry, for any number of processes and threads.                         *)
THEOREM TypeCorrect == Spec => []TypeOK
<1>1. TypeOK /\ HolderInv /\ OffsetInv /\ [Next]_vars
        => (TypeOK /\ HolderInv /\ OffsetInv)'
  BY StepType, StepHolder, StepOffset
<1> QED
  BY <1>1, InitBase, PTL DEF Spec

----------------------------------------------------------------------------
(* What lies between the offsets stays the records of the transaction.      *)
LEMMA StepDirty ==
  ASSUME TypeOK, HolderInv, OffsetInv, DirtyInv, [Next]_vars PROVE DirtyInv'
<1>1. FileOK /\ HeaderOK /\ ObjectsOK /\ ThreadsOK
  BY DEF TypeOK
<1>2. ASSUME [Next]_vars PROVE DirtyInv'
  <2> USE <1>1, <1>2, ProcessAssumption, BoundAssumption
      DEF DirtyInv, HolderInv, HeaderOK, ObjectsOK, ThreadsOK, Slot, Goto, Preparing,
          shared, local, lock, commit, history
  <2>1. ASSUME NEW t \in Thread, Close(t) PROVE DirtyInv'
    BY <2>1 DEF Close, Ready, Fault
  <2>2. ASSUME NEW t \in Thread, Start(t) PROVE DirtyInv'
    BY <2>2 DEF Start, Ready, setup_transaction
  <2>3. ASSUME NEW t \in Thread, StartAgain(t) PROVE DirtyInv'
    BY <2>3 DEF StartAgain, Ready, setup_transaction
  <2>4. ASSUME NEW t \in Thread, StartTimedOut(t) PROVE DirtyInv'
    BY <2>4 DEF StartTimedOut, Ready, setup_transaction, Fault
  <2>5. ASSUME NEW t \in Thread, Write(t) PROVE DirtyInv'
    <3> DEFINE q == ProcessOf[t]  w == rollback_info[q].write_offset
    <3>1. UNCHANGED <<header, pc, holder, ProcessOf>> /\ holder = t /\ pc[t] = "run" /\ q \in Process
      BY <2>5 DEF Write, Ready, in_transaction
    <3>2. file' = [file EXCEPT ![w] = [index |-> rollback_info[q].last_index, state |-> "DIRTY"]]
          /\ rollback_info'[q].write_offset = w + 1
      BY <2>5, <3>1 DEF Write
    <3>3. header.write_offset \in Nat /\ w \in Slot
      BY <3>1 DEF OffsetInv
    <3>4. ASSUME header.last_index = header.write_offset, NEW s \in header.write_offset .. w
          PROVE  file'[s].index = s
      <4>1. rollback_info[q].last_index = w
        BY <3>1, <3>3, <3>4 DEF OffsetInv, Index
      <4>2. CASE s = w
        BY <4>1, <4>2, <3>2, <3>3 DEF FileOK
      <4>3. CASE s # w
        <5>1. s \in header.write_offset .. w - 1
          BY <4>3, <3>3, <3>4
        <5> QED
          BY <5>1, <4>3, <3>1, <3>2, <3>3, <3>4 DEF FileOK
      <4> QED
        BY <4>2, <4>3
    <3>5. header.write_offset .. (w + 1) - 1 = header.write_offset .. w
      BY <3>3
    <3> QED
      BY <3>1, <3>2, <3>4, <3>5, ZenonT(30)
  <2>6. ASSUME NEW t \in Thread, NEW i \in Slot, delete_record(t, i) PROVE DirtyInv'
    BY <2>6 DEF delete_record, Ready, in_transaction, Fault, Readable
  <2>7. ASSUME NEW t \in Thread, Commit(t) PROVE DirtyInv'
    BY <2>7 DEF Commit, Ready, in_transaction
  <2>8. ASSUME NEW t \in Thread, MarkDeleted(t) PROVE DirtyInv'
    <3>1. UNCHANGED <<header, rollback_info, holder, ProcessOf>> /\ holder = t
          /\ pc' \in {[pc EXCEPT ![t] = "count"], [pc EXCEPT ![t] = "run"]} /\ pc[t] = "deletes"
      BY <2>8 DEF MarkDeleted
    <3>2. UNCHANGED file \/ \E s \in Slot : file' = [file EXCEPT ![s].state = "DELETED"]
      BY <2>8 DEF MarkDeleted, Readable
    <3>3. \A s \in Slot : file'[s].index = file[s].index
      <4>1. ASSUME NEW d \in Slot, file' = [file EXCEPT ![d].state = "DELETED"], NEW s \in Slot
            PROVE  file'[s].index = file[s].index
        BY <4>1 DEF FileOK
      <4> QED
        BY <3>2, <4>1
    <3>4. rollback_info[ProcessOf[t]].write_offset \in Slot
      BY <3>1 DEF OffsetInv
    <3>5. ASSUME header.last_index = header.write_offset,
                 NEW s \in header.write_offset .. rollback_info[ProcessOf[t]].write_offset - 1
          PROVE  file'[s].index = s
      <4>1. s \in Slot
        BY <3>4, <3>5
      <4>2. file[s].index = s
        BY <3>1, <3>5
      <4> QED
        BY <3>3, <4>1, <4>2
    <3> QED
      BY <3>1, <3>5
  <2>9. ASSUME NEW t \in Thread, CountDeleted(t) PROVE DirtyInv'
    BY <2>9, SMTT(30) DEF CountDeleted
  <2>10. ASSUME NEW t \in Thread, ClearDeletes(t) PROVE DirtyInv'
    BY <2>10 DEF ClearDeletes
  <2>11. ASSUME NEW t \in Thread, MarkReadable(t) PROVE DirtyInv'
    <3> DEFINE w == rollback_info[ProcessOf[t]].write_offset
    <3>1. UNCHANGED <<header, rollback_info, holder, ProcessOf, pc>> /\ holder = t /\ pc[t] = "records"
      BY <2>11 DEF MarkReadable
    <3>2. file' = [file EXCEPT ![cursor].state = "READABLE"] /\ cursor' = cursor + 1
      BY <2>11 DEF MarkReadable
    <3>3. w \in Slot /\ header.write_offset \in Slot
      BY <3>1 DEF OffsetInv
    <3>4. ASSUME header.last_index = header.write_offset, NEW s \in header.write_offset .. w - 1
          PROVE  file'[s].index = s /\ (s < cursor + 1 => file'[s].state = "READABLE")
      <4>1. s \in Slot /\ s \in Nat
        BY <3>3
      <4>2. file[s].index = s /\ (s < cursor => file[s].state = "READABLE")
        BY <3>1, <3>4
      <4>3. CASE cursor \in Slot
        <5>1. file'[s].index = file[s].index
              /\ file'[s].state = IF s = cursor THEN "READABLE" ELSE file[s].state
          BY <4>1, <4>3, <3>2 DEF FileOK
        <5> QED
          BY <5>1, <4>1, <4>2
      <4>4. CASE cursor \notin Slot
        <5>1. file' = file
          BY <4>4, <3>2 DEF FileOK
        <5>2. s # cursor
          BY <4>1, <4>4
        <5> QED
          BY <5>1, <5>2, <4>1, <4>2
      <4> QED
        BY <4>3, <4>4
    <3> QED
      BY <3>1, <3>2, <3>4
  <2>12. ASSUME NEW t \in Thread, PublishIndex(t) PROVE DirtyInv'
    BY <2>12 DEF PublishIndex
  <2>13. ASSUME NEW t \in Thread, PublishUsed(t) PROVE DirtyInv'
    BY <2>13 DEF PublishUsed
  <2>14. ASSUME NEW t \in Thread, PublishOffset(t) PROVE DirtyInv'
    BY <2>14 DEF PublishOffset
  <2>15. ASSUME NEW t \in Thread, PublishCounts(t) PROVE DirtyInv'
    BY <2>15 DEF PublishCounts
  <2>16. ASSUME NEW t \in Thread, EndCommit(t) PROVE DirtyInv'
    BY <2>16 DEF EndCommit, end_transaction
  <2>17. ASSUME NEW t \in Thread, force_rollback(t) PROVE DirtyInv'
    BY <2>17 DEF force_rollback, Ready, in_transaction, end_transaction
  <2>18. ASSUME NEW p \in Process, Open(p) PROVE DirtyInv'
    BY <2>18 DEF Open
  <2>19. ASSUME NEW p \in Process, finish(p) PROVE DirtyInv'
    BY <2>19 DEF finish, SetWriteState
  <2>20. ASSUME NEW p \in Process, archive(p) PROVE DirtyInv'
    BY <2>20 DEF archive, SetWriteState
  <2>21. ASSUME NEW p \in Process, Crash(p) PROVE DirtyInv'
    BY <2>21 DEF Crash, Fault
  <2>22. CASE Expire
    BY <2>22 DEF Expire, Fault
  <2>23. CASE UNCHANGED vars
    BY <2>23 DEF vars
  <2> QED
    BY <2>1, <2>2, <2>3, <2>4, <2>5, <2>6, <2>7, <2>8, <2>9, <2>10, <2>11, <2>12,
       <2>13, <2>14, <2>15, <2>16, <2>17, <2>18, <2>19, <2>20, <2>21, <2>22, <2>23
    DEF Next, CommitStep
<1> QED
  BY <1>2

LEMMA ChainKept ==
  ASSUME HeaderOK, ChainIntact, Broken => Broken', header'.last_index = header.last_index,
         \A i \in 1 .. header.last_index - 1 :
           /\ file'[i].index = file[i].index
           /\ file'[i].state \in {file[i].state, "READABLE", "DELETED"}
  PROVE  ChainIntact'
  BY DEF ChainIntact, Readable, HeaderOK, Slot

(* Only the commit that publishes an index adds to the chain, and what it   *)
(* adds was marked before.                                                  *)
LEMMA StepChain ==
  ASSUME TypeOK, HolderInv, OffsetInv, DirtyInv, ChainIntact, [Next]_vars PROVE ChainIntact'
<1>1. FileOK /\ HeaderOK /\ ObjectsOK /\ ThreadsOK
  BY DEF TypeOK
<1>2. ASSUME [Next]_vars PROVE ChainIntact'
  <2> USE <1>1, <1>2, ProcessAssumption
      DEF HolderInv, ThreadsOK, ObjectsOK, Goto, shared, local, lock, commit, history
  <2>1. ASSUME NEW t \in Thread, Close(t) PROVE ChainIntact'
    <3>1. Broken => Broken'
      BY <2>1 DEF Broken, Publishing, Close, Ready, Fault
    <3>2. UNCHANGED file /\ header'.last_index = header.last_index
      BY <2>1 DEF Close, Ready, Fault
    <3> QED
      BY <3>1, <3>2, ChainKept
  <2>2. ASSUME NEW t \in Thread, Start(t) PROVE ChainIntact'
    <3>1. Broken => Broken'
      BY <2>2 DEF Broken, Publishing, Start, Ready, setup_transaction
    <3>2. UNCHANGED file /\ header'.last_index = header.last_index
      BY <2>2 DEF Start, Ready, setup_transaction
    <3> QED
      BY <3>1, <3>2, ChainKept
  <2>3. ASSUME NEW t \in Thread, StartAgain(t) PROVE ChainIntact'
    <3>1. Broken => Broken'
      BY <2>3 DEF Broken, Publishing, StartAgain, Ready, setup_transaction
    <3>2. UNCHANGED file /\ header'.last_index = header.last_index
      BY <2>3 DEF StartAgain, Ready, setup_transaction
    <3> QED
      BY <3>1, <3>2, ChainKept
  <2>4. ASSUME NEW t \in Thread, StartTimedOut(t) PROVE ChainIntact'
    <3>1. Broken => Broken'
      BY <2>4 DEF Broken, Publishing, StartTimedOut, Ready, setup_transaction, Fault
    <3>2. UNCHANGED file /\ header'.last_index = header.last_index
      BY <2>4 DEF StartTimedOut, Ready, setup_transaction, Fault
    <3> QED
      BY <3>1, <3>2, ChainKept
  <2>5. ASSUME NEW t \in Thread, Write(t) PROVE ChainIntact'
    <3> DEFINE w == rollback_info[ProcessOf[t]].write_offset
    <3>1. UNCHANGED <<header, pc, ProcessOf>> /\ holder = t /\ pc[t] = "run"
      BY <2>5 DEF Write, Ready, in_transaction
    <3>2. \A u \in Thread : ~Publishing(u)
      BY <3>1 DEF Publishing
    <3>3. Broken <=> header.last_index # header.write_offset
      BY <3>2 DEF Broken
    <3>4. Broken' <=> header.last_index # header.write_offset
      BY <3>1, <3>2 DEF Broken, Publishing
    <3>5. CASE header.last_index # header.write_offset
      BY <3>4, <3>5 DEF ChainIntact
    <3>6. CASE header.last_index = header.write_offset
      <4>1. w \in Slot /\ header.write_offset <= w /\ header.last_index \in Slot
        BY <3>1 DEF OffsetInv, HeaderOK
      <4>2. \A i \in 1 .. header.last_index - 1 : i # w
        BY <4>1, <3>6, BoundAssumption DEF Slot
      <4>3. \A i \in 1 .. header.last_index - 1 : i \in Slot
        BY <4>1, BoundAssumption DEF Slot
      <4>4. \A i \in 1 .. header.last_index - 1 : file'[i] = file[i]
        BY <2>5, <4>2, <4>3 DEF Write, FileOK
      <4> QED
        BY <3>1, <3>3, <3>4, <4>4, ChainKept
    <3> QED
      BY <3>5, <3>6
  <2>6. ASSUME NEW t \in Thread, NEW i \in Slot, delete_record(t, i) PROVE ChainIntact'
    <3>1. Broken => Broken'
      BY <2>6 DEF Broken, Publishing, delete_record, Ready, in_transaction, Fault, Readable
    <3>2. UNCHANGED file /\ header'.last_index = header.last_index
      BY <2>6 DEF delete_record, Ready, in_transaction, Fault, Readable
    <3> QED
      BY <3>1, <3>2, ChainKept
  <2>7. ASSUME NEW t \in Thread, Commit(t) PROVE ChainIntact'
    <3>1. Broken => Broken'
      BY <2>7 DEF Broken, Publishing, Commit, Ready, in_transaction
    <3>2. UNCHANGED file /\ header'.last_index = header.last_index
      BY <2>7 DEF Commit, Ready, in_transaction
    <3> QED
      BY <3>1, <3>2, ChainKept
  <2>8. ASSUME NEW t \in Thread, MarkDeleted(t) PROVE ChainIntact'
    <3>1. pc[t] = "deletes" /\ holder = t
      BY <2>8 DEF MarkDeleted
    <3>2. \A u \in Thread : ~Publishing(u) /\ ~Publishing(u)'
      <4>1. \A u \in Thread : pc[u] \notin {"used", "offset"}
        BY <3>1
      <4>2. \A u \in Thread : pc'[u] \notin {"used", "offset"}
        BY <2>8, <4>1 DEF MarkDeleted
      <4> QED
        BY <4>1, <4>2 DEF Publishing
    <3>3. UNCHANGED header
      BY <2>8 DEF MarkDeleted
    <3>4. Broken => Broken'
      BY <3>2, <3>3 DEF Broken
    <3>5. UNCHANGED file \/ \E s \in Slot : file' = [file EXCEPT ![s].state = "DELETED"]
      BY <2>8 DEF MarkDeleted, Readable
    <3>6. \A i \in 1 .. header.last_index - 1 : i \in Slot
      BY BoundAssumption DEF HeaderOK, Slot
    <3>7. \A i \in 1 .. header.last_index - 1 :
            /\ file'[i].index = file[i].index
            /\ file'[i].state \in {file[i].state, "READABLE", "DELETED"}
      <4>1. ASSUME NEW d \in Slot, file' = [file EXCEPT ![d].state = "DELETED"], NEW i \in Slot
            PROVE  file'[i].index = file[i].index /\ file'[i].state \in {file[i].state, "DELETED"}
        BY <4>1 DEF FileOK
      <4> QED
        BY <3>5, <3>6, <4>1
    <3> QED
      BY <3>3, <3>4, <3>7, ChainKept
  <2>9. ASSUME NEW t \in Thread, CountDeleted(t) PROVE ChainIntact'
    <3>1. Broken => Broken'
      BY <2>9 DEF Broken, Publishing, CountDeleted
    <3>2. UNCHANGED file /\ header'.last_index = header.last_index
      BY <2>9 DEF CountDeleted
    <3> QED
      BY <3>1, <3>2, ChainKept
  <2>10. ASSUME NEW t \in Thread, ClearDeletes(t) PROVE ChainIntact'
    <3>1. Broken => Broken'
      BY <2>10 DEF Broken, Publishing, ClearDeletes
    <3>2. UNCHANGED file /\ header'.last_index = header.last_index
      BY <2>10 DEF ClearDeletes
    <3> QED
      BY <3>1, <3>2, ChainKept
  <2>11. ASSUME NEW t \in Thread, MarkReadable(t) PROVE ChainIntact'
    <3>1. pc[t] = "records" /\ holder = t
      BY <2>11 DEF MarkReadable
    <3>2. \A u \in Thread : ~Publishing(u) /\ ~Publishing(u)'
      <4>1. \A u \in Thread : pc[u] \notin {"used", "offset"}
        BY <3>1
      <4>2. \A u \in Thread : pc'[u] \notin {"used", "offset"}
        BY <2>11, <4>1 DEF MarkReadable
      <4> QED
        BY <4>1, <4>2 DEF Publishing
    <3>3. UNCHANGED header
      BY <2>11 DEF MarkReadable
    <3>4. Broken => Broken'
      BY <3>2, <3>3 DEF Broken
    <3>5. UNCHANGED file \/ \E s \in Slot : file' = [file EXCEPT ![s].state = "READABLE"]
      <4>1. file' = [file EXCEPT ![cursor].state = "READABLE"]
        BY <2>11 DEF MarkReadable
      <4>2. cursor \notin Slot => file' = file
        BY <4>1 DEF FileOK
      <4> QED
        BY <4>1, <4>2
    <3>6. \A i \in 1 .. header.last_index - 1 : i \in Slot
      BY BoundAssumption DEF HeaderOK, Slot
    <3>7. \A i \in 1 .. header.last_index - 1 :
            /\ file'[i].index = file[i].index
            /\ file'[i].state \in {file[i].state, "READABLE", "DELETED"}
      <4>1. ASSUME NEW d \in Slot, file' = [file EXCEPT ![d].state = "READABLE"], NEW i \in Slot
            PROVE  file'[i].index = file[i].index /\ file'[i].state \in {file[i].state, "READABLE"}
        BY <4>1 DEF FileOK
      <4> QED
        BY <3>5, <3>6, <4>1
    <3> QED
      BY <3>3, <3>4, <3>7, ChainKept
  <2>12. ASSUME NEW t \in Thread, PublishIndex(t) PROVE ChainIntact'
    <3> DEFINE r == rollback_info[ProcessOf[t]]
    <3>1. /\ UNCHANGED <<file, rollback_info, ProcessOf>> /\ pc' = [pc EXCEPT ![t] = "used"]
          /\ pc[t] = "records" /\ holder = t /\ cursor >= r.write_offset
          /\ header'.last_index = r.last_index
          /\ header'.write_offset = header.write_offset
      BY <2>12 DEF PublishIndex, HeaderOK
    <3>2. \A u \in Thread : ~Publishing(u) /\ (Publishing(u)' => u = t)
      BY <3>1 DEF Publishing
    <3>3. Broken <=> header.last_index # header.write_offset
      BY <3>2 DEF Broken
    <3>4. /\ r.write_offset \in Slot /\ r.last_index \in Slot /\ r.write_offset <= r.last_index
          /\ header.write_offset <= header.last_index /\ header.write_offset <= r.write_offset
          /\ r.last_index + header.write_offset = r.write_offset + header.last_index
      BY <3>1 DEF OffsetInv, Preparing
    <3>5. /\ header.last_index \in Nat /\ header.write_offset \in Nat \ {0}
          /\ r.last_index \in Nat /\ r.write_offset \in Nat
      BY <3>4, BoundAssumption DEF HeaderOK, Slot
    <3>6. CASE header.last_index # header.write_offset
      <4>1. r.last_index # r.write_offset /\ r.last_index # header.write_offset
        BY <3>4, <3>5, <3>6
      <4>2. Broken'
        BY <4>1, <3>1, <3>2 DEF Broken
      <4> QED
        BY <4>2 DEF ChainIntact
    <3>7. CASE header.last_index = header.write_offset
      <4>1. r.last_index = r.write_offset
        BY <3>4, <3>5, <3>7
      <4>2. \A i \in 1 .. header.last_index - 1 :
              file[i].index = i /\ file[i].state \in {"READABLE", "DELETED"}
        BY <3>3, <3>5, <3>7 DEF ChainIntact, Readable
      <4>3. \A i \in header.write_offset .. r.write_offset - 1 :
              file[i].index = i /\ file[i].state = "READABLE"
        BY <3>1, <3>5, <3>7 DEF DirtyInv, Preparing
      <4>4. \A i \in 1 .. r.last_index - 1 :
              file[i].index = i /\ file[i].state \in {"READABLE", "DELETED"}
        <5> SUFFICES ASSUME NEW i \in 1 .. r.last_index - 1
                     PROVE  file[i].index = i /\ file[i].state \in {"READABLE", "DELETED"}
          OBVIOUS
        <5>1. CASE i < header.last_index
          BY <5>1, <4>2, <3>5
        <5>2. CASE ~(i < header.last_index)
          BY <5>2, <4>1, <4>3, <3>5, <3>7
        <5> QED
          BY <5>1, <5>2
      <4>5. \A i \in 1 .. r.last_index - 1 :
              i \in Slot /\ i <= r.last_index /\ 1 .. i \subseteq 1 .. r.last_index - 1
        BY <3>4, <3>5, BoundAssumption DEF Slot
      <4> QED
        BY <4>4, <4>5, <3>1 DEF ChainIntact, Readable
    <3> QED
      BY <3>6, <3>7
  <2>13. ASSUME NEW t \in Thread, PublishUsed(t) PROVE ChainIntact'
    <3>1. Broken => Broken'
      BY <2>13 DEF Broken, Publishing, PublishUsed
    <3>2. UNCHANGED file /\ header'.last_index = header.last_index
      BY <2>13 DEF PublishUsed
    <3> QED
      BY <3>1, <3>2, ChainKept
  <2>14. ASSUME NEW t \in Thread, PublishOffset(t) PROVE ChainIntact'
    <3>1. Broken => Broken'
      BY <2>14 DEF Broken, Publishing, PublishOffset
    <3>2. UNCHANGED file /\ header'.last_index = header.last_index
      BY <2>14 DEF PublishOffset
    <3> QED
      BY <3>1, <3>2, ChainKept
  <2>15. ASSUME NEW t \in Thread, PublishCounts(t) PROVE ChainIntact'
    <3>1. Broken => Broken'
      BY <2>15 DEF Broken, Publishing, PublishCounts
    <3>2. UNCHANGED file /\ header'.last_index = header.last_index
      BY <2>15 DEF PublishCounts
    <3> QED
      BY <3>1, <3>2, ChainKept
  <2>16. ASSUME NEW t \in Thread, EndCommit(t) PROVE ChainIntact'
    <3>1. Broken => Broken'
      BY <2>16 DEF Broken, Publishing, EndCommit, end_transaction
    <3>2. UNCHANGED file /\ header'.last_index = header.last_index
      BY <2>16 DEF EndCommit, end_transaction
    <3> QED
      BY <3>1, <3>2, ChainKept
  <2>17. ASSUME NEW t \in Thread, force_rollback(t) PROVE ChainIntact'
    <3>1. Broken => Broken'
      BY <2>17 DEF Broken, Publishing, force_rollback, Ready, in_transaction, end_transaction
    <3>2. UNCHANGED file /\ header'.last_index = header.last_index
      BY <2>17 DEF force_rollback, Ready, in_transaction, end_transaction
    <3> QED
      BY <3>1, <3>2, ChainKept
  <2>18. ASSUME NEW p \in Process, Open(p) PROVE ChainIntact'
    <3>1. Broken => Broken'
      BY <2>18 DEF Broken, Publishing, Open
    <3>2. UNCHANGED file /\ header'.last_index = header.last_index
      BY <2>18 DEF Open
    <3> QED
      BY <3>1, <3>2, ChainKept
  <2>19. ASSUME NEW p \in Process, finish(p) PROVE ChainIntact'
    <3>1. Broken => Broken'
      BY <2>19 DEF Broken, Publishing, finish, SetWriteState
    <3>2. UNCHANGED file /\ header'.last_index = header.last_index
      BY <2>19 DEF finish, SetWriteState
    <3> QED
      BY <3>1, <3>2, ChainKept
  <2>20. ASSUME NEW p \in Process, archive(p) PROVE ChainIntact'
    <3>1. Broken => Broken'
      BY <2>20 DEF Broken, Publishing, archive, SetWriteState
    <3>2. UNCHANGED file /\ header'.last_index = header.last_index
      BY <2>20 DEF archive, SetWriteState
    <3> QED
      BY <3>1, <3>2, ChainKept
  <2>21. ASSUME NEW p \in Process, Crash(p) PROVE ChainIntact'
    <3>1. Broken => Broken'
      BY <2>21 DEF Broken, Publishing, Crash, Fault
    <3>2. UNCHANGED file /\ header'.last_index = header.last_index
      BY <2>21 DEF Crash, Fault
    <3> QED
      BY <3>1, <3>2, ChainKept
  <2>22. CASE Expire
    <3>1. Broken => Broken'
      BY <2>22 DEF Broken, Publishing, Expire, Fault
    <3>2. UNCHANGED file /\ header'.last_index = header.last_index
      BY <2>22 DEF Expire, Fault
    <3> QED
      BY <3>1, <3>2, ChainKept
  <2>23. CASE UNCHANGED vars
    BY <2>23 DEF vars, ChainIntact, Broken, Publishing, Readable
  <2> QED
    BY <2>1, <2>2, <2>3, <2>4, <2>5, <2>6, <2>7, <2>8, <2>9, <2>10, <2>11, <2>12,
       <2>13, <2>14, <2>15, <2>16, <2>17, <2>18, <2>19, <2>20, <2>21, <2>22, <2>23
    DEF Next, CommitStep
<1> QED
  BY <1>2

(* base_block.cpp, commit: unless it is cut between the index and the       *)
(* offset, every committed record is reachable by walking the chain and is  *)
(* readable or deleted, whoever died, expired, timed out or was rolled back *)
(* before.                                                                  *)
THEOREM Chain == Spec => []ChainIntact
<1> DEFINE I == TypeOK /\ HolderInv /\ OffsetInv /\ DirtyInv /\ ChainIntact
<1>1. Init => I
  <2>1. Init => DirtyInv
    BY ProcessAssumption DEF Init, DirtyInv
  <2>2. Init => ChainIntact
    BY DEF Init, ChainIntact
  <2> QED
    BY <2>1, <2>2, InitBase
<1>2. I /\ [Next]_vars => I'
  BY StepType, StepHolder, StepOffset, StepDirty, StepChain
<1> QED
  BY <1>1, <1>2, PTL DEF Spec

----------------------------------------------------------------------------
(* The list of deletes is empty once a commit has walked it, and outside of  *)
(* a transaction until one expires.                                          *)
Cleared(t) == pc[t] \in {"records", "used", "offset", "counts", "end"}
ClearedInv == \A t \in Thread : Cleared(t) => deletes[ProcessOf[t]] = <<>>

(* Only the holder adds to the list, and not while it commits.               *)
LEMMA StepCleared ==
  ASSUME TypeOK, HolderInv, ClearedInv, [Next]_vars PROVE ClearedInv'
<1>1. HeaderOK /\ ObjectsOK /\ ThreadsOK
  BY DEF TypeOK
<1>2. ASSUME [Next]_vars PROVE ClearedInv'
  <2> USE <1>1, <1>2, ProcessAssumption
      DEF ClearedInv, Cleared, HolderInv, ObjectsOK, ThreadsOK, Goto, shared, local, lock,
          commit, history
  <2>1. ASSUME NEW t \in Thread, Close(t) PROVE ClearedInv'
    BY <2>1 DEF Close, Ready, Fault
  <2>2. ASSUME NEW t \in Thread, Start(t) PROVE ClearedInv'
    BY <2>2 DEF Start, Ready, setup_transaction
  <2>3. ASSUME NEW t \in Thread, StartAgain(t) PROVE ClearedInv'
    BY <2>3 DEF StartAgain, Ready, setup_transaction
  <2>4. ASSUME NEW t \in Thread, StartTimedOut(t) PROVE ClearedInv'
    BY <2>4 DEF StartTimedOut, Ready, setup_transaction, Fault
  <2>5. ASSUME NEW t \in Thread, Write(t) PROVE ClearedInv'
    BY <2>5 DEF Write, Ready, in_transaction
  <2>6. ASSUME NEW t \in Thread, NEW i \in Slot, delete_record(t, i) PROVE ClearedInv'
    BY <2>6 DEF delete_record, Ready, in_transaction, Fault, Readable
  <2>7. ASSUME NEW t \in Thread, Commit(t) PROVE ClearedInv'
    BY <2>7 DEF Commit, Ready, in_transaction
  <2>8. ASSUME NEW t \in Thread, MarkDeleted(t) PROVE ClearedInv'
    BY <2>8 DEF MarkDeleted, Readable
  <2>9. ASSUME NEW t \in Thread, CountDeleted(t) PROVE ClearedInv'
    BY <2>9 DEF CountDeleted
  <2>10. ASSUME NEW t \in Thread, ClearDeletes(t) PROVE ClearedInv'
    BY <2>10 DEF ClearDeletes
  <2>11. ASSUME NEW t \in Thread, MarkReadable(t) PROVE ClearedInv'
    BY <2>11 DEF MarkReadable
  <2>12. ASSUME NEW t \in Thread, PublishIndex(t) PROVE ClearedInv'
    BY <2>12 DEF PublishIndex
  <2>13. ASSUME NEW t \in Thread, PublishUsed(t) PROVE ClearedInv'
    BY <2>13 DEF PublishUsed
  <2>14. ASSUME NEW t \in Thread, PublishOffset(t) PROVE ClearedInv'
    BY <2>14 DEF PublishOffset
  <2>15. ASSUME NEW t \in Thread, PublishCounts(t) PROVE ClearedInv'
    BY <2>15 DEF PublishCounts
  <2>16. ASSUME NEW t \in Thread, EndCommit(t) PROVE ClearedInv'
    BY <2>16 DEF EndCommit, end_transaction
  <2>17. ASSUME NEW t \in Thread, force_rollback(t) PROVE ClearedInv'
    BY <2>17 DEF force_rollback, Ready, in_transaction, end_transaction
  <2>18. ASSUME NEW p \in Process, Open(p) PROVE ClearedInv'
    BY <2>18 DEF Open
  <2>19. ASSUME NEW p \in Process, finish(p) PROVE ClearedInv'
    BY <2>19 DEF finish, SetWriteState
  <2>20. ASSUME NEW p \in Process, archive(p) PROVE ClearedInv'
    BY <2>20 DEF archive, SetWriteState
  <2>21. ASSUME NEW p \in Process, Crash(p) PROVE ClearedInv'
    BY <2>21 DEF Crash, Fault
  <2>22. CASE Expire
    BY <2>22 DEF Expire, Fault
  <2>23. CASE UNCHANGED vars
    BY <2>23 DEF vars
  <2> QED
    BY <2>1, <2>2, <2>3, <2>4, <2>5, <2>6, <2>7, <2>8, <2>9, <2>10, <2>11, <2>12,
       <2>13, <2>14, <2>15, <2>16, <2>17, <2>18, <2>19, <2>20, <2>21, <2>22, <2>23
    DEF Next, CommitStep
<1> QED
  BY <1>2

LEMMA StepOwner ==
  ASSUME TypeOK, HolderInv, ClearedInv, DeletesOfOwner, [Next]_vars PROVE DeletesOfOwner'
<1>1. HeaderOK /\ ObjectsOK /\ ThreadsOK
  BY DEF TypeOK
<1>2. ASSUME [Next]_vars PROVE DeletesOfOwner'
  <2> USE <1>1, <1>2, ProcessAssumption
      DEF DeletesOfOwner, ClearedInv, Cleared, HolderInv, ObjectsOK, ThreadsOK, Goto, shared,
          local, lock, commit, history
  <2>1. ASSUME NEW t \in Thread, Close(t) PROVE DeletesOfOwner'
    BY <2>1 DEF Close, Ready, Fault
  <2>2. ASSUME NEW t \in Thread, Start(t) PROVE DeletesOfOwner'
    BY <2>2 DEF Start, Ready, setup_transaction
  <2>3. ASSUME NEW t \in Thread, StartAgain(t) PROVE DeletesOfOwner'
    BY <2>3 DEF StartAgain, Ready, setup_transaction
  <2>4. ASSUME NEW t \in Thread, StartTimedOut(t) PROVE DeletesOfOwner'
    BY <2>4 DEF StartTimedOut, Ready, setup_transaction, Fault
  <2>5. ASSUME NEW t \in Thread, Write(t) PROVE DeletesOfOwner'
    BY <2>5 DEF Write, Ready, in_transaction
  <2>6. ASSUME NEW t \in Thread, NEW i \in Slot, delete_record(t, i) PROVE DeletesOfOwner'
    BY <2>6 DEF delete_record, Ready, in_transaction, Fault, Readable
  <2>7. ASSUME NEW t \in Thread, Commit(t) PROVE DeletesOfOwner'
    BY <2>7 DEF Commit, Ready, in_transaction
  <2>8. ASSUME NEW t \in Thread, MarkDeleted(t) PROVE DeletesOfOwner'
    BY <2>8 DEF MarkDeleted, Readable
  <2>9. ASSUME NEW t \in Thread, CountDeleted(t) PROVE DeletesOfOwner'
    BY <2>9 DEF CountDeleted
  <2>10. ASSUME NEW t \in Thread, ClearDeletes(t) PROVE DeletesOfOwner'
    BY <2>10 DEF ClearDeletes
  <2>11. ASSUME NEW t \in Thread, MarkReadable(t) PROVE DeletesOfOwner'
    BY <2>11 DEF MarkReadable
  <2>12. ASSUME NEW t \in Thread, PublishIndex(t) PROVE DeletesOfOwner'
    BY <2>12 DEF PublishIndex
  <2>13. ASSUME NEW t \in Thread, PublishUsed(t) PROVE DeletesOfOwner'
    BY <2>13 DEF PublishUsed
  <2>14. ASSUME NEW t \in Thread, PublishOffset(t) PROVE DeletesOfOwner'
    BY <2>14 DEF PublishOffset
  <2>15. ASSUME NEW t \in Thread, PublishCounts(t) PROVE DeletesOfOwner'
    BY <2>15 DEF PublishCounts
  <2>16. ASSUME NEW t \in Thread, EndCommit(t) PROVE DeletesOfOwner'
    BY <2>16 DEF EndCommit, end_transaction
  <2>17. ASSUME NEW t \in Thread, force_rollback(t) PROVE DeletesOfOwner'
    BY <2>17 DEF force_rollback, Ready, in_transaction, end_transaction
  <2>18. ASSUME NEW p \in Process, Open(p) PROVE DeletesOfOwner'
    BY <2>18 DEF Open
  <2>19. ASSUME NEW p \in Process, finish(p) PROVE DeletesOfOwner'
    BY <2>19 DEF finish, SetWriteState
  <2>20. ASSUME NEW p \in Process, archive(p) PROVE DeletesOfOwner'
    BY <2>20 DEF archive, SetWriteState
  <2>21. ASSUME NEW p \in Process, Crash(p) PROVE DeletesOfOwner'
    BY <2>21 DEF Crash, Fault
  <2>22. CASE Expire
    BY <2>22 DEF Expire, Fault
  <2>23. CASE UNCHANGED vars
    BY <2>23 DEF vars
  <2> QED
    BY <2>1, <2>2, <2>3, <2>4, <2>5, <2>6, <2>7, <2>8, <2>9, <2>10, <2>11, <2>12,
       <2>13, <2>14, <2>15, <2>16, <2>17, <2>18, <2>19, <2>20, <2>21, <2>22, <2>23
    DEF Next, CommitStep
<1> QED
  BY <1>2

(* base_block.h, rollback_info_deletes: outside of a transaction of its      *)
(* process the list of deletes is empty, through deaths, rollbacks, closes   *)
(* and time-outs, until a transaction with deletes expires.                  *)
THEOREM DeletesOwned == Spec => []DeletesOfOwner
<1> DEFINE I == TypeOK /\ HolderInv /\ OffsetInv /\ ClearedInv /\ DeletesOfOwner
<1>1. Init => I
  <2>1. Init => ClearedInv /\ DeletesOfOwner
    BY DEF Init, ClearedInv, Cleared, DeletesOfOwner
  <2> QED
    BY <2>1, InitBase
<1>2. I /\ [Next]_vars => I'
  BY StepType, StepHolder, StepOffset, StepCleared, StepOwner
<1> QED
  BY <1>1, <1>2, PTL DEF Spec

----------------------------------------------------------------------------
(* Until it publishes what it uses, a transaction that has written found     *)
(* room for its first record.                                                *)
RoomInv ==
  \A t \in Thread :
    holder = t /\ (Preparing(t) \/ pc[t] = "used") /\ rollback_info[ProcessOf[t]].used_bytes > 0
      => header.used_bytes + HeaderSize + RecordSize <= BlockSize

LEMMA RoomFound ==
  ASSUME NEW a \in Nat, NEW b \in Nat,
         (IF Room(a + b) > 0 THEN Room(a + b) ELSE Room(a)) >= RecordSize
  PROVE  a + HeaderSize + RecordSize <= BlockSize
  BY SizeAssumption DEF Room

LEMMA StepRoom ==
  ASSUME TypeOK, HolderInv, HolderInv', RoomInv, [Next]_vars PROVE RoomInv'
<1>1. HeaderOK /\ ObjectsOK /\ ThreadsOK
  BY DEF TypeOK
<1>2. ASSUME [Next]_vars PROVE RoomInv'
  <2> USE <1>1, <1>2, ProcessAssumption
      DEF RoomInv, Preparing, HeaderOK, NoRollback, HolderInv, ObjectsOK, ThreadsOK, Goto,
          shared, local, lock, commit, history
  <2>1. ASSUME NEW t \in Thread, Close(t) PROVE RoomInv'
    BY <2>1 DEF Close, Ready, Fault
  <2>2. ASSUME NEW t \in Thread, Start(t) PROVE RoomInv'
    BY <2>2 DEF Start, Ready, setup_transaction
  <2>3. ASSUME NEW t \in Thread, StartAgain(t) PROVE RoomInv'
    BY <2>3 DEF StartAgain, Ready, setup_transaction
  <2>4. ASSUME NEW t \in Thread, StartTimedOut(t) PROVE RoomInv'
    BY <2>4 DEF StartTimedOut, Ready, setup_transaction, Fault
  <2>5. ASSUME NEW t \in Thread, Write(t) PROVE RoomInv'
    <3> DEFINE q == ProcessOf[t]
    <3>1. UNCHANGED <<header, holder, pc, ProcessOf>> /\ holder = t
      BY <2>5 DEF Write, in_transaction
    <3>2. header.used_bytes \in Nat /\ rollback_info[q].used_bytes \in Nat
      OBVIOUS
    <3>3. (IF Room(header.used_bytes + rollback_info[q].used_bytes) > 0
           THEN Room(header.used_bytes + rollback_info[q].used_bytes)
           ELSE Room(header.used_bytes)) >= RecordSize
      BY <2>5 DEF Write, has_space, get_free_space
    <3>4. header.used_bytes + HeaderSize + RecordSize <= BlockSize
      BY <3>2, <3>3, RoomFound
    <3> QED
      BY <3>1, <3>4
  <2>6. ASSUME NEW t \in Thread, NEW i \in Slot, delete_record(t, i) PROVE RoomInv'
    BY <2>6 DEF delete_record, Ready, in_transaction, Fault, Readable
  <2>7. ASSUME NEW t \in Thread, Commit(t) PROVE RoomInv'
    BY <2>7 DEF Commit, Ready, in_transaction
  <2>8. ASSUME NEW t \in Thread, MarkDeleted(t) PROVE RoomInv'
    BY <2>8 DEF MarkDeleted, Readable
  <2>9. ASSUME NEW t \in Thread, CountDeleted(t) PROVE RoomInv'
    BY <2>9 DEF CountDeleted
  <2>10. ASSUME NEW t \in Thread, ClearDeletes(t) PROVE RoomInv'
    BY <2>10 DEF ClearDeletes
  <2>11. ASSUME NEW t \in Thread, MarkReadable(t) PROVE RoomInv'
    BY <2>11 DEF MarkReadable
  <2>12. ASSUME NEW t \in Thread, PublishIndex(t) PROVE RoomInv'
    BY <2>12 DEF PublishIndex
  <2>13. ASSUME NEW t \in Thread, PublishUsed(t) PROVE RoomInv'
    BY <2>13 DEF PublishUsed
  <2>14. ASSUME NEW t \in Thread, PublishOffset(t) PROVE RoomInv'
    BY <2>14 DEF PublishOffset
  <2>15. ASSUME NEW t \in Thread, PublishCounts(t) PROVE RoomInv'
    BY <2>15 DEF PublishCounts
  <2>16. ASSUME NEW t \in Thread, EndCommit(t) PROVE RoomInv'
    BY <2>16 DEF EndCommit, end_transaction
  <2>17. ASSUME NEW t \in Thread, force_rollback(t) PROVE RoomInv'
    BY <2>17 DEF force_rollback, Ready, in_transaction, end_transaction
  <2>18. ASSUME NEW p \in Process, Open(p) PROVE RoomInv'
    BY <2>18 DEF Open
  <2>19. ASSUME NEW p \in Process, finish(p) PROVE RoomInv'
    BY <2>19 DEF finish, SetWriteState
  <2>20. ASSUME NEW p \in Process, archive(p) PROVE RoomInv'
    BY <2>20 DEF archive, SetWriteState
  <2>21. ASSUME NEW p \in Process, Crash(p) PROVE RoomInv'
    BY <2>21 DEF Crash, Fault
  <2>22. CASE Expire
    BY <2>22 DEF Expire, Fault
  <2>23. CASE UNCHANGED vars
    BY <2>23 DEF vars
  <2> QED
    BY <2>1, <2>2, <2>3, <2>4, <2>5, <2>6, <2>7, <2>8, <2>9, <2>10, <2>11, <2>12,
       <2>13, <2>14, <2>15, <2>16, <2>17, <2>18, <2>19, <2>20, <2>21, <2>22, <2>23
    DEF Next, CommitStep
<1> QED
  BY <1>2

(* base_block.h, has_space: whatever get_free_space answers a transaction    *)
(* that has filled the block, a block without room for a record refuses a    *)
(* transaction's first one.                                                  *)
THEOREM FullRefuses == Spec => []FullBlockRefuses
<1> DEFINE I == TypeOK /\ HolderInv /\ OffsetInv /\ RoomInv
<1>1. Init => I
  <2>1. Init => RoomInv
    BY ProcessAssumption DEF Init, RoomInv
  <2> QED
    BY <2>1, InitBase
<1>2. I /\ [Next]_vars => I'
  BY StepType, StepHolder, StepOffset, StepRoom
<1>3. I => FullBlockRefuses
  BY DEF RoomInv, FullBlockRefuses, Preparing
<1> QED
  BY <1>1, <1>2, <1>3, PTL DEF Spec

----------------------------------------------------------------------------
(* Unless another thread of its process reset it, a transaction is as far    *)
(* ahead of the header as it has written records.                            *)
WrittenInv ==
  "reset" \notin faults =>
    \A t \in Thread : holder = t /\ Preparing(t) =>
      rollback_info[ProcessOf[t]].last_index = header.last_index + written

LEMMA StepWritten ==
  ASSUME TypeOK, HolderInv, HolderInv', WrittenInv, [Next]_vars PROVE WrittenInv'
<1>1. HeaderOK /\ ObjectsOK /\ ThreadsOK
  BY DEF TypeOK
<1>2. ASSUME [Next]_vars PROVE WrittenInv'
  <2> USE <1>1, <1>2, ProcessAssumption
      DEF WrittenInv, Preparing, HeaderOK, NoRollback, Index, Slot, HolderInv, ObjectsOK,
          ThreadsOK, Goto, shared, local, lock, commit, history
  <2>1. ASSUME NEW t \in Thread, Close(t) PROVE WrittenInv'
    BY <2>1 DEF Close, Ready, Fault
  <2>2. ASSUME NEW t \in Thread, Start(t) PROVE WrittenInv'
    BY <2>2 DEF Start, Ready, setup_transaction
  <2>3. ASSUME NEW t \in Thread, StartAgain(t) PROVE WrittenInv'
    BY <2>3 DEF StartAgain, Ready, setup_transaction
  <2>4. ASSUME NEW t \in Thread, StartTimedOut(t) PROVE WrittenInv'
    BY <2>4 DEF StartTimedOut, Ready, setup_transaction, Fault
  <2>5. ASSUME NEW t \in Thread, Write(t) PROVE WrittenInv'
    BY <2>5 DEF Write, Ready, in_transaction
  <2>6. ASSUME NEW t \in Thread, NEW i \in Slot, delete_record(t, i) PROVE WrittenInv'
    BY <2>6 DEF delete_record, Ready, in_transaction, Fault, Readable
  <2>7. ASSUME NEW t \in Thread, Commit(t) PROVE WrittenInv'
    BY <2>7 DEF Commit, Ready, in_transaction
  <2>8. ASSUME NEW t \in Thread, MarkDeleted(t) PROVE WrittenInv'
    BY <2>8 DEF MarkDeleted, Readable
  <2>9. ASSUME NEW t \in Thread, CountDeleted(t) PROVE WrittenInv'
    BY <2>9 DEF CountDeleted
  <2>10. ASSUME NEW t \in Thread, ClearDeletes(t) PROVE WrittenInv'
    BY <2>10 DEF ClearDeletes
  <2>11. ASSUME NEW t \in Thread, MarkReadable(t) PROVE WrittenInv'
    BY <2>11 DEF MarkReadable
  <2>12. ASSUME NEW t \in Thread, PublishIndex(t) PROVE WrittenInv'
    BY <2>12 DEF PublishIndex
  <2>13. ASSUME NEW t \in Thread, PublishUsed(t) PROVE WrittenInv'
    BY <2>13 DEF PublishUsed
  <2>14. ASSUME NEW t \in Thread, PublishOffset(t) PROVE WrittenInv'
    BY <2>14 DEF PublishOffset
  <2>15. ASSUME NEW t \in Thread, PublishCounts(t) PROVE WrittenInv'
    BY <2>15 DEF PublishCounts
  <2>16. ASSUME NEW t \in Thread, EndCommit(t) PROVE WrittenInv'
    BY <2>16 DEF EndCommit, end_transaction
  <2>17. ASSUME NEW t \in Thread, force_rollback(t) PROVE WrittenInv'
    BY <2>17 DEF force_rollback, Ready, in_transaction, end_transaction
  <2>18. ASSUME NEW p \in Process, Open(p) PROVE WrittenInv'
    BY <2>18 DEF Open
  <2>19. ASSUME NEW p \in Process, finish(p) PROVE WrittenInv'
    BY <2>19 DEF finish, SetWriteState
  <2>20. ASSUME NEW p \in Process, archive(p) PROVE WrittenInv'
    BY <2>20 DEF archive, SetWriteState
  <2>21. ASSUME NEW p \in Process, Crash(p) PROVE WrittenInv'
    <3>1. "reset" \notin faults' => "reset" \notin faults
      BY <2>21 DEF Crash, Fault
    <3>2. UNCHANGED <<header, written, ProcessOf>>
      BY <2>21 DEF Crash
    <3>3. ASSUME NEW u \in Thread, holder' = u
          PROVE  holder = u /\ pc'[u] = pc[u] /\ rollback_info'[ProcessOf[u]] = rollback_info[ProcessOf[u]]
      BY <2>21, <3>3 DEF Crash
    <3> QED
      BY <3>1, <3>2, <3>3
  <2>22. CASE Expire
    BY <2>22 DEF Expire, Fault
  <2>23. CASE UNCHANGED vars
    BY <2>23 DEF vars
  <2> QED
    BY <2>1, <2>2, <2>3, <2>4, <2>5, <2>6, <2>7, <2>8, <2>9, <2>10, <2>11, <2>12,
       <2>13, <2>14, <2>15, <2>16, <2>17, <2>18, <2>19, <2>20, <2>21, <2>22, <2>23
    DEF Next, CommitStep
<1> QED
  BY <1>2

(* base_block.cpp, commit: a commit publishes every record its thread wrote  *)
(* since it started, however many other processes start, time out, expire or *)
(* die meanwhile, unless a thread of its own process resets the transaction. *)
THEOREM PublishedAlone == Spec => WritesPublishedAlone
<1> DEFINE I == TypeOK /\ HolderInv /\ OffsetInv /\ WrittenInv
<1>1. Init => I
  <2>1. Init => WrittenInv
    BY ProcessAssumption DEF Init, WrittenInv
  <2> QED
    BY <2>1, InitBase
<1>2. I /\ [Next]_vars => I'
  BY StepType, StepHolder, StepOffset, StepWritten
<1>3. I => \A t \in Thread : PublishIndex(t) /\ "reset" \notin faults =>
             header'.last_index = header.last_index + written
  BY DEF WrittenInv, HolderInv, Preparing, PublishIndex, TypeOK, HeaderOK
<1> QED
  BY <1>1, <1>2, <1>3, PTL DEF Spec, WritesPublishedAlone

----------------------------------------------------------------------------
(* What a commit has marked is deleted, and it marks as readable only what   *)
(* lies behind the published offset.                                         *)
Marked(t) ==
  LET d == deletes[ProcessOf[t]] IN
  /\ pc[t] \in {"deletes", "count"} =>
       /\ 1 <= cursor
       /\ \A k \in DOMAIN d : k < cursor + (IF pc[t] = "count" THEN 1 ELSE 0)
                              /\ d[k] < header.last_index => file[d[k]].state = "DELETED"
  /\ pc[t] = "records" => header.write_offset <= cursor
MarkedInv == \A t \in Thread : Marked(t)

LEMMA DeletesAreSlots ==
  ASSUME NEW d \in Seq(Slot), NEW k \in DOMAIN d PROVE d[k] \in Slot /\ k \in Nat
  OBVIOUS

LEMMA StepMarked ==
  ASSUME TypeOK, HolderInv, HolderInv', MarkedInv, [Next]_vars PROVE MarkedInv'
<1>1. HeaderOK /\ ObjectsOK /\ ThreadsOK
  BY DEF TypeOK
<1>2. ASSUME [Next]_vars PROVE MarkedInv'
  <2> USE <1>1, <1>2, ProcessAssumption
      DEF MarkedInv, Marked, HeaderOK, Slot, HolderInv, ObjectsOK, ThreadsOK, Goto, shared,
          local, lock, commit, history
  <2>1. ASSUME NEW t \in Thread, Close(t) PROVE MarkedInv'
    BY <2>1 DEF Close, Ready, Fault
  <2>2. ASSUME NEW t \in Thread, Start(t) PROVE MarkedInv'
    BY <2>2 DEF Start, Ready, setup_transaction
  <2>3. ASSUME NEW t \in Thread, StartAgain(t) PROVE MarkedInv'
    BY <2>3 DEF StartAgain, Ready, setup_transaction
  <2>4. ASSUME NEW t \in Thread, StartTimedOut(t) PROVE MarkedInv'
    BY <2>4 DEF StartTimedOut, Ready, setup_transaction, Fault
  <2>5. ASSUME NEW t \in Thread, Write(t) PROVE MarkedInv'
    BY <2>5 DEF Write, Ready, in_transaction
  <2>6. ASSUME NEW t \in Thread, NEW i \in Slot, delete_record(t, i) PROVE MarkedInv'
    BY <2>6 DEF delete_record, Ready, in_transaction, Fault, Readable
  <2>7. ASSUME NEW t \in Thread, Commit(t) PROVE MarkedInv'
    BY <2>7 DEF Commit, Ready, in_transaction
  <2>8. ASSUME NEW t \in Thread, MarkDeleted(t) PROVE MarkedInv'
    <3> DEFINE d == deletes[ProcessOf[t]]
    <3>1. UNCHANGED <<header, deletes, ProcessOf, cursor>> /\ pc[t] = "deletes" /\ d \in Seq(Slot)
          /\ \A u \in Thread : u # t => pc[u] = "run" /\ pc'[u] = "run"
      BY <2>8 DEF MarkDeleted
    <3>2. CASE Readable(d[cursor])
      <4>1. /\ pc'[t] = "count" /\ d[cursor] \in Slot
            /\ file' = [file EXCEPT ![d[cursor]].state = "DELETED"]
        BY <2>8, <3>2 DEF MarkDeleted, Readable
      <4>2. ASSUME NEW k \in DOMAIN d, k < cursor + 1, d[k] < header.last_index
            PROVE  file'[d[k]].state = "DELETED"
        <5>1. d[k] \in Slot /\ k \in Nat
          BY <3>1, DeletesAreSlots
        <5>4. FileOK
          BY DEF TypeOK
        <5>2. CASE k = cursor
          BY <4>1, <5>1, <5>2, <5>4 DEF FileOK
        <5>3. CASE k < cursor
          <6>1. file[d[k]].state = "DELETED"
            <7>1. k < cursor + 0
              BY <5>1, <5>3
            <7> QED
              BY <3>1, <4>2, <7>1
          <6> QED
            BY <4>1, <5>1, <5>4, <6>1 DEF FileOK
        <5> QED
          BY <4>2, <5>1, <5>2, <5>3
      <4> QED
        BY <3>1, <4>1, <4>2, SMTT(30)
    <3>3. CASE ~Readable(d[cursor])
      BY <2>8, <3>1, <3>3, SMTT(30) DEF MarkDeleted
    <3> QED
      BY <3>2, <3>3
  <2>9. ASSUME NEW t \in Thread, CountDeleted(t) PROVE MarkedInv'
    BY <2>9 DEF CountDeleted
  <2>10. ASSUME NEW t \in Thread, ClearDeletes(t) PROVE MarkedInv'
    BY <2>10 DEF ClearDeletes
  <2>11. ASSUME NEW t \in Thread, MarkReadable(t) PROVE MarkedInv'
    <3>1. UNCHANGED <<header, deletes, ProcessOf, pc>> /\ pc[t] = "records" /\ cursor' = cursor + 1
          /\ \A u \in Thread : u # t => pc[u] = "run"
      BY <2>11 DEF MarkReadable
    <3>2. header.write_offset <= cursor + 1
      BY <3>1
    <3> QED
      BY <3>1, <3>2
  <2>12. ASSUME NEW t \in Thread, PublishIndex(t) PROVE MarkedInv'
    BY <2>12 DEF PublishIndex
  <2>13. ASSUME NEW t \in Thread, PublishUsed(t) PROVE MarkedInv'
    BY <2>13 DEF PublishUsed
  <2>14. ASSUME NEW t \in Thread, PublishOffset(t) PROVE MarkedInv'
    BY <2>14 DEF PublishOffset
  <2>15. ASSUME NEW t \in Thread, PublishCounts(t) PROVE MarkedInv'
    BY <2>15 DEF PublishCounts
  <2>16. ASSUME NEW t \in Thread, EndCommit(t) PROVE MarkedInv'
    <3>1. \A u \in Thread : pc'[u] = "run"
      BY <2>16 DEF EndCommit
    <3> QED
      BY <3>1
  <2>17. ASSUME NEW t \in Thread, force_rollback(t) PROVE MarkedInv'
    BY <2>17 DEF force_rollback, Ready, in_transaction, end_transaction
  <2>18. ASSUME NEW p \in Process, Open(p) PROVE MarkedInv'
    BY <2>18 DEF Open
  <2>19. ASSUME NEW p \in Process, finish(p) PROVE MarkedInv'
    BY <2>19, SMTT(30) DEF finish, SetWriteState
  <2>20. ASSUME NEW p \in Process, archive(p) PROVE MarkedInv'
    BY <2>20 DEF archive, SetWriteState
  <2>21. ASSUME NEW p \in Process, Crash(p) PROVE MarkedInv'
    <3>1. ASSUME NEW u \in Thread, pc'[u] # "run"
          PROVE  /\ pc'[u] = pc[u] /\ deletes'[ProcessOf[u]] = deletes[ProcessOf[u]]
                 /\ UNCHANGED <<header, file, cursor, ProcessOf>>
      BY <2>21, <3>1 DEF Crash
    <3>2. ASSUME NEW u \in Thread PROVE Marked(u)'
      <4>1. CASE pc'[u] = "run"
        BY <4>1
      <4>2. CASE pc'[u] # "run"
        <5>1. Marked(u)
          OBVIOUS
        <5> QED
          BY <3>1, <4>2, <5>1
      <4> QED
        BY <4>1, <4>2
    <3> QED
      BY <3>2
  <2>22. CASE Expire
    BY <2>22 DEF Expire, Fault
  <2>23. CASE UNCHANGED vars
    BY <2>23 DEF vars
  <2> QED
    BY <2>1, <2>2, <2>3, <2>4, <2>5, <2>6, <2>7, <2>8, <2>9, <2>10, <2>11, <2>12,
       <2>13, <2>14, <2>15, <2>16, <2>17, <2>18, <2>19, <2>20, <2>21, <2>22, <2>23
    DEF Next, CommitStep
<1> QED
  BY <1>2

(* A block that is broken stays so: its index and its offset go on together. *)
LEMMA StepBroken ==
  ASSUME TypeOK, HolderInv, OffsetInv, Broken, [Next]_vars PROVE Broken'
<1>1. HeaderOK /\ ObjectsOK /\ ThreadsOK
  BY DEF TypeOK
<1>2. ASSUME [Next]_vars PROVE Broken'
  <2> USE <1>1, <1>2, ProcessAssumption
      DEF Broken, Publishing, Preparing, OffsetInv, HeaderOK, Slot, Index, HolderInv, ObjectsOK,
          ThreadsOK, Goto, shared, local, lock, commit, history
  <2>1. ASSUME NEW t \in Thread, Close(t) PROVE Broken'
    BY <2>1 DEF Close, Ready, Fault
  <2>2. ASSUME NEW t \in Thread, Start(t) PROVE Broken'
    BY <2>2 DEF Start, Ready, setup_transaction
  <2>3. ASSUME NEW t \in Thread, StartAgain(t) PROVE Broken'
    BY <2>3 DEF StartAgain, Ready, setup_transaction
  <2>4. ASSUME NEW t \in Thread, StartTimedOut(t) PROVE Broken'
    BY <2>4 DEF StartTimedOut, Ready, setup_transaction, Fault
  <2>5. ASSUME NEW t \in Thread, Write(t) PROVE Broken'
    BY <2>5 DEF Write, Ready, in_transaction
  <2>6. ASSUME NEW t \in Thread, NEW i \in Slot, delete_record(t, i) PROVE Broken'
    BY <2>6 DEF delete_record, Ready, in_transaction, Fault, Readable
  <2>7. ASSUME NEW t \in Thread, Commit(t) PROVE Broken'
    BY <2>7 DEF Commit, Ready, in_transaction
  <2>8. ASSUME NEW t \in Thread, MarkDeleted(t) PROVE Broken'
    BY <2>8, SMTT(30) DEF MarkDeleted, Readable
  <2>9. ASSUME NEW t \in Thread, CountDeleted(t) PROVE Broken'
    BY <2>9 DEF CountDeleted
  <2>10. ASSUME NEW t \in Thread, ClearDeletes(t) PROVE Broken'
    BY <2>10 DEF ClearDeletes
  <2>11. ASSUME NEW t \in Thread, MarkReadable(t) PROVE Broken'
    BY <2>11 DEF MarkReadable
  <2>12. ASSUME NEW t \in Thread, PublishIndex(t) PROVE Broken'
    <3> DEFINE r == rollback_info[ProcessOf[t]]
    <3>1. /\ UNCHANGED <<rollback_info, ProcessOf>> /\ holder = t /\ pc[t] = "records"
          /\ header'.last_index = r.last_index /\ header'.write_offset = header.write_offset
          /\ \A u \in Thread : u # t => pc'[u] = "run"
      BY <2>12 DEF PublishIndex
    <3>2. header.last_index # header.write_offset
      BY DEF Broken
    <3>3. header.write_offset <= r.write_offset /\ header.write_offset <= header.last_index
          /\ r.last_index + header.write_offset = r.write_offset + header.last_index
      BY <3>1
    <3>4. r.last_index > r.write_offset
      BY <3>1, <3>2, <3>3
    <3>5. r.last_index # r.write_offset /\ r.last_index # header.write_offset
      BY <3>1, <3>3, <3>4
    <3> QED
      BY <3>1, <3>5
  <2>13. ASSUME NEW t \in Thread, PublishUsed(t) PROVE Broken'
    BY <2>13 DEF PublishUsed
  <2>14. ASSUME NEW t \in Thread, PublishOffset(t) PROVE Broken'
    BY <2>14 DEF PublishOffset
  <2>15. ASSUME NEW t \in Thread, PublishCounts(t) PROVE Broken'
    BY <2>15 DEF PublishCounts
  <2>16. ASSUME NEW t \in Thread, EndCommit(t) PROVE Broken'
    BY <2>16 DEF EndCommit, end_transaction
  <2>17. ASSUME NEW t \in Thread, force_rollback(t) PROVE Broken'
    BY <2>17 DEF force_rollback, Ready, in_transaction, end_transaction
  <2>18. ASSUME NEW p \in Process, Open(p) PROVE Broken'
    BY <2>18 DEF Open
  <2>19. ASSUME NEW p \in Process, finish(p) PROVE Broken'
    BY <2>19 DEF finish, SetWriteState
  <2>20. ASSUME NEW p \in Process, archive(p) PROVE Broken'
    BY <2>20 DEF archive, SetWriteState
  <2>21. ASSUME NEW p \in Process, Crash(p) PROVE Broken'
    BY <2>21 DEF Crash, Fault
  <2>22. CASE Expire
    BY <2>22 DEF Expire, Fault
  <2>23. CASE UNCHANGED vars
    BY <2>23 DEF vars
  <2> QED
    BY <2>1, <2>2, <2>3, <2>4, <2>5, <2>6, <2>7, <2>8, <2>9, <2>10, <2>11, <2>12,
       <2>13, <2>14, <2>15, <2>16, <2>17, <2>18, <2>19, <2>20, <2>21, <2>22, <2>23
    DEF Next, CommitStep
<1> QED
  BY <1>2

----------------------------------------------------------------------------
(* The block implements the log.  First, how its variables carry the log's.  *)
Late == {"used", "offset", "counts", "end"}

LEMMA RecordsKept ==
  ASSUME header'.last_index = header.last_index,
         \A i \in 1 .. header.last_index - 1 : file'[i].state = file[i].state
  PROVE  logRecords' = logRecords
  BY DEF logRecords

LEMMA RecordsSame ==
  ASSUME header'.last_index = header.last_index, file' = file PROVE logRecords' = logRecords
  BY DEF logRecords

LEMMA WriterOf ==
  ASSUME NEW t \in Thread, holder = t
  PROVE  logWriter = IF pc[t] \in Late THEN NoProcess ELSE ProcessOf[t]
  BY DEF logWriter, Late

LEMMA NobodyWrites == ASSUME holder \notin Thread PROVE logWriter = NoProcess
  BY DEF logWriter

LEMMA RequestsSame == ASSUME deletes' = deletes PROVE logRequested' = logRequested
  BY DEF logRequested

LEMMA NoRequests == ASSUME NEW d, d = <<>> PROVE {d[k] : k \in DOMAIN d} = {}
<1>1. DOMAIN <<>> = {}
  OBVIOUS
<1> QED
  BY <1>1

LEMMA RequestsDropped ==
  ASSUME ObjectsOK, NEW p \in Process, deletes' = [deletes EXCEPT ![p] = <<>>]
  PROVE  logRequested' = [logRequested EXCEPT ![p] = {}]
<1>1. \A q \in Process : deletes'[q] = IF q = p THEN <<>> ELSE deletes[q]
  BY DEF ObjectsOK
<1>2. \A q \in Process : logRequested'[q] = IF q = p THEN {} ELSE logRequested[q]
  BY <1>1, NoRequests DEF logRequested
<1> QED
  BY <1>2 DEF logRequested

LEMMA RequestAdded ==
  ASSUME ObjectsOK, NEW p \in Process, NEW i \in Slot, deletes' = [deletes EXCEPT ![p] = Append(@, i)]
  PROVE  logRequested' = [logRequested EXCEPT ![p] = @ \cup {i}]
<1> DEFINE d == deletes[p]  e == Append(d, i)
<1>1. d \in Seq(Slot) /\ e \in Seq(Slot) /\ Len(e) = Len(d) + 1
      /\ \A k \in 1 .. Len(e) : e[k] = IF k <= Len(d) THEN d[k] ELSE i
  BY AppendProperties DEF ObjectsOK
<1>2. DOMAIN d = 1 .. Len(d) /\ DOMAIN e = 1 .. Len(e) /\ Len(d) \in Nat
  BY <1>1, LenProperties
<1>3. {e[k] : k \in DOMAIN e} = {d[k] : k \in DOMAIN d} \cup {i}
  <2>1. ASSUME NEW k \in DOMAIN e PROVE e[k] \in {d[j] : j \in DOMAIN d} \cup {i}
    BY <1>1, <1>2, <2>1
  <2>2. ASSUME NEW k \in DOMAIN d PROVE d[k] \in {e[j] : j \in DOMAIN e}
    <3>1. k \in DOMAIN e /\ e[k] = d[k]
      BY <1>1, <1>2
    <3> QED
      BY <3>1
  <2>3. i \in {e[j] : j \in DOMAIN e}
    <3>1. Len(e) \in DOMAIN e /\ e[Len(e)] = i
      BY <1>1, <1>2
    <3> QED
      BY <3>1
  <2> HIDE DEF d, e
  <2> QED
    BY <2>1, <2>2, <2>3
<1>4. \A q \in Process : deletes'[q] = IF q = p THEN e ELSE deletes[q]
  BY DEF ObjectsOK
<1> HIDE DEF d, e
<1>5. \A q \in Process : logRequested'[q] = IF q = p THEN logRequested[p] \cup {i} ELSE logRequested[q]
  BY <1>3, <1>4 DEF logRequested, d
<1> QED
  BY <1>5 DEF logRequested

(* While a transaction prepares, a block that is not broken ends where the   *)
(* transaction began.                                                        *)
LEMMA EndsTogether ==
  ASSUME TypeOK, HolderInv, ~Broken, NEW t \in Thread, holder = t, Preparing(t)
  PROVE  header.last_index = header.write_offset
  BY DEF Broken, HolderInv, Publishing, Preparing

(* Only a deletion or a publication changes the log.                         *)
LogKept == logRecords' = logRecords \/ \E t \in Thread : MarkDeleted(t) \/ PublishIndex(t)

LEMMA RecordsOfWrite ==
  ASSUME TypeOK, HolderInv, OffsetInv, ~Broken, NEW t \in Thread, Write(t)
  PROVE  logRecords' = logRecords
<1> DEFINE w == rollback_info[ProcessOf[t]].write_offset
<1>1. header' = header /\ holder = t /\ pc[t] = "run" /\ file' = [file EXCEPT ![w] =
        [index |-> rollback_info[ProcessOf[t]].last_index, state |-> "DIRTY"]]
  BY DEF Write, Ready, in_transaction
<1>2. header.last_index <= w /\ header.last_index \in Slot /\ w \in Slot
  <2>1. ProcessOf[t] \in Process /\ rollback_info[ProcessOf[t]].in_transaction
    BY <1>1 DEF TypeOK, ThreadsOK, HolderInv
  <2> QED
    BY <1>1, <2>1, EndsTogether DEF OffsetInv, Preparing, TypeOK, HeaderOK
<1>3. \A s \in Slot : s # w => file'[s].state = file[s].state
  BY <1>1 DEF TypeOK, FileOK
<1>4. \A s \in 1 .. header.last_index - 1 : s \in Slot /\ s # w
  BY <1>2, BoundAssumption DEF Slot
<1> QED
  BY <1>1, <1>3, <1>4, RecordsKept

LEMMA RecordsOfMark ==
  ASSUME TypeOK, HolderInv, MarkedInv, ~Broken, NEW t \in Thread, MarkReadable(t)
  PROVE  logRecords' = logRecords
<1>1. header' = header /\ holder = t /\ pc[t] = "records"
      /\ file' = [file EXCEPT ![cursor].state = "READABLE"]
  BY DEF MarkReadable, HolderInv
<1>2. header.last_index <= cursor /\ header.last_index \in Slot /\ cursor \in Nat
  BY <1>1, EndsTogether DEF MarkedInv, Marked, Preparing, TypeOK, HeaderOK, ThreadsOK
<1>3. \A s \in Slot : s # cursor => file'[s].state = file[s].state
  BY <1>1 DEF TypeOK, FileOK
<1>4. \A s \in 1 .. header.last_index - 1 : s \in Slot /\ s # cursor
  BY <1>2, BoundAssumption DEF Slot
<1> QED
  BY <1>1, <1>3, <1>4, RecordsKept

LEMMA StepRecords ==
  ASSUME TypeOK, HolderInv, OffsetInv, MarkedInv, ~Broken, [Next]_vars PROVE LogKept
<1>1. HeaderOK /\ ObjectsOK /\ ThreadsOK
  BY DEF TypeOK
<1>2. ASSUME [Next]_vars PROVE LogKept
  <2> USE <1>1, <1>2, ProcessAssumption
      DEF HolderInv, ObjectsOK, ThreadsOK, Goto, shared, local, lock, commit, history
  <2>1. ASSUME NEW t \in Thread, Close(t) PROVE LogKept
    BY <2>1, RecordsSame DEF LogKept, Close, Ready, Fault
  <2>2. ASSUME NEW t \in Thread, Start(t) PROVE LogKept
    BY <2>2, RecordsSame DEF LogKept, Start, Ready, setup_transaction
  <2>3. ASSUME NEW t \in Thread, StartAgain(t) PROVE LogKept
    BY <2>3, RecordsSame DEF LogKept, StartAgain, Ready, setup_transaction
  <2>4. ASSUME NEW t \in Thread, StartTimedOut(t) PROVE LogKept
    BY <2>4, RecordsSame DEF LogKept, StartTimedOut, Ready, setup_transaction, Fault
  <2>5. ASSUME NEW t \in Thread, Write(t) PROVE LogKept
    BY <2>5, RecordsOfWrite DEF LogKept
  <2>6. ASSUME NEW t \in Thread, NEW i \in Slot, delete_record(t, i) PROVE LogKept
    BY <2>6, RecordsSame DEF LogKept, delete_record, Ready, in_transaction, Fault, Readable
  <2>7. ASSUME NEW t \in Thread, Commit(t) PROVE LogKept
    BY <2>7, RecordsSame DEF LogKept, Commit, Ready, in_transaction
  <2>8. ASSUME NEW t \in Thread, MarkDeleted(t) PROVE LogKept
    BY <2>8 DEF LogKept
  <2>9. ASSUME NEW t \in Thread, CountDeleted(t) PROVE LogKept
    BY <2>9, RecordsSame DEF LogKept, CountDeleted, HeaderOK
  <2>10. ASSUME NEW t \in Thread, ClearDeletes(t) PROVE LogKept
    BY <2>10, RecordsSame DEF LogKept, ClearDeletes
  <2>11. ASSUME NEW t \in Thread, MarkReadable(t) PROVE LogKept
    BY <2>11, RecordsOfMark DEF LogKept
  <2>12. ASSUME NEW t \in Thread, PublishIndex(t) PROVE LogKept
    BY <2>12 DEF LogKept
  <2>13. ASSUME NEW t \in Thread, PublishUsed(t) PROVE LogKept
    BY <2>13, RecordsSame DEF LogKept, PublishUsed, HeaderOK
  <2>14. ASSUME NEW t \in Thread, PublishOffset(t) PROVE LogKept
    BY <2>14, RecordsSame DEF LogKept, PublishOffset, HeaderOK
  <2>15. ASSUME NEW t \in Thread, PublishCounts(t) PROVE LogKept
    BY <2>15, RecordsSame DEF LogKept, PublishCounts, HeaderOK
  <2>16. ASSUME NEW t \in Thread, EndCommit(t) PROVE LogKept
    BY <2>16, RecordsSame DEF LogKept, EndCommit, end_transaction
  <2>17. ASSUME NEW t \in Thread, force_rollback(t) PROVE LogKept
    BY <2>17, RecordsSame DEF LogKept, force_rollback, Ready, in_transaction, end_transaction
  <2>18. ASSUME NEW p \in Process, Open(p) PROVE LogKept
    BY <2>18, RecordsSame DEF LogKept, Open
  <2>19. ASSUME NEW p \in Process, finish(p) PROVE LogKept
    BY <2>19, RecordsSame DEF LogKept, finish, SetWriteState, HeaderOK
  <2>20. ASSUME NEW p \in Process, archive(p) PROVE LogKept
    BY <2>20, RecordsSame DEF LogKept, archive, SetWriteState, HeaderOK
  <2>21. ASSUME NEW p \in Process, Crash(p) PROVE LogKept
    BY <2>21, RecordsSame DEF LogKept, Crash, Fault
  <2>22. CASE Expire
    BY <2>22, RecordsSame DEF LogKept, Expire, Fault
  <2>23. CASE UNCHANGED vars
    BY <2>23, RecordsSame DEF LogKept, vars
  <2> QED
    BY <2>1, <2>2, <2>3, <2>4, <2>5, <2>6, <2>7, <2>8, <2>9, <2>10, <2>11, <2>12,
       <2>13, <2>14, <2>15, <2>16, <2>17, <2>18, <2>19, <2>20, <2>21, <2>22, <2>23
    DEF Next, CommitStep
<1> QED
  BY <1>2

(* What a step of the log looks like from the block.                         *)
LEMMA BothUnbroken == ASSUME ~Broken, ~Broken' PROVE Broken' = Broken
  BY DEF Broken

LEMMA AppendedSame ==
  ASSUME logWriter' = logWriter, header'.last_index = header.last_index,
         logWriter # NoProcess => rollback_info'[logWriter] = rollback_info[logWriter]
  PROVE  logAppended' = logAppended
  BY DEF logAppended

LEMMA AppendedNone == logWriter = NoProcess => logAppended = 0
  BY DEF logAppended

LEMMA LogStutter ==
  ASSUME ~Broken, ~Broken', logRecords' = logRecords, logWriter' = logWriter,
         logAppended' = logAppended, logRequested' = logRequested
  PROVE  [Log!Next]_(Log!vars)
  BY BothUnbroken DEF Log!vars

LEMMA LogBegin ==
  ASSUME ~Broken, ~Broken', NEW p \in Process, logRecords' = logRecords,
         logWriter \in {p, NoProcess}, logWriter' = p, logAppended' = 0,
         logRequested' = logRequested
  PROVE  [Log!Next]_(Log!vars)
  BY BothUnbroken DEF Log!Next, Log!Begin

LEMMA LogWrite ==
  ASSUME ~Broken, ~Broken', NEW p \in Process, logRecords' = logRecords, logWriter = p,
         logWriter' = p, logAppended' = logAppended + 1, logRequested' = logRequested
  PROVE  [Log!Next]_(Log!vars)
  BY BothUnbroken DEF Log!Next, Log!Write

LEMMA LogRequest ==
  ASSUME ~Broken, ~Broken', NEW p \in Process, NEW i \in 1 .. Len(logRecords) + 1,
         logRecords' = logRecords, logWriter = p, logWriter' = p, logAppended' = logAppended,
         logRequested' = [logRequested EXCEPT ![p] = @ \cup {i}]
  PROVE  [Log!Next]_(Log!vars)
  BY BothUnbroken DEF Log!Next, Log!Request

LEMMA LogDelete ==
  ASSUME ~Broken, ~Broken', NEW p \in Process, NEW i \in DOMAIN logRecords,
         i \in logRequested[p], logRecords' = [logRecords EXCEPT ![i] = "deleted"],
         logWriter = p, logWriter' = p, logAppended' = logAppended, logRequested' = logRequested
  PROVE  [Log!Next]_(Log!vars)
  BY BothUnbroken DEF Log!Next, Log!Delete

LEMMA LogDeleted ==
  ASSUME ~Broken, ~Broken', NEW p \in Process, logRecords' = logRecords, logWriter = p,
         \A i \in logRequested[p] \cap DOMAIN logRecords : logRecords[i] = "deleted",
         logRequested' = [logRequested EXCEPT ![p] = {}],
         logWriter' = p, logAppended' = logAppended
  PROVE  [Log!Next]_(Log!vars)
  BY BothUnbroken DEF Log!Next, Log!Deleted

LEMMA LogPublish ==
  ASSUME ~Broken, ~Broken', NEW p \in Process, logWriter = p, logRequested[p] = {},
         logRecords' = logRecords \o [i \in 1 .. logAppended |-> "live"],
         logWriter' = NoProcess, logAppended' = 0, logRequested' = logRequested
  PROVE  [Log!Next]_(Log!vars)
  BY BothUnbroken DEF Log!Next, Log!Publish

LEMMA LogAbort ==
  ASSUME ~Broken, ~Broken', NEW p \in Process, logRecords' = logRecords,
         logRequested' = [logRequested EXCEPT ![p] = {}],
         IF logWriter = p THEN logWriter' = NoProcess /\ logAppended' = 0
                          ELSE UNCHANGED <<logWriter, logAppended>>
  PROVE  [Log!Next]_(Log!vars)
  BY BothUnbroken DEF Log!Next, Log!Abort

LEMMA LogExpire ==
  ASSUME ~Broken, ~Broken', logRecords' = logRecords, logWriter' = NoProcess,
         logAppended' = 0, logRequested' = logRequested
  PROVE  [Log!Next]_(Log!vars)
  BY BothUnbroken DEF Log!Next, Log!Expire

LEMMA LogBreak ==
  ASSUME ~Broken, Broken', logRecords' = logRecords PROVE [Log!Next]_(Log!vars)
  BY DEF Log!Next, Log!Break

LEMMA LogBroken == ASSUME Broken, Broken' PROVE [Log!Next]_(Log!vars)
  BY DEF Log!Next

(* A step that leaves the lock, the transactions and the log alone, and      *)
(* moves a commit only within its part, is none of the log's.                *)
LEMMA LogQuiet ==
  ASSUME ~Broken, ~Broken', logRecords' = logRecords,
         UNCHANGED <<holder, ProcessOf, rollback_info, deletes>>,
         header'.last_index = header.last_index,
         \A t \in Thread : holder = t => (pc'[t] \in Late <=> pc[t] \in Late)
  PROVE  [Log!Next]_(Log!vars)
<1>1. logWriter' = logWriter
  BY DEF logWriter, Late
<1> QED
  BY <1>1, AppendedSame, RequestsSame, LogStutter

LEMMA SeqOf ==
  ASSUME NEW S, NEW n \in Nat, NEW f \in [1 .. n -> S]
  PROVE  f \in Seq(S) /\ Len(f) = n /\ DOMAIN f = 1 .. n
<1>1. f \in Seq(S)
  BY SeqDef
<1>2. DOMAIN f = 1 .. n /\ DOMAIN f = 1 .. Len(f) /\ Len(f) \in Nat
  BY <1>1, LenProperties
<1> QED
  BY <1>1, <1>2

LEMMA LogIsSeq == ASSUME HeaderOK
                  PROVE  /\ Len(logRecords) = header.last_index - 1
                         /\ DOMAIN logRecords = 1 .. header.last_index - 1
<1> DEFINE n == header.last_index - 1
<1>1. n \in Nat
  BY BoundAssumption DEF HeaderOK, Slot
<1> HIDE DEF n
<1>2. logRecords \in [1 .. n -> {"live", "deleted"}]
  BY DEF logRecords, n
<1> QED
  BY <1>1, <1>2, SeqOf DEF n

(* The commit appends what lies between the offsets, all of it readable.     *)
LEMMA RecordsPublished ==
  ASSUME HeaderOK, NEW n \in Nat, header'.last_index = header.last_index + n,
         file' = file,
         \A s \in header.last_index .. header.last_index + n - 1 : file[s].state = "READABLE"
  PROVE  logRecords' = logRecords \o [i \in 1 .. n |-> "live"]
<1> DEFINE S == {"live", "deleted"}  new == [i \in 1 .. n |-> "live"]  m == header.last_index - 1
<1>1. m \in Nat /\ header.last_index \in Nat
  BY BoundAssumption DEF HeaderOK, Slot
<1>2. header'.last_index - 1 = m + n
  BY <1>1
<1>3. logRecords' = [i \in 1 .. m + n |-> IF file[i].state = "DELETED" THEN "deleted" ELSE "live"]
  <2> HIDE DEF m
  <2> QED
    BY <1>2 DEF logRecords
<1>4. ASSUME NEW i \in 1 .. m + n
      PROVE  logRecords'[i] = IF i <= m THEN logRecords[i] ELSE "live"
  <2>2. CASE i <= m
    BY <1>1, <1>3, <2>2 DEF logRecords
  <2>3. CASE ~(i <= m)
    <3>1. i \in header.last_index .. header.last_index + n - 1
      BY <1>1, <2>3
    <3>2. file[i].state = "READABLE"
      BY <3>1
    <3> HIDE DEF m
    <3> QED
      BY <1>3, <2>3, <3>2
  <2> QED
    BY <2>2, <2>3
<1>5. new \in [1 .. n -> S] /\ \A i \in 1 .. n : new[i] = "live"
  OBVIOUS
<1>6. logRecords \in [1 .. m -> S]
  BY DEF logRecords
<1> HIDE DEF new, m
<1>7. logRecords' \in [1 .. m + n -> S]
  BY <1>3
<1> HIDE DEF S
<1>8. /\ logRecords \in Seq(S) /\ Len(logRecords) = m
      /\ logRecords' \in Seq(S) /\ Len(logRecords') = m + n
      /\ new \in Seq(S) /\ Len(new) = n
  <2>1. m + n \in Nat
    BY <1>1
  <2> QED
    BY <2>1, <1>1, <1>5, <1>6, <1>7, SeqOf
<1>9. /\ logRecords \o new \in Seq(S) /\ Len(logRecords \o new) = m + n
      /\ \A i \in 1 .. m + n :
           (logRecords \o new)[i] = IF i <= m THEN logRecords[i] ELSE new[i - m]
  BY <1>8, ConcatProperties
<1>10. \A i \in 1 .. m + n : (logRecords \o new)[i] = logRecords'[i]
  <2> SUFFICES ASSUME NEW i \in 1 .. m + n PROVE (logRecords \o new)[i] = logRecords'[i]
    OBVIOUS
  <2>1. CASE i <= m
    BY <1>4, <1>9, <2>1
  <2>2. CASE ~(i <= m)
    <3>1. i - m \in 1 .. n
      BY <1>1, <2>2
    <3> QED
      BY <1>4, <1>5, <1>9, <2>2, <3>1
  <2> QED
    BY <2>1, <2>2
<1>11. logRecords \o new = logRecords'
  BY <1>8, <1>9, <1>10, SeqEqual
<1> QED
  BY <1>11 DEF new

(* Every step of the block, as long as nothing is broken.                    *)
LEMMA StepLog ==
  ASSUME TypeOK, HolderInv, OffsetInv, DirtyInv, ClearedInv, MarkedInv,
         ~Broken, ~Broken', [Next]_vars PROVE [Log!Next]_(Log!vars)
<1>1. HeaderOK /\ ObjectsOK /\ ThreadsOK
  BY DEF TypeOK
<1>2. ASSUME [Next]_vars PROVE [Log!Next]_(Log!vars)
  <2> USE <1>1, <1>2, ProcessAssumption
      DEF HolderInv, ObjectsOK, ThreadsOK, Goto, shared, local, lock, commit, history
  <2>1. ASSUME NEW t \in Thread, Close(t) PROVE [Log!Next]_(Log!vars)
    <3> DEFINE q == ProcessOf[t]
    <3>1. q \in Process /\ pc[t] = "run" /\ UNCHANGED <<pc, header, file, ProcessOf>>
          /\ rollback_info' = [rollback_info EXCEPT ![q] = NoRollback]
          /\ (deletes' = [deletes EXCEPT ![q] = <<>>] \/ deletes' = deletes)
      BY <2>1 DEF Close, Ready
    <3>2. logRecords' = logRecords
      BY <3>1, RecordsSame
    <3>3. logRequested' = [logRequested EXCEPT ![q] = {}] \/ logRequested' = logRequested
      BY <3>1, RequestsDropped, RequestsSame
    <3>4. CASE holder = t
      <4>1. holder' = NoThread
        BY <2>1, <3>4 DEF Close
      <4>2. logWriter = q /\ logWriter' = NoProcess
        BY <3>1, <3>4, <4>1, WriterOf DEF Late, logWriter
      <4>3. logAppended' = 0
        BY <4>2 DEF logAppended
      <4> QED
        BY <3>1, <3>2, <3>3, <4>2, <4>3, LogAbort, LogExpire
    <3>5. CASE holder # t
      <4>1. holder' = holder /\ (holder \in Thread => ProcessOf[holder] # q)
        BY <2>1, <3>5 DEF Close
      <4>2. logWriter' = logWriter /\ logWriter # q
        BY <3>1, <4>1 DEF logWriter
      <4>3. logWriter # NoProcess => logWriter \in Process /\ logWriter # q
        BY <4>2 DEF logWriter
      <4>4. logAppended' = logAppended
        BY <3>1, <4>2, <4>3, AppendedSame
      <4> QED
        BY <3>1, <3>2, <3>3, <4>2, <4>4, LogAbort, LogStutter
    <3> QED
      BY <3>4, <3>5
  <2>2. ASSUME NEW t \in Thread, Start(t) PROVE [Log!Next]_(Log!vars)
    <3> DEFINE q == ProcessOf[t]
    <3>1. q \in Process /\ pc[t] = "run" /\ UNCHANGED <<pc, header, file, ProcessOf, deletes>>
          /\ rollback_info'[q].last_index = header.last_index /\ holder' = t
      BY <2>2 DEF Start, Ready, setup_transaction
    <3>2. logRecords' = logRecords /\ logRequested' = logRequested
      BY <3>1, RecordsSame, RequestsSame
    <3>3. logWriter \in {q, NoProcess} /\ logWriter' = q
      BY <2>2, <3>1 DEF Start, logWriter
    <3>4. logAppended' = 0
      BY <3>1, <3>3 DEF logAppended, HeaderOK, Slot
    <3> QED
      BY <3>1, <3>2, <3>3, <3>4, LogBegin
  <2>3. ASSUME NEW t \in Thread, StartAgain(t) PROVE [Log!Next]_(Log!vars)
    <3> DEFINE q == ProcessOf[t]
    <3>1. q \in Process /\ pc[t] = "run" /\ UNCHANGED <<pc, header, file, ProcessOf, deletes>>
          /\ rollback_info'[q].last_index = header.last_index /\ holder' = t
      BY <2>3 DEF StartAgain, Ready, setup_transaction
    <3>2. logRecords' = logRecords /\ logRequested' = logRequested
      BY <3>1, RecordsSame, RequestsSame
    <3>3. logWriter \in {q, NoProcess} /\ logWriter' = q
      BY <2>3, <3>1 DEF StartAgain, logWriter
    <3>4. logAppended' = 0
      BY <3>1, <3>3 DEF logAppended, HeaderOK, Slot
    <3> QED
      BY <3>1, <3>2, <3>3, <3>4, LogBegin
  <2>4. ASSUME NEW t \in Thread, StartTimedOut(t) PROVE [Log!Next]_(Log!vars)
    <3> DEFINE q == ProcessOf[t]
    <3>1. q \in Process /\ UNCHANGED <<pc, header, file, ProcessOf, deletes, holder>>
          /\ rollback_info'[q].last_index = header.last_index
          /\ \A p \in Process \ {q} : rollback_info'[p] = rollback_info[p]
      BY <2>4 DEF StartTimedOut, setup_transaction
    <3>2. logRecords' = logRecords /\ logRequested' = logRequested
      BY <3>1, RecordsSame, RequestsSame
    <3>3. logWriter' = logWriter /\ (logWriter # NoProcess => logWriter \in Process)
      BY <3>1 DEF logWriter
    <3>4. CASE logWriter = q
      <4>1. logAppended' = 0
        BY <3>1, <3>3, <3>4 DEF logAppended, HeaderOK, Slot
      <4> QED
        BY <3>1, <3>2, <3>3, <3>4, <4>1, LogBegin
    <3>5. CASE logWriter # q
      <4>1. logAppended' = logAppended
        BY <3>1, <3>3, <3>5, AppendedSame
      <4> QED
        BY <3>2, <3>3, <4>1, LogStutter
    <3> QED
      BY <3>4, <3>5
  <2>5. ASSUME NEW t \in Thread, Write(t) PROVE [Log!Next]_(Log!vars)
    <3> DEFINE q == ProcessOf[t]
    <3>1. /\ q \in Process /\ pc[t] = "run" /\ holder = t
          /\ UNCHANGED <<pc, header, ProcessOf, deletes, holder>>
          /\ rollback_info'[q].last_index = rollback_info[q].last_index + 1
          /\ rollback_info[q].last_index \in Nat /\ header.last_index \in Nat
      BY <2>5, BoundAssumption DEF Write, Ready, in_transaction, Index, HeaderOK, Slot
    <3>2. logRecords' = logRecords /\ logRequested' = logRequested
      BY <2>5, <3>1, RecordsOfWrite, RequestsSame
    <3>3. logWriter = q /\ logWriter' = q
      BY <3>1 DEF logWriter
    <3>4. logAppended' = logAppended + 1
      <4>1. logAppended = rollback_info[q].last_index - header.last_index
        BY <3>3 DEF logAppended
      <4>2. logAppended' = rollback_info'[q].last_index - header.last_index
        BY <3>1, <3>3 DEF logAppended
      <4> HIDE DEF q
      <4> QED
        BY <3>1, <4>1, <4>2
    <3> QED
      BY <3>1, <3>2, <3>3, <3>4, LogWrite
  <2>6. ASSUME NEW t \in Thread, NEW i \in Slot, delete_record(t, i) PROVE [Log!Next]_(Log!vars)
    <3> DEFINE q == ProcessOf[t]
    <3>1. /\ q \in Process /\ pc[t] = "run" /\ holder = t
          /\ UNCHANGED <<pc, header, file, ProcessOf, holder, rollback_info>>
          /\ deletes' = [deletes EXCEPT ![q] = Append(deletes[q], i)] /\ i \in 1 .. header.last_index
      BY <2>6, BoundAssumption DEF delete_record, Ready, in_transaction, Readable, Slot, HeaderOK
    <3>2. logRecords' = logRecords /\ logRequested' = [logRequested EXCEPT ![q] = logRequested[q] \cup {i}]
      BY <3>1, RecordsSame, RequestAdded
    <3>3. logWriter = q /\ logWriter' = q
      BY <3>1 DEF logWriter
    <3>4. logAppended' = logAppended
      BY <3>1, <3>3, AppendedSame
    <3>5. i \in 1 .. Len(logRecords) + 1
      BY <3>1, LogIsSeq, BoundAssumption DEF HeaderOK, Slot
    <3> QED
      BY <3>1, <3>2, <3>3, <3>4, <3>5, LogRequest
  <2>7. ASSUME NEW t \in Thread, Commit(t) PROVE [Log!Next]_(Log!vars)
    BY <2>7, RecordsSame, LogQuiet DEF Commit, HeaderOK, Late, Ready, in_transaction
  <2>8. ASSUME NEW t \in Thread, MarkDeleted(t) PROVE [Log!Next]_(Log!vars)
    <3> DEFINE q == ProcessOf[t]  i == deletes[q][cursor]
    <3>1. /\ q \in Process /\ pc[t] = "deletes" /\ holder = t /\ pc'[t] \notin Late
          /\ UNCHANGED <<header, ProcessOf, deletes, holder, rollback_info>>
      BY <2>8 DEF MarkDeleted, Late
    <3>2. logWriter = q /\ logWriter' = q
      BY <3>1 DEF logWriter, Late
    <3>3. logAppended' = logAppended /\ logRequested' = logRequested
      BY <3>1, <3>2, AppendedSame, RequestsSame
    <3>4. CASE ~Readable(i)
      <4>1. file' = file
        BY <2>8, <3>4 DEF MarkDeleted
      <4> QED
        BY <3>1, <3>2, <3>3, <4>1, RecordsSame, LogStutter
    <3>5. CASE Readable(i)
      <4>1. i \in Slot /\ file' = [file EXCEPT ![i].state = "DELETED"] /\ file \in [Slot -> [index : Index, state : RecordState]]
        BY <2>8, <3>5 DEF MarkDeleted, Readable, TypeOK, FileOK
      <4>2. \A s \in Slot : file'[s].state = IF s = i THEN "DELETED" ELSE file[s].state
        BY <4>1
      <4>3. \A s \in 1 .. header.last_index - 1 : s \in Slot
        BY BoundAssumption DEF HeaderOK, Slot
      <4>4. CASE i \in DOMAIN logRecords
        <5>1. i \in logRequested[q]
          <6>1. cursor \in DOMAIN deletes[q]
            <7>1. cursor \in 1 .. Len(deletes[q])
              BY <2>8 DEF MarkDeleted, MarkedInv, Marked
            <7> QED
              BY <7>1, LenProperties
          <6> QED
            BY <6>1, <3>1 DEF logRequested
        <5>2. logRecords' = [logRecords EXCEPT ![i] = "deleted"]
          <6> HIDE DEF i
          <6> QED
            BY <3>1, <4>2, <4>3 DEF logRecords
        <5> QED
          BY <3>1, <3>2, <3>3, <4>4, <5>1, <5>2, LogDelete
      <4>5. CASE i \notin DOMAIN logRecords
        <5>1. \A s \in 1 .. header.last_index - 1 : file'[s].state = file[s].state
          BY <4>2, <4>3, <4>5, LogIsSeq
        <5> QED
          BY <3>1, <3>2, <3>3, <5>1, RecordsKept, LogStutter
      <4> QED
        BY <4>4, <4>5
    <3> QED
      BY <3>4, <3>5
  <2>9. ASSUME NEW t \in Thread, CountDeleted(t) PROVE [Log!Next]_(Log!vars)
    BY <2>9, RecordsSame, LogQuiet DEF CountDeleted, HeaderOK, Late
  <2>10. ASSUME NEW t \in Thread, ClearDeletes(t) PROVE [Log!Next]_(Log!vars)
    <3> DEFINE q == ProcessOf[t]  d == deletes[q]
    <3>1. /\ q \in Process /\ pc[t] = "deletes" /\ holder = t /\ pc'[t] = "records"
          /\ UNCHANGED <<header, file, ProcessOf, holder, rollback_info>>
          /\ deletes' = [deletes EXCEPT ![q] = <<>>] /\ cursor > Len(d) /\ d \in Seq(Slot)
      BY <2>10 DEF ClearDeletes
    <3>2. logRecords' = logRecords /\ logRequested' = [logRequested EXCEPT ![q] = {}]
      BY <3>1, RecordsSame, RequestsDropped
    <3>3. logWriter = q /\ logWriter' = q
      BY <3>1 DEF logWriter
    <3>4. logAppended' = logAppended
      BY <3>1, <3>3, AppendedSame
    <3>5. ASSUME NEW i \in logRequested[q] \cap DOMAIN logRecords PROVE logRecords[i] = "deleted"
      <4>1. PICK k \in DOMAIN d : i = d[k]
        BY <3>1 DEF logRequested
      <4>2. i \in 1 .. header.last_index - 1
        BY LogIsSeq
      <4>3. k < cursor + 0
        BY <3>1, LenProperties
      <4>4. d[k] < header.last_index
        BY <4>1, <4>2, BoundAssumption DEF HeaderOK, Slot
      <4>5. file[i].state = "DELETED"
        BY <3>1, <4>1, <4>3, <4>4 DEF MarkedInv, Marked
      <4> QED
        BY <4>2, <4>5 DEF logRecords
    <3> QED
      BY <3>1, <3>2, <3>3, <3>4, <3>5, LogDeleted
  <2>11. ASSUME NEW t \in Thread, MarkReadable(t) PROVE [Log!Next]_(Log!vars)
    BY <2>11, RecordsOfMark, LogQuiet DEF MarkReadable
  <2>12. ASSUME NEW t \in Thread, PublishIndex(t) PROVE [Log!Next]_(Log!vars)
    <3> DEFINE q == ProcessOf[t]  r == rollback_info[q]  n == r.last_index - header.last_index
    <3>1. /\ q \in Process /\ pc[t] = "records" /\ holder = t /\ pc'[t] = "used"
          /\ UNCHANGED <<file, ProcessOf, deletes, holder, rollback_info>>
          /\ header'.last_index = r.last_index /\ cursor >= r.write_offset
      BY <2>12 DEF PublishIndex, HeaderOK
    <3>2. r.in_transaction /\ r.last_index \in Nat /\ r.write_offset \in Nat
          /\ header.last_index \in Nat /\ header.last_index = header.write_offset
      <4>1. header.last_index = header.write_offset
        BY <3>1, EndsTogether DEF Preparing
      <4> QED
        BY <3>1, <4>1, BoundAssumption DEF Index, HeaderOK, Slot
    <3>3. r.last_index = r.write_offset /\ header.write_offset <= r.write_offset
      BY <3>1, <3>2 DEF OffsetInv, Preparing
    <3>4. \A s \in header.last_index .. header.last_index + n - 1 : file[s].state = "READABLE"
      <4>1. \A s \in header.write_offset .. r.write_offset - 1 : s < cursor => file[s].state = "READABLE"
        BY <3>1, <3>2 DEF DirtyInv, Preparing
      <4>2. \A s \in header.write_offset .. r.write_offset - 1 : s < cursor
        BY <3>1, <3>2
      <4> QED
        BY <4>1, <4>2, <3>2, <3>3
    <3>5. n \in Nat /\ header'.last_index = header.last_index + n
      BY <3>1, <3>2, <3>3
    <3>6. logWriter = q /\ logWriter' = NoProcess /\ q # NoProcess
      BY <3>1 DEF logWriter
    <3>7. logAppended = n /\ logAppended' = 0 /\ logRequested' = logRequested
      BY <3>1, <3>6, RequestsSame DEF logAppended
    <3>8. logRequested[q] = {}
      <4>1. deletes[q] = <<>>
        BY <3>1 DEF ClearedInv, Cleared
      <4> QED
        BY <3>1, <4>1, NoRequests DEF logRequested
    <3> HIDE DEF n
    <3>9. logRecords' = logRecords \o [i \in 1 .. logAppended |-> "live"]
      BY <3>1, <3>4, <3>5, <3>7, RecordsPublished
    <3> QED
      BY <3>1, <3>6, <3>7, <3>8, <3>9, LogPublish
  <2>13. ASSUME NEW t \in Thread, PublishUsed(t) PROVE [Log!Next]_(Log!vars)
    BY <2>13, RecordsSame, LogQuiet DEF PublishUsed, HeaderOK, Late
  <2>14. ASSUME NEW t \in Thread, PublishOffset(t) PROVE [Log!Next]_(Log!vars)
    BY <2>14, RecordsSame, LogQuiet DEF PublishOffset, HeaderOK, Late
  <2>15. ASSUME NEW t \in Thread, PublishCounts(t) PROVE [Log!Next]_(Log!vars)
    BY <2>15, RecordsSame, LogQuiet DEF PublishCounts, HeaderOK, Late
  <2>16. ASSUME NEW t \in Thread, EndCommit(t) PROVE [Log!Next]_(Log!vars)
    <3>1. /\ pc[t] = "end" /\ holder = t /\ holder' \notin Thread
          /\ UNCHANGED <<header, file, ProcessOf, deletes>>
      BY <2>16 DEF EndCommit, end_transaction
    <3>2. logWriter = NoProcess /\ logWriter' = NoProcess
      BY <3>1 DEF logWriter
    <3>3. logAppended' = logAppended
      BY <3>2 DEF logAppended
    <3> QED
      BY <3>1, <3>2, <3>3, RecordsSame, RequestsSame, LogStutter
  <2>17. ASSUME NEW t \in Thread, force_rollback(t) PROVE [Log!Next]_(Log!vars)
    <3> DEFINE q == ProcessOf[t]
    <3>1. /\ q \in Process /\ pc[t] = "run" /\ holder = t /\ holder' \notin Thread
          /\ UNCHANGED <<header, file, ProcessOf>> /\ deletes' = [deletes EXCEPT ![q] = <<>>]
      BY <2>17 DEF force_rollback, Ready, in_transaction, end_transaction
    <3>2. logWriter = q /\ logWriter' = NoProcess
      BY <3>1 DEF logWriter
    <3>3. logAppended' = 0
      BY <3>2 DEF logAppended
    <3>4. logRecords' = logRecords /\ logRequested' = [logRequested EXCEPT ![q] = {}]
      BY <3>1, RecordsSame, RequestsDropped
    <3> QED
      BY <3>1, <3>2, <3>3, <3>4, LogAbort
  <2>18. ASSUME NEW p \in Process, Open(p) PROVE [Log!Next]_(Log!vars)
    BY <2>18, RecordsSame, LogQuiet DEF Open, HeaderOK, Late
  <2>19. ASSUME NEW p \in Process, finish(p) PROVE [Log!Next]_(Log!vars)
    BY <2>19, RecordsSame, LogQuiet DEF finish, HeaderOK, Late, SetWriteState
  <2>20. ASSUME NEW p \in Process, archive(p) PROVE [Log!Next]_(Log!vars)
    BY <2>20, RecordsSame, LogQuiet DEF archive, HeaderOK, Late, SetWriteState
  <2>21. ASSUME NEW p \in Process, Crash(p) PROVE [Log!Next]_(Log!vars)
    <3> DEFINE mine == {t \in Thread : ProcessOf[t] = p}
    <3>1. /\ UNCHANGED <<header, file, ProcessOf>>
          /\ rollback_info' = [rollback_info EXCEPT ![p] = NoRollback]
          /\ deletes' = [deletes EXCEPT ![p] = <<>>]
          /\ holder' = (IF holder \in mine THEN DeadThread ELSE holder)
          /\ pc' = [t \in Thread |-> IF t \in mine THEN "run" ELSE pc[t]]
      BY <2>21 DEF Crash
    <3>2. logRecords' = logRecords /\ logRequested' = [logRequested EXCEPT ![p] = {}]
      BY <3>1, RecordsSame, RequestsDropped
    <3>3. CASE holder \in mine
      <4>1. logWriter \in {p, NoProcess} /\ logWriter' = NoProcess
        BY <3>1, <3>3 DEF logWriter
      <4>2. logAppended' = 0 /\ (logWriter = NoProcess => logAppended = 0)
        BY <4>1 DEF logAppended
      <4> QED
        BY <3>2, <4>1, <4>2, LogAbort
    <3>4. CASE holder \notin mine
      <4>1. logWriter' = logWriter /\ logWriter # p
            /\ (logWriter # NoProcess => logWriter \in Process)
        BY <3>1, <3>4 DEF logWriter
      <4>2. logAppended' = logAppended
        BY <3>1, <4>1, AppendedSame
      <4> QED
        BY <3>2, <4>1, <4>2, LogAbort
    <3> QED
      BY <3>3, <3>4
  <2>22. CASE Expire
    <3>1. holder' \notin Thread /\ UNCHANGED <<header, file, deletes>>
      BY <2>22 DEF Expire
    <3>2. logWriter' = NoProcess
      BY <3>1 DEF logWriter
    <3>3. logAppended' = 0
      BY <3>2 DEF logAppended
    <3> QED
      BY <3>1, <3>2, <3>3, RecordsSame, RequestsSame, LogExpire
  <2>23. CASE UNCHANGED vars
    BY <2>23, RecordsSame, LogQuiet DEF vars, HeaderOK, Late
  <2> QED
    BY <2>1, <2>2, <2>3, <2>4, <2>5, <2>6, <2>7, <2>8, <2>9, <2>10, <2>11, <2>12,
       <2>13, <2>14, <2>15, <2>16, <2>17, <2>18, <2>19, <2>20, <2>21, <2>22, <2>23
    DEF Next, CommitStep
<1> QED
  BY <1>2

LEMMA DeletionUnbroken ==
  ASSUME TypeOK, HolderInv, ~Broken, NEW t \in Thread, MarkDeleted(t) PROVE ~Broken'
<1>1. header' = header /\ holder = t /\ pc[t] = "deletes"
  BY DEF MarkDeleted, HolderInv
<1>2. header.last_index = header.write_offset
  BY <1>1, EndsTogether DEF Preparing
<1> QED
  BY <1>1, <1>2 DEF Broken

LEMMA PublicationUnbroken ==
  ASSUME TypeOK, HolderInv, OffsetInv, ~Broken, NEW t \in Thread, PublishIndex(t) PROVE ~Broken'
<1> DEFINE r == rollback_info[ProcessOf[t]]
<1>1. /\ holder = t /\ pc[t] = "records" /\ pc'[t] = "used" /\ UNCHANGED <<rollback_info, ProcessOf>>
      /\ header'.last_index = r.last_index /\ ProcessOf[t] \in Process
  BY DEF PublishIndex, HolderInv, TypeOK, ThreadsOK, HeaderOK, local, history, Goto
<1>2. header.last_index = header.write_offset /\ header.last_index \in Nat
  BY <1>1, EndsTogether, BoundAssumption DEF Preparing, TypeOK, HeaderOK, Slot
<1>3. r.last_index \in Nat /\ r.write_offset \in Nat
  BY <1>1 DEF TypeOK, ObjectsOK, Index
<1>4. r.last_index = r.write_offset
  BY <1>1, <1>2, <1>3 DEF OffsetInv, Preparing
<1> QED
  BY <1>1, <1>4 DEF Broken, Publishing

LEMMA InitialLog == Init => Log!Init
<1> SUFFICES ASSUME Init PROVE Log!Init
  OBVIOUS
<1>1. header.last_index - 1 = 0
  BY DEF Init
<1>2. logRecords = <<>>
  <2>1. logRecords \in [1 .. 0 -> {"live", "deleted"}]
    BY <1>1 DEF logRecords
  <2>2. 1 .. 0 = {} /\ 0 \in Nat
    OBVIOUS
  <2>3. logRecords \in Seq({"live", "deleted"}) /\ Len(logRecords) = 0
    BY <2>1, <2>2, SeqOf
  <2> QED
    BY <2>3, EmptySeq
<1>3. logWriter = NoProcess
  BY ProcessAssumption DEF Init, logWriter
<1>4. logAppended = 0
  BY <1>3 DEF logAppended
<1>5. logRequested = [p \in Process |-> {}]
  <2>1. \A p \in Process : deletes[p] = <<>>
    BY DEF Init
  <2>2. \A p \in Process : logRequested[p] = {}
    BY <2>1, NoRequests DEF logRequested
  <2> QED
    BY <2>2 DEF logRequested
<1>6. Broken = FALSE
  BY DEF Init, Broken
<1> QED
  BY <1>2, <1>3, <1>4, <1>5, <1>6 DEF Log!Init

(* base_block.h: the block is the log that RecordLog describes.  A commit    *)
(* appends its records all at once, its deletes appear one at a time, a      *)
(* rollback, an expiry, a close or a death leaves no trace in the log, and   *)
(* only what Broken names ends the promise.                                  *)
THEOREM Implements == Spec => ImplementsLog
<1> DEFINE I == TypeOK /\ HolderInv /\ OffsetInv /\ DirtyInv /\ ClearedInv /\ MarkedInv
<1>1. Init => I
  <2>1. Init => DirtyInv
    BY ProcessAssumption DEF Init, DirtyInv
  <2>2. Init => ClearedInv /\ MarkedInv
    BY DEF Init, ClearedInv, Cleared, MarkedInv, Marked
  <2> QED
    BY <2>1, <2>2, InitBase
<1>2. I /\ [Next]_vars => I'
  BY StepType, StepHolder, StepOffset, StepDirty, StepCleared, StepMarked
<1>3. I /\ [Next]_vars => [Log!Next]_(Log!vars)
  <2> SUFFICES ASSUME I, [Next]_vars PROVE [Log!Next]_(Log!vars)
    OBVIOUS
  <2>1. CASE Broken
    BY <2>1, StepBroken, LogBroken
  <2>2. CASE ~Broken /\ ~Broken'
    BY <2>2, StepLog
  <2>3. CASE ~Broken /\ Broken'
    <3>1. LogKept
      BY <2>3, StepRecords
    <3>2. logRecords' = logRecords
      BY <2>3, <3>1, DeletionUnbroken, PublicationUnbroken DEF LogKept
    <3> QED
      BY <2>3, <3>2, LogBreak
  <2> QED
    BY <2>1, <2>2, <2>3
<1> QED
  BY <1>1, <1>2, <1>3, InitialLog, PTL DEF Spec, ImplementsLog, Log!Spec

----------------------------------------------------------------------------
(* As long as nothing has gone wrong, the header's offset and index meet    *)
(* outside of the two stores that publish them,                             *)
MeetInv ==
  faults = {} =>
    /\ (\A t \in Thread : ~Publishing(t)) => header.write_offset = header.last_index
    /\ \A t \in Thread :
         Publishing(t) => rollback_info[ProcessOf[t]].write_offset = header.last_index

(* its records are counted but for those that the running commit has shown, *)
Shown(t) == pc[t] \in {"used", "offset", "counts"}
TotalInv ==
  faults = {} =>
    /\ (\A t \in Thread : ~Shown(t)) => header.total_records = header.last_index - 1
    /\ \A t \in Thread :
         /\ pc[t] \in {"deletes", "count"} => added = 0
         /\ Shown(t) => header.total_records + added = header.last_index - 1
         /\ pc[t] = "records" => /\ added + header.write_offset = cursor
                                 /\ cursor <= rollback_info[ProcessOf[t]].write_offset

(* and so are their bytes.                                                  *)
Size(n) == RecordSize * n
UsedInv ==
  faults = {} =>
    /\ (\A t \in Thread : pc[t] # "used") => header.used_bytes = Size(header.last_index - 1)
    /\ \A t \in Thread :
         LET r == rollback_info[ProcessOf[t]] IN
         /\ pc[t] = "used" => header.used_bytes + r.used_bytes = Size(header.last_index - 1)
         /\ holder = t /\ Preparing(t) => r.used_bytes = Size(r.last_index - header.last_index)

(* The deletes of the thread that holds the lock are distinct committed     *)
(* records, readable until the commit marks them.                           *)
Pending(t, k) == pc[t] = "run" \/ k > cursor \/ (pc[t] = "deletes" /\ k = cursor)
ListInv ==
  faults = {} =>
    \A t \in Thread : holder = t /\ pc[t] \in {"run", "deletes", "count"} =>
      LET d == deletes[ProcessOf[t]] IN
      /\ \A j, k \in DOMAIN d : d[j] = d[k] => j = k
      /\ \A k \in DOMAIN d : /\ d[k] < header.last_index
                             /\ Pending(t, k) => file[d[k]].state = "READABLE"

(* The count of deleted records follows each mark.                          *)
DeletedRecords == {i \in 1 .. header.last_index - 1 : file[i].state # "READABLE"}
DeletedInv ==
  faults = {} =>
    /\ (\A t \in Thread : pc[t] # "count")
         => header.deleted_records = Cardinality(DeletedRecords)
    /\ \A t \in Thread : pc[t] = "count"
         => header.deleted_records + 1 = Cardinality(DeletedRecords)

(* Nothing that has gone wrong is forgotten.                                *)
LEMMA FaultsStay == ASSUME [Next]_vars, faults' = {} PROVE faults = {}
BY DEF Next, CommitStep, Close, Start, StartAgain, StartTimedOut, Write, delete_record, Commit,
       MarkDeleted, CountDeleted, ClearDeletes, MarkReadable, PublishIndex, PublishUsed,
       PublishOffset, PublishCounts, EndCommit, force_rollback, Open, finish, archive,
       SetWriteState, Crash, Expire, Fault, history, vars

(* What a step leaves to the threads that it is not a step of.              *)
LEMMA CommitFrame ==
  ASSUME TypeOK, HolderInv, NEW t \in Thread, CommitStep(t)
  PROVE  /\ ProcessOf[t] \in Process /\ ProcessOf' = ProcessOf /\ holder = t /\ faults' = faults
         /\ pc[t] # "run" /\ pc \in [Thread -> PC]
         /\ \A u \in Thread : u # t => pc[u] = "run" /\ pc'[u] = "run"
<1>1. ThreadsOK
  BY DEF TypeOK
<1> QED
  BY <1>1 DEF CommitStep, MarkDeleted, CountDeleted, ClearDeletes, MarkReadable, PublishIndex,
    PublishUsed, PublishOffset, PublishCounts, EndCommit, HolderInv, ThreadsOK, Goto, history

LEMMA TimedOutElsewhere ==
  ASSUME TypeOK, HolderInv, NEW t \in Thread, StartTimedOut(t), faults' = {}
  PROVE  /\ UNCHANGED <<file, header, holder, deletes, pc, cursor, added, ProcessOf>>
         /\ \A u \in Thread : holder = u \/ pc[u] # "run" =>
              rollback_info'[ProcessOf[u]] = rollback_info[ProcessOf[u]]
<1>1. ThreadsOK /\ ObjectsOK
  BY DEF TypeOK
<1>2. /\ UNCHANGED <<file, header, holder, deletes, pc, cursor, added, ProcessOf>>
      /\ ~(holder \in Thread /\ ProcessOf[holder] = ProcessOf[t])
  BY DEF StartTimedOut, Fault, shared, lock, commit
<1>3. \A u \in Thread : ProcessOf[u] # ProcessOf[t] =>
        rollback_info'[ProcessOf[u]] = rollback_info[ProcessOf[u]]
  BY <1>1 DEF StartTimedOut, setup_transaction, ThreadsOK, ObjectsOK
<1> QED
  BY <1>2, <1>3 DEF HolderInv

LEMMA CrashBetween ==
  ASSUME TypeOK, HolderInv, NEW p \in Process, Crash(p), faults' = {}
  PROVE  /\ UNCHANGED <<file, header, ProcessOf>>
         /\ \A u \in Thread : ProcessOf[u] = p =>
              pc[u] \notin {"count", "used", "offset", "counts"} /\ pc'[u] = "run" /\ holder' # u
         /\ \A u \in Thread : ProcessOf[u] # p =>
              /\ pc'[u] = pc[u] /\ (holder' = u <=> holder = u)
              /\ deletes'[ProcessOf[u]] = deletes[ProcessOf[u]]
              /\ rollback_info'[ProcessOf[u]] = rollback_info[ProcessOf[u]]
              /\ pc[u] # "run" => cursor' = cursor /\ added' = added
<1>1. ThreadsOK /\ ObjectsOK
  BY DEF TypeOK
<1>2. UNCHANGED <<file, header, ProcessOf>>
  BY DEF Crash, shared
<1>3. ASSUME NEW u \in Thread, ProcessOf[u] = p
      PROVE  pc[u] \notin {"count", "used", "offset", "counts"} /\ pc'[u] = "run" /\ holder' # u
  <2>1. pc[u] \notin {"count", "used", "offset", "counts"}
    BY <1>3 DEF Crash, Fault
  <2>2. pc'[u] = "run" /\ holder' # u
    BY <1>3, ProcessAssumption DEF Crash
  <2> QED
    BY <2>1, <2>2
<1>4. ASSUME NEW u \in Thread, ProcessOf[u] # p
      PROVE  /\ pc'[u] = pc[u] /\ (holder' = u <=> holder = u)
             /\ deletes'[ProcessOf[u]] = deletes[ProcessOf[u]]
             /\ rollback_info'[ProcessOf[u]] = rollback_info[ProcessOf[u]]
             /\ pc[u] # "run" => cursor' = cursor /\ added' = added
  <2>1. pc'[u] = pc[u] /\ (holder' = u <=> holder = u)
    BY <1>1, <1>4, ProcessAssumption DEF Crash, ThreadsOK
  <2>2. /\ deletes'[ProcessOf[u]] = deletes[ProcessOf[u]]
        /\ rollback_info'[ProcessOf[u]] = rollback_info[ProcessOf[u]]
    BY <1>1, <1>4 DEF Crash, ThreadsOK, ObjectsOK
  <2>3. ASSUME pc[u] # "run" PROVE cursor' = cursor /\ added' = added
    <3>1. \A v \in Thread : ProcessOf[v] = p => pc[v] = "run"
      BY <1>4, <2>3 DEF HolderInv
    <3> QED
      BY <3>1 DEF Crash
  <2> QED
    BY <2>1, <2>2, <2>3
<1> QED
  BY <1>2, <1>3, <1>4

LEMMA MeetOfTimedOut ==
  ASSUME TypeOK, HolderInv, MeetInv, faults = {}, faults' = {}, NEW t \in Thread, StartTimedOut(t)
  PROVE  MeetInv'
<1>1. /\ UNCHANGED <<header, pc, ProcessOf>>
      /\ \A u \in Thread : pc[u] # "run" => rollback_info'[ProcessOf[u]] = rollback_info[ProcessOf[u]]
  BY TimedOutElsewhere
<1> QED
  BY <1>1 DEF MeetInv, Publishing

(* A transaction's index and offset move together.                          *)
LEMMA IndexIsOffset ==
  ASSUME TypeOK, HolderInv, OffsetInv, MeetInv, faults = {}, NEW t \in Thread, holder = t, Preparing(t)
  PROVE  LET r == rollback_info[ProcessOf[t]] IN
         /\ header.write_offset = header.last_index /\ r.last_index = r.write_offset
         /\ r.write_offset \in Nat /\ header.write_offset \in Nat \ {0}
         /\ header.write_offset <= r.write_offset
<1> DEFINE r == rollback_info[ProcessOf[t]]
<1>1. header.write_offset = header.last_index
  BY DEF MeetInv, HolderInv, Publishing, Preparing
<1>2. /\ r.last_index + header.write_offset = r.write_offset + header.last_index
      /\ header.write_offset <= r.write_offset
  BY DEF OffsetInv
<1>3. /\ r.last_index \in Nat /\ r.write_offset \in Nat
      /\ header.last_index \in Nat \ {0} /\ header.write_offset \in Nat \ {0}
  BY BoundAssumption DEF TypeOK, HeaderOK, ObjectsOK, ThreadsOK, Slot, Index
<1> HIDE DEF r
<1>4. r.last_index = r.write_offset
  BY <1>1, <1>2, <1>3
<1> QED
  BY <1>1, <1>2, <1>3, <1>4 DEF r

LEMMA StepMeet ==
  ASSUME TypeOK, HolderInv, HolderInv', OffsetInv, MeetInv, [Next]_vars PROVE MeetInv'
<1>1. FileOK /\ HeaderOK /\ ObjectsOK /\ ThreadsOK
  BY DEF TypeOK
<1>2. ASSUME [Next]_vars, faults' = {} PROVE MeetInv'
  <2>0. faults = {}
    BY <1>2, FaultsStay
  <2> USE <1>1, <1>2, <2>0, ProcessAssumption
      DEF MeetInv, HolderInv, HeaderOK, ObjectsOK, ThreadsOK, Index, Slot, Goto,
          Publishing, shared, local, lock, commit, history
  <2>1. ASSUME NEW t \in Thread, Close(t) PROVE MeetInv'
    BY <2>1 DEF Close, Ready, Fault
  <2>2. ASSUME NEW t \in Thread, Start(t) PROVE MeetInv'
    BY <2>2 DEF Start, Ready, setup_transaction
  <2>3. ASSUME NEW t \in Thread, StartAgain(t) PROVE MeetInv'
    BY <2>3 DEF StartAgain, Ready, setup_transaction
  <2>4. ASSUME NEW t \in Thread, StartTimedOut(t) PROVE MeetInv'
    BY <2>4, MeetOfTimedOut
  <2>5. ASSUME NEW t \in Thread, Write(t) PROVE MeetInv'
    BY <2>5 DEF Write, Ready, in_transaction
  <2>6. ASSUME NEW t \in Thread, NEW i \in Slot, delete_record(t, i) PROVE MeetInv'
    BY <2>6 DEF delete_record, Ready, in_transaction, Fault, Readable
  <2>7. ASSUME NEW t \in Thread, Commit(t) PROVE MeetInv'
    BY <2>7 DEF Commit, Ready, in_transaction
  <2>8. ASSUME NEW t \in Thread, MarkDeleted(t) PROVE MeetInv'
    <3>1. /\ \A u \in Thread : u # t => pc[u] = "run" /\ pc'[u] = "run"
      BY <2>8, CommitFrame DEF CommitStep
    <3>2. UNCHANGED header /\ pc[t] = "deletes" /\ pc'[t] \in {"run", "count"}
      BY <2>8 DEF MarkDeleted
    <3> QED
      BY <3>1, <3>2
  <2>9. ASSUME NEW t \in Thread, CountDeleted(t) PROVE MeetInv'
    BY <2>9 DEF CountDeleted
  <2>10. ASSUME NEW t \in Thread, ClearDeletes(t) PROVE MeetInv'
    BY <2>10 DEF ClearDeletes
  <2>11. ASSUME NEW t \in Thread, MarkReadable(t) PROVE MeetInv'
    BY <2>11 DEF MarkReadable
  <2>12. ASSUME NEW t \in Thread, PublishIndex(t) PROVE MeetInv'
    <3> DEFINE r == rollback_info[ProcessOf[t]]
    <3>1. /\ \A u \in Thread : u # t => pc[u] = "run" /\ pc'[u] = "run"
          /\ UNCHANGED <<rollback_info, ProcessOf>> /\ pc'[t] = "used" /\ pc[t] = "records"
          /\ header'.last_index = r.last_index /\ holder = t
      BY <2>12, CommitFrame DEF PublishIndex, CommitStep
    <3>2. r.last_index = r.write_offset
      BY <3>1, IndexIsOffset DEF Preparing
    <3> QED
      BY <3>1, <3>2
  <2>13. ASSUME NEW t \in Thread, PublishUsed(t) PROVE MeetInv'
    BY <2>13 DEF PublishUsed
  <2>14. ASSUME NEW t \in Thread, PublishOffset(t) PROVE MeetInv'
    BY <2>14 DEF PublishOffset
  <2>15. ASSUME NEW t \in Thread, PublishCounts(t) PROVE MeetInv'
    BY <2>15 DEF PublishCounts
  <2>16. ASSUME NEW t \in Thread, EndCommit(t) PROVE MeetInv'
    <3>1. /\ \A u \in Thread : u # t => pc[u] = "run" /\ pc'[u] = "run"
          /\ UNCHANGED header /\ pc[t] = "end" /\ pc'[t] = "run"
      BY <2>16, CommitFrame DEF EndCommit, CommitStep
    <3> QED
      BY <3>1
  <2>17. ASSUME NEW t \in Thread, force_rollback(t) PROVE MeetInv'
    BY <2>17 DEF force_rollback, Ready, in_transaction, end_transaction
  <2>18. ASSUME NEW p \in Process, Open(p) PROVE MeetInv'
    BY <2>18 DEF Open
  <2>19. ASSUME NEW p \in Process, finish(p) PROVE MeetInv'
    BY <2>19 DEF finish, SetWriteState
  <2>20. ASSUME NEW p \in Process, archive(p) PROVE MeetInv'
    BY <2>20 DEF archive, SetWriteState
  <2>21. ASSUME NEW p \in Process, Crash(p) PROVE MeetInv'
    BY <2>21 DEF Crash, Fault
  <2>22. CASE Expire
    BY <2>22 DEF Expire, Fault
  <2>23. CASE UNCHANGED vars
    BY <2>23 DEF vars
  <2> QED
    BY <2>1, <2>2, <2>3, <2>4, <2>5, <2>6, <2>7, <2>8, <2>9, <2>10, <2>11, <2>12,
       <2>13, <2>14, <2>15, <2>16, <2>17, <2>18, <2>19, <2>20, <2>21, <2>22, <2>23
    DEF Next, CommitStep
<1> QED
  BY <1>2 DEF MeetInv

LEMMA TotalOfTimedOut ==
  ASSUME TypeOK, HolderInv, TotalInv, faults = {}, faults' = {},
         NEW t \in Thread, StartTimedOut(t)
  PROVE  TotalInv'
<1>1. /\ UNCHANGED <<header, pc, cursor, added, ProcessOf>>
      /\ \A u \in Thread : pc[u] # "run" => rollback_info'[ProcessOf[u]] = rollback_info[ProcessOf[u]]
  BY TimedOutElsewhere
<1> QED
  BY <1>1 DEF TotalInv, Shown

LEMMA TotalOfMark ==
  ASSUME TypeOK, HolderInv, OffsetInv, MeetInv, TotalInv, faults = {}, faults' = {},
         NEW t \in Thread, MarkReadable(t)
  PROVE  TotalInv'
<1>1. /\ \A u \in Thread : u # t => pc[u] = "run" /\ pc'[u] = "run"
      /\ UNCHANGED <<header, rollback_info, ProcessOf, pc>> /\ pc[t] = "records" /\ cursor' = cursor + 1
      /\ added' = added + 1 /\ cursor < rollback_info[ProcessOf[t]].write_offset
  BY CommitFrame DEF MarkReadable, CommitStep, Goto, shared, local, lock

<1>2. /\ rollback_info[ProcessOf[t]].write_offset \in Nat /\ header.write_offset \in Nat
      /\ cursor \in Nat /\ added \in Nat
  BY BoundAssumption DEF TypeOK, HeaderOK, ObjectsOK, ThreadsOK, Slot, Index
<1>3. /\ added + header.write_offset = cursor
      /\ (\A u \in Thread : ~Shown(u)) => header.total_records = header.last_index - 1
  BY <1>1 DEF TotalInv
<1>4. /\ added' + header.write_offset = cursor'
      /\ cursor' <= rollback_info[ProcessOf[t]].write_offset
  BY <1>1, <1>2, <1>3
<1> QED
  BY <1>1, <1>3, <1>4 DEF TotalInv, Shown

LEMMA TotalOfClear ==
  ASSUME TypeOK, HolderInv, OffsetInv, MeetInv, TotalInv, faults = {}, faults' = {},
         NEW t \in Thread, ClearDeletes(t)
  PROVE  TotalInv'
<1>1. /\ \A u \in Thread : u # t => pc[u] = "run" /\ pc'[u] = "run"
      /\ UNCHANGED <<header, rollback_info, ProcessOf, added>> /\ pc[t] = "deletes" /\ pc'[t] = "records"
      /\ cursor' = header.write_offset /\ holder = t
  BY CommitFrame DEF ClearDeletes, CommitStep, Goto, shared, local, lock

<1>2. header.write_offset \in Nat /\ header.write_offset <= rollback_info[ProcessOf[t]].write_offset
  BY <1>1, IndexIsOffset DEF Preparing
<1>3. added = 0 /\ ((\A u \in Thread : ~Shown(u)) => header.total_records = header.last_index - 1)
  BY <1>1 DEF TotalInv
<1> QED
  BY <1>1, <1>2, <1>3 DEF TotalInv, Shown

LEMMA TotalOfPublish ==
  ASSUME TypeOK, HolderInv, OffsetInv, MeetInv, TotalInv, faults = {}, faults' = {},
         NEW t \in Thread, PublishIndex(t)
  PROVE  TotalInv'
<1> DEFINE r == rollback_info[ProcessOf[t]]
<1>1. /\ \A u \in Thread : u # t => pc[u] = "run" /\ pc'[u] = "run"
      /\ UNCHANGED <<rollback_info, ProcessOf, added, cursor>> /\ pc[t] = "records" /\ pc'[t] = "used"
      /\ holder = t /\ cursor >= r.write_offset
  BY CommitFrame DEF PublishIndex, CommitStep, Goto, shared, local, lock

<1>2. /\ header'.last_index = r.last_index
      /\ header'.total_records = header.total_records
  BY DEF PublishIndex, TypeOK, HeaderOK
<1>3. /\ header.write_offset = header.last_index /\ r.last_index = r.write_offset
      /\ r.write_offset \in Nat /\ header.write_offset \in Nat
  BY <1>1, IndexIsOffset DEF Preparing
<1>4. /\ header.total_records = header.last_index - 1
      /\ added + header.write_offset = cursor /\ cursor <= r.write_offset
  BY <1>1 DEF TotalInv, Shown
<1>5. added \in Nat /\ cursor \in Nat
  BY DEF TypeOK, ThreadsOK
<1>6. header'.total_records + added = header'.last_index - 1
  <2> HIDE DEF r
  <2> QED
    BY <1>1, <1>2, <1>3, <1>4, <1>5
<1> QED
  BY <1>1, <1>6 DEF TotalInv, Shown

LEMMA TotalOfCrash ==
  ASSUME TypeOK, HolderInv, TotalInv, faults = {}, faults' = {},
         NEW p \in Process, Crash(p)
  PROVE  TotalInv'
<1>1. UNCHANGED <<header, ProcessOf>> /\ \A u \in Thread : Shown(u)' <=> Shown(u)
  BY CrashBetween DEF Shown
<1>2. ASSUME NEW u \in Thread, pc'[u] # "run"
      PROVE  /\ pc'[u] = pc[u] /\ cursor' = cursor /\ added' = added
             /\ rollback_info'[ProcessOf'[u]] = rollback_info[ProcessOf[u]]
  BY <1>2, CrashBetween
<1>3. (\A u \in Thread : ~Shown(u)') => header'.total_records = header'.last_index - 1
  BY <1>1 DEF TotalInv
<1>4. ASSUME NEW u \in Thread
      PROVE  /\ pc'[u] \in {"deletes", "count"} => added' = 0
             /\ Shown(u)' => header'.total_records + added' = header'.last_index - 1
             /\ pc'[u] = "records" => /\ added' + header'.write_offset = cursor'
                                      /\ cursor' <= rollback_info'[ProcessOf'[u]].write_offset
  BY <1>1, <1>2 DEF TotalInv, Shown
<1> QED
  BY <1>3, <1>4 DEF TotalInv

LEMMA StepTotal ==
  ASSUME TypeOK, HolderInv, HolderInv', OffsetInv, MeetInv, TotalInv, [Next]_vars PROVE TotalInv'
<1>1. FileOK /\ HeaderOK /\ ObjectsOK /\ ThreadsOK
  BY DEF TypeOK
<1>2. ASSUME [Next]_vars, faults' = {} PROVE TotalInv'
  <2>0. faults = {}
    BY <1>2, FaultsStay
  <2> USE <1>1, <1>2, <2>0, ProcessAssumption
      DEF TotalInv, Shown, HolderInv, HeaderOK, ObjectsOK, ThreadsOK, Index, Slot, Goto,
          shared, local, lock, commit, history
  <2>1. ASSUME NEW t \in Thread, Close(t) PROVE TotalInv'
    BY <2>1 DEF Close, Ready, Fault
  <2>2. ASSUME NEW t \in Thread, Start(t) PROVE TotalInv'
    BY <2>2 DEF Start, Ready, setup_transaction
  <2>3. ASSUME NEW t \in Thread, StartAgain(t) PROVE TotalInv'
    BY <2>3 DEF StartAgain, Ready, setup_transaction
  <2>4. ASSUME NEW t \in Thread, StartTimedOut(t) PROVE TotalInv'
    BY <2>4, TotalOfTimedOut
  <2>5. ASSUME NEW t \in Thread, Write(t) PROVE TotalInv'
    BY <2>5 DEF Write, Ready, in_transaction
  <2>6. ASSUME NEW t \in Thread, NEW i \in Slot, delete_record(t, i) PROVE TotalInv'
    BY <2>6 DEF delete_record, Ready, in_transaction, Fault, Readable
  <2>7. ASSUME NEW t \in Thread, Commit(t) PROVE TotalInv'
    BY <2>7, SMTT(30) DEF Commit, Ready, in_transaction
  <2>8. ASSUME NEW t \in Thread, MarkDeleted(t) PROVE TotalInv'
    <3>1. /\ \A u \in Thread : u # t => pc[u] = "run" /\ pc'[u] = "run"
          /\ UNCHANGED <<header, rollback_info, ProcessOf, added>>
      BY <2>8, CommitFrame DEF MarkDeleted, CommitStep
    <3>2. pc[t] = "deletes" /\ pc'[t] \in {"run", "count"}
      BY <2>8 DEF MarkDeleted, PC
    <3> QED
      BY <3>1, <3>2
  <2>9. ASSUME NEW t \in Thread, CountDeleted(t) PROVE TotalInv'
    BY <2>9 DEF CountDeleted
  <2>10. ASSUME NEW t \in Thread, ClearDeletes(t) PROVE TotalInv'
    BY <2>10, TotalOfClear
  <2>11. ASSUME NEW t \in Thread, MarkReadable(t) PROVE TotalInv'
    BY <2>11, TotalOfMark
  <2>12. ASSUME NEW t \in Thread, PublishIndex(t) PROVE TotalInv'
    BY <2>12, TotalOfPublish
  <2>13. ASSUME NEW t \in Thread, PublishUsed(t) PROVE TotalInv'
    <3>1. /\ \A u \in Thread : u # t => pc[u] = "run" /\ pc'[u] = "run"
          /\ pc[t] = "used" /\ pc'[t] = "offset" /\ added' = added
          /\ header'.last_index = header.last_index /\ header'.total_records = header.total_records
      BY <2>13, CommitFrame DEF PublishUsed, CommitStep
    <3> QED
      BY <3>1
  <2>14. ASSUME NEW t \in Thread, PublishOffset(t) PROVE TotalInv'
    <3>1. /\ \A u \in Thread : u # t => pc[u] = "run" /\ pc'[u] = "run"
          /\ pc[t] = "offset" /\ pc'[t] = "counts" /\ added' = added
          /\ header'.last_index = header.last_index /\ header'.total_records = header.total_records
      BY <2>14, CommitFrame DEF PublishOffset, CommitStep
    <3> QED
      BY <3>1
  <2>15. ASSUME NEW t \in Thread, PublishCounts(t) PROVE TotalInv'
    <3>1. /\ \A u \in Thread : u # t => pc[u] = "run" /\ pc'[u] = "run"
          /\ pc[t] = "counts" /\ pc'[t] = "end" /\ header'.last_index = header.last_index
          /\ header'.total_records = header.total_records + added
      BY <2>15, CommitFrame DEF PublishCounts, CommitStep
    <3> QED
      BY <3>1
  <2>16. ASSUME NEW t \in Thread, EndCommit(t) PROVE TotalInv'
    <3>1. /\ \A u \in Thread : pc'[u] = "run" /\ (u # t => pc[u] = "run")
          /\ header' = header /\ pc[t] = "end"
      BY <2>16, CommitFrame DEF EndCommit, CommitStep
    <3> QED
      BY <3>1
  <2>17. ASSUME NEW t \in Thread, force_rollback(t) PROVE TotalInv'
    BY <2>17 DEF force_rollback, Ready, in_transaction, end_transaction
  <2>18. ASSUME NEW p \in Process, Open(p) PROVE TotalInv'
    BY <2>18 DEF Open
  <2>19. ASSUME NEW p \in Process, finish(p) PROVE TotalInv'
    BY <2>19 DEF finish, SetWriteState
  <2>20. ASSUME NEW p \in Process, archive(p) PROVE TotalInv'
    BY <2>20 DEF archive, SetWriteState
  <2>21. ASSUME NEW p \in Process, Crash(p) PROVE TotalInv'
    BY <2>21, TotalOfCrash
  <2>22. CASE Expire
    BY <2>22 DEF Expire, Fault
  <2>23. CASE UNCHANGED vars
    BY <2>23 DEF vars
  <2> QED
    BY <2>1, <2>2, <2>3, <2>4, <2>5, <2>6, <2>7, <2>8, <2>9, <2>10, <2>11, <2>12,
       <2>13, <2>14, <2>15, <2>16, <2>17, <2>18, <2>19, <2>20, <2>21, <2>22, <2>23
    DEF Next, CommitStep
<1> QED
  BY <1>2 DEF TotalInv

LEMMA SizeOfNone == Size(0) = 0
BY SizeAssumption DEF Size

LEMMA SizeOfMore == ASSUME NEW n \in Nat PROVE Size(n + 1) = Size(n) + RecordSize /\ Size(n) \in Nat
BY SizeAssumption DEF Size

LEMMA SizeOfBoth ==
  ASSUME NEW m \in Nat, NEW n \in Nat PROVE Size(m + n) = Size(m) + Size(n)
BY SizeAssumption DEF Size

LEMMA UsedTypes ==
  ASSUME TypeOK, NEW t \in Thread
  PROVE  LET r == rollback_info[ProcessOf[t]] IN
         /\ r.used_bytes \in Nat /\ r.last_index \in Nat /\ header.used_bytes \in Nat
         /\ header.last_index \in Nat \ {0} /\ ProcessOf[t] \in Process
BY BoundAssumption DEF TypeOK, HeaderOK, ObjectsOK, ThreadsOK, Slot, Index

LEMMA UsedOfTimedOut ==
  ASSUME TypeOK, HolderInv, UsedInv, faults = {}, faults' = {},
         NEW t \in Thread, StartTimedOut(t)
  PROVE  UsedInv'
<1>1. /\ UNCHANGED <<header, pc, holder, ProcessOf>>
      /\ \A u \in Thread : holder = u \/ pc[u] # "run" =>
           rollback_info'[ProcessOf[u]] = rollback_info[ProcessOf[u]]
  BY TimedOutElsewhere
<1> QED
  BY <1>1 DEF UsedInv, Preparing

LEMMA UsedOfSetup ==
  ASSUME TypeOK, HolderInv, UsedInv, faults = {}, NEW t \in Thread, setup_transaction(ProcessOf[t]),
         holder \in {NoThread, t}, holder' = t, pc[t] = "run", UNCHANGED <<header, pc, ProcessOf>>
  PROVE  UsedInv'
<1>1. /\ rollback_info'[ProcessOf[t]].used_bytes = 0
      /\ rollback_info'[ProcessOf[t]].last_index = header.last_index
      /\ header.last_index \in Nat
  BY UsedTypes DEF setup_transaction, TypeOK, ObjectsOK
<1>2. \A u \in Thread : pc[u] = "run"
  BY ProcessAssumption DEF HolderInv
<1>3. header.last_index - header.last_index = 0
  BY <1>1
<1> QED
  BY <1>1, <1>2, <1>3, SizeOfNone DEF UsedInv, Preparing

LEMMA UsedOfWrite ==
  ASSUME TypeOK, HolderInv, OffsetInv, MeetInv, UsedInv, faults = {}, faults' = {},
         NEW t \in Thread, Write(t)
  PROVE  UsedInv'
<1> DEFINE q == ProcessOf[t]  r == rollback_info[q]  n == r.last_index - header.last_index
<1>1. /\ holder = t /\ pc[t] = "run" /\ UNCHANGED <<header, holder, pc, ProcessOf>>
  BY DEF Write, Ready, in_transaction, lock, commit
<1>2. /\ rollback_info'[q].last_index = r.last_index + 1
      /\ rollback_info'[q].used_bytes = r.used_bytes + RecordSize
  BY UsedTypes DEF Write, TypeOK, ObjectsOK
<1>3. n \in Nat /\ r.last_index \in Nat /\ header.last_index \in Nat
  BY <1>1, IndexIsOffset, UsedTypes DEF Preparing
<1>4. rollback_info'[q].last_index - header.last_index = n + 1
  BY <1>2, <1>3
<1>5. r.used_bytes = Size(n)
  BY <1>1 DEF UsedInv, Preparing
<1>6. rollback_info'[q].used_bytes = Size(n + 1)
  BY <1>2, <1>3, <1>5, SizeOfMore
<1>7. \A u \in Thread : pc[u] = "run"
  BY <1>1 DEF HolderInv
<1> QED
  BY <1>1, <1>4, <1>6, <1>7 DEF UsedInv

LEMMA UsedOfPublish ==
  ASSUME TypeOK, HolderInv, OffsetInv, MeetInv, UsedInv, faults = {}, faults' = {},
         NEW t \in Thread, PublishIndex(t)
  PROVE  UsedInv'
<1> DEFINE r == rollback_info[ProcessOf[t]]
<1>1. /\ \A u \in Thread : u # t => pc[u] = "run" /\ pc'[u] = "run"
      /\ UNCHANGED <<rollback_info, ProcessOf, holder>> /\ pc[t] = "records" /\ pc'[t] = "used"
      /\ holder = t
  BY CommitFrame DEF PublishIndex, CommitStep, Goto, shared, local, lock

<1>2. /\ header'.last_index = r.last_index
      /\ header'.used_bytes = header.used_bytes
  BY DEF PublishIndex, TypeOK, HeaderOK
<1>3. /\ header.last_index <= r.last_index /\ r.last_index \in Nat /\ header.last_index \in Nat \ {0}
  BY <1>1, IndexIsOffset, UsedTypes DEF Preparing
<1>4. header.used_bytes = Size(header.last_index - 1)
      /\ r.used_bytes = Size(r.last_index - header.last_index)
  BY <1>1 DEF UsedInv, Preparing
<1>5. Size(r.last_index - 1) = Size(header.last_index - 1) + Size(r.last_index - header.last_index)
  <2> DEFINE m == header.last_index - 1  n == r.last_index - header.last_index
  <2>1. m \in Nat /\ n \in Nat /\ r.last_index - 1 = m + n
    BY <1>3
  <2> HIDE DEF m, n, r
  <2>2. Size(m + n) = Size(m) + Size(n)
    BY <2>1, SizeOfBoth
  <2> QED
    BY <2>1, <2>2 DEF m, n
<1>6. header'.used_bytes + r.used_bytes = Size(header'.last_index - 1)
  BY <1>2, <1>4, <1>5
<1> QED
  BY <1>1, <1>6 DEF UsedInv, Preparing

LEMMA UsedOfPublishUsed ==
  ASSUME TypeOK, HolderInv, OffsetInv, MeetInv, UsedInv, faults = {}, faults' = {},
         NEW t \in Thread, PublishUsed(t)
  PROVE  UsedInv'
<1>1. /\ \A u \in Thread : u # t => pc[u] = "run" /\ pc'[u] = "run"
      /\ UNCHANGED <<rollback_info, ProcessOf, holder>> /\ pc[t] = "used" /\ pc'[t] = "offset"
      /\ holder = t
  BY CommitFrame DEF PublishUsed, CommitStep, Goto, shared, local, lock

<1>2. /\ header'.last_index = header.last_index
      /\ header'.used_bytes = header.used_bytes + rollback_info[ProcessOf[t]].used_bytes
  BY DEF PublishUsed, TypeOK, HeaderOK
<1>3. header'.used_bytes = Size(header'.last_index - 1)
  BY <1>1, <1>2 DEF UsedInv
<1> QED
  BY <1>1, <1>3 DEF UsedInv, Preparing

LEMMA UsedOfCrash ==
  ASSUME TypeOK, HolderInv, HolderInv', UsedInv, faults = {}, faults' = {},
         NEW p \in Process, Crash(p)
  PROVE  UsedInv'
<1>1. UNCHANGED <<header, ProcessOf>> /\ \A u \in Thread : pc'[u] = "used" <=> pc[u] = "used"
  BY CrashBetween
<1>2. ASSUME NEW u \in Thread, holder' = u \/ pc'[u] = "used"
      PROVE  pc'[u] = pc[u] /\ holder = u /\ rollback_info'[ProcessOf'[u]] = rollback_info[ProcessOf[u]]
  BY <1>2, CrashBetween DEF HolderInv
<1>3. (\A u \in Thread : pc'[u] # "used") => header'.used_bytes = Size(header'.last_index - 1)
  BY <1>1 DEF UsedInv
<1> QED
  BY <1>1, <1>2, <1>3 DEF UsedInv, Preparing

LEMMA StepUsed ==
  ASSUME TypeOK, HolderInv, HolderInv', OffsetInv, MeetInv, UsedInv, [Next]_vars PROVE UsedInv'
<1>1. FileOK /\ HeaderOK /\ ObjectsOK /\ ThreadsOK
  BY DEF TypeOK
<1>2. ASSUME [Next]_vars, faults' = {} PROVE UsedInv'
  <2>0. faults = {}
    BY <1>2, FaultsStay
  <2> USE <1>1, <1>2, <2>0, ProcessAssumption
      DEF UsedInv, HolderInv, HeaderOK, ObjectsOK, ThreadsOK, Goto, Preparing,
          shared, local, lock, commit, history
  <2>1. ASSUME NEW t \in Thread, Close(t) PROVE UsedInv'
    BY <2>1 DEF Close, Ready, Fault
  <2>2. ASSUME NEW t \in Thread, Start(t) PROVE UsedInv'
    <3>1. /\ UNCHANGED <<header, pc, ProcessOf>> /\ holder = NoThread /\ holder' = t
          /\ pc[t] = "run" /\ setup_transaction(ProcessOf[t])
      BY <2>2 DEF Start, Ready
    <3> QED
      BY <3>1, UsedOfSetup
  <2>3. ASSUME NEW t \in Thread, StartAgain(t) PROVE UsedInv'
    <3>1. /\ UNCHANGED <<header, pc, ProcessOf>> /\ holder = t /\ holder' = t
          /\ pc[t] = "run" /\ setup_transaction(ProcessOf[t])
      BY <2>3 DEF StartAgain, Ready
    <3> QED
      BY <3>1, UsedOfSetup
  <2>4. ASSUME NEW t \in Thread, StartTimedOut(t) PROVE UsedInv'
    BY <2>4, UsedOfTimedOut
  <2>5. ASSUME NEW t \in Thread, Write(t) PROVE UsedInv'
    BY <2>5, UsedOfWrite
  <2>6. ASSUME NEW t \in Thread, NEW i \in Slot, delete_record(t, i) PROVE UsedInv'
    BY <2>6 DEF delete_record, Ready, in_transaction, Fault, Readable
  <2>7. ASSUME NEW t \in Thread, Commit(t) PROVE UsedInv'
    BY <2>7 DEF Commit, Ready, in_transaction
  <2>8. ASSUME NEW t \in Thread, MarkDeleted(t) PROVE UsedInv'
    BY <2>8 DEF MarkDeleted, Readable
  <2>9. ASSUME NEW t \in Thread, CountDeleted(t) PROVE UsedInv'
    BY <2>9 DEF CountDeleted
  <2>10. ASSUME NEW t \in Thread, ClearDeletes(t) PROVE UsedInv'
    BY <2>10 DEF ClearDeletes
  <2>11. ASSUME NEW t \in Thread, MarkReadable(t) PROVE UsedInv'
    BY <2>11 DEF MarkReadable
  <2>12. ASSUME NEW t \in Thread, PublishIndex(t) PROVE UsedInv'
    BY <2>12, UsedOfPublish
  <2>13. ASSUME NEW t \in Thread, PublishUsed(t) PROVE UsedInv'
    BY <2>13, UsedOfPublishUsed
  <2>14. ASSUME NEW t \in Thread, PublishOffset(t) PROVE UsedInv'
    BY <2>14 DEF PublishOffset
  <2>15. ASSUME NEW t \in Thread, PublishCounts(t) PROVE UsedInv'
    BY <2>15 DEF PublishCounts
  <2>16. ASSUME NEW t \in Thread, EndCommit(t) PROVE UsedInv'
    BY <2>16 DEF EndCommit, end_transaction
  <2>17. ASSUME NEW t \in Thread, force_rollback(t) PROVE UsedInv'
    BY <2>17 DEF force_rollback, Ready, in_transaction, end_transaction
  <2>18. ASSUME NEW p \in Process, Open(p) PROVE UsedInv'
    BY <2>18 DEF Open
  <2>19. ASSUME NEW p \in Process, finish(p) PROVE UsedInv'
    BY <2>19 DEF finish, SetWriteState
  <2>20. ASSUME NEW p \in Process, archive(p) PROVE UsedInv'
    BY <2>20 DEF archive, SetWriteState
  <2>21. ASSUME NEW p \in Process, Crash(p) PROVE UsedInv'
    BY <2>21, UsedOfCrash
  <2>22. CASE Expire
    BY <2>22 DEF Expire, Fault
  <2>23. CASE UNCHANGED vars
    BY <2>23 DEF vars
  <2> QED
    BY <2>1, <2>2, <2>3, <2>4, <2>5, <2>6, <2>7, <2>8, <2>9, <2>10, <2>11, <2>12,
       <2>13, <2>14, <2>15, <2>16, <2>17, <2>18, <2>19, <2>20, <2>21, <2>22, <2>23
    DEF Next, CommitStep
<1> QED
  BY <1>2 DEF UsedInv

LEMMA Unbroken == ASSUME MeetInv, faults = {} PROVE ~Broken
BY DEF MeetInv, Broken

(* The holder's deletes, while they are collected and marked.               *)
LEMMA Listed ==
  ASSUME TypeOK, ListInv, faults = {}, NEW t \in Thread, holder = t, pc[t] \in {"run", "deletes", "count"}
  PROVE  LET d == deletes[ProcessOf[t]] IN
         /\ d \in Seq(Slot) /\ ProcessOf[t] \in Process /\ header.last_index \in Nat
         /\ \A j, k \in DOMAIN d : d[j] = d[k] => j = k
         /\ \A k \in DOMAIN d : /\ d[k] \in 1 .. header.last_index - 1 /\ d[k] \in Slot
                                /\ Pending(t, k) => file[d[k]].state = "READABLE"
<1> DEFINE d == deletes[ProcessOf[t]]
<1>1. d \in Seq(Slot) /\ ProcessOf[t] \in Process /\ header.last_index \in Nat
  BY BoundAssumption DEF TypeOK, HeaderOK, ObjectsOK, ThreadsOK, Slot
<1>2. \A k \in DOMAIN d : d[k] \in Slot
  BY <1>1, DeletesAreSlots
<1>3. /\ \A j, k \in DOMAIN d : d[j] = d[k] => j = k
      /\ \A k \in DOMAIN d : /\ d[k] < header.last_index
                             /\ Pending(t, k) => file[d[k]].state = "READABLE"
  BY DEF ListInv
<1>4. \A k \in DOMAIN d : d[k] \in 1 .. header.last_index - 1
  <2> TAKE k \in DOMAIN d
  <2>1. d[k] \in Nat /\ 1 <= d[k]
    BY <1>2, BoundAssumption DEF Slot
  <2>2. d[k] < header.last_index
    BY <1>3
  <2> HIDE DEF d
  <2> QED
    BY <1>1, <2>1, <2>2
<1> QED
  BY <1>1, <1>2, <1>3, <1>4

(* A committed record is found by walking the chain.                        *)
LEMMA CommittedFound ==
  ASSUME TypeOK, MeetInv, ChainIntact, faults = {}, NEW i \in 1 .. header.last_index - 1
  PROVE  Readable(i) /\ i \in Slot /\ file[i].state \in {"READABLE", "DELETED"}
BY Unbroken DEF ChainIntact, Readable

(* What a commit marks is one of the committed records.                     *)
LEMMA MarkOfList ==
  ASSUME TypeOK, HolderInv, MarkedInv, MeetInv, ChainIntact, ListInv, faults = {},
         NEW t \in Thread, MarkDeleted(t)
  PROVE  LET d == deletes[ProcessOf[t]] IN
         /\ holder = t /\ pc[t] = "deletes" /\ pc' = [pc EXCEPT ![t] = "count"]
         /\ UNCHANGED <<header, holder, deletes, ProcessOf, cursor>>
         /\ cursor \in DOMAIN d /\ d[cursor] \in 1 .. header.last_index - 1
         /\ file[d[cursor]].state = "READABLE"
         /\ \A s \in Slot : file'[s].state = IF s = d[cursor] THEN "DELETED" ELSE file[s].state
<1> DEFINE d == deletes[ProcessOf[t]]
<1>1. holder = t /\ pc[t] = "deletes" /\ cursor <= Len(d)
      /\ UNCHANGED <<header, holder, deletes, ProcessOf, cursor>>
  BY DEF MarkDeleted, HolderInv, local, lock, history
<1>2. d \in Seq(Slot) /\ cursor \in Nat \ {0}
  BY <1>1, Listed DEF MarkedInv, Marked, TypeOK, ThreadsOK
<1>3. cursor \in DOMAIN d
  BY <1>1, <1>2, LenProperties
<1>4. d[cursor] \in 1 .. header.last_index - 1 /\ file[d[cursor]].state = "READABLE"
  BY <1>1, <1>3, Listed DEF Pending
<1>5. Readable(d[cursor])
  BY <1>4, CommittedFound
<1>6. file' = [file EXCEPT ![d[cursor]].state = "DELETED"] /\ pc' = [pc EXCEPT ![t] = "count"]
  BY <1>5 DEF MarkDeleted, Goto
<1>7. \A s \in Slot : file'[s].state = IF s = d[cursor] THEN "DELETED" ELSE file[s].state
  BY <1>6 DEF TypeOK, FileOK
<1> QED
  BY <1>1, <1>3, <1>4, <1>6, <1>7

(* Steps that leave the holder's list alone, and what it names.             *)
LEMMA ListKept ==
  ASSUME TypeOK, ListInv, faults = {},
         header'.last_index = header.last_index, ProcessOf' = ProcessOf, cursor' = cursor,
         \A s \in Slot : s < header.last_index => file'[s].state = file[s].state,
         \A u \in Thread : holder' = u /\ pc'[u] \in {"run", "deletes", "count"} =>
           holder = u /\ pc'[u] = pc[u] /\ deletes'[ProcessOf[u]] = deletes[ProcessOf[u]]
  PROVE  ListInv'
<1> SUFFICES ASSUME NEW u \in Thread, holder' = u, pc'[u] \in {"run", "deletes", "count"}
             PROVE  LET d == deletes'[ProcessOf'[u]] IN
                    /\ \A j, k \in DOMAIN d : d[j] = d[k] => j = k
                    /\ \A k \in DOMAIN d : /\ d[k] < header'.last_index
                                           /\ Pending(u, k)' => file'[d[k]].state = "READABLE"
  BY DEF ListInv
<1>1. holder = u /\ pc'[u] = pc[u] /\ deletes'[ProcessOf'[u]] = deletes[ProcessOf[u]]
  OBVIOUS
<1>2. \A k \in DOMAIN deletes[ProcessOf[u]] :
        /\ deletes[ProcessOf[u]][k] \in Slot
        /\ deletes[ProcessOf[u]][k] < header.last_index
  BY <1>1, Listed, DeletesAreSlots DEF ListInv
<1> QED
  BY <1>1, <1>2, Listed DEF Pending

(* Nobody's list: the lock is free.                                         *)
LEMMA ListOfNobody == ASSUME holder' \notin Thread PROVE ListInv'
BY DEF ListInv

LEMMA ListOfStart ==
  ASSUME TypeOK, HolderInv, MarkedInv, DeletesOfOwner, MeetInv, ChainIntact, ListInv, faults = {}, faults' = {},
         NEW t \in Thread, Start(t)
  PROVE  ListInv'
<1>1. /\ holder = NoThread /\ holder' = t /\ pc[t] = "run"
      /\ UNCHANGED <<deletes, ProcessOf, pc, header, file>> /\ ProcessOf[t] \in Process
  BY DEF Start, Ready, shared, commit, TypeOK, ThreadsOK
<1>2. deletes[ProcessOf[t]] = <<>>
  BY <1>1, ProcessAssumption DEF DeletesOfOwner
<1>3. DOMAIN <<>> = {}
  OBVIOUS
<1> QED
  BY <1>1, <1>2, <1>3 DEF ListInv

LEMMA ListOfDelete ==
  ASSUME TypeOK, HolderInv, MarkedInv, DeletesOfOwner, MeetInv, ChainIntact, ListInv, faults = {}, faults' = {},
         NEW t \in Thread, NEW i \in Slot, delete_record(t, i)
  PROVE  ListInv'
<1> DEFINE p == ProcessOf[t]  d == deletes[p]  e == Append(d, i)
<1>1. /\ holder = t /\ pc[t] = "run" /\ UNCHANGED <<pc, header, file, ProcessOf, holder, cursor>>
      /\ deletes' = [deletes EXCEPT ![p] = e]
      /\ i # header.last_index /\ \A k \in DOMAIN d : d[k] # i
      /\ Readable(i) /\ file[i].state \in {"READABLE", "DIRTY"}
  BY DEF delete_record, Ready, in_transaction, Fault, shared, lock, commit
<1>2. i \in 1 .. header.last_index - 1
  BY <1>1, BoundAssumption DEF Readable, TypeOK, HeaderOK, Slot
<1>3. file[i].state = "READABLE"
  BY <1>1, <1>2, CommittedFound
<1>4. /\ d \in Seq(Slot) /\ p \in Process /\ header.last_index \in Nat
      /\ \A j, k \in DOMAIN d : d[j] = d[k] => j = k
      /\ \A k \in DOMAIN d : d[k] < header.last_index /\ file[d[k]].state = "READABLE"
  <2>1. /\ d \in Seq(Slot) /\ p \in Process /\ header.last_index \in Nat
        /\ \A j, k \in DOMAIN d : d[j] = d[k] => j = k
    BY <1>1, Listed
  <2>2. \A k \in DOMAIN d : Pending(t, k)
    BY <1>1 DEF Pending
  <2>3. \A k \in DOMAIN d : d[k] < header.last_index /\ file[d[k]].state = "READABLE"
    BY <1>1, <2>2 DEF ListInv
  <2> QED
    BY <2>1, <2>3
<1>5. /\ DOMAIN e = DOMAIN d \cup {Len(d) + 1} /\ Len(d) + 1 \notin DOMAIN d
      /\ e[Len(d) + 1] = i /\ \A k \in DOMAIN d : e[k] = d[k]
  BY <1>4, AppendProperties, LenProperties
<1>6. deletes'[p] = e
  BY <1>1, <1>4 DEF TypeOK, ObjectsOK
<1> HIDE DEF e, d
<1>7. \A j, k \in DOMAIN e : e[j] = e[k] => j = k
  BY <1>1, <1>4, <1>5
<1>8. \A k \in DOMAIN e : e[k] < header.last_index /\ file[e[k]].state = "READABLE"
  BY <1>2, <1>3, <1>4, <1>5
<1> QED
  BY <1>1, <1>6, <1>7, <1>8 DEF ListInv

LEMMA ListOfCommit ==
  ASSUME TypeOK, HolderInv, MarkedInv, DeletesOfOwner, MeetInv, ChainIntact, ListInv, faults = {}, faults' = {},
         NEW t \in Thread, Commit(t)
  PROVE  ListInv'
<1> DEFINE d == deletes[ProcessOf[t]]
<1>1. /\ holder = t /\ holder' = t /\ pc[t] = "run" /\ pc'[t] = "deletes" /\ cursor' = 1
      /\ UNCHANGED <<header, file, ProcessOf, deletes>>
  BY DEF Commit, Ready, in_transaction, Goto, TypeOK, ThreadsOK, shared, lock, local, history
<1>2. /\ \A j, k \in DOMAIN d : d[j] = d[k] => j = k
      /\ \A k \in DOMAIN d : d[k] < header.last_index /\ file[d[k]].state = "READABLE"
  <2>1. \A k \in DOMAIN d : Pending(t, k)
    BY <1>1 DEF Pending
  <2> QED
    BY <1>1, <2>1 DEF ListInv
<1> QED
  BY <1>1, <1>2 DEF ListInv

LEMMA ListOfMark ==
  ASSUME TypeOK, HolderInv, MarkedInv, DeletesOfOwner, MeetInv, ChainIntact, ListInv, faults = {}, faults' = {},
         NEW t \in Thread, MarkDeleted(t)
  PROVE  ListInv'
<1> DEFINE d == deletes[ProcessOf[t]]
<1>1. /\ holder = t /\ holder' = t /\ pc[t] = "deletes" /\ pc'[t] = "count" /\ cursor \in DOMAIN d
      /\ UNCHANGED <<header, deletes, ProcessOf, cursor>> /\ d \in Seq(Slot) /\ cursor \in Nat
      /\ \A s \in Slot : file'[s].state = IF s = d[cursor] THEN "DELETED" ELSE file[s].state
  BY MarkOfList, Listed DEF TypeOK, ThreadsOK
<1>2. /\ \A j, k \in DOMAIN d : d[j] = d[k] => j = k
      /\ \A k \in DOMAIN d : /\ d[k] < header.last_index /\ d[k] \in Slot
                             /\ Pending(t, k) => file[d[k]].state = "READABLE"
  BY <1>1, Listed DEF ListInv
<1>3. ASSUME NEW k \in DOMAIN d, k > cursor PROVE file'[d[k]].state = "READABLE"
  <2>1. k # cursor
    BY <1>1, <1>3, DeletesAreSlots
  <2>2. d[k] # d[cursor]
    BY <1>1, <1>2, <2>1
  <2> QED
    BY <1>1, <1>2, <1>3, <2>2 DEF Pending
<1> QED
  BY <1>1, <1>2, <1>3 DEF ListInv, Pending

LEMMA ListOfCount ==
  ASSUME TypeOK, HolderInv, MarkedInv, DeletesOfOwner, MeetInv, ChainIntact, ListInv, faults = {}, faults' = {},
         NEW t \in Thread, CountDeleted(t)
  PROVE  ListInv'
<1> DEFINE d == deletes[ProcessOf[t]]
<1>1. /\ holder = t /\ holder' = t /\ pc[t] = "count" /\ pc'[t] = "deletes" /\ cursor' = cursor + 1
      /\ UNCHANGED <<file, deletes, ProcessOf>> /\ cursor \in Nat
      /\ header'.last_index = header.last_index
  BY CommitFrame DEF CommitStep, CountDeleted, Goto, TypeOK, ThreadsOK, HeaderOK, lock, local
<1>2. /\ \A j, k \in DOMAIN d : d[j] = d[k] => j = k
      /\ \A k \in DOMAIN d : /\ d[k] < header.last_index /\ k \in Nat
                             /\ Pending(t, k) => file[d[k]].state = "READABLE"
  BY <1>1, Listed, DeletesAreSlots DEF ListInv
<1>3. ASSUME NEW k \in DOMAIN d, Pending(t, k)' PROVE file'[d[k]].state = "READABLE"
  <2>1. k > cursor
    BY <1>1, <1>2, <1>3 DEF Pending
  <2> QED
    BY <1>1, <1>2, <2>1 DEF Pending
<1> QED
  BY <1>1, <1>2, <1>3 DEF ListInv

LEMMA ListOfCrash ==
  ASSUME TypeOK, HolderInv, HolderInv', ListInv, faults = {}, faults' = {},
         NEW p \in Process, Crash(p)
  PROVE  ListInv'
<1>1. UNCHANGED <<header, file, ProcessOf>>
  BY CrashBetween
<1>2. ASSUME NEW u \in Thread, holder' = u
      PROVE  /\ holder = u /\ pc'[u] = pc[u] /\ deletes'[ProcessOf[u]] = deletes[ProcessOf[u]]
             /\ pc[u] # "run" => cursor' = cursor
  BY <1>2, CrashBetween
<1>3. \A u \in Thread, k \in Nat : holder' = u /\ Pending(u, k)' => Pending(u, k)
  BY <1>2 DEF Pending
<1> SUFFICES ASSUME NEW u \in Thread, holder' = u, pc'[u] \in {"run", "deletes", "count"}
             PROVE  LET d == deletes'[ProcessOf'[u]] IN
                    /\ \A j, k \in DOMAIN d : d[j] = d[k] => j = k
                    /\ \A k \in DOMAIN d : /\ d[k] < header'.last_index
                                           /\ Pending(u, k)' => file'[d[k]].state = "READABLE"
  BY DEF ListInv
<1>4. \A k \in DOMAIN deletes[ProcessOf[u]] : k \in Nat
  BY <1>2, Listed, DeletesAreSlots
<1> QED
  BY <1>1, <1>2, <1>3, <1>4 DEF ListInv

LEMMA StepList ==
  ASSUME TypeOK, HolderInv, HolderInv', OffsetInv, MarkedInv, DeletesOfOwner, ChainIntact,
         MeetInv, ListInv, [Next]_vars PROVE ListInv'
<1>1. FileOK /\ HeaderOK /\ ObjectsOK /\ ThreadsOK
  BY DEF TypeOK
<1>2. ASSUME [Next]_vars, faults' = {} PROVE ListInv'
  <2>0. faults = {}
    BY <1>2, FaultsStay
  <2> USE <1>1, <1>2, <2>0, ProcessAssumption
      DEF HeaderOK, ObjectsOK, ThreadsOK, Goto, HolderInv, Slot,
          shared, local, lock, commit, history
  <2>1. ASSUME NEW t \in Thread, Close(t) PROVE ListInv'
    BY <2>1, ListKept DEF Close, Ready, Fault
  <2>2. ASSUME NEW t \in Thread, Start(t) PROVE ListInv'
    BY <2>2, ListOfStart
  <2>3. ASSUME NEW t \in Thread, StartAgain(t) PROVE ListInv'
    BY <2>3, ListKept DEF StartAgain, Ready, setup_transaction
  <2>4. ASSUME NEW t \in Thread, StartTimedOut(t) PROVE ListInv'
    BY <2>4, TimedOutElsewhere, ListKept
  <2>5. ASSUME NEW t \in Thread, Write(t) PROVE ListInv'
    <3>1. /\ holder = t /\ pc[t] = "run" /\ UNCHANGED <<header, holder, pc, cursor, deletes, ProcessOf>>
          /\ file' = [file EXCEPT ![rollback_info[ProcessOf[t]].write_offset] =
                        [index |-> rollback_info[ProcessOf[t]].last_index, state |-> "DIRTY"]]
      BY <2>5 DEF Write, Ready, in_transaction
    <3>2. \A s \in Slot : s < header.last_index => s # rollback_info[ProcessOf[t]].write_offset
      BY <3>1, IndexIsOffset, BoundAssumption DEF Preparing
    <3>3. \A s \in Slot : s < header.last_index => file'[s].state = file[s].state
      BY <3>1, <3>2 DEF FileOK
    <3> QED
      BY <3>1, <3>3, ListKept
  <2>6. ASSUME NEW t \in Thread, NEW i \in Slot, delete_record(t, i) PROVE ListInv'
    BY <2>6, ListOfDelete
  <2>7. ASSUME NEW t \in Thread, Commit(t) PROVE ListInv'
    BY <2>7, ListOfCommit
  <2>8. ASSUME NEW t \in Thread, MarkDeleted(t) PROVE ListInv'
    BY <2>8, ListOfMark
  <2>9. ASSUME NEW t \in Thread, CountDeleted(t) PROVE ListInv'
    BY <2>9, ListOfCount
  <2>10. ASSUME NEW t \in Thread, ClearDeletes(t) PROVE ListInv'
    <3>1. \A u \in Thread : holder' = u => u = t /\ pc'[u] = "records"
      BY <2>10, CommitFrame DEF CommitStep, ClearDeletes
    <3> QED
      BY <3>1 DEF ListInv
  <2>11. ASSUME NEW t \in Thread, MarkReadable(t) PROVE ListInv'
    <3>1. \A u \in Thread : holder' = u => u = t /\ pc'[u] = "records"
      BY <2>11, CommitFrame DEF CommitStep, MarkReadable
    <3> QED
      BY <3>1 DEF ListInv
  <2>12. ASSUME NEW t \in Thread, PublishIndex(t) PROVE ListInv'
    <3>1. \A u \in Thread : holder' = u => u = t /\ pc'[u] = "used"
      BY <2>12, CommitFrame DEF CommitStep, PublishIndex
    <3> QED
      BY <3>1 DEF ListInv
  <2>13. ASSUME NEW t \in Thread, PublishUsed(t) PROVE ListInv'
    BY <2>13, ListKept DEF PublishUsed
  <2>14. ASSUME NEW t \in Thread, PublishOffset(t) PROVE ListInv'
    BY <2>14, ListKept DEF PublishOffset
  <2>15. ASSUME NEW t \in Thread, PublishCounts(t) PROVE ListInv'
    BY <2>15, ListKept DEF PublishCounts
  <2>16. ASSUME NEW t \in Thread, EndCommit(t) PROVE ListInv'
    <3>1. holder' \notin Thread
      BY <2>16 DEF EndCommit, end_transaction
    <3> QED
      BY <3>1, ListOfNobody
  <2>17. ASSUME NEW t \in Thread, force_rollback(t) PROVE ListInv'
    <3>1. holder' \notin Thread
      BY <2>17 DEF force_rollback, end_transaction
    <3> QED
      BY <3>1, ListOfNobody
  <2>18. ASSUME NEW p \in Process, Open(p) PROVE ListInv'
    BY <2>18, ListKept DEF Open
  <2>19. ASSUME NEW p \in Process, finish(p) PROVE ListInv'
    BY <2>19, ListKept DEF finish, SetWriteState
  <2>20. ASSUME NEW p \in Process, archive(p) PROVE ListInv'
    BY <2>20, ListKept DEF archive, SetWriteState
  <2>21. ASSUME NEW p \in Process, Crash(p) PROVE ListInv'
    BY <2>21, ListOfCrash
  <2>22. CASE Expire
    <3>1. holder' \notin Thread
      BY <2>22 DEF Expire
    <3> QED
      BY <3>1, ListOfNobody
  <2>23. CASE UNCHANGED vars
    BY <2>23, ListKept DEF vars
  <2> QED
    BY <2>1, <2>2, <2>3, <2>4, <2>5, <2>6, <2>7, <2>8, <2>9, <2>10, <2>11, <2>12,
       <2>13, <2>14, <2>15, <2>16, <2>17, <2>18, <2>19, <2>20, <2>21, <2>22, <2>23
    DEF Next, CommitStep
<1> QED
  BY <1>2 DEF ListInv

LEMMA DeletedFinite ==
  ASSUME TypeOK PROVE IsFiniteSet(DeletedRecords) /\ Cardinality(DeletedRecords) \in Nat
<1>1. header.last_index - 1 \in Int
  BY BoundAssumption DEF TypeOK, HeaderOK, Slot
<1>2. IsFiniteSet(1 .. header.last_index - 1)
  BY <1>1, FS_Interval
<1>3. DeletedRecords \subseteq 1 .. header.last_index - 1
  BY DEF DeletedRecords
<1> QED
  BY <1>2, <1>3, FS_Subset, FS_CardinalityType

(* Steps that leave the committed records and their count alone.            *)
LEMMA DeletedKept ==
  ASSUME DeletedInv, faults = {},
         header'.last_index = header.last_index, header'.deleted_records = header.deleted_records,
         \A s \in 1 .. header.last_index - 1 : file'[s].state = file[s].state,
         \A u \in Thread : pc'[u] = "count" <=> pc[u] = "count"
  PROVE  DeletedInv'
<1>1. DeletedRecords' = DeletedRecords
  BY DEF DeletedRecords
<1> QED
  BY <1>1 DEF DeletedInv

LEMMA DeletedOfMark ==
  ASSUME TypeOK, HolderInv, MarkedInv, MeetInv, ChainIntact, ListInv, DeletedInv, faults = {}, faults' = {},
         NEW t \in Thread, MarkDeleted(t)
  PROVE  DeletedInv'
<1> DEFINE i == deletes[ProcessOf[t]][cursor]
<1>1. /\ pc[t] = "deletes" /\ pc'[t] = "count" /\ header' = header
      /\ i \in 1 .. header.last_index - 1 /\ file[i].state = "READABLE"
      /\ \A s \in Slot : file'[s].state = IF s = i THEN "DELETED" ELSE file[s].state
  BY MarkOfList DEF TypeOK, ThreadsOK
<1>2. \A u \in Thread : u # t => pc[u] = "run" /\ pc'[u] = "run"
  BY CommitFrame DEF CommitStep
<1>3. \A s \in 1 .. header.last_index - 1 : s \in Slot
  BY BoundAssumption DEF TypeOK, HeaderOK, Slot
<1>4. DeletedRecords' = DeletedRecords \cup {i} /\ i \notin DeletedRecords
  <2> HIDE DEF i
  <2> QED
    BY <1>1, <1>3 DEF DeletedRecords
<1>5. Cardinality(DeletedRecords') = Cardinality(DeletedRecords) + 1
  BY <1>4, DeletedFinite, FS_AddElement
<1>6. header.deleted_records = Cardinality(DeletedRecords)
  BY <1>1, <1>2 DEF DeletedInv
<1> QED
  BY <1>1, <1>2, <1>5, <1>6 DEF DeletedInv

LEMMA DeletedOfCount ==
  ASSUME TypeOK, HolderInv, DeletedInv, faults = {}, faults' = {},
         NEW t \in Thread, CountDeleted(t)
  PROVE  DeletedInv'
<1>1. /\ pc[t] = "count" /\ pc'[t] = "deletes" /\ file' = file /\ header'.last_index = header.last_index
      /\ header'.deleted_records = header.deleted_records + 1
  BY DEF CountDeleted, TypeOK, HeaderOK, ThreadsOK, Goto
<1>2. \A u \in Thread : u # t => pc[u] = "run" /\ pc'[u] = "run"
  BY CommitFrame DEF CommitStep
<1>3. DeletedRecords' = DeletedRecords
  BY <1>1 DEF DeletedRecords
<1>4. header.deleted_records + 1 = Cardinality(DeletedRecords)
  BY <1>1 DEF DeletedInv
<1> QED
  BY <1>1, <1>2, <1>3, <1>4 DEF DeletedInv

LEMMA DeletedOfPublish ==
  ASSUME TypeOK, HolderInv, OffsetInv, DirtyInv, MeetInv, DeletedInv, faults = {}, faults' = {},
         NEW t \in Thread, PublishIndex(t)
  PROVE  DeletedInv'
<1> DEFINE r == rollback_info[ProcessOf[t]]
<1>1. /\ pc[t] = "records" /\ pc'[t] = "used" /\ holder = t /\ cursor >= r.write_offset
      /\ file' = file /\ header'.last_index = r.last_index
      /\ header'.deleted_records = header.deleted_records /\ cursor \in Nat
  BY CommitFrame DEF CommitStep, PublishIndex, TypeOK, HeaderOK, ThreadsOK, Goto
<1>2. \A u \in Thread : u # t => pc[u] = "run" /\ pc'[u] = "run"
  BY CommitFrame DEF CommitStep
<1>3. /\ header.write_offset = header.last_index /\ r.last_index = r.write_offset
      /\ r.write_offset \in Nat /\ header.write_offset \in Nat \ {0} /\ header.write_offset <= r.write_offset
  BY <1>1, IndexIsOffset DEF Preparing
<1>4. \A s \in header.write_offset .. r.write_offset - 1 : file[s].state = "READABLE"
  <2>1. \A s \in header.write_offset .. r.write_offset - 1 : s < cursor
    BY <1>1, <1>3
  <2>2. \A s \in header.write_offset .. r.write_offset - 1 : s < cursor => file[s].state = "READABLE"
    BY <1>1, <1>3 DEF DirtyInv, Preparing
  <2> QED
    BY <2>1, <2>2
<1>5. DeletedRecords' = DeletedRecords
  <2>1. 1 .. r.last_index - 1 = (1 .. header.last_index - 1) \cup (header.write_offset .. r.write_offset - 1)
    BY <1>3
  <2>2. DeletedRecords' = {s \in 1 .. r.last_index - 1 : file[s].state # "READABLE"}
    BY <1>1 DEF DeletedRecords
  <2> HIDE DEF r
  <2> QED
    BY <1>4, <2>1, <2>2 DEF DeletedRecords
<1>6. header.deleted_records = Cardinality(DeletedRecords)
  BY <1>1, <1>2 DEF DeletedInv
<1> QED
  BY <1>1, <1>2, <1>5, <1>6 DEF DeletedInv

LEMMA StepDeleted ==
  ASSUME TypeOK, HolderInv, OffsetInv, DirtyInv, MarkedInv, ChainIntact, MeetInv, ListInv,
         DeletedInv, [Next]_vars PROVE DeletedInv'
<1>1. FileOK /\ HeaderOK /\ ObjectsOK /\ ThreadsOK
  BY DEF TypeOK
<1>2. ASSUME [Next]_vars, faults' = {} PROVE DeletedInv'
  <2>0. faults = {}
    BY <1>2, FaultsStay
  <2> USE <1>1, <1>2, <2>0, ProcessAssumption
      DEF FileOK, HeaderOK, ThreadsOK, Goto, HolderInv, Slot, shared, commit, history
  <2>1. ASSUME NEW t \in Thread, Close(t) PROVE DeletedInv'
    BY <2>1, DeletedKept DEF Close, Ready, Fault
  <2>2. ASSUME NEW t \in Thread, Start(t) PROVE DeletedInv'
    BY <2>2, DeletedKept DEF Start, Ready, setup_transaction
  <2>3. ASSUME NEW t \in Thread, StartAgain(t) PROVE DeletedInv'
    BY <2>3, DeletedKept DEF StartAgain, Ready, setup_transaction
  <2>4. ASSUME NEW t \in Thread, StartTimedOut(t) PROVE DeletedInv'
    BY <2>4, TimedOutElsewhere, DeletedKept
  <2>5. ASSUME NEW t \in Thread, Write(t) PROVE DeletedInv'
    <3>1. /\ holder = t /\ pc[t] = "run" /\ UNCHANGED <<header, pc>>
          /\ file' = [file EXCEPT ![rollback_info[ProcessOf[t]].write_offset] =
                        [index |-> rollback_info[ProcessOf[t]].last_index, state |-> "DIRTY"]]
      BY <2>5 DEF Write, Ready, in_transaction
    <3>2. \A s \in 1 .. header.last_index - 1 : s \in Slot /\ s # rollback_info[ProcessOf[t]].write_offset
      BY <3>1, IndexIsOffset, BoundAssumption DEF Preparing
    <3>3. \A s \in 1 .. header.last_index - 1 : file'[s].state = file[s].state
      BY <3>1, <3>2 DEF FileOK
    <3> QED
      BY <3>1, <3>3, DeletedKept
  <2>6. ASSUME NEW t \in Thread, NEW i \in Slot, delete_record(t, i) PROVE DeletedInv'
    BY <2>6, DeletedKept DEF delete_record, Ready, in_transaction, Fault, Readable
  <2>7. ASSUME NEW t \in Thread, Commit(t) PROVE DeletedInv'
    BY <2>7, DeletedKept DEF Commit, Ready, in_transaction
  <2>8. ASSUME NEW t \in Thread, MarkDeleted(t) PROVE DeletedInv'
    BY <2>8, DeletedOfMark
  <2>9. ASSUME NEW t \in Thread, CountDeleted(t) PROVE DeletedInv'
    BY <2>9, DeletedOfCount
  <2>10. ASSUME NEW t \in Thread, ClearDeletes(t) PROVE DeletedInv'
    BY <2>10, DeletedKept DEF ClearDeletes
  <2>11. ASSUME NEW t \in Thread, MarkReadable(t) PROVE DeletedInv'
    <3>1. /\ holder = t /\ pc[t] = "records" /\ UNCHANGED <<header, pc>>
          /\ file' = [file EXCEPT ![cursor].state = "READABLE"]
      BY <2>11 DEF MarkReadable
    <3>2. header.write_offset = header.last_index /\ header.write_offset <= cursor
      BY <3>1, IndexIsOffset DEF Preparing, MarkedInv, Marked
    <3>3. \A s \in 1 .. header.last_index - 1 : s \in Slot /\ s # cursor
      BY <3>2, BoundAssumption
    <3>4. \A s \in 1 .. header.last_index - 1 : file'[s].state = file[s].state
      BY <3>1, <3>3 DEF FileOK
    <3> QED
      BY <3>1, <3>4, DeletedKept
  <2>12. ASSUME NEW t \in Thread, PublishIndex(t) PROVE DeletedInv'
    BY <2>12, DeletedOfPublish
  <2>13. ASSUME NEW t \in Thread, PublishUsed(t) PROVE DeletedInv'
    BY <2>13, DeletedKept DEF PublishUsed
  <2>14. ASSUME NEW t \in Thread, PublishOffset(t) PROVE DeletedInv'
    BY <2>14, DeletedKept DEF PublishOffset
  <2>15. ASSUME NEW t \in Thread, PublishCounts(t) PROVE DeletedInv'
    BY <2>15, DeletedKept DEF PublishCounts
  <2>16. ASSUME NEW t \in Thread, EndCommit(t) PROVE DeletedInv'
    BY <2>16, DeletedKept DEF EndCommit, end_transaction
  <2>17. ASSUME NEW t \in Thread, force_rollback(t) PROVE DeletedInv'
    BY <2>17, DeletedKept DEF force_rollback, Ready, in_transaction, end_transaction
  <2>18. ASSUME NEW p \in Process, Open(p) PROVE DeletedInv'
    BY <2>18, DeletedKept DEF Open
  <2>19. ASSUME NEW p \in Process, finish(p) PROVE DeletedInv'
    BY <2>19, DeletedKept DEF finish, SetWriteState
  <2>20. ASSUME NEW p \in Process, archive(p) PROVE DeletedInv'
    BY <2>20, DeletedKept DEF archive, SetWriteState
  <2>21. ASSUME NEW p \in Process, Crash(p) PROVE DeletedInv'
    BY <2>21, CrashBetween, DeletedKept
  <2>22. CASE Expire
    BY <2>22, DeletedKept DEF Expire, Fault
  <2>23. CASE UNCHANGED vars
    BY <2>23, DeletedKept DEF vars
  <2> QED
    BY <2>1, <2>2, <2>3, <2>4, <2>5, <2>6, <2>7, <2>8, <2>9, <2>10, <2>11, <2>12,
       <2>13, <2>14, <2>15, <2>16, <2>17, <2>18, <2>19, <2>20, <2>21, <2>22, <2>23
    DEF Next, CommitStep
<1> QED
  BY <1>2 DEF DeletedInv

(* check_block_sanity: between commits, and as long as none of the faults    *)
(* the model names has happened, the header counts exactly the records, the  *)
(* deleted records and the bytes that are in the block.                      *)
THEOREM Sane == Spec => []SanityHolds
<1> DEFINE I == /\ TypeOK /\ HolderInv /\ OffsetInv /\ DirtyInv /\ ChainIntact /\ MarkedInv
                /\ ClearedInv /\ DeletesOfOwner /\ MeetInv /\ TotalInv /\ UsedInv /\ ListInv /\ DeletedInv
<1>1. Init => I
  <2> SUFFICES ASSUME Init PROVE I
    OBVIOUS
  <2>1. TypeOK /\ HolderInv /\ OffsetInv
    BY InitBase
  <2>2. DirtyInv /\ ChainIntact /\ MarkedInv /\ ClearedInv /\ DeletesOfOwner
    BY ProcessAssumption DEF Init, DirtyInv, ChainIntact, MarkedInv, Marked, ClearedInv, Cleared,
                             DeletesOfOwner
  <2>3. MeetInv /\ TotalInv
    BY DEF Init, MeetInv, TotalInv, Publishing, Shown
  <2>4. UsedInv
    <3>1. header.last_index - 1 = 0 /\ header.used_bytes = 0 /\ \A u \in Thread : pc[u] = "run" /\ holder # u
      BY ProcessAssumption DEF Init
    <3> QED
      BY <3>1, SizeOfNone DEF UsedInv
  <2>5. ListInv
    BY ProcessAssumption DEF Init, ListInv
  <2>6. DeletedInv
    <3>1. DeletedRecords = {}
      BY DEF Init, DeletedRecords
    <3> QED
      BY <3>1, FS_EmptySet DEF Init, DeletedInv
  <2> QED
    BY <2>1, <2>2, <2>3, <2>4, <2>5, <2>6
<1>2. I /\ [Next]_vars => I'
  <2> SUFFICES ASSUME I, [Next]_vars PROVE I'
    OBVIOUS
  <2>1. TypeOK' /\ HolderInv' /\ OffsetInv'
    BY StepType, StepHolder, StepOffset
  <2>2. DirtyInv' /\ ChainIntact' /\ MarkedInv' /\ ClearedInv' /\ DeletesOfOwner'
    BY <2>1, StepDirty, StepChain, StepMarked, StepCleared, StepOwner
  <2>3. MeetInv' /\ TotalInv' /\ UsedInv'
    BY <2>1, StepMeet, StepTotal, StepUsed
  <2>4. ListInv' /\ DeletedInv'
    BY <2>1, StepList, StepDeleted
  <2> QED
    BY <2>1, <2>2, <2>3, <2>4
<1>3. I => SanityHolds
  <2> SUFFICES ASSUME I, faults = {}, \A t \in Thread : pc[t] = "run"
               PROVE  /\ header.total_records = header.last_index - 1
                      /\ header.deleted_records = Cardinality(DeletedRecords)
                      /\ header.used_bytes = Size(header.last_index - 1)
    BY DEF SanityHolds, DeletedRecords, Size
  <2>1. header.total_records = header.last_index - 1
    BY DEF TotalInv, Shown
  <2>2. header.used_bytes = Size(header.last_index - 1)
    BY DEF UsedInv
  <2>3. header.deleted_records = Cardinality(DeletedRecords)
    BY DEF DeletedInv
  <2> QED
    BY <2>1, <2>2, <2>3
<1> QED
  BY <1>1, <1>2, <1>3, PTL DEF Spec
============================================================================
