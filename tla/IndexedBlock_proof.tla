------------------------ MODULE IndexedBlock_proof ------------------------
(* What holds of core/includes/base_block_index.h and base_indexed_block.h   *)
(* for any number of processes, records, commits and deaths: the index stays *)
(* in its file, every committed record is found through it, no commit throws *)
(* half-way, the counters agree with the entries, and both files together    *)
(* are the log of RecordLog.                                                 *)
EXTENDS IndexedBlock, SequenceTheorems, FiniteSetTheorems, TLAPS

(* The numbers are natural, whatever they count.                             *)
Info == [in_transaction : BOOLEAN, last_index : Nat, start_offset : Nat,
         write_offset : Nat, used_bytes : Nat]
HeadersOK ==
  /\ header \in [last_index : Nat, write_offset : Nat, used_bytes : Nat, commit_sequence : Nat,
                 total_records : Nat, deleted_records : Nat,
                 write_state : {"WRITABLE", "UPDATEABLE", "CLOSED"}]
  /\ index_header \in [last_index : Nat, write_offset : Nat, used_size : Nat,
                       total_size : IndexSizes]
  /\ added \in Nat
InfosOK == /\ rollback_info \in [Process -> Info]
           /\ index_info \in [Process -> Info]
           /\ pc \in [Process -> PC]
NumbersOK == HeadersOK /\ InfosOK

(* A commit runs in the process that holds the lock.                         *)
HolderInv == \A p \in Process : pc[p] # "run" => holder = p

(* What the entries up to the offset n take of the index file.               *)
Taken(n) == EntrySize * (n - 1)
FitsFile(n) == n + IndexHeaderSize <= index_header.total_size

(* The header's used size covers the entries before its offset, and with the *)
(* transaction's own bytes, until they are added to it, those before the     *)
(* transaction's; neither exceeds the file.                                  *)
HeaderFits == /\ FitsFile(index_header.used_size)
              /\ Taken(index_header.write_offset) <= index_header.used_size
Uncounted(p) == pc[p] \in {"run", "deletes", "count", "entries", "index_used"}
InfoFits(p) ==
  /\ FitsFile(Taken(index_info[p].write_offset))
  /\ Uncounted(p) =>
       /\ FitsFile(index_header.used_size + index_info[p].used_bytes)
       /\ Taken(index_info[p].write_offset) <= index_header.used_size + index_info[p].used_bytes
  /\ pc[p] = "index_offset" => Taken(index_info[p].write_offset) <= index_header.used_size
SizeInv == index_header.total_size >= IndexHeaderSize =>
             HeaderFits /\ \A p \in Process : holder = p => InfoFits(p)

IInv == NumbersOK /\ HolderInv /\ SizeInv

LEMMA InitialNumbers == Init => NumbersOK
  BY SizeAssumption DEF Init, NumbersOK, HeadersOK, InfosOK, NoRollback, Info, PC

LEMMA HeadersKept == HeadersOK /\ InfosOK /\ [Next]_vars => HeadersOK'
<1> SUFFICES ASSUME HeadersOK, InfosOK, [Next]_vars PROVE HeadersOK'
  OBVIOUS
<1> USE DEF HeadersOK, block, index, commit
<1> QED
  <2>1. ASSUME NEW p \in Process, Open(p) PROVE HeadersOK'
    BY <2>1 DEF Open
  <2>2. ASSUME NEW p \in Process, Close(p) PROVE HeadersOK'
    BY <2>2 DEF Close, Forget
  <2>3. ASSUME NEW p \in Process, finish(p) PROVE HeadersOK'
    BY <2>3 DEF finish, SetWriteState
  <2>4. ASSUME NEW p \in Process, archive(p) PROVE HeadersOK'
    BY <2>4 DEF archive, SetWriteState
  <2>5. ASSUME NEW p \in Process, Start(p) PROVE HeadersOK'
    BY <2>5 DEF Start, setup_transaction, setup_index
  <2>6. ASSUME NEW p \in Process, Write(p) PROVE HeadersOK'
    BY <2>6 DEF Write, WriteRecord, Accepts, index_has_space
  <2>7. ASSUME NEW p \in Process, WriteUnindexed(p) PROVE HeadersOK'
    BY <2>7 DEF WriteUnindexed, WriteRecord
  <2>8. ASSUME NEW p \in Process, Commit(p) PROVE HeadersOK'
    BY <2>8 DEF Commit
  <2>9. ASSUME NEW p \in Process, MarkDeleted(p) PROVE HeadersOK'
    BY <2>9 DEF MarkDeleted
  <2>10. ASSUME NEW p \in Process, CountDeleted(p) PROVE HeadersOK'
    BY <2>10 DEF CountDeleted
  <2>11. ASSUME NEW p \in Process, CommitIndex(p) PROVE HeadersOK'
    BY <2>11 DEF CommitIndex
  <2>12. ASSUME NEW p \in Process, ShowEntry(p) PROVE HeadersOK'
    BY <2>12 DEF ShowEntry
  <2>13. ASSUME NEW p \in Process, IndexLast(p) PROVE HeadersOK'
    BY <2>13 DEF IndexLast, InfosOK, Info
  <2>14. ASSUME NEW p \in Process, IndexUsed(p) PROVE HeadersOK'
    BY <2>14 DEF IndexUsed, InfosOK, Info
  <2>15. ASSUME NEW p \in Process, IndexOffset(p) PROVE HeadersOK'
    BY <2>15 DEF IndexOffset, InfosOK, Info
  <2>16. ASSUME NEW p \in Process, IndexDelete(p) PROVE HeadersOK'
    BY <2>16 DEF IndexDelete
  <2>17. ASSUME NEW p \in Process, EndIndex(p) PROVE HeadersOK'
    BY <2>17 DEF EndIndex
  <2>18. ASSUME NEW p \in Process, MarkReadable(p) PROVE HeadersOK'
    BY <2>18 DEF MarkReadable
  <2>19. ASSUME NEW p \in Process, PublishLast(p) PROVE HeadersOK'
    BY <2>19 DEF PublishLast, InfosOK, Info
  <2>20. ASSUME NEW p \in Process, PublishUsed(p) PROVE HeadersOK'
    <3> DEFINE n == header.used_bytes + rollback_info[p].used_bytes
    <3>1. n \in Nat
      BY DEF InfosOK, Info
    <3>2. header' = [header EXCEPT !.used_bytes = n]
      BY <2>20 DEF PublishUsed
    <3> HIDE DEF n
    <3>3. index_header' = index_header /\ added' = added
      BY <2>20 DEF PublishUsed
    <3> QED
      BY <3>1, <3>2, <3>3
  <2>21. ASSUME NEW p \in Process, PublishOffset(p) PROVE HeadersOK'
    BY <2>21 DEF PublishOffset, InfosOK, Info
  <2>22. ASSUME NEW p \in Process, PublishCounts(p) PROVE HeadersOK'
    <3> DEFINE n == header.commit_sequence + 1  m == header.total_records + added
    <3>1. n \in Nat /\ m \in Nat
      OBVIOUS
    <3>2. header' = [header EXCEPT !.commit_sequence = n, !.total_records = m]
      BY <2>22 DEF PublishCounts
    <3> HIDE DEF n, m
    <3>3. index_header' = index_header /\ added' = added
      BY <2>22 DEF PublishCounts
    <3> QED
      BY <3>1, <3>2, <3>3
  <2>23. ASSUME NEW p \in Process, EndCommit(p) PROVE HeadersOK'
    BY <2>23 DEF EndCommit, end_transaction
  <2>24. ASSUME NEW p \in Process, rollback(p) PROVE HeadersOK'
    BY <2>24 DEF rollback, end_transaction
  <2>25. ASSUME NEW p \in Process, Crash(p) PROVE HeadersOK'
    BY <2>25 DEF Crash, Forget
  <2>26. ASSUME NEW p \in Process, NEW i \in Slot, delete_record(p, i) PROVE HeadersOK'
    BY <2>26 DEF delete_record
  <2>27. CASE Expire
    BY <2>27 DEF Expire
  <2>28. CASE UNCHANGED vars
    BY <2>28 DEF vars
  <2> QED
    BY <2>1, <2>2, <2>3, <2>4, <2>5, <2>6, <2>7, <2>8, <2>9, <2>10, <2>11, <2>12, <2>13,
       <2>14, <2>15, <2>16, <2>17, <2>18, <2>19, <2>20, <2>21, <2>22, <2>23, <2>24, <2>25, <2>26,
       <2>27, <2>28
    DEF Next, CommitStep

LEMMA InfosKept == HeadersOK /\ InfosOK /\ [Next]_vars => InfosOK'
<1> SUFFICES ASSUME HeadersOK, InfosOK, [Next]_vars PROVE InfosOK'
  OBVIOUS
<1> USE DEF InfosOK, local, commit, Goto, PC
<1> QED
  <2>1. ASSUME NEW p \in Process, Open(p) PROVE InfosOK'
    BY <2>1 DEF Open
  <2>2. ASSUME NEW p \in Process, Close(p) PROVE InfosOK'
    BY <2>2 DEF Close, Forget, Info, NoRollback
  <2>3. ASSUME NEW p \in Process, finish(p) PROVE InfosOK'
    BY <2>3 DEF finish, SetWriteState
  <2>4. ASSUME NEW p \in Process, archive(p) PROVE InfosOK'
    BY <2>4 DEF archive, SetWriteState
  <2>5. ASSUME NEW p \in Process, Start(p) PROVE InfosOK'
    BY <2>5 DEF Start, setup_transaction, setup_index, HeadersOK, Info, NoRollback
  <2>6. ASSUME NEW p \in Process, Write(p) PROVE InfosOK'
    BY <2>6, SizeAssumption DEF Write, WriteRecord, Info
  <2>7. ASSUME NEW p \in Process, WriteUnindexed(p) PROVE InfosOK'
    BY <2>7, SizeAssumption DEF WriteUnindexed, WriteRecord, Info
  <2>8. ASSUME NEW p \in Process, Commit(p) PROVE InfosOK'
    BY <2>8 DEF Commit
  <2>9. ASSUME NEW p \in Process, MarkDeleted(p) PROVE InfosOK'
    BY <2>9 DEF MarkDeleted
  <2>10. ASSUME NEW p \in Process, CountDeleted(p) PROVE InfosOK'
    BY <2>10 DEF CountDeleted
  <2>11. ASSUME NEW p \in Process, CommitIndex(p) PROVE InfosOK'
    BY <2>11 DEF CommitIndex
  <2>12. ASSUME NEW p \in Process, ShowEntry(p) PROVE InfosOK'
    BY <2>12 DEF ShowEntry
  <2>13. ASSUME NEW p \in Process, IndexLast(p) PROVE InfosOK'
    BY <2>13 DEF IndexLast
  <2>14. ASSUME NEW p \in Process, IndexUsed(p) PROVE InfosOK'
    BY <2>14 DEF IndexUsed
  <2>15. ASSUME NEW p \in Process, IndexOffset(p) PROVE InfosOK'
    BY <2>15 DEF IndexOffset
  <2>16. ASSUME NEW p \in Process, IndexDelete(p) PROVE InfosOK'
    BY <2>16 DEF IndexDelete
  <2>17. ASSUME NEW p \in Process, EndIndex(p) PROVE InfosOK'
    BY <2>17 DEF EndIndex, Info, NoRollback
  <2>18. ASSUME NEW p \in Process, MarkReadable(p) PROVE InfosOK'
    BY <2>18 DEF MarkReadable
  <2>19. ASSUME NEW p \in Process, PublishLast(p) PROVE InfosOK'
    BY <2>19 DEF PublishLast
  <2>20. ASSUME NEW p \in Process, PublishUsed(p) PROVE InfosOK'
    BY <2>20 DEF PublishUsed
  <2>21. ASSUME NEW p \in Process, PublishOffset(p) PROVE InfosOK'
    BY <2>21 DEF PublishOffset
  <2>22. ASSUME NEW p \in Process, PublishCounts(p) PROVE InfosOK'
    BY <2>22 DEF PublishCounts
  <2>23. ASSUME NEW p \in Process, EndCommit(p) PROVE InfosOK'
    BY <2>23 DEF EndCommit, end_transaction, Info, NoRollback
  <2>24. ASSUME NEW p \in Process, rollback(p) PROVE InfosOK'
    BY <2>24 DEF rollback, end_transaction, Info, NoRollback
  <2>25. ASSUME NEW p \in Process, Crash(p) PROVE InfosOK'
    BY <2>25 DEF Crash, Forget, Info, NoRollback
  <2>26. ASSUME NEW p \in Process, NEW i \in Slot, delete_record(p, i) PROVE InfosOK'
    BY <2>26 DEF delete_record
  <2>27. CASE Expire
    BY <2>27 DEF Expire
  <2>28. CASE UNCHANGED vars
    BY <2>28 DEF vars
  <2> QED
    BY <2>1, <2>2, <2>3, <2>4, <2>5, <2>6, <2>7, <2>8, <2>9, <2>10, <2>11, <2>12, <2>13,
       <2>14, <2>15, <2>16, <2>17, <2>18, <2>19, <2>20, <2>21, <2>22, <2>23, <2>24, <2>25, <2>26,
       <2>27, <2>28
    DEF Next, CommitStep

(* Nobody else takes the lock, or loses it, while a commit runs.             *)
LEMMA HolderKept == InfosOK /\ HolderInv /\ [Next]_vars => HolderInv'
<1> SUFFICES ASSUME InfosOK, HolderInv, [Next]_vars PROVE HolderInv'
  OBVIOUS
<1> USE ProcessAssumption DEF InfosOK, HolderInv, lock, commit, Goto, Ready
<1> QED
  <2>1. ASSUME NEW p \in Process, Open(p) PROVE HolderInv'
    BY <2>1 DEF Open
  <2>2. ASSUME NEW p \in Process, Close(p) PROVE HolderInv'
    BY <2>2 DEF Close, Forget
  <2>3. ASSUME NEW p \in Process, finish(p) PROVE HolderInv'
    BY <2>3 DEF finish, SetWriteState
  <2>4. ASSUME NEW p \in Process, archive(p) PROVE HolderInv'
    BY <2>4 DEF archive, SetWriteState
  <2>5. ASSUME NEW p \in Process, Start(p) PROVE HolderInv'
    BY <2>5 DEF Start, setup_transaction, setup_index
  <2>6. ASSUME NEW p \in Process, Write(p) PROVE HolderInv'
    BY <2>6 DEF Write, WriteRecord, Accepts, index_has_space
  <2>7. ASSUME NEW p \in Process, WriteUnindexed(p) PROVE HolderInv'
    BY <2>7 DEF WriteUnindexed, WriteRecord
  <2>8. ASSUME NEW p \in Process, Commit(p) PROVE HolderInv'
    BY <2>8 DEF Commit, in_transaction
  <2>9. ASSUME NEW p \in Process, MarkDeleted(p) PROVE HolderInv'
    BY <2>9 DEF MarkDeleted
  <2>10. ASSUME NEW p \in Process, CountDeleted(p) PROVE HolderInv'
    BY <2>10 DEF CountDeleted
  <2>11. ASSUME NEW p \in Process, CommitIndex(p) PROVE HolderInv'
    BY <2>11 DEF CommitIndex
  <2>12. ASSUME NEW p \in Process, ShowEntry(p) PROVE HolderInv'
    BY <2>12 DEF ShowEntry
  <2>13. ASSUME NEW p \in Process, IndexLast(p) PROVE HolderInv'
    BY <2>13 DEF IndexLast
  <2>14. ASSUME NEW p \in Process, IndexUsed(p) PROVE HolderInv'
    BY <2>14 DEF IndexUsed
  <2>15. ASSUME NEW p \in Process, IndexOffset(p) PROVE HolderInv'
    BY <2>15 DEF IndexOffset
  <2>16. ASSUME NEW p \in Process, IndexDelete(p) PROVE HolderInv'
    BY <2>16 DEF IndexDelete
  <2>17. ASSUME NEW p \in Process, EndIndex(p) PROVE HolderInv'
    BY <2>17 DEF EndIndex
  <2>18. ASSUME NEW p \in Process, MarkReadable(p) PROVE HolderInv'
    BY <2>18 DEF MarkReadable
  <2>19. ASSUME NEW p \in Process, PublishLast(p) PROVE HolderInv'
    BY <2>19 DEF PublishLast
  <2>20. ASSUME NEW p \in Process, PublishUsed(p) PROVE HolderInv'
    BY <2>20 DEF PublishUsed
  <2>21. ASSUME NEW p \in Process, PublishOffset(p) PROVE HolderInv'
    BY <2>21 DEF PublishOffset
  <2>22. ASSUME NEW p \in Process, PublishCounts(p) PROVE HolderInv'
    BY <2>22 DEF PublishCounts
  <2>23. ASSUME NEW p \in Process, EndCommit(p) PROVE HolderInv'
    BY <2>23 DEF EndCommit, end_transaction
  <2>24. ASSUME NEW p \in Process, rollback(p) PROVE HolderInv'
    BY <2>24 DEF rollback, in_transaction, end_transaction
  <2>25. ASSUME NEW p \in Process, Crash(p) PROVE HolderInv'
    BY <2>25 DEF Crash, Forget
  <2>26. ASSUME NEW p \in Process, NEW i \in Slot, delete_record(p, i) PROVE HolderInv'
    BY <2>26 DEF delete_record
  <2>27. CASE Expire
    BY <2>27 DEF Expire
  <2>28. CASE UNCHANGED vars
    BY <2>28 DEF vars
  <2> QED
    BY <2>1, <2>2, <2>3, <2>4, <2>5, <2>6, <2>7, <2>8, <2>9, <2>10, <2>11, <2>12, <2>13,
       <2>14, <2>15, <2>16, <2>17, <2>18, <2>19, <2>20, <2>21, <2>22, <2>23, <2>24, <2>25, <2>26,
       <2>27, <2>28
    DEF Next, CommitStep

LEMMA InitialSize == Init => SizeInv
<1> SUFFICES ASSUME Init, index_header.total_size >= IndexHeaderSize PROVE SizeInv
  BY DEF SizeInv
<1>1. index_header.used_size = 0 /\ index_header.write_offset = 1
      /\ index_header.total_size \in Nat
  BY SizeAssumption DEF Init
<1>2. Taken(1) = 0
  BY SizeAssumption DEF Taken
<1> QED
  BY <1>1, <1>2, SizeAssumption, ProcessAssumption DEF Init, SizeInv, HeaderFits, FitsFile

(* A step that leaves the index and its transactions alone, gives nobody the *)
(* lock, and moves a commit only over what has no claim on the sizes.        *)
LEMMA SizeUntouched ==
  ASSUME SizeInv,
         index_header'.total_size = index_header.total_size,
         index_header'.used_size = index_header.used_size,
         index_header'.write_offset = index_header.write_offset,
         \A p \in Process : holder' = p =>
           /\ holder = p /\ index_info'[p] = index_info[p]
           /\ Uncounted(p)' => Uncounted(p)
           /\ pc'[p] = "index_offset" => pc[p] = "index_offset"
  PROVE  SizeInv'
  BY DEF SizeInv, HeaderFits, InfoFits, FitsFile, Taken

(* The entry fits when the unsigned difference is at least its size: the     *)
(* difference is a number of the file's size, so it does not wrap.           *)
LEMMA RoomForEntry ==
  ASSUME NEW total \in IndexSizes, NEW used \in Nat, used + IndexHeaderSize <= total,
         (total - (used + IndexHeaderSize)) % Modulus >= EntrySize
  PROVE  used + EntrySize + IndexHeaderSize <= total
<1>1. total \in Nat /\ total < Modulus /\ Modulus \in Nat /\ IndexHeaderSize \in Nat
      /\ EntrySize \in Nat
  BY SizeAssumption
<1> DEFINE rest == total - (used + IndexHeaderSize)
<1>2. rest \in 0 .. Modulus - 1
  BY <1>1
<1> HIDE DEF rest
<1>3. rest % Modulus = rest
  BY <1>1, <1>2
<1>4. rest >= EntrySize
  BY <1>3 DEF rest
<1> QED
  BY <1>1, <1>4 DEF rest

LEMMA TakenNext == ASSUME NEW n \in Nat PROVE Taken(n + 1) = Taken(n) + EntrySize
  BY SizeAssumption DEF Taken

LEMMA TakenInt == ASSUME NEW n \in Nat PROVE Taken(n) \in Int
  BY SizeAssumption DEF Taken

LEMMA SizeKept == IInv /\ [Next]_vars => SizeInv'
<1> SUFFICES ASSUME IInv, [Next]_vars PROVE SizeInv'
  OBVIOUS
<1> USE ProcessAssumption DEF IInv, Goto, index, local, lock, commit
<1>1. /\ index_header.total_size \in Nat /\ IndexHeaderSize \in Nat /\ EntrySize \in Nat
      /\ index_header.used_size \in Nat /\ index_header.write_offset \in Nat
      /\ \A p \in Process : /\ index_info[p].used_bytes \in Nat
                            /\ index_info[p].write_offset \in Nat
  BY SizeAssumption DEF NumbersOK, HeadersOK, InfosOK, Info
<1>2. ASSUME index_header'.total_size = index_header.total_size,
             index_header'.used_size = index_header.used_size,
             index_header'.write_offset = index_header.write_offset,
             \A p \in Process : holder' = p =>
               /\ holder = p /\ index_info'[p] = index_info[p]
               /\ Uncounted(p)' => Uncounted(p)
               /\ pc'[p] = "index_offset" => pc[p] = "index_offset"
      PROVE  SizeInv'
  BY <1>2, SizeUntouched
<1> QED
  <2>1. ASSUME NEW p \in Process, Open(p) PROVE SizeInv'
    BY <2>1, <1>2 DEF Open, NumbersOK, InfosOK, Uncounted, Ready
  <2>2. ASSUME NEW p \in Process, Close(p) PROVE SizeInv'
    BY <2>2, <1>2 DEF Close, Forget, NumbersOK, HeadersOK, InfosOK, Goto, Uncounted
  <2>3. ASSUME NEW p \in Process, finish(p) PROVE SizeInv'
    BY <2>3, <1>2 DEF finish, SetWriteState, NumbersOK, InfosOK, Uncounted, Ready
  <2>4. ASSUME NEW p \in Process, archive(p) PROVE SizeInv'
    BY <2>4, <1>2 DEF archive, SetWriteState, NumbersOK, InfosOK, Uncounted, Ready
  <2>5. ASSUME NEW p \in Process, Start(p) PROVE SizeInv'
    <3>1. index_header' = index_header /\ holder' \in {holder, p} /\ pc' = pc
          /\ \A q \in Process : q # p => index_info'[q] = index_info[q]
      BY <2>5 DEF Start, setup_index, lock, commit, index, NumbersOK, InfosOK
    <3>2. pc[p] = "run" /\ index_info'[p].used_bytes = 0
          /\ index_info'[p].write_offset = index_header.write_offset
      BY <2>5 DEF Start, Ready, setup_index, NumbersOK, InfosOK
    <3>3. Taken(index_header.write_offset) \in Int
      BY <1>1, TakenInt
    <3> QED
      BY <3>1, <3>2, <3>3, <1>1 DEF SizeInv, HeaderFits, InfoFits, FitsFile, Uncounted
  <2>6. ASSUME NEW p \in Process, Write(p) PROVE SizeInv'
    <3> SUFFICES ASSUME index_header.total_size >= IndexHeaderSize
                 PROVE  HeaderFits' /\ \A q \in Process : holder' = q => InfoFits(q)'
      BY <2>6 DEF Write, SizeInv
    <3> DEFINE used == index_header.used_size + index_info[p].used_bytes
               n == index_info[p].write_offset
    <3>1. index_header' = index_header /\ holder' = holder /\ holder = p
          /\ pc' = pc /\ pc[p] = "run"
      BY <2>6 DEF Write, WriteRecord, Ready, in_transaction, lock, commit
    <3>2. index_info'[p].used_bytes = index_info[p].used_bytes + EntrySize
          /\ index_info'[p].write_offset = n + 1
      BY <2>6 DEF Write, NumbersOK, InfosOK
    <3>3. HeaderFits /\ Taken(n) <= used /\ used + IndexHeaderSize <= index_header.total_size
      BY <3>1 DEF SizeInv, InfoFits, FitsFile, Uncounted
    <3>4. used + EntrySize + IndexHeaderSize <= index_header.total_size
      <4>1. (index_header.total_size - (used + IndexHeaderSize)) % Modulus >= EntrySize
        BY <2>6 DEF Write, Accepts, index_has_space
      <4>2. used \in Nat /\ index_header.total_size \in IndexSizes
        BY <1>1 DEF NumbersOK, HeadersOK
      <4> QED
        BY <3>3, <4>1, <4>2, RoomForEntry
    <3>5. Taken(n + 1) = Taken(n) + EntrySize /\ Taken(n) \in Int
      BY <1>1, TakenNext, TakenInt
    <3> QED
      BY <3>1, <3>2, <3>3, <3>4, <3>5, <1>1 DEF HeaderFits, InfoFits, FitsFile, Uncounted
  <2>7. ASSUME NEW p \in Process, WriteUnindexed(p) PROVE SizeInv'
    BY <2>7, <1>2 DEF WriteUnindexed, WriteRecord, NumbersOK, InfosOK, Uncounted, Ready
  <2>8. ASSUME NEW p \in Process, Commit(p) PROVE SizeInv'
    BY <2>8, <1>2 DEF Commit, NumbersOK, InfosOK, Uncounted, Ready
  <2>9. ASSUME NEW p \in Process, MarkDeleted(p) PROVE SizeInv'
    BY <2>9, <1>2 DEF MarkDeleted, NumbersOK, InfosOK, Uncounted, Ready
  <2>10. ASSUME NEW p \in Process, CountDeleted(p) PROVE SizeInv'
    BY <2>10, <1>2 DEF CountDeleted, NumbersOK, InfosOK, Uncounted, Ready
  <2>11. ASSUME NEW p \in Process, CommitIndex(p) PROVE SizeInv'
    BY <2>11, <1>2 DEF CommitIndex, NumbersOK, InfosOK, Uncounted, Ready
  <2>12. ASSUME NEW p \in Process, ShowEntry(p) PROVE SizeInv'
    BY <2>12, <1>2 DEF ShowEntry, NumbersOK, InfosOK, Uncounted, Ready
  <2>13. ASSUME NEW p \in Process, IndexLast(p) PROVE SizeInv'
    BY <2>13, <1>2 DEF IndexLast, NumbersOK, HeadersOK, InfosOK, Goto, Uncounted
  <2>14. ASSUME NEW p \in Process, IndexUsed(p) PROVE SizeInv'
    <3>1. /\ index_header'.total_size = index_header.total_size
          /\ index_header'.used_size = index_header.used_size + index_info[p].used_bytes
          /\ index_header'.write_offset = index_header.write_offset
          /\ holder' = holder /\ holder = p /\ pc[p] = "index_used"
          /\ pc'[p] = "index_offset" /\ index_info' = index_info
      BY <2>14 DEF IndexUsed, local, lock, Goto, NumbersOK, HeadersOK, InfosOK, HolderInv
    <3>2. Taken(index_header.write_offset) \in Int
      BY <1>1, TakenInt
    <3> QED
      BY <3>1, <3>2, <1>1 DEF SizeInv, HeaderFits, InfoFits, FitsFile, Uncounted
  <2>15. ASSUME NEW p \in Process, IndexOffset(p) PROVE SizeInv'
    <3>1. /\ index_header'.total_size = index_header.total_size
          /\ index_header'.used_size = index_header.used_size
          /\ index_header'.write_offset = index_info[p].write_offset
          /\ holder' = holder /\ holder = p /\ pc[p] = "index_offset"
          /\ pc'[p] = "index_deletes" /\ index_info' = index_info
      BY <2>15 DEF IndexOffset, local, lock, Goto, NumbersOK, HeadersOK, InfosOK, HolderInv
    <3> QED
      BY <3>1, <1>1 DEF SizeInv, HeaderFits, InfoFits, FitsFile, Uncounted
  <2>16. ASSUME NEW p \in Process, IndexDelete(p) PROVE SizeInv'
    BY <2>16, <1>2 DEF IndexDelete, NumbersOK, InfosOK, Uncounted, Ready
  <2>17. ASSUME NEW p \in Process, EndIndex(p) PROVE SizeInv'
    <3>1. /\ index_header' = index_header /\ pc'[p] = "records" /\ holder' = holder /\ holder = p
          /\ index_info'[p] = NoRollback
      BY <2>17 DEF EndIndex, index, lock, Goto, NumbersOK, InfosOK, HolderInv
    <3>2. Taken(NoRollback.write_offset) + IndexHeaderSize <= IndexHeaderSize
      BY SizeAssumption DEF NoRollback, Taken
    <3>3. Taken(NoRollback.write_offset) \in Int
      BY SizeAssumption DEF NoRollback, Taken
    <3> QED
      BY <3>1, <3>2, <3>3, <1>1 DEF SizeInv, HeaderFits, InfoFits, FitsFile, Uncounted
  <2>18. ASSUME NEW p \in Process, MarkReadable(p) PROVE SizeInv'
    BY <2>18, <1>2 DEF MarkReadable, NumbersOK, InfosOK, Uncounted, Ready
  <2>19. ASSUME NEW p \in Process, PublishLast(p) PROVE SizeInv'
    BY <2>19, <1>2 DEF PublishLast, NumbersOK, InfosOK, Uncounted, Ready
  <2>20. ASSUME NEW p \in Process, PublishUsed(p) PROVE SizeInv'
    BY <2>20, <1>2 DEF PublishUsed, NumbersOK, InfosOK, Uncounted, Ready
  <2>21. ASSUME NEW p \in Process, PublishOffset(p) PROVE SizeInv'
    BY <2>21, <1>2 DEF PublishOffset, NumbersOK, InfosOK, Uncounted, Ready
  <2>22. ASSUME NEW p \in Process, PublishCounts(p) PROVE SizeInv'
    BY <2>22, <1>2 DEF PublishCounts, NumbersOK, InfosOK, Uncounted, Ready
  <2>23. ASSUME NEW p \in Process, EndCommit(p) PROVE SizeInv'
    BY <2>23, <1>2 DEF EndCommit, end_transaction, NumbersOK, HeadersOK, InfosOK, Goto, Uncounted
  <2>24. ASSUME NEW p \in Process, rollback(p) PROVE SizeInv'
    BY <2>24, <1>2 DEF rollback, end_transaction, NumbersOK, HeadersOK, InfosOK, Goto, Uncounted
  <2>25. ASSUME NEW p \in Process, Crash(p) PROVE SizeInv'
    BY <2>25, <1>2 DEF Crash, Forget, NumbersOK, HeadersOK, InfosOK, Goto, Uncounted
  <2>26. ASSUME NEW p \in Process, NEW i \in Slot, delete_record(p, i) PROVE SizeInv'
    BY <2>26, <1>2 DEF delete_record, NumbersOK, InfosOK, Uncounted, Ready
  <2>27. CASE Expire
    BY <2>27, <1>2 DEF Expire, Uncounted
  <2>28. CASE UNCHANGED vars
    BY <2>28, <1>2 DEF vars, Uncounted
  <2> QED
    BY <2>1, <2>2, <2>3, <2>4, <2>5, <2>6, <2>7, <2>8, <2>9, <2>10, <2>11, <2>12, <2>13,
       <2>14, <2>15, <2>16, <2>17, <2>18, <2>19, <2>20, <2>21, <2>22, <2>23, <2>24, <2>25, <2>26,
       <2>27, <2>28
    DEF Next, CommitStep

(* An index that has room for its header is never written past its end,      *)
(* whatever dies or expires between the stores of a commit: the transaction's*)
(* entries are counted against the size before they are written.             *)
THEOREM Fits == Spec => []EntriesFit
<1>1. Init => IInv
  BY InitialNumbers, InitialSize DEF IInv, HolderInv, Init
<1>2. IInv /\ [Next]_vars => IInv'
  BY HeadersKept, InfosKept, HolderKept, SizeKept DEF IInv, NumbersOK
<1>3. IInv => EntriesFit
  <2> SUFFICES ASSUME IInv, index_header.total_size >= IndexHeaderSize,
                      NEW p \in Process, holder = p
               PROVE  Taken(index_info[p].write_offset) + IndexHeaderSize
                        <= index_header.total_size
    BY DEF EntriesFit, Taken
  <2> QED
    BY DEF IInv, SizeInv, InfoFits, FitsFile
<1> QED
  BY <1>1, <1>2, <1>3, PTL DEF Spec

----------------------------------------------------------------------------
(* An open transaction of the block counts records that there are, and the   *)
(* process that holds the lock has one open.                                 *)
OpenInv ==
  \A p \in Process :
    /\ rollback_info[p].in_transaction =>
         rollback_info[p].last_index \in Slot /\ rollback_info[p].write_offset \in Slot
    /\ holder = p => rollback_info[p].in_transaction

LEMMA Ranges ==
  /\ Slot \subseteq Index /\ Index \subseteq Offset /\ Offset \subseteq Nat
  /\ 0 \in Index /\ \A n \in Slot : n + 1 \in Offset /\ n \in Nat \ {0}
  /\ \A n \in Nat : n <= MaxRecords => n + 1 \in Slot /\ n + 1 \in Index
BY BoundAssumption DEF Slot, Index, Offset

LEMMA NoRollbackType == NoRollback \in RollbackInfo
BY Ranges DEF NoRollback, RollbackInfo

LEMMA InfoOfRecord ==
  ASSUME NEW r \in RollbackInfo, r.last_index \in Slot, r.last_index <= MaxRecords,
         r.write_offset \in Slot
  PROVE  [in_transaction |-> TRUE, last_index |-> r.last_index + 1, start_offset |-> r.start_offset,
          write_offset |-> r.write_offset + 1, used_bytes |-> r.used_bytes + RecordSize] \in RollbackInfo
<1>1. r.used_bytes \in Nat /\ r.start_offset \in Offset
  BY DEF RollbackInfo
<1>2. r.used_bytes + RecordSize \in Nat
  BY <1>1, SizeAssumption
<1>3. r.last_index + 1 \in Index /\ r.write_offset + 1 \in Offset
  BY Ranges
<1> QED
  BY <1>1, <1>2, <1>3 DEF RollbackInfo

LEMMA InfoOfEntry ==
  ASSUME NEW x \in RollbackInfo, NEW i \in Slot, x.write_offset \in Slot
  PROVE  [in_transaction |-> TRUE, last_index |-> i, start_offset |-> x.start_offset,
          write_offset |-> x.write_offset + 1, used_bytes |-> x.used_bytes + EntrySize] \in RollbackInfo
<1>1. x.used_bytes \in Nat /\ x.start_offset \in Offset
  BY DEF RollbackInfo
<1>2. x.used_bytes + EntrySize \in Nat
  BY <1>1, SizeAssumption
<1> QED
  BY <1>1, <1>2, Ranges DEF RollbackInfo

LEMMA TypeNumbers == TypeOK => NumbersOK /\ InfosOK /\ HeadersOK
<1> SUFFICES ASSUME TypeOK PROVE HeadersOK /\ InfosOK
  BY DEF NumbersOK
<1>1. HeadersOK
  BY Ranges DEF TypeOK, FilesOK, ObjectsOK, HeadersOK
<1>2. InfosOK
  BY Ranges DEF TypeOK, ObjectsOK, InfosOK, RollbackInfo, Info
<1> QED
  BY <1>1, <1>2

LEMMA MarkType ==
  ASSUME FilesOK, NEW s, NEW st \in RecordState
  PROVE  [file EXCEPT ![s].state = st] \in [Slot -> [index : Index, state : RecordState]]
BY DEF FilesOK

LEMMA EntryMarkType ==
  ASSUME FilesOK, NEW s, NEW st \in EntryState
  PROVE  [entries EXCEPT ![s].state = st] \in [Slot -> [index : Index, offset : Index, state : EntryState]]
BY DEF FilesOK

LEMMA StepFiles ==
  ASSUME TypeOK, HolderInv, OpenInv, [Next]_vars
  PROVE  FilesOK'
<1>1. FilesOK
  BY DEF TypeOK
<1>3. /\ rollback_info \in [Process -> RollbackInfo] /\ index_info \in [Process -> RollbackInfo]
      /\ added \in Nat
  BY DEF TypeOK, ObjectsOK
<1>2. ASSUME [Next]_vars PROVE FilesOK'
  <2> USE <1>2, <1>1, Ranges DEF FilesOK, block, index, commit, Goto
  <2>1. ASSUME NEW p \in Process, Open(p) PROVE FilesOK'
    BY <2>1 DEF Open
  <2>2. ASSUME NEW p \in Process, Close(p) PROVE FilesOK'
    BY <2>2 DEF Close, Forget, Ready
  <2>3. ASSUME NEW p \in Process, finish(p) PROVE FilesOK'
    BY <2>3 DEF finish, SetWriteState, Ready
  <2>4. ASSUME NEW p \in Process, archive(p) PROVE FilesOK'
    BY <2>4 DEF archive, SetWriteState, Ready
  <2>5. ASSUME NEW p \in Process, Start(p) PROVE FilesOK'
    BY <2>5 DEF Start, Ready, setup_transaction, setup_index
  <2>6. ASSUME NEW p \in Process, Write(p) PROVE FilesOK'
    <3> DEFINE r == rollback_info[p]  x == index_info[p]
    <3>1. r.last_index \in Slot /\ r.write_offset \in Slot
      BY <2>6 DEF Write, WriteRecord, in_transaction, OpenInv
    <3>2. file' \in [Slot -> [index : Index, state : RecordState]]
      BY <2>6, <3>1 DEF Write, WriteRecord, RecordState
    <3>3. entries' \in [Slot -> [index : Index, offset : Index, state : EntryState]]
      BY <2>6, <3>1 DEF Write, EntryState
    <3> QED
      BY <2>6, <3>2, <3>3 DEF Write, WriteRecord
  <2>7. ASSUME NEW p \in Process, WriteUnindexed(p) PROVE FilesOK'
    <3> DEFINE r == rollback_info[p]
    <3>1. r.last_index \in Slot /\ r.write_offset \in Slot
      BY <2>7 DEF WriteUnindexed, WriteRecord, in_transaction, OpenInv
    <3>2. file' \in [Slot -> [index : Index, state : RecordState]]
      BY <2>7, <3>1 DEF WriteUnindexed, WriteRecord, RecordState
    <3> QED
      BY <2>7, <3>2 DEF WriteUnindexed, WriteRecord
  <2>8. ASSUME NEW p \in Process, Commit(p) PROVE FilesOK'
    BY <2>8 DEF Commit, Ready, in_transaction
  <2>9. ASSUME NEW p \in Process, MarkDeleted(p) PROVE FilesOK'
    <3>1. "DELETED" \in RecordState
      BY DEF RecordState
    <3> DEFINE s == entries[deletes[p][cursor]].offset
    <3>2. file' = file \/ file' = [file EXCEPT ![s].state = "DELETED"]
      BY <2>9 DEF MarkDeleted
    <3> HIDE DEF s
    <3>4. [file EXCEPT ![s].state = "DELETED"] \in [Slot -> [index : Index, state : RecordState]]
      BY <3>1, MarkType
    <3>3. file' \in [Slot -> [index : Index, state : RecordState]]
      BY <3>2, <3>4
    <3> QED
      BY <2>9, <3>3 DEF MarkDeleted
  <2>10. ASSUME NEW p \in Process, CountDeleted(p) PROVE FilesOK'
    BY <2>10 DEF CountDeleted
  <2>11. ASSUME NEW p \in Process, CommitIndex(p) PROVE FilesOK'
    BY <2>11 DEF CommitIndex
  <2>12. ASSUME NEW p \in Process, ShowEntry(p) PROVE FilesOK'
    <3>1. "READABLE" \in EntryState
      BY DEF EntryState
    <3>2. entries' = entries \/ entries' = [entries EXCEPT ![cursor].state = "READABLE"]
      BY <2>12 DEF ShowEntry
    <3>4. [entries EXCEPT ![cursor].state = "READABLE"]
            \in [Slot -> [index : Index, offset : Index, state : EntryState]]
      BY <3>1, EntryMarkType
    <3>3. entries' \in [Slot -> [index : Index, offset : Index, state : EntryState]]
      BY <3>2, <3>4
    <3> QED
      BY <2>12, <3>3 DEF ShowEntry
  <2>13. ASSUME NEW p \in Process, IndexLast(p) PROVE FilesOK'
    BY <2>13, <1>3 DEF IndexLast, RollbackInfo
  <2>14. ASSUME NEW p \in Process, IndexUsed(p) PROVE FilesOK'
    BY <2>14, <1>3 DEF IndexUsed, RollbackInfo
  <2>15. ASSUME NEW p \in Process, IndexOffset(p) PROVE FilesOK'
    BY <2>15, <1>3 DEF IndexOffset, RollbackInfo
  <2>16. ASSUME NEW p \in Process, IndexDelete(p) PROVE FilesOK'
    <3>1. "DELETED" \in EntryState
      BY DEF EntryState
    <3> QED
      BY <2>16, <3>1, EntryMarkType DEF IndexDelete
  <2>17. ASSUME NEW p \in Process, EndIndex(p) PROVE FilesOK'
    BY <2>17 DEF EndIndex
  <2>18. ASSUME NEW p \in Process, MarkReadable(p) PROVE FilesOK'
    <3>1. "READABLE" \in RecordState
      BY DEF RecordState
    <3> QED
      BY <2>18, <3>1, MarkType DEF MarkReadable
  <2>19. ASSUME NEW p \in Process, PublishLast(p) PROVE FilesOK'
    <3>1. rollback_info[p].last_index \in Slot
      BY <2>19 DEF PublishLast, HolderInv, OpenInv
    <3> QED
      BY <2>19, <3>1 DEF PublishLast
  <2>20. ASSUME NEW p \in Process, PublishUsed(p) PROVE FilesOK'
    <3>1. rollback_info[p].used_bytes \in Nat
      BY <1>3 DEF RollbackInfo
    <3>2. header.used_bytes + rollback_info[p].used_bytes \in Nat
      BY <3>1
    <3> QED
      BY <2>20, <3>2 DEF PublishUsed
  <2>21. ASSUME NEW p \in Process, PublishOffset(p) PROVE FilesOK'
    <3>1. rollback_info[p].write_offset \in Slot
      BY <2>21 DEF PublishOffset, HolderInv, OpenInv
    <3> QED
      BY <2>21, <3>1 DEF PublishOffset
  <2>22. ASSUME NEW p \in Process, PublishCounts(p) PROVE FilesOK'
    <3> DEFINE n == header.commit_sequence + 1  m == header.total_records + added
    <3>1. n \in Nat /\ m \in Nat
      BY <1>3
    <3>2. header' = [header EXCEPT !.commit_sequence = n, !.total_records = m]
      BY <2>22 DEF PublishCounts
    <3> HIDE DEF n, m
    <3> QED
      BY <2>22, <3>1, <3>2 DEF PublishCounts
  <2>23. ASSUME NEW p \in Process, EndCommit(p) PROVE FilesOK'
    BY <2>23 DEF EndCommit, end_transaction
  <2>24. ASSUME NEW p \in Process, rollback(p) PROVE FilesOK'
    BY <2>24 DEF rollback, Ready, in_transaction, end_transaction
  <2>25. ASSUME NEW p \in Process, Crash(p) PROVE FilesOK'
    BY <2>25 DEF Crash, Forget, Faulty
  <2>26. ASSUME NEW p \in Process, NEW i \in Slot, delete_record(p, i) PROVE FilesOK'
    BY <2>26 DEF delete_record, Ready, in_transaction, Faulty
  <2>27. CASE Expire
    BY <2>27 DEF Expire
  <2>28. CASE UNCHANGED vars
    BY <2>28 DEF vars
  <2> QED
    BY <2>1, <2>2, <2>3, <2>4, <2>5, <2>6, <2>7, <2>8, <2>9, <2>10, <2>11, <2>12, <2>13,
       <2>14, <2>15, <2>16, <2>17, <2>18, <2>19, <2>20, <2>21, <2>22, <2>23, <2>24,
       <2>25, <2>26, <2>27, <2>28
    DEF Next, CommitStep
<1> QED
  BY <1>2

LEMMA StepObjects ==
  ASSUME TypeOK, HolderInv, OpenInv, [Next]_vars
  PROVE  ObjectsOK'
<1>1. ObjectsOK
  BY DEF TypeOK
<1>4. <<>> \in Seq(Slot)
  OBVIOUS
<1>2. ASSUME [Next]_vars PROVE ObjectsOK'
  <2> USE <1>2, <1>1, ProcessAssumption, Ranges, NoRollbackType
      DEF ObjectsOK, lock, local, commit, Goto, PC
  <2>1. ASSUME NEW p \in Process, Open(p) PROVE ObjectsOK'
    BY <2>1 DEF Open
  <2>2. ASSUME NEW p \in Process, Close(p) PROVE ObjectsOK'
    <3>1. deletes' \in [Process -> Seq(Slot)]
      BY <2>2, <1>4 DEF Close, Forget
    <3> QED
      BY <2>2, <3>1 DEF Close, Forget
  <2>3. ASSUME NEW p \in Process, finish(p) PROVE ObjectsOK'
    BY <2>3 DEF finish, SetWriteState, Ready
  <2>4. ASSUME NEW p \in Process, archive(p) PROVE ObjectsOK'
    BY <2>4 DEF archive, SetWriteState, Ready
  <2>5. ASSUME NEW p \in Process, Start(p) PROVE ObjectsOK'
    <3>1. /\ header.last_index \in Index /\ header.write_offset \in Offset
          /\ index_header.last_index \in Index /\ index_header.write_offset \in Offset
      BY DEF TypeOK, FilesOK
    <3>2. rollback_info' \in [Process -> RollbackInfo] /\ index_info' \in [Process -> RollbackInfo]
      BY <2>5, <3>1 DEF Start, setup_transaction, setup_index, RollbackInfo
    <3>3. deletes' \in [Process -> Seq(Slot)]
      BY <2>5, <1>4 DEF Start, setup_index
    <3>4. holder' \in Process \cup {NoProcess, Dead} /\ has_txn' \in [Process -> BOOLEAN]
      BY <2>5 DEF Start
    <3> QED
      BY <2>5, <3>2, <3>3, <3>4 DEF Start
  <2>6. ASSUME NEW p \in Process, Write(p) PROVE ObjectsOK'
    <3> DEFINE r == rollback_info[p]  x == index_info[p]
    <3>1. r.last_index \in Slot /\ r.write_offset \in Slot
      BY <2>6 DEF Write, WriteRecord, in_transaction, OpenInv
    <3>4. rollback_info' \in [Process -> RollbackInfo]
      BY <2>6, <3>1, InfoOfRecord DEF Write, WriteRecord
    <3>5. index_info' \in [Process -> RollbackInfo]
      BY <2>6, <3>1, InfoOfEntry DEF Write
    <3> QED
      BY <2>6, <3>4, <3>5 DEF Write, WriteRecord
  <2>7. ASSUME NEW p \in Process, WriteUnindexed(p) PROVE ObjectsOK'
    <3> DEFINE r == rollback_info[p]
    <3>1. r.last_index \in Slot /\ r.write_offset \in Slot
      BY <2>7 DEF WriteUnindexed, WriteRecord, in_transaction, OpenInv
    <3>4. rollback_info' \in [Process -> RollbackInfo]
      BY <2>7, <3>1, InfoOfRecord DEF WriteUnindexed, WriteRecord
    <3>5. faults' \subseteq Faults
      BY <2>7 DEF WriteUnindexed, Faulty, Faults
    <3> QED
      BY <2>7, <3>4, <3>5 DEF WriteUnindexed, WriteRecord
  <2>8. ASSUME NEW p \in Process, Commit(p) PROVE ObjectsOK'
    BY <2>8 DEF Commit, Ready, in_transaction
  <2>9. ASSUME NEW p \in Process, MarkDeleted(p) PROVE ObjectsOK'
    BY <2>9 DEF MarkDeleted
  <2>10. ASSUME NEW p \in Process, CountDeleted(p) PROVE ObjectsOK'
    BY <2>10 DEF CountDeleted
  <2>11. ASSUME NEW p \in Process, CommitIndex(p) PROVE ObjectsOK'
    <3>1. index_info[p].start_offset \in Nat
      BY DEF RollbackInfo
    <3> QED
      BY <2>11, <3>1 DEF CommitIndex
  <2>12. ASSUME NEW p \in Process, ShowEntry(p) PROVE ObjectsOK'
    <3>1. pc' = pc \/ pc' = [pc EXCEPT ![p] = "run"]
      BY <2>12 DEF ShowEntry
    <3>2. pc' \in [Process -> PC]
      BY <3>1
    <3>3. cursor' = cursor \/ cursor' = cursor + 1
      BY <2>12 DEF ShowEntry
    <3>4. cursor' \in Nat
      BY <3>3
    <3>5. UNCHANGED <<lock, local, added, crashes, faults>>
      BY <2>12 DEF ShowEntry
    <3> HIDE DEF PC
    <3> QED
      BY <3>2, <3>4, <3>5
  <2>13. ASSUME NEW p \in Process, IndexLast(p) PROVE ObjectsOK'
    BY <2>13 DEF IndexLast
  <2>14. ASSUME NEW p \in Process, IndexUsed(p) PROVE ObjectsOK'
    BY <2>14 DEF IndexUsed
  <2>15. ASSUME NEW p \in Process, IndexOffset(p) PROVE ObjectsOK'
    BY <2>15 DEF IndexOffset
  <2>16. ASSUME NEW p \in Process, IndexDelete(p) PROVE ObjectsOK'
    <3>1. UNCHANGED <<lock, local, pc, added, crashes, faults>> /\ cursor' = cursor + 1
      BY <2>16 DEF IndexDelete
    <3>2. cursor' \in Nat
      BY <3>1
    <3> QED
      BY <3>1, <3>2
  <2>17. ASSUME NEW p \in Process, EndIndex(p) PROVE ObjectsOK'
    <3>1. deletes' \in [Process -> Seq(Slot)]
      BY <2>17, <1>4 DEF EndIndex
    <3>2. header.write_offset \in Nat
      BY DEF TypeOK, FilesOK
    <3> QED
      BY <2>17, <3>1, <3>2 DEF EndIndex
  <2>18. ASSUME NEW p \in Process, MarkReadable(p) PROVE ObjectsOK'
    BY <2>18 DEF MarkReadable
  <2>19. ASSUME NEW p \in Process, PublishLast(p) PROVE ObjectsOK'
    BY <2>19 DEF PublishLast
  <2>20. ASSUME NEW p \in Process, PublishUsed(p) PROVE ObjectsOK'
    BY <2>20 DEF PublishUsed
  <2>21. ASSUME NEW p \in Process, PublishOffset(p) PROVE ObjectsOK'
    BY <2>21 DEF PublishOffset
  <2>22. ASSUME NEW p \in Process, PublishCounts(p) PROVE ObjectsOK'
    BY <2>22 DEF PublishCounts
  <2>23. ASSUME NEW p \in Process, EndCommit(p) PROVE ObjectsOK'
    BY <2>23 DEF EndCommit, end_transaction
  <2>24. ASSUME NEW p \in Process, rollback(p) PROVE ObjectsOK'
    <3>1. deletes' \in [Process -> Seq(Slot)]
      BY <2>24, <1>4 DEF rollback
    <3> QED
      BY <2>24, <3>1 DEF rollback, end_transaction
  <2>25. ASSUME NEW p \in Process, Crash(p) PROVE ObjectsOK'
    <3>1. deletes' \in [Process -> Seq(Slot)]
      BY <2>25, <1>4 DEF Crash, Forget
    <3>2. faults' \subseteq Faults
      BY <2>25 DEF Crash, Faulty, DiedIn, Faults
    <3>3. cursor' \in Nat /\ added' \in Nat /\ crashes' \in Nat
      BY <2>25 DEF Crash
    <3> QED
      BY <2>25, <3>1, <3>2, <3>3 DEF Crash, Forget
  <2>26. ASSUME NEW p \in Process, NEW i \in Slot, delete_record(p, i) PROVE ObjectsOK'
    <3>1. Append(deletes[p], i) \in Seq(Slot)
      OBVIOUS
    <3>2. deletes' \in [Process -> Seq(Slot)]
      BY <2>26, <3>1 DEF delete_record
    <3>3. faults' \subseteq Faults
      BY <2>26 DEF delete_record, Faulty, Faults
    <3> QED
      BY <2>26, <3>2, <3>3 DEF delete_record
  <2>27. CASE Expire
    BY <2>27 DEF Expire
  <2>28. CASE UNCHANGED vars
    BY <2>28 DEF vars
  <2> QED
    BY <2>1, <2>2, <2>3, <2>4, <2>5, <2>6, <2>7, <2>8, <2>9, <2>10, <2>11, <2>12, <2>13,
       <2>14, <2>15, <2>16, <2>17, <2>18, <2>19, <2>20, <2>21, <2>22, <2>23, <2>24,
       <2>25, <2>26, <2>27, <2>28
    DEF Next, CommitStep
<1> QED
  BY <1>2

LEMMA StepOpen ==
  ASSUME TypeOK, HolderInv, OpenInv, [Next]_vars
  PROVE  OpenInv'
<1>1. ObjectsOK
  BY DEF TypeOK
<1>2. ASSUME [Next]_vars PROVE OpenInv'
  <2> USE <1>2, <1>1, ProcessAssumption, Ranges DEF OpenInv, ObjectsOK, HolderInv, lock, local,
          NoRollback
  <2>1. ASSUME NEW p \in Process, Open(p) PROVE OpenInv'
    BY <2>1 DEF Open
  <2>2. ASSUME NEW p \in Process, Close(p) PROVE OpenInv'
    BY <2>2 DEF Close, Forget, Ready
  <2>3. ASSUME NEW p \in Process, finish(p) PROVE OpenInv'
    BY <2>3 DEF finish, SetWriteState, Ready
  <2>4. ASSUME NEW p \in Process, archive(p) PROVE OpenInv'
    BY <2>4 DEF archive, SetWriteState, Ready
  <2>5. ASSUME NEW p \in Process, Start(p) PROVE OpenInv'
    BY <2>5 DEF Start, setup_transaction, TypeOK, FilesOK
  <2>6. ASSUME NEW p \in Process, Write(p) PROVE OpenInv'
    <3>1. holder = p /\ holder' = p
      BY <2>6 DEF Write, WriteRecord, in_transaction
    <3>2. rollback_info[p].last_index + 1 \in Slot /\ rollback_info[p].write_offset + 1 \in Slot
      BY <2>6, <3>1 DEF Write, WriteRecord
    <3> QED
      BY <2>6, <3>1, <3>2 DEF Write, WriteRecord
  <2>7. ASSUME NEW p \in Process, WriteUnindexed(p) PROVE OpenInv'
    <3>1. holder = p /\ holder' = p
      BY <2>7 DEF WriteUnindexed, WriteRecord, in_transaction
    <3>2. rollback_info[p].last_index + 1 \in Slot /\ rollback_info[p].write_offset + 1 \in Slot
      BY <2>7, <3>1 DEF WriteUnindexed, WriteRecord
    <3> QED
      BY <2>7, <3>1, <3>2 DEF WriteUnindexed, WriteRecord
  <2>8. ASSUME NEW p \in Process, Commit(p) PROVE OpenInv'
    BY <2>8 DEF Commit, Ready, in_transaction
  <2>9. ASSUME NEW p \in Process, MarkDeleted(p) PROVE OpenInv'
    BY <2>9 DEF MarkDeleted
  <2>10. ASSUME NEW p \in Process, CountDeleted(p) PROVE OpenInv'
    BY <2>10 DEF CountDeleted
  <2>11. ASSUME NEW p \in Process, CommitIndex(p) PROVE OpenInv'
    BY <2>11 DEF CommitIndex
  <2>12. ASSUME NEW p \in Process, ShowEntry(p) PROVE OpenInv'
    BY <2>12 DEF ShowEntry
  <2>13. ASSUME NEW p \in Process, IndexLast(p) PROVE OpenInv'
    BY <2>13 DEF IndexLast
  <2>14. ASSUME NEW p \in Process, IndexUsed(p) PROVE OpenInv'
    BY <2>14 DEF IndexUsed
  <2>15. ASSUME NEW p \in Process, IndexOffset(p) PROVE OpenInv'
    BY <2>15 DEF IndexOffset
  <2>16. ASSUME NEW p \in Process, IndexDelete(p) PROVE OpenInv'
    BY <2>16 DEF IndexDelete
  <2>17. ASSUME NEW p \in Process, EndIndex(p) PROVE OpenInv'
    BY <2>17 DEF EndIndex
  <2>18. ASSUME NEW p \in Process, MarkReadable(p) PROVE OpenInv'
    BY <2>18 DEF MarkReadable
  <2>19. ASSUME NEW p \in Process, PublishLast(p) PROVE OpenInv'
    BY <2>19 DEF PublishLast
  <2>20. ASSUME NEW p \in Process, PublishUsed(p) PROVE OpenInv'
    BY <2>20 DEF PublishUsed
  <2>21. ASSUME NEW p \in Process, PublishOffset(p) PROVE OpenInv'
    BY <2>21 DEF PublishOffset
  <2>22. ASSUME NEW p \in Process, PublishCounts(p) PROVE OpenInv'
    BY <2>22 DEF PublishCounts
  <2>23. ASSUME NEW p \in Process, EndCommit(p) PROVE OpenInv'
    BY <2>23 DEF EndCommit, end_transaction
  <2>24. ASSUME NEW p \in Process, rollback(p) PROVE OpenInv'
    BY <2>24 DEF rollback, Ready, in_transaction, end_transaction
  <2>25. ASSUME NEW p \in Process, Crash(p) PROVE OpenInv'
    BY <2>25 DEF Crash, Forget, Faulty
  <2>26. ASSUME NEW p \in Process, NEW i \in Slot, delete_record(p, i) PROVE OpenInv'
    BY <2>26 DEF delete_record, Ready, in_transaction, Faulty
  <2>27. CASE Expire
    BY <2>27 DEF Expire
  <2>28. CASE UNCHANGED vars
    BY <2>28 DEF vars
  <2> QED
    BY <2>1, <2>2, <2>3, <2>4, <2>5, <2>6, <2>7, <2>8, <2>9, <2>10, <2>11, <2>12, <2>13,
       <2>14, <2>15, <2>16, <2>17, <2>18, <2>19, <2>20, <2>21, <2>22, <2>23, <2>24,
       <2>25, <2>26, <2>27, <2>28
    DEF Next, CommitStep
<1> QED
  BY <1>2

LEMMA InitType == Init => TypeOK /\ HolderInv /\ OpenInv
<1> SUFFICES ASSUME Init PROVE TypeOK /\ HolderInv /\ OpenInv
  OBVIOUS
<1>1. 1 \in Slot
  BY BoundAssumption DEF Slot
<1>2. FilesOK
  BY <1>1, Ranges DEF Init, FilesOK, RecordState, EntryState
<1>3. <<>> \in Seq(Slot)
  OBVIOUS
<1>4. ObjectsOK
  BY <1>3, NoRollbackType DEF Init, ObjectsOK, PC
<1>5. HolderInv /\ OpenInv
  BY ProcessAssumption DEF Init, HolderInv, OpenInv, NoRollback
<1> QED
  BY <1>2, <1>4, <1>5 DEF TypeOK

LEMMA StepType ==
  ASSUME TypeOK, HolderInv, OpenInv, [Next]_vars PROVE TypeOK' /\ HolderInv' /\ OpenInv'
BY StepFiles, StepObjects, StepOpen, HolderKept, TypeNumbers DEF TypeOK

(* The offsets and indices of both files stay within the records there are,  *)
(* and the objects that carry them between two commits do too.               *)
THEOREM TypeCorrect == Spec => []TypeOK
<1> DEFINE I == TypeOK /\ HolderInv /\ OpenInv
<1>1. I /\ [Next]_vars => I'
  BY StepType
<1> QED
  BY InitType, <1>1, PTL DEF Spec

----------------------------------------------------------------------------
(* What has gone wrong stays on record.                                      *)
LEMMA FaultsGrow == [Next]_vars => faults \subseteq faults'
<1> SUFFICES ASSUME [Next]_vars PROVE faults \subseteq faults'
  OBVIOUS
<1> QED
  <2>1. ASSUME NEW p \in Process, Open(p) PROVE faults \subseteq faults'
    BY <2>1 DEF Open
  <2>2. ASSUME NEW p \in Process, Close(p) PROVE faults \subseteq faults'
    BY <2>2 DEF Close, Forget, Ready
  <2>3. ASSUME NEW p \in Process, finish(p) PROVE faults \subseteq faults'
    BY <2>3 DEF finish, SetWriteState, Ready
  <2>4. ASSUME NEW p \in Process, archive(p) PROVE faults \subseteq faults'
    BY <2>4 DEF archive, SetWriteState, Ready
  <2>5. ASSUME NEW p \in Process, Start(p) PROVE faults \subseteq faults'
    BY <2>5 DEF Start, Ready, setup_transaction, setup_index
  <2>6. ASSUME NEW p \in Process, Write(p) PROVE faults \subseteq faults'
    BY <2>6 DEF Write, WriteRecord, Ready, in_transaction
  <2>7. ASSUME NEW p \in Process, WriteUnindexed(p) PROVE faults \subseteq faults'
    BY <2>7 DEF WriteUnindexed, WriteRecord, Ready, in_transaction, Faulty
  <2>8. ASSUME NEW p \in Process, Commit(p) PROVE faults \subseteq faults'
    BY <2>8 DEF Commit, Ready, in_transaction
  <2>9. ASSUME NEW p \in Process, MarkDeleted(p) PROVE faults \subseteq faults'
    BY <2>9 DEF MarkDeleted
  <2>10. ASSUME NEW p \in Process, CountDeleted(p) PROVE faults \subseteq faults'
    BY <2>10 DEF CountDeleted
  <2>11. ASSUME NEW p \in Process, CommitIndex(p) PROVE faults \subseteq faults'
    BY <2>11 DEF CommitIndex
  <2>12. ASSUME NEW p \in Process, ShowEntry(p) PROVE faults \subseteq faults'
    BY <2>12 DEF ShowEntry
  <2>13. ASSUME NEW p \in Process, IndexLast(p) PROVE faults \subseteq faults'
    BY <2>13 DEF IndexLast
  <2>14. ASSUME NEW p \in Process, IndexUsed(p) PROVE faults \subseteq faults'
    BY <2>14 DEF IndexUsed
  <2>15. ASSUME NEW p \in Process, IndexOffset(p) PROVE faults \subseteq faults'
    BY <2>15 DEF IndexOffset
  <2>16. ASSUME NEW p \in Process, IndexDelete(p) PROVE faults \subseteq faults'
    BY <2>16 DEF IndexDelete
  <2>17. ASSUME NEW p \in Process, EndIndex(p) PROVE faults \subseteq faults'
    BY <2>17 DEF EndIndex
  <2>18. ASSUME NEW p \in Process, MarkReadable(p) PROVE faults \subseteq faults'
    BY <2>18 DEF MarkReadable
  <2>19. ASSUME NEW p \in Process, PublishLast(p) PROVE faults \subseteq faults'
    BY <2>19 DEF PublishLast
  <2>20. ASSUME NEW p \in Process, PublishUsed(p) PROVE faults \subseteq faults'
    BY <2>20 DEF PublishUsed
  <2>21. ASSUME NEW p \in Process, PublishOffset(p) PROVE faults \subseteq faults'
    BY <2>21 DEF PublishOffset
  <2>22. ASSUME NEW p \in Process, PublishCounts(p) PROVE faults \subseteq faults'
    BY <2>22 DEF PublishCounts
  <2>23. ASSUME NEW p \in Process, EndCommit(p) PROVE faults \subseteq faults'
    BY <2>23 DEF EndCommit, end_transaction
  <2>24. ASSUME NEW p \in Process, rollback(p) PROVE faults \subseteq faults'
    BY <2>24 DEF rollback, Ready, in_transaction, end_transaction
  <2>25. ASSUME NEW p \in Process, Crash(p) PROVE faults \subseteq faults'
    BY <2>25 DEF Crash, Forget, Faulty
  <2>26. ASSUME NEW p \in Process, NEW i \in Slot, delete_record(p, i)
         PROVE faults \subseteq faults'
    BY <2>26 DEF delete_record, Ready, in_transaction, Faulty
  <2>27. CASE Expire
    BY <2>27 DEF Expire
  <2>28. CASE UNCHANGED vars
    BY <2>28 DEF vars
  <2> QED
    BY <2>1, <2>2, <2>3, <2>4, <2>5, <2>6, <2>7, <2>8, <2>9, <2>10, <2>11, <2>12, <2>13,
       <2>14, <2>15, <2>16, <2>17, <2>18, <2>19, <2>20, <2>21, <2>22, <2>23, <2>24,
       <2>25, <2>26, <2>27, <2>28
    DEF Next, CommitStep

(* Who is in a commit holds the lock, and nobody else is in one.             *)
LEMMA OnlyHolder ==
  ASSUME ObjectsOK, HolderInv, NEW p \in Process, pc[p] # "run"
  PROVE  holder = p /\ \A q \in Process \ {p} : holder # q /\ pc[q] = "run"
BY DEF HolderInv

(* The step of a commit moves nothing else.                                  *)
LEMMA OthersStay ==
  ASSUME NEW f, NEW p, NEW q \in Process \ {p}, NEW v, f \in [Process -> PC]
  PROVE  [f EXCEPT ![p] = v][q] = f[q]
OBVIOUS

(* The lock is taken when nobody is in a commit.                             *)
Started(p) ==
  /\ UNCHANGED <<block, index, open, commit, crashes, faults>> /\ pc[p] = "run"
  /\ holder' # holder => holder = NoProcess /\ holder' = p
  /\ holder' = p => \A q \in Process : pc[q] = "run"
  /\ \A q \in Process \ {p} : /\ holder' = q => holder = q
                             /\ rollback_info'[q] = rollback_info[q]
                             /\ index_info'[q] = index_info[q]
                             /\ deletes'[q] = deletes[q]
  /\ rollback_info'[p].in_transaction
  /\ rollback_info'[p].last_index = header.last_index
  /\ rollback_info'[p].write_offset = header.write_offset
  /\ rollback_info'[p].used_bytes = 0
  /\ index_info'[p].last_index = index_header.last_index
  /\ index_info'[p].start_offset = index_header.write_offset
  /\ index_info'[p].write_offset = index_header.write_offset
  /\ index_info'[p].used_bytes = 0
  /\ deletes'[p] = <<>>

LEMMA StartFrame ==
  ASSUME ObjectsOK, HolderInv, NEW p \in Process, Start(p) PROVE Started(p)
<1> USE ProcessAssumption DEF ObjectsOK, HolderInv, Start, Ready, lock
<1>1. UNCHANGED <<block, index, open, commit, crashes, faults>> /\ pc[p] = "run"
  OBVIOUS
<1>2. holder' # holder => holder = NoProcess /\ holder' = p
  OBVIOUS
<1>3. holder' = p => \A q \in Process : pc[q] = "run"
  OBVIOUS
<1>4. \A q \in Process \ {p} : holder' = q => holder = q
  OBVIOUS
<1> QED
  BY <1>1, <1>2, <1>3, <1>4 DEF setup_transaction, setup_index, Started

(* What a write does: a record at the end of the block's transaction ...     *)
Wrote(p) ==
  LET r == rollback_info[p] IN
  /\ UNCHANGED <<header, lock, open, deletes, commit, crashes>>
  /\ holder = p /\ pc[p] = "run" /\ \A q \in Process \ {p} : holder # q /\ pc[q] = "run"
  /\ r.last_index \in Slot /\ r.write_offset \in Slot
  /\ r.last_index <= MaxRecords /\ r.write_offset <= MaxRecords
  /\ file'[r.write_offset].index = r.last_index /\ file'[r.write_offset].state = "DIRTY"
  /\ \A s \in Slot \ {r.write_offset} : file'[s] = file[s]
  /\ rollback_info'[p].in_transaction
  /\ rollback_info'[p].last_index = r.last_index + 1
  /\ rollback_info'[p].start_offset = r.start_offset
  /\ rollback_info'[p].write_offset = r.write_offset + 1
  /\ rollback_info'[p].used_bytes = r.used_bytes + RecordSize
  /\ \A q \in Process \ {p} : rollback_info'[q] = rollback_info[q]

LEMMA WriteFrame ==
  ASSUME TypeOK, HolderInv, OpenInv, NEW p \in Process, WriteRecord(p)
  PROVE  Wrote(p)
<1> USE DEF TypeOK, ObjectsOK, WriteRecord
<1>1. holder = p /\ pc[p] = "run" /\ UNCHANGED <<header, lock, open, deletes, commit, crashes>>
  BY DEF in_transaction, Ready
<1>2. \A q \in Process \ {p} : holder # q /\ pc[q] = "run"
  BY <1>1 DEF HolderInv
<1>3. rollback_info[p].last_index \in Slot /\ rollback_info[p].write_offset \in Slot
  BY <1>1 DEF OpenInv
<1>4. rollback_info[p].last_index <= MaxRecords /\ rollback_info[p].write_offset <= MaxRecords
  OBVIOUS
<1> DEFINE r == rollback_info[p]
<1>5. rollback_info' = [rollback_info EXCEPT ![p] =
       [in_transaction |-> TRUE, last_index |-> r.last_index + 1, start_offset |-> r.start_offset,
        write_offset |-> r.write_offset + 1, used_bytes |-> r.used_bytes + RecordSize]]
      /\ file' = [file EXCEPT ![r.write_offset] = [index |-> r.last_index, state |-> "DIRTY"]]
  OBVIOUS
<1>6. /\ file'[r.write_offset].index = r.last_index /\ file'[r.write_offset].state = "DIRTY"
      /\ \A s \in Slot \ {r.write_offset} : file'[s] = file[s]
  BY <1>3, <1>5 DEF FilesOK
<1> HIDE DEF WriteRecord
<1> QED
  BY <1>1, <1>2, <1>3, <1>4, <1>5, <1>6 DEF Wrote

(* ... and an entry at the end of the index's.                               *)
Entered(p) ==
  LET r == rollback_info[p]  x == index_info[p] IN
  /\ x.write_offset \in Slot /\ UNCHANGED <<index_header, faults>>
  /\ entries'[x.write_offset].index = r.last_index
  /\ entries'[x.write_offset].offset = r.write_offset
  /\ entries'[x.write_offset].state = "USED"
  /\ \A s \in Slot \ {x.write_offset} : entries'[s] = entries[s]
  /\ index_info'[p].last_index = r.last_index
  /\ index_info'[p].start_offset = x.start_offset
  /\ index_info'[p].write_offset = x.write_offset + 1
  /\ index_info'[p].used_bytes = x.used_bytes + EntrySize
  /\ \A q \in Process \ {p} : index_info'[q] = index_info[q]

LEMMA EntryFrame ==
  ASSUME TypeOK, NEW p \in Process, Write(p)
  PROVE  Entered(p)
<1> DEFINE r == rollback_info[p]  x == index_info[p]
<1>1. /\ x.write_offset \in Slot /\ UNCHANGED <<index_header, faults>>
      /\ entries' = [entries EXCEPT ![x.write_offset] =
           [index |-> r.last_index, offset |-> r.write_offset, state |-> "USED"]]
      /\ index_info' = [index_info EXCEPT ![p] =
           [in_transaction |-> TRUE, last_index |-> r.last_index,
            start_offset |-> x.start_offset, write_offset |-> x.write_offset + 1,
            used_bytes |-> x.used_bytes + EntrySize]]
  BY DEF Write
<1>2. /\ entries'[x.write_offset].index = r.last_index
      /\ entries'[x.write_offset].offset = r.write_offset
      /\ entries'[x.write_offset].state = "USED"
      /\ \A s \in Slot \ {x.write_offset} : entries'[s] = entries[s]
  BY <1>1 DEF TypeOK, FilesOK
<1>3. /\ index_info'[p].last_index = r.last_index
      /\ index_info'[p].start_offset = x.start_offset
      /\ index_info'[p].write_offset = x.write_offset + 1
      /\ index_info'[p].used_bytes = x.used_bytes + EntrySize
      /\ \A q \in Process \ {p} : index_info'[q] = index_info[q]
  BY <1>1 DEF TypeOK, ObjectsOK
<1> QED
  BY <1>1, <1>2, <1>3 DEF Entered

LEMMA FileMark ==
  ASSUME FilesOK, NEW s, NEW st, file' = [file EXCEPT ![s].state = st]
  PROVE  \A t \in Slot : /\ file'[t].index = file[t].index
                        /\ file'[t].state = IF t = s THEN st ELSE file[t].state
BY DEF FilesOK

LEMMA EntryMark ==
  ASSUME FilesOK, NEW s, NEW st, entries' = [entries EXCEPT ![s].state = st]
  PROVE  \A t \in Slot : /\ entries'[t].index = entries[t].index
                        /\ entries'[t].offset = entries[t].offset
                        /\ entries'[t].state = IF t = s THEN st ELSE entries[t].state
BY DEF FilesOK

(* A commit's steps on the records and the entries, whether they throw or    *)
(* go on.                                                                    *)
Marking(p) ==
  LET i == deletes[p][cursor] IN
  /\ UNCHANGED <<header, index, lock, local, cursor, added, crashes, faults>>
  /\ pc[p] = "deletes" /\ holder = p /\ cursor <= Len(deletes[p])
  /\ \A q \in Process \ {p} : holder # q /\ pc[q] = "run" /\ pc'[q] = "run"
  /\ \A s \in Slot : file'[s].index = file[s].index
  /\ \/ ~Found(i) /\ file' = file /\ pc'[p] = "run"
     \/ /\ Found(i) /\ pc'[p] = "count"
        /\ \A s \in Slot : file'[s].state =
             IF s = entries[i].offset THEN "DELETED" ELSE file[s].state

LEMMA DeleteFrame ==
  ASSUME TypeOK, HolderInv, NEW p \in Process, MarkDeleted(p) PROVE Marking(p)
<1> DEFINE i == deletes[p][cursor]
<1>1. UNCHANGED <<header, index, lock, local, cursor, added, crashes, faults>>
      /\ pc[p] = "deletes" /\ cursor <= Len(deletes[p])
  BY DEF MarkDeleted
<1>2. holder = p /\ \A q \in Process \ {p} : holder # q /\ pc[q] = "run"
  BY <1>1, OnlyHolder DEF TypeOK
<1>3. CASE Found(i)
  <2>1. file' = [file EXCEPT ![entries[i].offset].state = "DELETED"] /\ Goto(p, "count")
    BY <1>3 DEF MarkDeleted
  <2>2. pc'[p] = "count" /\ \A q \in Process \ {p} : pc'[q] = pc[q]
    BY <2>1 DEF Goto, TypeOK, ObjectsOK
  <2>3. \A t \in Slot : /\ file'[t].index = file[t].index
                       /\ file'[t].state = IF t = entries[i].offset THEN "DELETED" ELSE file[t].state
    BY <2>1 DEF TypeOK, FilesOK
  <2> QED
    BY <1>1, <1>2, <1>3, <2>2, <2>3 DEF Marking
<1>4. CASE ~Found(i)
  <2>1. file' = file /\ Goto(p, "run")
    BY <1>4 DEF MarkDeleted
  <2>2. pc'[p] = "run" /\ \A q \in Process \ {p} : pc'[q] = pc[q]
    BY <2>1 DEF Goto, TypeOK, ObjectsOK
  <2> QED
    BY <1>1, <1>2, <1>4, <2>1, <2>2 DEF Marking
<1> QED
  BY <1>3, <1>4

Showing(p) ==
  /\ UNCHANGED <<block, index_header, lock, local, added, crashes, faults>>
  /\ pc[p] = "entries" /\ holder = p /\ cursor < index_info[p].write_offset
  /\ \A q \in Process \ {p} : holder # q /\ pc[q] = "run" /\ pc'[q] = "run"
  /\ \A s \in Slot : /\ entries'[s].index = entries[s].index
                     /\ entries'[s].offset = entries[s].offset
  /\ \/ /\ entries[cursor].state # "USED" /\ entries' = entries /\ cursor' = cursor
        /\ pc'[p] = "run"
     \/ /\ pc'[p] = "entries" /\ cursor' = cursor + 1
        /\ \A s \in Slot : entries'[s].state =
             IF s = cursor THEN "READABLE" ELSE entries[s].state

LEMMA ShowFrame ==
  ASSUME TypeOK, HolderInv, NEW p \in Process, ShowEntry(p) PROVE Showing(p)
<1>1. UNCHANGED <<block, index_header, lock, local, added, crashes, faults>>
      /\ pc[p] = "entries" /\ cursor < index_info[p].write_offset
  BY DEF ShowEntry
<1>2. holder = p /\ \A q \in Process \ {p} : holder # q /\ pc[q] = "run"
  BY <1>1, OnlyHolder DEF TypeOK
<1>3. CASE entries[cursor].state = "USED"
  <2>1. entries' = [entries EXCEPT ![cursor].state = "READABLE"] /\ cursor' = cursor + 1
        /\ pc' = pc
    BY <1>3 DEF ShowEntry
  <2>3. \A t \in Slot : /\ entries'[t].index = entries[t].index
                       /\ entries'[t].offset = entries[t].offset
                       /\ entries'[t].state = IF t = cursor THEN "READABLE" ELSE entries[t].state
    BY <2>1 DEF TypeOK, FilesOK
  <2> QED
    BY <1>1, <1>2, <2>1, <2>3 DEF Showing
<1>4. CASE entries[cursor].state # "USED"
  <2>1. entries' = entries /\ cursor' = cursor /\ Goto(p, "run")
    BY <1>4 DEF ShowEntry
  <2>2. pc'[p] = "run" /\ \A q \in Process \ {p} : pc'[q] = pc[q]
    BY <2>1 DEF Goto, TypeOK, ObjectsOK
  <2> QED
    BY <1>1, <1>2, <1>4, <2>1, <2>2 DEF Showing
<1> QED
  BY <1>3, <1>4

(* The steps that move a commit from one place to the next.                  *)
LEMMA MoveFrame ==
  ASSUME ObjectsOK, HolderInv, NEW p \in Process, pc[p] # "run", NEW v, Goto(p, v)
  PROVE  /\ holder = p /\ pc'[p] = v
         /\ \A q \in Process \ {p} : holder # q /\ pc[q] = "run" /\ pc'[q] = "run"
<1>1. holder = p /\ \A q \in Process \ {p} : holder # q /\ pc[q] = "run"
  BY OnlyHolder
<1>2. pc'[p] = v /\ \A q \in Process \ {p} : pc'[q] = pc[q]
  BY DEF Goto, ObjectsOK
<1> QED
  BY <1>1, <1>2

(* Where a commit is.                                                        *)
Publishing(p) == pc[p] \in {"used", "offset"}
Preparing(p) == pc[p] \notin {"used", "offset", "counts", "end"}
Collecting(p) == pc[p] \in {"run", "deletes", "count", "entries"}
Settling(p) == pc[p] \in {"index_used", "index_offset"}
Indexed(p) == pc[p] \in {"index_deletes", "records"}

(* Unless the block's header was torn, its offset and its index go together  *)
(* and a record has the index of its place, as does the offset of an entry.  *)
WholeBlock == "torn_block" \notin faults
BlockOK ==
  /\ (\A p \in Process : ~Publishing(p)) => header.write_offset = header.last_index
  /\ \A p \in Process : Publishing(p) => rollback_info[p].write_offset = header.last_index
  /\ \A p \in Process : holder = p /\ Preparing(p) =>
       /\ rollback_info[p].write_offset = rollback_info[p].last_index
       /\ header.last_index <= rollback_info[p].last_index
  /\ \A s \in Slot : file[s].index \in {0, s}
  /\ \A s \in Slot : entries[s].offset = entries[s].index
BlockInv == WholeBlock => BlockOK

LEMMA StepBlock ==
  ASSUME TypeOK, HolderInv, OpenInv, BlockInv, [Next]_vars
  PROVE  BlockInv'
<1> SUFFICES ASSUME WholeBlock' PROVE BlockOK'
  BY DEF BlockInv
<1>1. WholeBlock
  BY FaultsGrow DEF WholeBlock
<1>0. WholeBlock'
  OBVIOUS
<1>2. BlockOK
  BY <1>1 DEF BlockInv
<1>3. FilesOK /\ ObjectsOK
  BY DEF TypeOK
<1>4. Slot \subseteq Nat
  BY Ranges
<1> USE <1>2, <1>3, <1>4, ProcessAssumption DEF BlockOK, FilesOK, ObjectsOK, HolderInv, Publishing,
        Preparing, Goto, block, index, lock, local, commit
<1> QED
  <2>1. ASSUME NEW p \in Process, Open(p) PROVE BlockOK'
    BY <2>1 DEF Open
  <2>2. ASSUME NEW p \in Process, Close(p) PROVE BlockOK'
    BY <2>2 DEF Close, Forget, Ready
  <2>3. ASSUME NEW p \in Process, finish(p) PROVE BlockOK'
    BY <2>3 DEF finish, SetWriteState, Ready
  <2>4. ASSUME NEW p \in Process, archive(p) PROVE BlockOK'
    BY <2>4 DEF archive, SetWriteState, Ready
  <2>5. ASSUME NEW p \in Process, Start(p) PROVE BlockOK'
    <3> HIDE DEF FilesOK, ObjectsOK, HolderInv
    <3>1. /\ UNCHANGED <<header, file, entries, pc>> /\ pc[p] = "run"
          /\ holder' = p => \A q \in Process : pc[q] = "run"
          /\ \A q \in Process \ {p} : /\ holder' = q => holder = q
                                    /\ rollback_info'[q] = rollback_info[q]
          /\ rollback_info'[p].last_index = header.last_index
          /\ rollback_info'[p].write_offset = header.write_offset
      BY <2>5, StartFrame DEF Started
    <3>2. header.last_index \in Nat
      BY <1>3, <1>4 DEF FilesOK
    <3> QED
      BY <3>1, <3>2
  <2>6. ASSUME NEW p \in Process, Write(p) PROVE BlockOK'
    <3> HIDE DEF FilesOK, ObjectsOK, HolderInv
    <3> DEFINE r == rollback_info[p]  x == index_info[p]
    <3>1. WriteRecord(p)
      BY <2>6 DEF Write
    <3>2. /\ UNCHANGED <<header, holder, pc>>
          /\ holder = p /\ pc[p] = "run" /\ \A q \in Process \ {p} : holder # q /\ pc[q] = "run"
          /\ file'[r.write_offset].index = r.last_index
          /\ \A s \in Slot \ {r.write_offset} : file'[s] = file[s]
          /\ rollback_info'[p].last_index = r.last_index + 1
          /\ rollback_info'[p].write_offset = r.write_offset + 1
          /\ r.last_index \in Nat
      BY <3>1, <1>4, WriteFrame DEF Wrote
    <3>3. /\ x.write_offset \in Slot
          /\ entries'[x.write_offset].index = r.last_index
          /\ entries'[x.write_offset].offset = r.write_offset
          /\ \A s \in Slot \ {x.write_offset} : entries'[s] = entries[s]
      BY <2>6, EntryFrame DEF Entered
    <3>4. r.write_offset = r.last_index /\ header.last_index <= r.last_index
      BY <3>2
    <3>5. \A s \in Slot : file'[s].index \in {0, s}
      BY <3>2, <3>4
    <3>6. \A s \in Slot : entries'[s].offset = entries'[s].index
      BY <3>3, <3>4
    <3>7. header.last_index \in Nat
      BY <1>3, <1>4 DEF FilesOK
    <3> QED
      BY <3>2, <3>4, <3>5, <3>6, <3>7
  <2>7. ASSUME NEW p \in Process, WriteUnindexed(p) PROVE BlockOK'
    <3> HIDE DEF FilesOK, ObjectsOK, HolderInv
    <3> DEFINE r == rollback_info[p]
    <3>1. WriteRecord(p) /\ entries' = entries
      BY <2>7 DEF WriteUnindexed
    <3>2. /\ UNCHANGED <<header, holder, pc>>
          /\ holder = p /\ pc[p] = "run" /\ \A q \in Process \ {p} : holder # q /\ pc[q] = "run"
          /\ file'[r.write_offset].index = r.last_index
          /\ \A s \in Slot \ {r.write_offset} : file'[s] = file[s]
          /\ rollback_info'[p].last_index = r.last_index + 1
          /\ rollback_info'[p].write_offset = r.write_offset + 1
          /\ r.last_index \in Nat
      BY <3>1, <1>4, WriteFrame DEF Wrote
    <3>4. r.write_offset = r.last_index /\ header.last_index <= r.last_index
      BY <3>2
    <3>5. \A s \in Slot : file'[s].index \in {0, s}
      BY <3>2, <3>4
    <3>7. header.last_index \in Nat
      BY <1>3, <1>4 DEF FilesOK
    <3> QED
      BY <3>1, <3>2, <3>4, <3>5, <3>7
  <2>8. ASSUME NEW p \in Process, Commit(p) PROVE BlockOK'
    BY <2>8 DEF Commit, Ready, in_transaction
  <2>9. ASSUME NEW p \in Process, MarkDeleted(p) PROVE BlockOK'
    <3> HIDE DEF FilesOK, ObjectsOK, HolderInv
    <3> QED
      BY <2>9, DeleteFrame DEF Marking
  <2>10. ASSUME NEW p \in Process, CountDeleted(p) PROVE BlockOK'
    BY <2>10 DEF CountDeleted
  <2>11. ASSUME NEW p \in Process, CommitIndex(p) PROVE BlockOK'
    BY <2>11 DEF CommitIndex
  <2>12. ASSUME NEW p \in Process, ShowEntry(p) PROVE BlockOK'
    <3> HIDE DEF FilesOK, ObjectsOK, HolderInv
    <3>1. /\ UNCHANGED <<block, lock, local>> /\ holder = p /\ pc[p] = "entries"
          /\ pc'[p] \in {"run", "entries"}
          /\ \A q \in Process \ {p} : holder # q /\ pc[q] = "run" /\ pc'[q] = "run"
          /\ \A s \in Slot : /\ entries'[s].index = entries[s].index
                             /\ entries'[s].offset = entries[s].offset
      BY <2>12, ShowFrame DEF Showing
    <3> QED
      BY <3>1
  <2>13. ASSUME NEW p \in Process, IndexLast(p) PROVE BlockOK'
    BY <2>13 DEF IndexLast
  <2>14. ASSUME NEW p \in Process, IndexUsed(p) PROVE BlockOK'
    BY <2>14 DEF IndexUsed
  <2>15. ASSUME NEW p \in Process, IndexOffset(p) PROVE BlockOK'
    BY <2>15 DEF IndexOffset
  <2>16. ASSUME NEW p \in Process, IndexDelete(p) PROVE BlockOK'
    BY <2>16 DEF IndexDelete
  <2>17. ASSUME NEW p \in Process, EndIndex(p) PROVE BlockOK'
    BY <2>17 DEF EndIndex
  <2>18. ASSUME NEW p \in Process, MarkReadable(p) PROVE BlockOK'
    BY <2>18 DEF MarkReadable
  <2>19. ASSUME NEW p \in Process, PublishLast(p) PROVE BlockOK'
    BY <2>19 DEF PublishLast
  <2>20. ASSUME NEW p \in Process, PublishUsed(p) PROVE BlockOK'
    BY <2>20 DEF PublishUsed
  <2>21. ASSUME NEW p \in Process, PublishOffset(p) PROVE BlockOK'
    BY <2>21 DEF PublishOffset
  <2>22. ASSUME NEW p \in Process, PublishCounts(p) PROVE BlockOK'
    BY <2>22 DEF PublishCounts
  <2>23. ASSUME NEW p \in Process, EndCommit(p) PROVE BlockOK'
    BY <2>23 DEF EndCommit, end_transaction
  <2>24. ASSUME NEW p \in Process, rollback(p) PROVE BlockOK'
    BY <2>24 DEF rollback, Ready, in_transaction, end_transaction
  <2>25. ASSUME NEW p \in Process, Crash(p) PROVE BlockOK'
    <3>1. ~Publishing(p) /\ pc'[p] = "run"
      BY <2>25, <1>0 DEF Crash, Faulty, DiedIn, WholeBlock
    <3>2. \A q \in Process \ {p} : /\ pc'[q] = pc[q] /\ (holder' = q => holder = q)
                                /\ rollback_info'[q] = rollback_info[q]
      BY <2>25 DEF Crash, Forget
    <3>3. UNCHANGED <<block, index>> /\ holder' # p
      BY <2>25 DEF Crash
    <3> QED
      BY <3>1, <3>2, <3>3
  <2>26. ASSUME NEW p \in Process, NEW i \in Slot, delete_record(p, i) PROVE BlockOK'
    BY <2>26 DEF delete_record, Ready, in_transaction, Faulty
  <2>27. CASE Expire
    BY <2>27 DEF Expire
  <2>28. CASE UNCHANGED vars
    BY <2>28 DEF vars
  <2> QED
    BY <2>1, <2>2, <2>3, <2>4, <2>5, <2>6, <2>7, <2>8, <2>9, <2>10, <2>11, <2>12, <2>13,
       <2>14, <2>15, <2>16, <2>17, <2>18, <2>19, <2>20, <2>21, <2>22, <2>23, <2>24,
       <2>25, <2>26, <2>27, <2>28
    DEF Next, CommitStep

(* The entries of a transaction follow those of the index, and are its own   *)
(* until its commit shows them.                                              *)
Place(p) ==
  LET x == index_info[p] IN
  /\ pc[p] \notin {"records", "used", "offset", "counts", "end"} =>
       1 <= x.start_offset /\ x.start_offset <= x.write_offset
  /\ Collecting(p) \/ Settling(p) => x.start_offset = index_header.write_offset
  /\ pc[p] = "entries" => x.start_offset <= cursor
  /\ Collecting(p) => \A s \in Slot :
       (/\ x.start_offset <= s /\ s < x.write_offset
        /\ pc[p] = "entries" => cursor <= s)
       => entries[s].state = "USED"
PlaceInv == /\ index_header.write_offset >= 1
            /\ \A p \in Process : holder = p => Place(p)

LEMMA StepPlace ==
  ASSUME TypeOK, HolderInv, OpenInv, PlaceInv, [Next]_vars
  PROVE  PlaceInv'
<1>3. FilesOK /\ ObjectsOK
  BY DEF TypeOK
<1>4. Slot \subseteq Nat
  BY Ranges
<1> USE <1>3, <1>4, ProcessAssumption DEF PlaceInv, Place, FilesOK, ObjectsOK, HolderInv,
        Collecting, Settling, Goto, block, index, lock, local, commit
<1> QED
  <2>1. ASSUME NEW p \in Process, Open(p) PROVE PlaceInv'
    BY <2>1 DEF Open
  <2>2. ASSUME NEW p \in Process, Close(p) PROVE PlaceInv'
    BY <2>2 DEF Close, Forget, Ready
  <2>3. ASSUME NEW p \in Process, finish(p) PROVE PlaceInv'
    BY <2>3 DEF finish, SetWriteState, Ready
  <2>4. ASSUME NEW p \in Process, archive(p) PROVE PlaceInv'
    BY <2>4 DEF archive, SetWriteState, Ready
  <2>5. ASSUME NEW p \in Process, Start(p) PROVE PlaceInv'
    <3> HIDE DEF FilesOK, ObjectsOK, HolderInv
    <3>1. /\ UNCHANGED <<index_header, entries, pc, cursor>> /\ pc[p] = "run"
          /\ \A q \in Process \ {p} : /\ holder' = q => holder = q
                                    /\ index_info'[q] = index_info[q]
          /\ index_info'[p].start_offset = index_header.write_offset
          /\ index_info'[p].write_offset = index_header.write_offset
      BY <2>5, StartFrame DEF Started
    <3>2. index_header.write_offset \in Nat
      BY <1>3, Ranges DEF FilesOK
    <3> QED
      BY <3>1, <3>2
  <2>6. ASSUME NEW p \in Process, Write(p) PROVE PlaceInv'
    <3> HIDE DEF FilesOK, ObjectsOK, HolderInv
    <3> DEFINE x == index_info[p]
    <3>1. /\ UNCHANGED <<holder, pc, cursor>>
          /\ holder = p /\ pc[p] = "run" /\ \A q \in Process \ {p} : holder # q
      BY <2>6, WriteFrame DEF Wrote, Write
    <3>3. /\ x.write_offset \in Slot /\ index_header' = index_header
          /\ entries'[x.write_offset].state = "USED"
          /\ \A s \in Slot \ {x.write_offset} : entries'[s] = entries[s]
          /\ index_info'[p].start_offset = x.start_offset
          /\ index_info'[p].write_offset = x.write_offset + 1
      BY <2>6, EntryFrame DEF Entered
    <3>4. Place(p)
      BY <3>1
    <3>5. x.start_offset \in Nat /\ x.write_offset \in Nat
      BY <1>3, Ranges DEF ObjectsOK, RollbackInfo
    <3>6. \A s \in Slot : x.start_offset <= s /\ s < x.write_offset + 1 => entries'[s].state = "USED"
      <4> SUFFICES ASSUME NEW s \in Slot, x.start_offset <= s, s < x.write_offset + 1
                   PROVE  entries'[s].state = "USED"
        OBVIOUS
      <4>1. CASE s = x.write_offset
        BY <4>1, <3>3
      <4>2. CASE s # x.write_offset
        <5>0. s \in Nat /\ s < x.write_offset + 1
          BY <1>4
        <5> DEFINE w == x.write_offset
        <5>1. s < x.write_offset
          <6>1. w \in Nat /\ s # w /\ s < w + 1
            BY <3>5, <4>2, <5>0
          <6> HIDE DEF w
          <6>2. s < w
            BY <5>0, <6>1
          <6> QED
            BY <6>2 DEF w
        <5>2. entries[s].state = "USED"
          BY <5>1, <3>1, <3>4
        <5> QED
          BY <4>2, <5>2, <3>3
      <4> QED
        BY <4>1, <4>2
    <3>7. Place(p)'
      BY <3>1, <3>3, <3>4, <3>5, <3>6
    <3> QED
      BY <3>1, <3>3, <3>7
  <2>7. ASSUME NEW p \in Process, WriteUnindexed(p) PROVE PlaceInv'
    BY <2>7 DEF WriteUnindexed, WriteRecord, Ready, in_transaction, Faulty
  <2>8. ASSUME NEW p \in Process, Commit(p) PROVE PlaceInv'
    BY <2>8 DEF Commit, Ready, in_transaction
  <2>9. ASSUME NEW p \in Process, MarkDeleted(p) PROVE PlaceInv'
    <3> HIDE DEF FilesOK, ObjectsOK, HolderInv
    <3> QED
      BY <2>9, DeleteFrame DEF Marking
  <2>10. ASSUME NEW p \in Process, CountDeleted(p) PROVE PlaceInv'
    BY <2>10 DEF CountDeleted
  <2>11. ASSUME NEW p \in Process, CommitIndex(p) PROVE PlaceInv'
    <3> HIDE DEF FilesOK, ObjectsOK, HolderInv
    <3>1. /\ UNCHANGED <<index_header, entries, holder, index_info>> /\ pc[p] = "deletes"
          /\ cursor' = index_info[p].start_offset
      BY <2>11 DEF CommitIndex
    <3>2. holder = p /\ pc'[p] = "entries" /\ \A q \in Process \ {p} : holder # q
      BY <2>11, <1>3, MoveFrame DEF CommitIndex
    <3>5. index_info[p].start_offset \in Nat
      BY <1>3, Ranges DEF ObjectsOK, RollbackInfo
    <3>6. Place(p)
      BY <3>2
    <3>7. Place(p)'
      BY <3>1, <3>2, <3>5, <3>6
    <3> QED
      BY <3>1, <3>2, <3>7
  <2>12. ASSUME NEW p \in Process, ShowEntry(p) PROVE PlaceInv'
    <3> HIDE DEF FilesOK, ObjectsOK, HolderInv
    <3>1. /\ UNCHANGED <<index_header, holder, index_info>> /\ pc[p] = "entries" /\ holder = p
          /\ cursor < index_info[p].write_offset
          /\ \A q \in Process \ {p} : holder # q
      BY <2>12, ShowFrame DEF Showing
    <3>2. cursor \in Nat /\ index_info[p].start_offset \in Nat /\ index_info[p].write_offset \in Nat
      BY <1>3, Ranges DEF ObjectsOK, RollbackInfo
    <3>3. Place(p) /\ cursor \in Slot
      <4>1. Place(p) /\ cursor >= 1
        BY <3>1, <3>2
      <4>2. index_info[p].write_offset <= MaxRecords + 2
        BY <1>3 DEF ObjectsOK, RollbackInfo, Offset
      <4> QED
        BY <4>1, <4>2, <3>1, <3>2, BoundAssumption DEF Slot
    <3>4. entries[cursor].state = "USED"
      BY <3>1, <3>2, <3>3
    <3>5. /\ pc'[p] = "entries" /\ cursor' = cursor + 1
          /\ \A s \in Slot : s # cursor => entries'[s].state = entries[s].state
      BY <2>12, <3>4, ShowFrame DEF Showing
    <3>6. \A s \in Slot : /\ index_info[p].start_offset <= s /\ s < index_info[p].write_offset
                          /\ cursor + 1 <= s
                          => entries'[s].state = "USED"
      BY <3>1, <3>2, <3>3, <3>5
    <3>7. Place(p)'
      BY <3>1, <3>2, <3>3, <3>5, <3>6
    <3> QED
      BY <3>1, <3>7
  <2>13. ASSUME NEW p \in Process, IndexLast(p) PROVE PlaceInv'
    BY <2>13 DEF IndexLast
  <2>14. ASSUME NEW p \in Process, IndexUsed(p) PROVE PlaceInv'
    BY <2>14 DEF IndexUsed
  <2>15. ASSUME NEW p \in Process, IndexOffset(p) PROVE PlaceInv'
    <3> HIDE DEF FilesOK, ObjectsOK, HolderInv
    <3>1. /\ UNCHANGED <<entries, holder, index_info>> /\ pc[p] = "index_offset"
      BY <2>15 DEF IndexOffset
    <3>2. holder = p /\ pc'[p] = "index_deletes" /\ \A q \in Process \ {p} : holder # q
      BY <2>15, <1>3, MoveFrame DEF IndexOffset
    <3>3. index_header'.write_offset = index_info[p].write_offset
      BY <2>15, <1>3 DEF IndexOffset, FilesOK
    <3>5. index_info[p].start_offset \in Nat /\ index_info[p].write_offset \in Nat
      BY <1>3, Ranges DEF ObjectsOK, RollbackInfo
    <3> QED
      BY <3>1, <3>2, <3>3, <3>5
  <2>16. ASSUME NEW p \in Process, IndexDelete(p) PROVE PlaceInv'
    BY <2>16 DEF IndexDelete
  <2>17. ASSUME NEW p \in Process, EndIndex(p) PROVE PlaceInv'
    BY <2>17 DEF EndIndex
  <2>18. ASSUME NEW p \in Process, MarkReadable(p) PROVE PlaceInv'
    BY <2>18 DEF MarkReadable
  <2>19. ASSUME NEW p \in Process, PublishLast(p) PROVE PlaceInv'
    BY <2>19 DEF PublishLast
  <2>20. ASSUME NEW p \in Process, PublishUsed(p) PROVE PlaceInv'
    BY <2>20 DEF PublishUsed
  <2>21. ASSUME NEW p \in Process, PublishOffset(p) PROVE PlaceInv'
    BY <2>21 DEF PublishOffset
  <2>22. ASSUME NEW p \in Process, PublishCounts(p) PROVE PlaceInv'
    BY <2>22 DEF PublishCounts
  <2>23. ASSUME NEW p \in Process, EndCommit(p) PROVE PlaceInv'
    BY <2>23 DEF EndCommit, end_transaction
  <2>24. ASSUME NEW p \in Process, rollback(p) PROVE PlaceInv'
    BY <2>24 DEF rollback, Ready, in_transaction, end_transaction
  <2>25. ASSUME NEW p \in Process, Crash(p) PROVE PlaceInv'
    BY <2>25 DEF Crash, Forget, Faulty
  <2>26. ASSUME NEW p \in Process, NEW i \in Slot, delete_record(p, i) PROVE PlaceInv'
    BY <2>26 DEF delete_record, Ready, in_transaction, Faulty
  <2>27. CASE Expire
    BY <2>27 DEF Expire
  <2>28. CASE UNCHANGED vars
    BY <2>28 DEF vars
  <2> QED
    BY <2>1, <2>2, <2>3, <2>4, <2>5, <2>6, <2>7, <2>8, <2>9, <2>10, <2>11, <2>12, <2>13,
       <2>14, <2>15, <2>16, <2>17, <2>18, <2>19, <2>20, <2>21, <2>22, <2>23, <2>24,
       <2>25, <2>26, <2>27, <2>28
    DEF Next, CommitStep

----------------------------------------------------------------------------
(* Once the block is settled nothing is left to delete, and a transaction    *)
(* that deletes only what others committed deletes below the block's end.    *)
OwnInv ==
  /\ \A p \in Process : pc[p] \in {"records", "used", "offset", "counts", "end"} => deletes[p] = <<>>
  /\ "own" \notin faults =>
       \A p \in Process : holder = p =>
         \A k \in DOMAIN deletes[p] : deletes[p][k] < header.last_index

LEMMA StepOwn ==
  ASSUME TypeOK, HolderInv, OwnInv, [Next]_vars
  PROVE  OwnInv'
<1>3. FilesOK /\ ObjectsOK
  BY DEF TypeOK
<1>4. Slot \subseteq Nat /\ header.last_index \in Slot
  BY Ranges DEF TypeOK, FilesOK
<1>5. faults \subseteq faults'
  BY FaultsGrow
<1> USE <1>3, <1>4, <1>5, ProcessAssumption DEF OwnInv, FilesOK, ObjectsOK, HolderInv, Goto, block,
        index, lock, local, commit
<1> QED
  <2>1. ASSUME NEW p \in Process, Open(p) PROVE OwnInv'
    BY <2>1 DEF Open
  <2>2. ASSUME NEW p \in Process, Close(p) PROVE OwnInv'
    BY <2>2 DEF Close, Forget, Ready
  <2>3. ASSUME NEW p \in Process, finish(p) PROVE OwnInv'
    BY <2>3 DEF finish, SetWriteState, Ready
  <2>4. ASSUME NEW p \in Process, archive(p) PROVE OwnInv'
    BY <2>4 DEF archive, SetWriteState, Ready
  <2>5. ASSUME NEW p \in Process, Start(p) PROVE OwnInv'
    <3> HIDE DEF FilesOK, ObjectsOK, HolderInv
    <3>1. /\ UNCHANGED <<header, pc, faults>> /\ pc[p] = "run" /\ deletes'[p] = <<>>
          /\ \A q \in Process \ {p} : /\ holder' = q => holder = q
                                    /\ deletes'[q] = deletes[q]
      BY <2>5, StartFrame DEF Started
    <3> QED
      BY <3>1
  <2>6. ASSUME NEW p \in Process, Write(p) PROVE OwnInv'
    BY <2>6 DEF Write, WriteRecord, Ready, in_transaction
  <2>7. ASSUME NEW p \in Process, WriteUnindexed(p) PROVE OwnInv'
    BY <2>7 DEF WriteUnindexed, WriteRecord, Ready, in_transaction, Faulty
  <2>8. ASSUME NEW p \in Process, Commit(p) PROVE OwnInv'
    BY <2>8 DEF Commit, Ready, in_transaction
  <2>9. ASSUME NEW p \in Process, MarkDeleted(p) PROVE OwnInv'
    <3> HIDE DEF FilesOK, ObjectsOK, HolderInv
    <3> QED
      BY <2>9, DeleteFrame DEF Marking
  <2>10. ASSUME NEW p \in Process, CountDeleted(p) PROVE OwnInv'
    BY <2>10 DEF CountDeleted
  <2>11. ASSUME NEW p \in Process, CommitIndex(p) PROVE OwnInv'
    BY <2>11 DEF CommitIndex
  <2>12. ASSUME NEW p \in Process, ShowEntry(p) PROVE OwnInv'
    BY <2>12 DEF ShowEntry
  <2>13. ASSUME NEW p \in Process, IndexLast(p) PROVE OwnInv'
    BY <2>13 DEF IndexLast
  <2>14. ASSUME NEW p \in Process, IndexUsed(p) PROVE OwnInv'
    BY <2>14 DEF IndexUsed
  <2>15. ASSUME NEW p \in Process, IndexOffset(p) PROVE OwnInv'
    BY <2>15 DEF IndexOffset
  <2>16. ASSUME NEW p \in Process, IndexDelete(p) PROVE OwnInv'
    BY <2>16 DEF IndexDelete
  <2>17. ASSUME NEW p \in Process, EndIndex(p) PROVE OwnInv'
    <3> HIDE DEF FilesOK, ObjectsOK, HolderInv
    <3>1. /\ UNCHANGED <<header, holder, faults>> /\ pc[p] = "index_deletes"
          /\ deletes' = [deletes EXCEPT ![p] = <<>>]
      BY <2>17 DEF EndIndex
    <3>2. holder = p /\ pc'[p] = "records" /\ \A q \in Process \ {p} : holder # q /\ pc'[q] = "run"
      BY <2>17, <1>3, MoveFrame DEF EndIndex
    <3>3. deletes'[p] = <<>> /\ \A q \in Process \ {p} : deletes'[q] = deletes[q]
      BY <3>1, <1>3 DEF ObjectsOK
    <3> QED
      BY <3>1, <3>2, <3>3
  <2>18. ASSUME NEW p \in Process, MarkReadable(p) PROVE OwnInv'
    BY <2>18 DEF MarkReadable
  <2>19. ASSUME NEW p \in Process, PublishLast(p) PROVE OwnInv'
    <3> HIDE DEF FilesOK, ObjectsOK, HolderInv
    <3>1. UNCHANGED <<faults, deletes, holder>> /\ pc[p] = "records"
      BY <2>19 DEF PublishLast
    <3>2. holder = p /\ pc'[p] = "used" /\ \A q \in Process \ {p} : holder # q /\ pc'[q] = "run"
      BY <2>19, <1>3, MoveFrame DEF PublishLast
    <3>3. deletes[p] = <<>>
      BY <3>1
    <3> QED
      BY <3>1, <3>2, <3>3
  <2>20. ASSUME NEW p \in Process, PublishUsed(p) PROVE OwnInv'
    BY <2>20 DEF PublishUsed
  <2>21. ASSUME NEW p \in Process, PublishOffset(p) PROVE OwnInv'
    BY <2>21 DEF PublishOffset
  <2>22. ASSUME NEW p \in Process, PublishCounts(p) PROVE OwnInv'
    BY <2>22 DEF PublishCounts
  <2>23. ASSUME NEW p \in Process, EndCommit(p) PROVE OwnInv'
    BY <2>23 DEF EndCommit, end_transaction
  <2>24. ASSUME NEW p \in Process, rollback(p) PROVE OwnInv'
    <3>1. deletes'[p] = <<>>
          /\ (\A q \in Process \ {p} : deletes'[q] = deletes[q]) /\ holder' = NoProcess
          /\ UNCHANGED <<header, pc, faults>>
      BY <2>24 DEF rollback, end_transaction
    <3> HIDE DEF FilesOK, ObjectsOK, HolderInv
    <3> QED
      BY <3>1
  <2>25. ASSUME NEW p \in Process, Crash(p) PROVE OwnInv'
    BY <2>25 DEF Crash, Forget, Faulty
  <2>26. ASSUME NEW p \in Process, NEW i \in Slot, delete_record(p, i) PROVE OwnInv'
    <3>1. /\ UNCHANGED <<header, holder, pc>> /\ faults \subseteq faults' /\ pc[p] = "run"
          /\ deletes' = [deletes EXCEPT ![p] = Append(@, i)]
          /\ i >= header.last_index => "own" \in faults'
      BY <2>26 DEF delete_record, Faulty, Ready
    <3>2. deletes[p] \in Seq(Slot)
      OBVIOUS
    <3>3. /\ \A q \in Process \ {p} : deletes'[q] = deletes[q]
          /\ deletes'[p] = Append(deletes[p], i)
      BY <3>1
    <3>4. /\ DOMAIN deletes'[p] = 1 .. Len(deletes[p]) + 1 /\ DOMAIN deletes[p] = 1 .. Len(deletes[p])
          /\ deletes'[p][Len(deletes[p]) + 1] = i
          /\ \A k \in DOMAIN deletes[p] : deletes'[p][k] = deletes[p][k]
      BY <3>2, <3>3
    <3>5. "own" \notin faults' => i < header.last_index
      <4> HIDE DEF FilesOK, ObjectsOK, HolderInv, OwnInv
      <4> DEFINE l == header.last_index
      <4>1. i \in Nat /\ l \in Nat
        BY <1>4
      <4>2. i >= l => "own" \in faults'
        BY <3>1
      <4> HIDE DEF l
      <4>3. "own" \notin faults' => i < l
        BY <4>1, <4>2
      <4> QED
        BY <4>3 DEF l
    <3>6. "own" \notin faults'
          /\ holder = p => \A k \in DOMAIN deletes'[p] : deletes'[p][k] < header.last_index
      BY <3>1, <3>4, <3>5
    <3> HIDE DEF FilesOK, ObjectsOK, HolderInv
    <3> QED
      BY <3>1, <3>3, <3>6
  <2>27. CASE Expire
    BY <2>27 DEF Expire
  <2>28. CASE UNCHANGED vars
    BY <2>28 DEF vars
  <2> QED
    BY <2>1, <2>2, <2>3, <2>4, <2>5, <2>6, <2>7, <2>8, <2>9, <2>10, <2>11, <2>12, <2>13,
       <2>14, <2>15, <2>16, <2>17, <2>18, <2>19, <2>20, <2>21, <2>22, <2>23, <2>24,
       <2>25, <2>26, <2>27, <2>28
    DEF Next, CommitStep

(* How far the index is, compared to a block whose next record is l: level   *)
(* with it, or ahead by what a torn commit left.                             *)
Kept == faults \cap {"torn_block", "unindexed"} = {}
Front(l, il, iw) ==
  IF l = 1 THEN il >= 1 /\ ("torn_first" \notin faults => il = 1 /\ iw = 1)
  ELSE il >= l \/ (il = l - 1 /\ iw >= l /\ ("torn_first" \notin faults => iw = l))
Ahead(p) ==
  LET n == rollback_info[p].last_index  x == index_info[p]  l == header.last_index IN
  /\ Collecting(p) =>
       /\ x.write_offset = index_header.write_offset + (n - l)
       /\ n = l => x.last_index = index_header.last_index
       /\ n > l => x.last_index = n - 1 /\ (l = 1 \/ index_header.last_index = l - 1)
  /\ Settling(p) => /\ Front(n, x.last_index, x.write_offset)
                    /\ index_header.last_index = x.last_index
                    /\ n = l => index_header.write_offset = x.write_offset
  /\ Indexed(p) => Front(n, index_header.last_index, index_header.write_offset)
FrontOK ==
  /\ (\A p \in Process : ~Settling(p) /\ ~Indexed(p)) =>
       Front(header.last_index, index_header.last_index, index_header.write_offset)
  /\ \A p \in Process : holder = p => Ahead(p)
FrontInv == Kept => FrontOK

(* The index of a transaction that is about to be published is level with it *)
(* too.                                                                      *)
LEMMA FrontOfTransaction ==
  ASSUME NEW l \in Nat \ {0}, NEW il \in Nat, NEW iw \in Nat, NEW n \in Nat, NEW xl \in Nat,
         NEW xw \in Nat, Front(l, il, iw), iw >= 1, l <= n, xw = iw + (n - l), n = l => xl = il,
         n > l => xl = n - 1 /\ (l = 1 \/ il = l - 1)
  PROVE  Front(n, xl, xw)
BY DEF Front

LEMMA StepFront ==
  ASSUME TypeOK, HolderInv, OpenInv, BlockInv, PlaceInv, FrontInv, [Next]_vars
  PROVE  FrontInv'
<1> SUFFICES ASSUME Kept' PROVE FrontOK'
  BY DEF FrontInv
<1>1. Kept
  BY FaultsGrow DEF Kept
<1>0. Kept'
  OBVIOUS
<1>2. FrontOK
  BY <1>1 DEF FrontInv
<1>3. FilesOK /\ ObjectsOK
  BY DEF TypeOK
<1>4. faults \subseteq faults'
  BY FaultsGrow
<1>5. /\ header.last_index \in Nat \ {0} /\ index_header.last_index \in Nat
      /\ index_header.write_offset \in Nat
      /\ \A p \in Process : /\ rollback_info[p].last_index \in Nat /\ index_info[p].last_index \in Nat
                            /\ index_info[p].write_offset \in Nat
  BY Ranges DEF TypeOK, FilesOK, ObjectsOK, RollbackInfo
<1>6. \A p \in Process : holder = p /\ Preparing(p) => header.last_index <= rollback_info[p].last_index
  BY <1>1 DEF BlockInv, BlockOK, Kept, WholeBlock
<1>7. index_header.write_offset >= 1
  BY DEF PlaceInv
<1> USE <1>2, <1>3, <1>4, ProcessAssumption DEF FrontOK, Ahead, Front, Collecting, Settling,
        Indexed, FilesOK, ObjectsOK, HolderInv, Goto, block, index, lock, local, commit
<1> QED
  <2>1. ASSUME NEW p \in Process, Open(p) PROVE FrontOK'
    BY <2>1 DEF Open
  <2>2. ASSUME NEW p \in Process, Close(p) PROVE FrontOK'
    BY <2>2 DEF Close, Forget, Ready
  <2>3. ASSUME NEW p \in Process, finish(p) PROVE FrontOK'
    BY <2>3 DEF finish, SetWriteState, Ready
  <2>4. ASSUME NEW p \in Process, archive(p) PROVE FrontOK'
    BY <2>4 DEF archive, SetWriteState, Ready
  <2>5. ASSUME NEW p \in Process, Start(p) PROVE FrontOK'
    <3> HIDE DEF FilesOK, ObjectsOK, HolderInv
    <3>1. /\ UNCHANGED <<header, index_header, pc, faults>> /\ pc[p] = "run"
          /\ \A q \in Process \ {p} : /\ holder' = q => holder = q
                                    /\ rollback_info'[q] = rollback_info[q]
                                    /\ index_info'[q] = index_info[q]
          /\ rollback_info'[p].last_index = header.last_index
          /\ index_info'[p].last_index = index_header.last_index
          /\ index_info'[p].write_offset = index_header.write_offset
      BY <2>5, StartFrame DEF Started
    <3>2. header.last_index \in Nat /\ index_header.write_offset \in Nat
      BY <1>5
    <3> QED
      BY <3>1, <3>2
  <2>6. ASSUME NEW p \in Process, Write(p) PROVE FrontOK'
    <3> HIDE DEF FilesOK, ObjectsOK, HolderInv
    <3> DEFINE n == rollback_info[p].last_index  x == index_info[p]
    <3>1. /\ UNCHANGED <<header, holder, pc>> /\ holder = p /\ pc[p] = "run"
          /\ \A q \in Process \ {p} : holder # q
          /\ rollback_info'[p].last_index = n + 1
      BY <2>6, WriteFrame DEF Wrote, Write
    <3>2. /\ UNCHANGED <<index_header, faults>>
          /\ index_info'[p].last_index = n /\ index_info'[p].write_offset = x.write_offset + 1
      BY <2>6, EntryFrame DEF Entered
    <3>3. n = 1 \/ n = x.last_index + 1
      BY <2>6 DEF Write, Accepts
    <3>4. Ahead(p) /\ header.last_index <= n /\ Preparing(p)
      BY <3>1, <1>6 DEF Preparing
    <3>6. Ahead(p)'
      BY <3>1, <3>2, <3>3, <3>4, <1>5
    <3> QED
      BY <3>1, <3>2, <3>6
  <2>7. ASSUME NEW p \in Process, WriteUnindexed(p) PROVE FrontOK'
    <3> HIDE DEF FilesOK, ObjectsOK, HolderInv
    <3> QED
      BY <2>7, <1>0 DEF WriteUnindexed, Faulty, Kept
  <2>8. ASSUME NEW p \in Process, Commit(p) PROVE FrontOK'
    BY <2>8 DEF Commit, Ready, in_transaction
  <2>9. ASSUME NEW p \in Process, MarkDeleted(p) PROVE FrontOK'
    <3> HIDE DEF FilesOK, ObjectsOK, HolderInv
    <3> QED
      BY <2>9, DeleteFrame DEF Marking
  <2>10. ASSUME NEW p \in Process, CountDeleted(p) PROVE FrontOK'
    BY <2>10 DEF CountDeleted
  <2>11. ASSUME NEW p \in Process, CommitIndex(p) PROVE FrontOK'
    BY <2>11 DEF CommitIndex
  <2>12. ASSUME NEW p \in Process, ShowEntry(p) PROVE FrontOK'
    <3> HIDE DEF FilesOK, ObjectsOK, HolderInv
    <3> QED
      BY <2>12, ShowFrame DEF Showing
  <2>13. ASSUME NEW p \in Process, IndexLast(p) PROVE FrontOK'
    <3> HIDE DEF FilesOK, ObjectsOK, HolderInv
    <3>1. UNCHANGED <<header, faults, rollback_info, index_info, holder>> /\ pc[p] = "entries"
      BY <2>13 DEF IndexLast
    <3>2. holder = p /\ pc'[p] = "index_used"
          /\ \A q \in Process \ {p} : holder # q /\ pc[q] = "run"
      BY <2>13, <1>3, MoveFrame DEF IndexLast
    <3>3. /\ index_header'.last_index = index_info[p].last_index
          /\ index_header'.write_offset = index_header.write_offset
      BY <2>13, <1>3 DEF IndexLast, FilesOK
    <3>4. Ahead(p) /\ header.last_index <= rollback_info[p].last_index
      BY <3>1, <3>2, <1>6 DEF Preparing
    <3>5. Front(header.last_index, index_header.last_index, index_header.write_offset)
      BY <3>1, <3>2
    <3>6. Front(rollback_info[p].last_index, index_info[p].last_index, index_info[p].write_offset)
      <4> DEFINE l == header.last_index  il == index_header.last_index
                 iw == index_header.write_offset  n == rollback_info[p].last_index
                 xl == index_info[p].last_index  xw == index_info[p].write_offset
      <4>1. /\ l <= n /\ xw = iw + (n - l)
            /\ n = l => xl = il
            /\ n > l => xl = n - 1 /\ (l = 1 \/ il = l - 1)
        BY <3>1, <3>4
      <4>2. /\ l \in Nat \ {0} /\ il \in Nat /\ iw \in Nat /\ n \in Nat /\ xl \in Nat
            /\ xw \in Nat /\ iw >= 1
        BY <1>5, <1>7
      <4>3. Front(l, il, iw)
        BY <3>5
      <4> HIDE DEF Front, l, il, iw, n, xl, xw
      <4>4. Front(n, xl, xw)
        BY <4>1, <4>2, <4>3, FrontOfTransaction
      <4> QED
        BY <4>4 DEF n, xl, xw
    <3>7. Ahead(p)'
      BY <3>1, <3>2, <3>3, <3>4, <3>6, <1>5
    <3> QED
      BY <3>1, <3>2, <3>7
  <2>14. ASSUME NEW p \in Process, IndexUsed(p) PROVE FrontOK'
    <3> HIDE DEF FilesOK, ObjectsOK, HolderInv
    <3>1. UNCHANGED <<header, faults, rollback_info, index_info, holder>> /\ pc[p] = "index_used"
      BY <2>14 DEF IndexUsed
    <3>2. holder = p /\ pc'[p] = "index_offset"
          /\ \A q \in Process \ {p} : holder # q /\ pc[q] = "run"
      BY <2>14, <1>3, MoveFrame DEF IndexUsed
    <3>3. /\ index_header'.last_index = index_header.last_index
          /\ index_header'.write_offset = index_header.write_offset
      BY <2>14, <1>3 DEF IndexUsed, FilesOK
    <3> QED
      BY <3>1, <3>2, <3>3
  <2>15. ASSUME NEW p \in Process, IndexOffset(p) PROVE FrontOK'
    <3> HIDE DEF FilesOK, ObjectsOK, HolderInv
    <3>1. UNCHANGED <<header, faults, rollback_info, index_info, holder>> /\ pc[p] = "index_offset"
      BY <2>15 DEF IndexOffset
    <3>2. holder = p /\ pc'[p] = "index_deletes"
          /\ \A q \in Process \ {p} : holder # q /\ pc[q] = "run"
      BY <2>15, <1>3, MoveFrame DEF IndexOffset
    <3>3. /\ index_header'.last_index = index_header.last_index
          /\ index_header'.write_offset = index_info[p].write_offset
      BY <2>15, <1>3 DEF IndexOffset, FilesOK
    <3> QED
      BY <3>1, <3>2, <3>3
  <2>16. ASSUME NEW p \in Process, IndexDelete(p) PROVE FrontOK'
    BY <2>16 DEF IndexDelete
  <2>17. ASSUME NEW p \in Process, EndIndex(p) PROVE FrontOK'
    <3> HIDE DEF FilesOK, ObjectsOK, HolderInv
    <3>1. UNCHANGED <<header, index_header, faults, rollback_info, holder>>
          /\ pc[p] = "index_deletes"
      BY <2>17 DEF EndIndex
    <3>2. holder = p /\ pc'[p] = "records" /\ \A q \in Process \ {p} : holder # q /\ pc[q] = "run"
      BY <2>17, <1>3, MoveFrame DEF EndIndex
    <3> QED
      BY <3>1, <3>2
  <2>18. ASSUME NEW p \in Process, MarkReadable(p) PROVE FrontOK'
    BY <2>18 DEF MarkReadable
  <2>19. ASSUME NEW p \in Process, PublishLast(p) PROVE FrontOK'
    <3> HIDE DEF FilesOK, ObjectsOK, HolderInv
    <3>1. UNCHANGED <<index_header, faults, rollback_info, holder>> /\ pc[p] = "records"
      BY <2>19 DEF PublishLast
    <3>2. holder = p /\ pc'[p] = "used" /\ \A q \in Process \ {p} : holder # q /\ pc[q] = "run"
      BY <2>19, <1>3, MoveFrame DEF PublishLast
    <3>3. header'.last_index = rollback_info[p].last_index
      BY <2>19, <1>3 DEF PublishLast, FilesOK
    <3> QED
      BY <3>1, <3>2, <3>3
  <2>20. ASSUME NEW p \in Process, PublishUsed(p) PROVE FrontOK'
    BY <2>20 DEF PublishUsed
  <2>21. ASSUME NEW p \in Process, PublishOffset(p) PROVE FrontOK'
    BY <2>21 DEF PublishOffset
  <2>22. ASSUME NEW p \in Process, PublishCounts(p) PROVE FrontOK'
    BY <2>22 DEF PublishCounts
  <2>23. ASSUME NEW p \in Process, EndCommit(p) PROVE FrontOK'
    BY <2>23 DEF EndCommit, end_transaction
  <2>24. ASSUME NEW p \in Process, rollback(p) PROVE FrontOK'
    BY <2>24 DEF rollback, Ready, in_transaction, end_transaction
  <2>25. ASSUME NEW p \in Process, Crash(p) PROVE FrontOK'
    <3> HIDE DEF FilesOK, ObjectsOK, HolderInv
    <3>1. pc'[p] = "run"
          /\ holder' # p /\ UNCHANGED <<block, index>> /\ faults' = faults \cup DiedIn(p)
      BY <2>25, <1>3 DEF Crash, Faulty, ObjectsOK
    <3>2. \A q \in Process \ {p} : /\ pc'[q] = pc[q] /\ (holder' = q => holder = q)
                                /\ rollback_info'[q] = rollback_info[q] /\ index_info'[q] = index_info[q]
      BY <2>25, <1>3 DEF Crash, Forget, ObjectsOK
    <3>3. \A q \in Process \ {p} : holder' = q => Ahead(q)'
      BY <3>1, <3>2
    <3>4. ASSUME \A q \in Process : ~Settling(q)' /\ ~Indexed(q)'
          PROVE  Front(header.last_index, index_header.last_index, index_header.write_offset)'
      <4> DEFINE l == header.last_index  il == index_header.last_index
                 iw == index_header.write_offset  n == rollback_info[p].last_index
      <4>1. CASE \A q \in Process : ~Settling(q) /\ ~Indexed(q)
        <5>1. Front(l, il, iw)
          BY <4>1
        <5> QED
          BY <5>1, <3>1
      <4>2. CASE Settling(p) \/ Indexed(p)
        <5>1. holder = p /\ Preparing(p) /\ pc[p] # "run"
          BY <4>2, <1>3 DEF HolderInv, Preparing
        <5>2. l <= n
          BY <5>1, <1>6
        <5>3. l = 1 => "torn_first" \in faults'
          BY <4>2, <3>1 DEF DiedIn
        <5>4. PICK xw \in Nat : Front(n, il, xw) /\ (n = l => iw = xw)
          BY <4>2, <5>1, <1>5
        <5>5. /\ l \in Nat \ {0} /\ il \in Nat /\ iw \in Nat /\ n \in Nat /\ xw \in Nat
          BY <1>5
        <5>6. IF l = 1 THEN il >= 1 /\ ("torn_first" \notin faults' => il = 1 /\ iw = 1)
               ELSE il >= l \/ (il = l - 1 /\ iw >= l /\ ("torn_first" \notin faults' => iw = l))
          <6> HIDE DEF l, il, iw, n
          <6> QED
            BY <5>2, <5>3, <5>4, <5>5, <1>4
        <5> QED
          BY <5>6, <3>1
      <4> QED
        BY <4>1, <4>2, <3>1, <3>2, <3>4
    <3> QED
      BY <3>1, <3>3, <3>4
  <2>26. ASSUME NEW p \in Process, NEW i \in Slot, delete_record(p, i) PROVE FrontOK'
    BY <2>26 DEF delete_record, Ready, in_transaction, Faulty
  <2>27. CASE Expire
    BY <2>27 DEF Expire
  <2>28. CASE UNCHANGED vars
    BY <2>28 DEF vars
  <2> QED
    BY <2>1, <2>2, <2>3, <2>4, <2>5, <2>6, <2>7, <2>8, <2>9, <2>10, <2>11, <2>12, <2>13,
       <2>14, <2>15, <2>16, <2>17, <2>18, <2>19, <2>20, <2>21, <2>22, <2>23, <2>24,
       <2>25, <2>26, <2>27, <2>28
    DEF Next, CommitStep

----------------------------------------------------------------------------
(* The committed records are where the index says, and so are those of the   *)
(* transaction, which the commit shows in the index first, in the block then.*)
Safe == faults \cap {"torn_first", "torn_block", "unindexed"} = {}
Both(s) == entries[s].index = s /\ file[s].index = s
Settled(i) == /\ Both(i)
              /\ entries[i].state \in {"READABLE", "DELETED"}
              /\ file[i].state \in {"READABLE", "DELETED"}
Fresh(p, s) ==
  /\ Both(s)
  /\ pc[p] = "entries" /\ s < cursor => entries[s].state = "READABLE"
  /\ ~Collecting(p) => \/ entries[s].state = "READABLE"
                       \/ "own" \in faults /\ entries[s].state = "DELETED"
  /\ pc[p] = "records" /\ s < cursor => file[s].state = "READABLE"
InBlock(s) == s < header.last_index
InTransaction(p, s) == header.last_index <= s /\ s < rollback_info[p].last_index
AgreeOK ==
  /\ \A s \in Slot : InBlock(s) => Settled(s)
  /\ \A p \in Process : holder = p /\ Preparing(p) =>
       \A s \in Slot : InTransaction(p, s) => Fresh(p, s)
AgreeInv == Safe => AgreeOK

(* Where the index is level, an accepted record's entry is at its own place. *)
LEMMA EntryInPlace ==
  ASSUME TypeOK, BlockInv, FrontInv, Safe, NEW p \in Process, holder = p, pc[p] = "run",
         \A q \in Process \ {p} : pc[q] = "run", Write(p)
  PROVE  index_info[p].write_offset = rollback_info[p].last_index
<1> DEFINE n == rollback_info[p].last_index  xl == index_info[p].last_index
           xw == index_info[p].write_offset  l == header.last_index
           il == index_header.last_index  iw == index_header.write_offset
<1>1. FrontOK /\ BlockOK
  BY DEF FrontInv, Kept, Safe, BlockInv, WholeBlock
<1>2. l <= n
  BY <1>1 DEF BlockOK, Preparing
<1>3. Front(l, il, iw) /\ Ahead(p)
  BY <1>1 DEF FrontOK, Settling, Indexed
<1>4. /\ xw = iw + (n - l) /\ (n = l => xl = il) /\ (n > l => xl = n - 1 /\ (l = 1 \/ il = l - 1))
  BY <1>3 DEF Ahead, Collecting
<1>5. n = 1 \/ n = xl + 1
  BY DEF Write, Accepts
<1>6. l \in Nat \ {0} /\ il \in Nat /\ iw \in Nat /\ n \in Nat /\ xl \in Nat
  BY Ranges DEF TypeOK, FilesOK, ObjectsOK, RollbackInfo
<1>7. IF l = 1 THEN iw = 1 ELSE il >= l \/ (il = l - 1 /\ iw = l)
  BY <1>3 DEF Front, Safe
<1>9. xw = n
  <2> HIDE DEF l, il, iw, n, xl, xw
  <2> QED
    BY <1>2, <1>4, <1>5, <1>6, <1>7
<1> QED
  BY <1>9

(* A step that touches neither file, and moves a commit over nothing that    *)
(* counts.                                                                   *)
LEMMA AgreeFrame ==
  ASSUME AgreeOK, file' = file, entries' = entries, header'.last_index = header.last_index,
         faults \subseteq faults',
         \A q \in Process : holder' = q =>
           /\ holder = q /\ rollback_info'[q].last_index = rollback_info[q].last_index
           /\ Preparing(q)' => Preparing(q)
           /\ \/ pc'[q] = pc[q] /\ cursor' = cursor
              \/ pc'[q] \in {"run", "deletes", "count"}
  PROVE  AgreeOK'
<1>1. \A s \in Slot : InBlock(s)' => Settled(s)'
  BY DEF AgreeOK, InBlock, Settled, Both
<1>2. ASSUME NEW p \in Process, holder' = p, Preparing(p)', NEW s \in Slot, InTransaction(p, s)'
      PROVE  Fresh(p, s)'
  <2>1. Fresh(p, s)
    BY <1>2 DEF AgreeOK, InTransaction
  <2>2. CASE pc'[p] = pc[p] /\ cursor' = cursor
    BY <2>1, <2>2 DEF Fresh, Both, Collecting
  <2>3. CASE pc'[p] \in {"run", "deletes", "count"}
    BY <2>1, <2>3 DEF Fresh, Both, Collecting
  <2> QED
    BY <2>2, <2>3, <1>2
<1> QED
  BY <1>1, <1>2 DEF AgreeOK

(* ... and so are those of the transaction that is committed.                *)
LEMMA SettledOffsets ==
  ASSUME TypeOK, HolderInv, BlockInv, PlaceInv, FrontInv, Safe
  PROVE  \A p \in Process : /\ holder = p /\ pc[p] \in {"deletes", "entries"}
                            /\ rollback_info[p].last_index > header.last_index
           => /\ index_info[p].start_offset = header.last_index
              /\ index_info[p].write_offset = rollback_info[p].last_index
<1> SUFFICES ASSUME NEW p \in Process, holder = p, pc[p] \in {"deletes", "entries"},
                    rollback_info[p].last_index > header.last_index
             PROVE  /\ index_info[p].start_offset = header.last_index
                    /\ index_info[p].write_offset = rollback_info[p].last_index
  OBVIOUS
<1> DEFINE n == rollback_info[p].last_index
           xw == index_info[p].write_offset  l == header.last_index
           il == index_header.last_index  iw == index_header.write_offset
<1>1. FrontOK
  BY DEF FrontInv, Kept, Safe
<1>2. \A q \in Process \ {p} : pc[q] = "run"
  BY DEF HolderInv
<1>3. Front(l, il, iw) /\ Ahead(p)
  BY <1>1, <1>2 DEF FrontOK, Settling, Indexed
<1>4. xw = iw + (n - l) /\ (l = 1 \/ il = l - 1)
  BY <1>3 DEF Ahead, Collecting
<1>5. l \in Nat \ {0} /\ il \in Nat /\ iw \in Nat /\ n \in Nat
  BY Ranges DEF TypeOK, FilesOK, ObjectsOK, RollbackInfo
<1>6. IF l = 1 THEN iw = 1 ELSE il >= l \/ (il = l - 1 /\ iw = l)
  BY <1>3 DEF Front, Safe
<1>7. iw = l /\ xw = n
  <2> HIDE DEF l, il, iw, n, xw
  <2> QED
    BY <1>4, <1>5, <1>6
<1>8. index_info[p].start_offset = iw
  BY DEF PlaceInv, Place, Collecting
<1> QED
  BY <1>7, <1>8

(* The lists of a commit are gone through from their first entry.            *)
CursorInv ==
  \A p \in Process : pc[p] \in {"deletes", "count", "index_deletes"} => cursor >= 1

LEMMA StepCursor ==
  ASSUME TypeOK, HolderInv, CursorInv, [Next]_vars
  PROVE  CursorInv'
<1>3. FilesOK /\ ObjectsOK
  BY DEF TypeOK
<1>4. cursor \in Nat
  BY DEF TypeOK, ObjectsOK
<1> USE <1>3, <1>4, ProcessAssumption DEF CursorInv, FilesOK, ObjectsOK, HolderInv, Goto, Ready,
        commit
<1> QED
  <2>1. ASSUME NEW p \in Process, Open(p) PROVE CursorInv'
    BY <2>1 DEF Open
  <2>2. ASSUME NEW p \in Process, Close(p) PROVE CursorInv'
    BY <2>2 DEF Close, Forget, Ready
  <2>3. ASSUME NEW p \in Process, finish(p) PROVE CursorInv'
    BY <2>3 DEF finish, SetWriteState, Ready
  <2>4. ASSUME NEW p \in Process, archive(p) PROVE CursorInv'
    BY <2>4 DEF archive, SetWriteState, Ready
  <2>5. ASSUME NEW p \in Process, Start(p) PROVE CursorInv'
    BY <2>5 DEF Start, Ready, setup_transaction, setup_index
  <2>6. ASSUME NEW p \in Process, Write(p) PROVE CursorInv'
    BY <2>6 DEF Write, WriteRecord, Ready, in_transaction
  <2>7. ASSUME NEW p \in Process, WriteUnindexed(p) PROVE CursorInv'
    BY <2>7 DEF WriteUnindexed, WriteRecord, Ready, in_transaction, Faulty
  <2>8. ASSUME NEW p \in Process, Commit(p) PROVE CursorInv'
    BY <2>8 DEF Commit, Ready, in_transaction
  <2>9. ASSUME NEW p \in Process, MarkDeleted(p) PROVE CursorInv'
    <3> HIDE DEF FilesOK, ObjectsOK, HolderInv
    <3> QED
      BY <2>9, DeleteFrame DEF Marking
  <2>10. ASSUME NEW p \in Process, CountDeleted(p) PROVE CursorInv'
    BY <2>10 DEF CountDeleted
  <2>11. ASSUME NEW p \in Process, CommitIndex(p) PROVE CursorInv'
    BY <2>11 DEF CommitIndex
  <2>12. ASSUME NEW p \in Process, ShowEntry(p) PROVE CursorInv'
    <3> HIDE DEF FilesOK, ObjectsOK, HolderInv
    <3> QED
      BY <2>12, ShowFrame DEF Showing
  <2>13. ASSUME NEW p \in Process, IndexLast(p) PROVE CursorInv'
    BY <2>13 DEF IndexLast
  <2>14. ASSUME NEW p \in Process, IndexUsed(p) PROVE CursorInv'
    BY <2>14 DEF IndexUsed
  <2>15. ASSUME NEW p \in Process, IndexOffset(p) PROVE CursorInv'
    BY <2>15 DEF IndexOffset
  <2>16. ASSUME NEW p \in Process, IndexDelete(p) PROVE CursorInv'
    BY <2>16 DEF IndexDelete
  <2>17. ASSUME NEW p \in Process, EndIndex(p) PROVE CursorInv'
    BY <2>17 DEF EndIndex
  <2>18. ASSUME NEW p \in Process, MarkReadable(p) PROVE CursorInv'
    BY <2>18 DEF MarkReadable
  <2>19. ASSUME NEW p \in Process, PublishLast(p) PROVE CursorInv'
    BY <2>19 DEF PublishLast
  <2>20. ASSUME NEW p \in Process, PublishUsed(p) PROVE CursorInv'
    BY <2>20 DEF PublishUsed
  <2>21. ASSUME NEW p \in Process, PublishOffset(p) PROVE CursorInv'
    BY <2>21 DEF PublishOffset
  <2>22. ASSUME NEW p \in Process, PublishCounts(p) PROVE CursorInv'
    BY <2>22 DEF PublishCounts
  <2>23. ASSUME NEW p \in Process, EndCommit(p) PROVE CursorInv'
    BY <2>23 DEF EndCommit, end_transaction
  <2>24. ASSUME NEW p \in Process, rollback(p) PROVE CursorInv'
    BY <2>24 DEF rollback, Ready, in_transaction, end_transaction
  <2>25. ASSUME NEW p \in Process, Crash(p) PROVE CursorInv'
    <3> HIDE DEF FilesOK, ObjectsOK, HolderInv
    <3>1. pc'[p] = "run" /\ \A q \in Process \ {p} : pc'[q] = pc[q]
      BY <2>25, <1>3 DEF Crash, ObjectsOK
    <3>2. pc[p] = "run" => cursor' = cursor
      BY <2>25 DEF Crash
    <3>3. pc[p] # "run" => \A q \in Process \ {p} : pc[q] = "run"
      BY <1>3, OnlyHolder
    <3> QED
      BY <3>1, <3>2, <3>3
  <2>26. ASSUME NEW p \in Process, NEW i \in Slot, delete_record(p, i) PROVE CursorInv'
    BY <2>26 DEF delete_record, Ready, in_transaction, Faulty
  <2>27. CASE Expire
    BY <2>27 DEF Expire
  <2>28. CASE UNCHANGED vars
    BY <2>28 DEF vars
  <2> QED
    BY <2>1, <2>2, <2>3, <2>4, <2>5, <2>6, <2>7, <2>8, <2>9, <2>10, <2>11, <2>12, <2>13,
       <2>14, <2>15, <2>16, <2>17, <2>18, <2>19, <2>20, <2>21, <2>22, <2>23, <2>24,
       <2>25, <2>26, <2>27, <2>28
    DEF Next, CommitStep

LEMMA StepAgree ==
  ASSUME TypeOK, HolderInv, OpenInv, BlockInv, PlaceInv, FrontInv, OwnInv, CursorInv, AgreeInv,
         [Next]_vars
  PROVE  AgreeInv'
<1> SUFFICES ASSUME Safe' PROVE AgreeOK'
  BY DEF AgreeInv
<1>1. Safe
  BY FaultsGrow DEF Safe
<1>0. Safe'
  OBVIOUS
<1>2. AgreeOK
  BY <1>1 DEF AgreeInv
<1>3. FilesOK /\ ObjectsOK
  BY DEF TypeOK
<1>4. faults \subseteq faults'
  BY FaultsGrow
<1>5. /\ header.last_index \in Nat \ {0} /\ Slot \subseteq Nat
      /\ \A p \in Process : rollback_info[p].last_index \in Nat
  BY Ranges DEF TypeOK, FilesOK, ObjectsOK, RollbackInfo
<1>6. /\ \A p \in Process : holder = p /\ Preparing(p) =>
           /\ header.last_index <= rollback_info[p].last_index
           /\ rollback_info[p].write_offset = rollback_info[p].last_index
      /\ (\A p \in Process : ~Publishing(p)) => header.write_offset = header.last_index
  BY <1>1 DEF BlockInv, BlockOK, Safe, WholeBlock
<1>8. \A p \in Process : /\ holder = p /\ pc[p] \in {"deletes", "entries"}
                         /\ rollback_info[p].last_index > header.last_index
        => /\ index_info[p].start_offset = header.last_index
           /\ index_info[p].write_offset = rollback_info[p].last_index
  BY <1>1, SettledOffsets
<1>9. \A p \in Process : pc[p] = "index_deletes" => cursor >= 1
  BY DEF CursorInv
<1> USE <1>2, <1>3, <1>4, ProcessAssumption DEF AgreeOK, Fresh, Settled, Both, InBlock,
        InTransaction, FilesOK, ObjectsOK, HolderInv, Goto, block, index, lock, local, commit
<1> QED
  <2>1. ASSUME NEW p \in Process, Open(p) PROVE AgreeOK'
    <3> HIDE DEF FilesOK, ObjectsOK, HolderInv, AgreeOK, Fresh
    <3> QED
      BY <2>1, <1>3, AgreeFrame DEF Open, Preparing
  <2>2. ASSUME NEW p \in Process, Close(p) PROVE AgreeOK'
    <3> HIDE DEF FilesOK, ObjectsOK, HolderInv
    <3>1. UNCHANGED <<block, index, pc, cursor, faults>> /\ holder' # p
      BY <2>2 DEF Close, Forget
    <3>2. \A q \in Process \ {p} : /\ (holder' = q => holder = q) /\ rollback_info'[q] = rollback_info[q]
      BY <2>2, <1>3 DEF Close, Forget, ObjectsOK
    <3> QED
      BY <3>1, <3>2 DEF Preparing, Collecting
  <2>3. ASSUME NEW p \in Process, finish(p) PROVE AgreeOK'
    <3>1. UNCHANGED <<file, entries, holder, pc, cursor, rollback_info, faults>>
      BY <2>3 DEF finish, SetWriteState
    <3>2. header'.last_index = header.last_index
      BY <2>3 DEF finish, SetWriteState
    <3> HIDE DEF FilesOK, ObjectsOK, HolderInv, AgreeOK, Fresh
    <3> QED
      BY <3>1, <3>2, AgreeFrame DEF Preparing
  <2>4. ASSUME NEW p \in Process, archive(p) PROVE AgreeOK'
    <3>1. UNCHANGED <<file, entries, holder, pc, cursor, rollback_info, faults>>
      BY <2>4 DEF archive, SetWriteState
    <3>2. header'.last_index = header.last_index
      BY <2>4 DEF archive, SetWriteState
    <3> HIDE DEF FilesOK, ObjectsOK, HolderInv, AgreeOK, Fresh
    <3> QED
      BY <3>1, <3>2, AgreeFrame DEF Preparing
  <2>5. ASSUME NEW p \in Process, Start(p) PROVE AgreeOK'
    <3> HIDE DEF FilesOK, ObjectsOK, HolderInv
    <3>1. /\ UNCHANGED <<block, entries, pc, faults>> /\ pc[p] = "run"
          /\ \A q \in Process \ {p} : /\ holder' = q => holder = q
                                    /\ rollback_info'[q] = rollback_info[q]
          /\ rollback_info'[p].last_index = header.last_index /\ cursor' = cursor
      BY <2>5, StartFrame DEF Started
    <3>2. \A s \in Slot : ~InTransaction(p, s)'
      <4> HIDE DEF AgreeOK, Fresh
      <4> DEFINE l == header.last_index
      <4>1. \A s \in Nat : l <= s => ~(s < l)
        <5>1. l \in Nat
          BY <1>5
        <5> HIDE DEF l
        <5> QED
          BY <5>1
      <4> QED
        BY <4>1, <3>1, <1>5
    <3>3. \A s \in Slot : InBlock(s)' => Settled(s)'
      BY <3>1
    <3>4. \A q \in Process \ {p} : \A s \in Slot :
            holder' = q /\ Preparing(q)' /\ InTransaction(q, s)' => Fresh(q, s)'
      BY <3>1 DEF Preparing, Collecting
    <3> HIDE DEF InTransaction, Fresh, InBlock, Settled
    <3> QED
      BY <3>2, <3>3, <3>4
  <2>6. ASSUME NEW p \in Process, Write(p) PROVE AgreeOK'
    <3> HIDE DEF FilesOK, ObjectsOK, HolderInv
    <3> DEFINE n == rollback_info[p].last_index  x == index_info[p]
    <3>1. /\ UNCHANGED <<header, holder, pc>> /\ holder = p /\ pc[p] = "run"
          /\ \A q \in Process \ {p} : holder # q /\ pc[q] = "run"
          /\ rollback_info'[p].last_index = n + 1
          /\ file'[rollback_info[p].write_offset].index = n
          /\ \A s \in Slot \ {rollback_info[p].write_offset} : file'[s] = file[s]
      BY <2>6, WriteFrame DEF Wrote, Write
    <3>2. /\ entries'[x.write_offset].index = n
          /\ \A s \in Slot \ {x.write_offset} : entries'[s] = entries[s]
      BY <2>6, EntryFrame DEF Entered
    <3>3. x.write_offset = n
      BY <2>6, <1>1, <3>1, EntryInPlace
    <3>4. rollback_info[p].write_offset = n /\ header.last_index <= n
      BY <3>1, <1>6 DEF Preparing
    <3>5. \A s \in Slot \ {n} : file'[s] = file[s] /\ entries'[s] = entries[s]
      BY <3>1, <3>2, <3>3, <3>4
    <3>6. entries'[n].index = n /\ file'[n].index = n
      BY <3>1, <3>2, <3>3, <3>4
    <3>7. \A s \in Slot : InBlock(s)' => Settled(s)'
      BY <3>1, <3>4, <3>5, <1>5
    <3>8. \A s \in Slot : InTransaction(p, s)' => Both(s)'
      <4> SUFFICES ASSUME NEW s \in Slot, InTransaction(p, s)' PROVE Both(s)'
        OBVIOUS
      <4>1. CASE s = n
        BY <4>1, <3>6
      <4>2. CASE s # n
        <5>1. s < n + 1 /\ header.last_index <= s
          BY <3>1
        <5>2. s \in Nat /\ n \in Nat
          BY <1>5
        <5>3. s < n
          <6> HIDE DEF n
          <6> QED
            BY <5>1, <5>2, <4>2
        <5>4. Fresh(p, s)
          BY <5>1, <5>3, <3>1 DEF Preparing
        <5> QED
          BY <5>4, <4>2, <3>5
      <4> QED
        BY <4>1, <4>2
    <3>9. \A s \in Slot : InTransaction(p, s)' => Fresh(p, s)'
      BY <3>1, <3>8 DEF Collecting
    <3> QED
      BY <3>1, <3>7, <3>9
  <2>7. ASSUME NEW p \in Process, WriteUnindexed(p) PROVE AgreeOK'
    BY <2>7, <1>0 DEF WriteUnindexed, Faulty, Safe
  <2>8. ASSUME NEW p \in Process, Commit(p) PROVE AgreeOK'
    <3>1. pc[p] = "run" /\ pc'[p] = "deletes" /\ \A q \in Process \ {p} : pc'[q] = pc[q]
      BY <2>8 DEF Commit, Ready
    <3>2. holder = p /\ UNCHANGED <<block, entries, holder, rollback_info, faults>>
      BY <2>8 DEF Commit, in_transaction
    <3> HIDE DEF FilesOK, ObjectsOK, HolderInv, AgreeOK, Fresh
    <3> QED
      BY <3>1, <3>2, AgreeFrame DEF Preparing
  <2>9. ASSUME NEW p \in Process, MarkDeleted(p) PROVE AgreeOK'
    <3> HIDE DEF FilesOK, ObjectsOK, HolderInv
    <3>1. /\ UNCHANGED <<header, entries, rollback_info, holder, cursor, faults>>
          /\ pc[p] = "deletes" /\ holder = p /\ pc'[p] \in {"run", "count"}
          /\ \A q \in Process \ {p} : holder # q
          /\ \A s \in Slot : /\ file'[s].index = file[s].index
                             /\ file'[s].state \in {file[s].state, "DELETED"}
      BY <2>9, DeleteFrame DEF Marking
    <3> QED
      BY <3>1 DEF Preparing, Collecting
  <2>10. ASSUME NEW p \in Process, CountDeleted(p) PROVE AgreeOK'
    <3> HIDE DEF FilesOK, ObjectsOK, HolderInv
    <3>1. UNCHANGED <<file, entries, rollback_info, holder, faults>> /\ pc[p] = "count"
      BY <2>10 DEF CountDeleted
    <3>2. holder = p /\ pc'[p] = "deletes" /\ \A q \in Process \ {p} : holder # q /\ pc[q] = "run"
      <4> HIDE DEF Goto, block, index, lock, local, commit
      <4>1. Goto(p, "deletes") /\ pc[p] # "run"
        BY <2>10 DEF CountDeleted
      <4> QED
        BY <4>1, <1>3, MoveFrame
    <3>3. header'.last_index = header.last_index
      BY <2>10, <1>3 DEF CountDeleted, FilesOK
    <3> QED
      BY <3>1, <3>2, <3>3 DEF Preparing, Collecting
  <2>11. ASSUME NEW p \in Process, CommitIndex(p) PROVE AgreeOK'
    <3> HIDE DEF FilesOK, ObjectsOK, HolderInv
    <3>1. UNCHANGED <<block, entries, rollback_info, holder, faults>> /\ pc[p] = "deletes"
      BY <2>11 DEF CommitIndex
    <3>2. holder = p /\ pc'[p] = "entries" /\ \A q \in Process \ {p} : holder # q /\ pc[q] = "run"
      <4> HIDE DEF Goto, block, index, lock, local, commit
      <4>1. Goto(p, "entries") /\ pc[p] # "run"
        BY <2>11 DEF CommitIndex
      <4> QED
        BY <4>1, <1>3, MoveFrame
    <3>3. cursor' = index_info[p].start_offset
      BY <2>11 DEF CommitIndex
    <3>4. \A s \in Slot : InTransaction(p, s) => ~(s < cursor')
      BY <3>1, <3>2, <3>3, <1>8, <1>5
    <3> HIDE DEF InBlock, InTransaction
    <3>5. \A s \in Slot : /\ InBlock(s)' <=> InBlock(s)
                          /\ InTransaction(p, s)' <=> InTransaction(p, s)
      BY <3>1 DEF InBlock, InTransaction
    <3> QED
      BY <3>1, <3>2, <3>4, <3>5 DEF Preparing, Collecting
  <2>12. ASSUME NEW p \in Process, ShowEntry(p) PROVE AgreeOK'
    <3> HIDE DEF FilesOK, ObjectsOK, HolderInv
    <3>1. /\ UNCHANGED <<header, file, rollback_info, holder, faults>> /\ cursor \in Nat
          /\ pc[p] = "entries" /\ holder = p /\ pc'[p] \in {"run", "entries"}
          /\ \A q \in Process \ {p} : holder # q
          /\ \A s \in Slot : entries'[s].index = entries[s].index
      BY <2>12, <1>3, ShowFrame DEF Showing, ObjectsOK
    <3>2. \/ pc'[p] = "run" /\ entries' = entries
          \/ /\ pc'[p] = "entries" /\ cursor' = cursor + 1
             /\ \A s \in Slot : entries'[s].state = IF s = cursor THEN "READABLE" ELSE entries[s].state
      BY <2>12, ShowFrame DEF Showing
    <3>3. \A s \in Slot : InBlock(s)' => Settled(s)'
      BY <3>1, <3>2
    <3>4. \A s \in Slot : InTransaction(p, s) => Fresh(p, s)
      BY <3>1 DEF Preparing
    <3>5. ASSUME NEW s \in Slot, InTransaction(p, s)' PROVE Fresh(p, s)'
      <4>1. Fresh(p, s) /\ s \in Nat
        BY <3>1, <3>4, <3>5, <1>5
      <4>2. CASE pc'[p] = "run" /\ entries' = entries
        BY <4>1, <4>2, <3>1 DEF Collecting
      <4>3. CASE pc'[p] = "entries" /\ s = cursor
        BY <4>1, <4>3, <3>1, <3>2 DEF Collecting
      <4>4. CASE pc'[p] = "entries" /\ s # cursor
        <5>1. s < cursor + 1 => s < cursor
          BY <4>1, <4>4, <3>1
        <5> QED
          BY <5>1, <4>1, <4>4, <3>1, <3>2 DEF Collecting
      <4> QED
        BY <4>2, <4>3, <4>4, <3>2
    <3> QED
      BY <3>1, <3>3, <3>5
  <2>13. ASSUME NEW p \in Process, IndexLast(p) PROVE AgreeOK'
    <3> HIDE DEF FilesOK, ObjectsOK, HolderInv
    <3>1. UNCHANGED <<block, entries, rollback_info, holder, faults, cursor>> /\ pc[p] = "entries"
      BY <2>13 DEF IndexLast
    <3>2. holder = p /\ pc'[p] = "index_used"
          /\ \A q \in Process \ {p} : holder # q /\ pc[q] = "run"
      <4> HIDE DEF Goto, block, index, lock, local, commit
      <4>1. Goto(p, "index_used") /\ pc[p] # "run"
        BY <2>13 DEF IndexLast
      <4> QED
        BY <4>1, <1>3, MoveFrame
    <3>3. \A s \in Slot : InTransaction(p, s) => Fresh(p, s)
      BY <3>1, <3>2 DEF Preparing
    <3>4. cursor >= index_info[p].write_offset /\ cursor \in Nat
      BY <2>13, <1>3 DEF IndexLast, ObjectsOK
    <3>5. ASSUME NEW s \in Slot, InTransaction(p, s) PROVE entries[s].state = "READABLE"
      <4>1. Fresh(p, s) /\ header.last_index <= s /\ s < rollback_info[p].last_index
        BY <3>3, <3>5
      <4>2. rollback_info[p].last_index > header.last_index
        BY <4>1, <1>5
      <4>3. index_info[p].write_offset = rollback_info[p].last_index
        BY <3>1, <3>2, <4>2, <1>8
      <4>4. s < cursor
        <5> HIDE DEF AgreeOK, InTransaction, Fresh
        <5> QED
          BY <4>1, <4>3, <3>4, <1>5
      <4> QED
        BY <4>1, <4>4, <3>1
    <3>6. \A s \in Slot : InTransaction(p, s)' => Fresh(p, s)'
      BY <3>1, <3>2, <3>3, <3>5
    <3>7. \A s \in Slot : InBlock(s)' => Settled(s)'
      BY <3>1
    <3> QED
      BY <3>1, <3>2, <3>6, <3>7
  <2>14. ASSUME NEW p \in Process, IndexUsed(p) PROVE AgreeOK'
    <3> HIDE DEF FilesOK, ObjectsOK, HolderInv
    <3>1. UNCHANGED <<block, entries, rollback_info, holder, faults, cursor>>
          /\ pc[p] = "index_used"
      BY <2>14 DEF IndexUsed
    <3>2. holder = p /\ pc'[p] = "index_offset"
          /\ \A q \in Process \ {p} : holder # q /\ pc[q] = "run"
      <4> HIDE DEF Goto, block, index, lock, local, commit
      <4>1. Goto(p, "index_offset") /\ pc[p] # "run"
        BY <2>14 DEF IndexUsed
      <4> QED
        BY <4>1, <1>3, MoveFrame
    <3> QED
      BY <3>1, <3>2 DEF Preparing, Collecting
  <2>15. ASSUME NEW p \in Process, IndexOffset(p) PROVE AgreeOK'
    <3> HIDE DEF FilesOK, ObjectsOK, HolderInv
    <3>1. UNCHANGED <<block, entries, rollback_info, holder, faults>> /\ pc[p] = "index_offset"
      BY <2>15 DEF IndexOffset
    <3>2. holder = p /\ pc'[p] = "index_deletes"
          /\ \A q \in Process \ {p} : holder # q /\ pc[q] = "run"
      <4> HIDE DEF Goto, block, index, lock, local, commit
      <4>1. Goto(p, "index_deletes") /\ pc[p] # "run"
        BY <2>15 DEF IndexOffset
      <4> QED
        BY <4>1, <1>3, MoveFrame
    <3> QED
      BY <3>1, <3>2 DEF Preparing, Collecting
  <2>16. ASSUME NEW p \in Process, IndexDelete(p) PROVE AgreeOK'
    <3> HIDE DEF FilesOK, ObjectsOK, HolderInv
    <3>1. /\ UNCHANGED <<block, rollback_info, holder, pc, faults>> /\ pc[p] = "index_deletes"
          /\ entries' = [entries EXCEPT ![deletes[p][cursor]].state = "DELETED"]
          /\ cursor <= Len(deletes[p])
      BY <2>16 DEF IndexDelete
    <3>2. holder = p /\ \A q \in Process \ {p} : holder # q
      BY <3>1, <1>3, OnlyHolder
    <3>3. \A s \in Slot : /\ entries'[s].index = entries[s].index
                          /\ entries'[s].state =
                               IF s = deletes[p][cursor] THEN "DELETED" ELSE entries[s].state
      BY <3>1, <1>3 DEF FilesOK
    <3>4. "own" \in faults \/ ~InTransaction(p, deletes[p][cursor])
      <4> DEFINE d == deletes[p]
      <4>0. d \in Seq(Slot) /\ cursor \in Nat /\ cursor >= 1 /\ cursor <= Len(d)
        BY <3>1, <1>3, <1>9 DEF ObjectsOK
      <4>1. cursor \in DOMAIN deletes[p] /\ deletes[p][cursor] \in Slot
        <5> HIDE DEF d, AgreeOK, Fresh
        <5>1. cursor \in DOMAIN d /\ d[cursor] \in Slot
          BY <4>0
        <5> QED
          BY <5>1 DEF d
      <4>2. "own" \notin faults => deletes[p][cursor] < header.last_index
        BY <4>1, <3>2 DEF OwnInv
      <4> DEFINE j == deletes[p][cursor]  l == header.last_index
      <4>3. j \in Nat /\ l \in Nat
        BY <4>1, <1>5
      <4>4. j < l => ~(l <= j)
        <5> HIDE DEF j, l
        <5> QED
          BY <4>3
      <4> QED
        BY <4>2, <4>4
    <3>5. \A s \in Slot : InBlock(s)' => Settled(s)'
      BY <3>1, <3>3
    <3>6. ASSUME NEW s \in Slot, InTransaction(p, s)' PROVE Fresh(p, s)'
      <4>1. Fresh(p, s)
        BY <3>1, <3>2, <3>6 DEF Preparing
      <4>2. Both(s)' /\ ~Collecting(p)' /\ pc'[p] = "index_deletes"
        BY <4>1, <3>1, <3>3 DEF Collecting
      <4>3. entries'[s].state = "READABLE" \/ ("own" \in faults' /\ entries'[s].state = "DELETED")
        <5>1. entries[s].state = "READABLE" \/ ("own" \in faults /\ entries[s].state = "DELETED")
          <6>1. ~Collecting(p)
            BY <3>1 DEF Collecting
          <6>2. Fresh(p, s)
            BY <4>1
          <6> HIDE DEF AgreeOK, FilesOK, ObjectsOK, HolderInv, Both, InTransaction
          <6> QED
            BY <6>1, <6>2
        <5>2. s = deletes[p][cursor] => "own" \in faults
          BY <3>1, <3>4, <3>6
        <5> HIDE DEF AgreeOK, Fresh, Both, InTransaction
        <5> QED
          BY <5>1, <5>2, <3>1, <3>3
      <4> QED
        BY <4>2, <4>3
    <3> QED
      BY <3>1, <3>2, <3>5, <3>6
  <2>17. ASSUME NEW p \in Process, EndIndex(p) PROVE AgreeOK'
    <3> HIDE DEF FilesOK, ObjectsOK, HolderInv
    <3>1. UNCHANGED <<block, entries, rollback_info, holder, faults>> /\ pc[p] = "index_deletes"
      BY <2>17 DEF EndIndex
    <3>2. holder = p /\ pc'[p] = "records" /\ \A q \in Process \ {p} : holder # q /\ pc[q] = "run"
      <4> HIDE DEF Goto, block, index, lock, local, commit
      <4>1. Goto(p, "records") /\ pc[p] # "run"
        BY <2>17 DEF EndIndex
      <4> QED
        BY <4>1, <1>3, MoveFrame
    <3>3. cursor' = header.last_index
      BY <2>17, <3>1, <3>2, <1>6 DEF EndIndex, Publishing
    <3>4. \A s \in Slot : InTransaction(p, s) => ~(s < cursor')
      BY <3>3, <1>5
    <3> QED
      BY <3>1, <3>2, <3>4 DEF Preparing, Collecting
  <2>18. ASSUME NEW p \in Process, MarkReadable(p) PROVE AgreeOK'
    <3> HIDE DEF FilesOK, ObjectsOK, HolderInv
    <3>1. /\ UNCHANGED <<header, entries, rollback_info, holder, pc, faults>> /\ pc[p] = "records"
          /\ file' = [file EXCEPT ![cursor].state = "READABLE"] /\ cursor' = cursor + 1
      BY <2>18 DEF MarkReadable
    <3>2. holder = p /\ \A q \in Process \ {p} : holder # q
      BY <3>1, <1>3, OnlyHolder
    <3>3. \A s \in Slot : /\ file'[s].index = file[s].index
                          /\ file'[s].state = IF s = cursor THEN "READABLE" ELSE file[s].state
      BY <3>1, <1>3 DEF FilesOK
    <3>4. \A s \in Slot : s < cursor + 1 => s = cursor \/ s < cursor
      <4> HIDE DEF FilesOK, AgreeOK, Fresh
      <4>1. cursor \in Nat /\ Slot \subseteq Nat
        BY <1>3, <1>5 DEF ObjectsOK
      <4> HIDE DEF ObjectsOK
      <4> QED
        BY <4>1
    <3>5. \A s \in Slot : InBlock(s)' => Settled(s)'
      BY <3>1, <3>3
    <3>6. ASSUME NEW s \in Slot, InTransaction(p, s)' PROVE Fresh(p, s)'
      <4>1. Fresh(p, s)
        BY <3>1, <3>2, <3>6 DEF Preparing
      <4>2. s < cursor' => file'[s].state = "READABLE"
        BY <3>1, <3>3, <3>4, <4>1
      <4> QED
        BY <4>1, <4>2, <3>1, <3>3 DEF Collecting
    <3> QED
      BY <3>1, <3>2, <3>5, <3>6
  <2>19. ASSUME NEW p \in Process, PublishLast(p) PROVE AgreeOK'
    <3> HIDE DEF FilesOK, ObjectsOK, HolderInv
    <3>1. UNCHANGED <<file, entries, rollback_info, holder, faults>> /\ pc[p] = "records"
      BY <2>19 DEF PublishLast
    <3>2. holder = p /\ pc'[p] = "used" /\ \A q \in Process \ {p} : holder # q /\ pc[q] = "run"
      <4> HIDE DEF Goto, block, index, lock, local, commit
      <4>1. Goto(p, "used") /\ pc[p] # "run"
        BY <2>19 DEF PublishLast
      <4> QED
        BY <4>1, <1>3, MoveFrame
    <3>3. header'.last_index = rollback_info[p].last_index
      BY <2>19, <1>3 DEF PublishLast, FilesOK
    <3>4. cursor >= rollback_info[p].last_index /\ cursor \in Nat
      <4>1. rollback_info[p].write_offset = rollback_info[p].last_index
        BY <3>1, <3>2, <1>6 DEF Preparing
      <4>2. cursor >= rollback_info[p].write_offset /\ cursor \in Nat
        BY <2>19, <1>3 DEF PublishLast, ObjectsOK
      <4> HIDE DEF AgreeOK, FilesOK, ObjectsOK
      <4> QED
        BY <4>1, <4>2
    <3>5. \A s \in Slot : InTransaction(p, s) => Fresh(p, s)
      BY <3>1, <3>2 DEF Preparing
    <3>6. ASSUME NEW s \in Slot, s < rollback_info[p].last_index PROVE Settled(s)
      <4>1. CASE InBlock(s)
        BY <4>1
      <4>2. CASE ~InBlock(s)
        <5>1. InTransaction(p, s) /\ s < cursor
          BY <4>2, <3>4, <3>6, <1>5
        <5> QED
          BY <5>1, <3>1, <3>5 DEF Collecting
      <4> QED
        BY <4>1, <4>2
    <3>7. \A s \in Slot : InBlock(s)' => Settled(s)'
      BY <3>1, <3>3, <3>6
    <3>8. ~Preparing(p)'
      BY <3>2 DEF Preparing
    <3> QED
      BY <3>1, <3>2, <3>7, <3>8
  <2>20. ASSUME NEW p \in Process, PublishUsed(p) PROVE AgreeOK'
    <3> HIDE DEF FilesOK, ObjectsOK, HolderInv
    <3>1. UNCHANGED <<file, entries, rollback_info, holder, faults>> /\ pc[p] = "used"
      BY <2>20 DEF PublishUsed
    <3>2. holder = p /\ pc'[p] = "offset" /\ \A q \in Process \ {p} : holder # q /\ pc[q] = "run"
      <4> HIDE DEF Goto, block, index, lock, local, commit
      <4>1. Goto(p, "offset") /\ pc[p] # "run"
        BY <2>20 DEF PublishUsed
      <4> QED
        BY <4>1, <1>3, MoveFrame
    <3>3. header'.last_index = header.last_index
      BY <2>20, <1>3 DEF PublishUsed, FilesOK
    <3> QED
      BY <3>1, <3>2, <3>3 DEF Preparing
  <2>21. ASSUME NEW p \in Process, PublishOffset(p) PROVE AgreeOK'
    <3> HIDE DEF FilesOK, ObjectsOK, HolderInv
    <3>1. UNCHANGED <<file, entries, rollback_info, holder, faults>> /\ pc[p] = "offset"
      BY <2>21 DEF PublishOffset
    <3>2. holder = p /\ pc'[p] = "counts" /\ \A q \in Process \ {p} : holder # q /\ pc[q] = "run"
      <4> HIDE DEF Goto, block, index, lock, local, commit
      <4>1. Goto(p, "counts") /\ pc[p] # "run"
        BY <2>21 DEF PublishOffset
      <4> QED
        BY <4>1, <1>3, MoveFrame
    <3>3. header'.last_index = header.last_index
      BY <2>21, <1>3 DEF PublishOffset, FilesOK
    <3> QED
      BY <3>1, <3>2, <3>3 DEF Preparing
  <2>22. ASSUME NEW p \in Process, PublishCounts(p) PROVE AgreeOK'
    <3> HIDE DEF FilesOK, ObjectsOK, HolderInv
    <3>1. UNCHANGED <<file, entries, rollback_info, holder, faults>> /\ pc[p] = "counts"
      BY <2>22 DEF PublishCounts
    <3>2. holder = p /\ pc'[p] = "end" /\ \A q \in Process \ {p} : holder # q /\ pc[q] = "run"
      <4> HIDE DEF Goto, block, index, lock, local, commit
      <4>1. Goto(p, "end") /\ pc[p] # "run"
        BY <2>22 DEF PublishCounts
      <4> QED
        BY <4>1, <1>3, MoveFrame
    <3>3. header'.last_index = header.last_index
      BY <2>22, <1>3 DEF PublishCounts, FilesOK
    <3> QED
      BY <3>1, <3>2, <3>3 DEF Preparing
  <2>23. ASSUME NEW p \in Process, EndCommit(p) PROVE AgreeOK'
    <3> HIDE DEF FilesOK, ObjectsOK, HolderInv
    <3>1. UNCHANGED <<block, index, faults>> /\ pc[p] = "end" /\ holder' = NoProcess
      BY <2>23 DEF EndCommit, end_transaction
    <3> QED
      BY <3>1
  <2>24. ASSUME NEW p \in Process, rollback(p) PROVE AgreeOK'
    <3> HIDE DEF FilesOK, ObjectsOK, HolderInv
    <3>1. UNCHANGED <<block, index, faults>> /\ holder' = NoProcess
      BY <2>24 DEF rollback, end_transaction
    <3> QED
      BY <3>1
  <2>25. ASSUME NEW p \in Process, Crash(p) PROVE AgreeOK'
    <3> HIDE DEF FilesOK, ObjectsOK, HolderInv
    <3>1. pc'[p] = "run"
          /\ holder' # p /\ UNCHANGED <<block, index>> /\ faults' = faults \cup DiedIn(p)
      BY <2>25, <1>3 DEF Crash, Faulty, ObjectsOK
    <3>2. \A q \in Process \ {p} : /\ pc'[q] = pc[q] /\ (holder' = q => holder = q)
                                /\ rollback_info'[q] = rollback_info[q]
      BY <2>25, <1>3 DEF Crash, Forget, ObjectsOK
    <3>3. \A q \in Process \ {p} : holder' = q => pc'[q] = "run" \/ cursor' = cursor
      BY <2>25, <3>2, <1>3, OnlyHolder DEF Crash
    <3> QED
      BY <3>1, <3>2, <3>3, <1>4 DEF Preparing, Collecting
  <2>26. ASSUME NEW p \in Process, NEW i \in Slot, delete_record(p, i) PROVE AgreeOK'
    <3> HIDE DEF FilesOK, ObjectsOK, HolderInv, AgreeOK, Fresh
    <3>1. UNCHANGED <<block, entries, holder, pc, cursor, rollback_info>>
      BY <2>26 DEF delete_record
    <3> QED
      BY <3>1, AgreeFrame, <1>4 DEF Preparing
  <2>27. CASE Expire
    BY <2>27 DEF Expire
  <2>28. CASE UNCHANGED vars
    <3> HIDE DEF FilesOK, ObjectsOK, HolderInv, AgreeOK, Fresh
    <3> QED
      BY <2>28, <1>3, AgreeFrame DEF vars, Preparing

  <2> QED
    BY <2>1, <2>2, <2>3, <2>4, <2>5, <2>6, <2>7, <2>8, <2>9, <2>10, <2>11, <2>12, <2>13,
       <2>14, <2>15, <2>16, <2>17, <2>18, <2>19, <2>20, <2>21, <2>22, <2>23, <2>24,
       <2>25, <2>26, <2>27, <2>28
    DEF Next, CommitStep

(* What holds of both files and of the objects that carry a transaction.     *)
BlockInvs == BlockInv /\ PlaceInv /\ OwnInv /\ CursorInv /\ FrontInv /\ AgreeInv
AgreeIInv == TypeOK /\ HolderInv /\ OpenInv /\ BlockInvs

LEMMA InitAgree == Init => AgreeIInv
<1> SUFFICES ASSUME Init PROVE BlockInvs
  BY InitType DEF AgreeIInv
<1>1. Slot \subseteq Nat
  BY Ranges
<1>2. BlockInv
  BY <1>1, ProcessAssumption DEF Init, BlockInv, BlockOK, Publishing
<1>3. PlaceInv /\ OwnInv /\ CursorInv
  BY ProcessAssumption DEF Init, PlaceInv, OwnInv, CursorInv
<1>4. FrontInv
  BY ProcessAssumption DEF Init, FrontInv, FrontOK, Front
<1>5. AgreeInv
  BY <1>1, ProcessAssumption DEF Init, AgreeInv, AgreeOK, InBlock, Slot
<1> QED
  BY <1>2, <1>3, <1>4, <1>5 DEF BlockInvs

LEMMA StepAgreeIInv == AgreeIInv /\ [Next]_vars => AgreeIInv'
BY StepType, StepBlock, StepPlace, StepOwn, StepCursor, StepFront, StepAgree DEF AgreeIInv,
   BlockInvs

LEMMA AgreeInvariant == Spec => []AgreeIInv
BY InitAgree, StepAgreeIInv, PTL DEF Spec

LEMMA SettledIsFound ==
  ASSUME AgreeIInv, Safe, NEW i \in 1 .. header.last_index - 1
  PROVE  i \in Slot /\ Settled(i) /\ entries[i].offset = i
<1>1. i \in Slot /\ InBlock(i)
  BY Ranges, BoundAssumption DEF AgreeIInv, TypeOK, FilesOK, Slot, InBlock
<1>2. Settled(i)
  BY <1>1 DEF AgreeIInv, BlockInvs, AgreeInv, AgreeOK
<1>3. entries[i].offset = i
  BY <1>1, <1>2 DEF AgreeIInv, BlockInvs, BlockInv, BlockOK, Safe, WholeBlock, Settled, Both
<1> QED
  BY <1>1, <1>2, <1>3

(* The index has every record of the block.                                  *)
LEMMA FrontOfFound ==
  ASSUME AgreeIInv, Safe, NEW i \in 1 .. header.last_index - 1
  PROVE  i <= index_header.last_index
<1> DEFINE l == header.last_index  il == index_header.last_index
<1>1. FrontOK /\ BlockOK
  BY DEF AgreeIInv, BlockInvs, FrontInv, BlockInv, Kept, Safe, WholeBlock
<1>2. l \in Nat \ {0} /\ il \in Nat /\ \A p \in Process : rollback_info[p].last_index \in Nat
  BY Ranges DEF AgreeIInv, TypeOK, FilesOK, ObjectsOK, RollbackInfo
<1>3. CASE \A p \in Process : ~Settling(p) /\ ~Indexed(p)
  <2>1. Front(l, il, index_header.write_offset)
    BY <1>1, <1>3 DEF FrontOK
  <2> HIDE DEF l, il
  <2>2. il >= l - 1
    BY <2>1, <1>2 DEF Front
  <2> QED
    BY <2>2, <1>2 DEF l, il
<1>4. CASE ~(\A p \in Process : ~Settling(p) /\ ~Indexed(p))
  <2>1. PICK p \in Process : Settling(p) \/ Indexed(p)
    BY <1>4
  <2>2. holder = p /\ Preparing(p)
    BY <2>1 DEF AgreeIInv, HolderInv, Settling, Indexed, Preparing
  <2> DEFINE n == rollback_info[p].last_index
  <2>3. l <= n /\ Ahead(p)
    BY <1>1, <2>2 DEF BlockOK, FrontOK
  <2>4. \E xw : Front(n, il, xw)
    BY <2>1, <2>3 DEF Ahead
  <2>5. n \in Nat
    BY <1>2
  <2> HIDE DEF l, il, n
  <2>6. il >= l - 1
    BY <2>3, <2>4, <2>5, <1>2 DEF Front
  <2> QED
    BY <2>6, <1>2 DEF l, il
<1> QED
  BY <1>3, <1>4

(* What was committed is found: a record below the block's end has its entry *)
(* at its own place, and the entry leads to the record, whatever else dies,  *)
(* times out or is deleted.                                                  *)
THEOREM Agrees == Spec => []IndexAgrees
<1>1. AgreeIInv => IndexAgrees
  <2> SUFFICES ASSUME AgreeIInv, Safe, NEW i \in 1 .. header.last_index - 1
               PROVE  /\ Found(i)
                      /\ entries[i].state \in {"READABLE", "DELETED"}
                      /\ file[entries[i].offset].state \in {"READABLE", "DELETED"}
    BY DEF IndexAgrees, Safe
  <2>1. i \in Slot /\ Settled(i) /\ entries[i].offset = i
    BY SettledIsFound
  <2>2. i <= header.last_index
    <3>1. header.last_index \in Nat
      BY Ranges DEF AgreeIInv, TypeOK, FilesOK
    <3> QED
      BY <3>1
  <2>3. i <= index_header.last_index
    BY FrontOfFound
  <2> QED
    BY <2>1, <2>2, <2>3 DEF Found, Settled, Both
<1> QED
  BY <1>1, AgreeInvariant, PTL

----------------------------------------------------------------------------
(* Without torn commits the offset of the index is ahead of its last record, *)
(* except in an index that is empty; and one that stays empty beside a block *)
(* with records has no room for a single entry.                              *)
NoTear == faults \cap {"torn_block", "torn", "torn_first"} = {}
Level(il, iw) == iw > il \/ (il = 1 /\ iw = 1)
RoomAtAll == (index_header.total_size - IndexHeaderSize) % Modulus >= EntrySize
Full(p) ==
  LET n == rollback_info[p].last_index  x == index_info[p] IN
  /\ Collecting(p) \/ Settling(p) =>
       /\ Level(x.last_index, x.write_offset)
       /\ x.write_offset = 1 => x.used_bytes = 0
       /\ x.write_offset = 1 /\ n > 1 => ~RoomAtAll
  /\ Settling(p) => index_header.last_index = x.last_index
  /\ pc[p] = "index_offset" /\ x.write_offset = 1 => index_header.used_size = 0
  /\ Indexed(p) /\ index_header.write_offset = 1 /\ n > 1 => ~RoomAtAll
FullOK ==
  /\ (\A p \in Process : ~Settling(p)) =>
       Level(index_header.last_index, index_header.write_offset)
  /\ (\A p \in Process : pc[p] # "index_offset") /\ index_header.write_offset = 1 =>
       index_header.used_size = 0
  /\ index_header.write_offset = 1 /\ header.last_index > 1 => ~RoomAtAll
  /\ \A p \in Process : holder = p => Full(p)
FullInv == NoTear => FullOK

(* An empty index has room for an entry of its transaction or for none.      *)
LEMMA RoomOfEmpty ==
  ASSUME NEW p \in Process, index_header.used_size = 0, index_info[p].used_bytes = 0
  PROVE  index_has_space(p) <=> RoomAtAll
<1>1. 0 + 0 + IndexHeaderSize = IndexHeaderSize
  BY SizeAssumption
<1> QED
  BY <1>1 DEF index_has_space, RoomAtAll

(* An entry is accepted in an empty index for the block's first record only. *)
LEMMA EmptyIndexFirst ==
  ASSUME TypeOK, HolderInv, OpenInv, PlaceInv, FullOK, NEW p \in Process, Write(p),
         index_info[p].write_offset = 1
  PROVE  rollback_info[p].last_index = 1
<1> DEFINE n == rollback_info[p].last_index  x == index_info[p]
<1> SUFFICES ASSUME n # 1 PROVE FALSE
  OBVIOUS
<1>1. holder = p /\ pc[p] = "run" /\ n \in Slot /\ \A q \in Process \ {p} : pc[q] = "run"
  BY WriteFrame DEF Write, Wrote
<1>2. n > 1
  <2>1. n \in Nat \ {0}
    BY <1>1, Ranges
  <2> HIDE DEF n
  <2> QED
    BY <2>1
<1>3. Full(p)
  BY <1>1 DEF FullOK
<1>4. x.used_bytes = 0 /\ ~RoomAtAll
  BY <1>1, <1>2, <1>3 DEF Full, Collecting
<1>5. 1 <= index_header.write_offset /\ index_header.write_offset <= 1
  BY <1>1 DEF PlaceInv, Place, Collecting
<1>6. index_header.write_offset \in Nat
  BY Ranges DEF TypeOK, FilesOK
<1>7. index_header.write_offset = 1
  BY <1>5, <1>6
<1>8. index_header.used_size = 0
  BY <1>1, <1>7 DEF FullOK
<1> QED
  BY <1>4, <1>8, RoomOfEmpty DEF Write, Accepts

LEMMA StepFull ==
  ASSUME TypeOK, HolderInv, OpenInv, BlockInv, PlaceInv, FullInv, [Next]_vars
  PROVE  FullInv'
<1> SUFFICES ASSUME NoTear' PROVE FullOK'
  BY DEF FullInv
<1>1. NoTear
  BY FaultsGrow DEF NoTear
<1>0. NoTear'
  OBVIOUS
<1>2. FullOK
  BY <1>1 DEF FullInv
<1>3. FilesOK /\ ObjectsOK
  BY DEF TypeOK
<1>4. faults \subseteq faults'
  BY FaultsGrow
<1>5. /\ header.last_index \in Nat \ {0} /\ index_header.last_index \in Nat
      /\ index_header.write_offset \in Nat
      /\ \A p \in Process : /\ rollback_info[p].last_index \in Nat \ {0} \/ holder # p
                            /\ rollback_info[p].last_index \in Nat
                            /\ index_info[p].last_index \in Nat
                            /\ index_info[p].write_offset \in Nat
  BY Ranges DEF TypeOK, FilesOK, ObjectsOK, RollbackInfo, OpenInv
<1>6. \A p \in Process : holder = p /\ Preparing(p) => header.last_index <= rollback_info[p].last_index
  BY <1>1 DEF BlockInv, BlockOK, NoTear, WholeBlock
<1>7. /\ index_header.write_offset >= 1
      /\ \A p \in Process : holder = p /\ (Collecting(p) \/ Settling(p)) =>
           /\ index_header.write_offset <= index_info[p].write_offset
           /\ index_info[p].write_offset >= 1
  <2> SUFFICES ASSUME NEW p \in Process, holder = p, Collecting(p) \/ Settling(p)
               PROVE  /\ index_header.write_offset <= index_info[p].write_offset
                      /\ index_info[p].write_offset >= 1
    BY DEF PlaceInv
  <2> DEFINE a == index_info[p].start_offset  b == index_info[p].write_offset
  <2>1. a = index_header.write_offset /\ 1 <= a /\ a <= b
    BY DEF PlaceInv, Place, Collecting, Settling
  <2>2. a \in Nat /\ b \in Nat
    BY Ranges DEF TypeOK, ObjectsOK, RollbackInfo
  <2> HIDE DEF a, b
  <2>3. b >= 1 /\ index_header.write_offset <= b
    BY <2>1, <2>2
  <2> QED
    BY <2>3 DEF b
<1> USE <1>2, <1>3, <1>4, ProcessAssumption DEF FullOK, Full, Level, RoomAtAll, Collecting,
        Settling, Indexed, FilesOK, ObjectsOK, HolderInv, Goto, block, index, lock, local, commit
<1> QED
  <2>1. ASSUME NEW p \in Process, Open(p) PROVE FullOK'
    BY <2>1 DEF Open
  <2>2. ASSUME NEW p \in Process, Close(p) PROVE FullOK'
    BY <2>2 DEF Close, Forget, Ready
  <2>3. ASSUME NEW p \in Process, finish(p) PROVE FullOK'
    BY <2>3 DEF finish, SetWriteState, Ready
  <2>4. ASSUME NEW p \in Process, archive(p) PROVE FullOK'
    BY <2>4 DEF archive, SetWriteState, Ready
  <2>5. ASSUME NEW p \in Process, Start(p) PROVE FullOK'
    <3> HIDE DEF FilesOK, ObjectsOK, HolderInv
    <3>1. /\ UNCHANGED <<header, index_header, pc>> /\ pc[p] = "run"
          /\ holder' = p => \A q \in Process : pc[q] = "run"
          /\ \A q \in Process \ {p} : /\ holder' = q => holder = q
                                    /\ rollback_info'[q] = rollback_info[q]
                                    /\ index_info'[q] = index_info[q]
          /\ rollback_info'[p].last_index = header.last_index
          /\ index_info'[p].last_index = index_header.last_index
          /\ index_info'[p].write_offset = index_header.write_offset
          /\ index_info'[p].used_bytes = 0
      BY <2>5, StartFrame DEF Started
    <3> HIDE DEF Level
    <3>2. \A q \in Process : holder' = q => Full(q)'
      BY <3>1
    <3> HIDE DEF Full
    <3> QED
      BY <3>1, <3>2
  <2>6. ASSUME NEW p \in Process, Write(p) PROVE FullOK'
    <3> HIDE DEF FilesOK, ObjectsOK, HolderInv
    <3> DEFINE n == rollback_info[p].last_index  x == index_info[p]
    <3>1. /\ UNCHANGED <<header, holder, pc>> /\ holder = p /\ pc[p] = "run"
          /\ \A q \in Process \ {p} : holder # q
          /\ rollback_info'[p].last_index = n + 1
      BY <2>6, WriteFrame DEF Wrote, Write
    <3>2. /\ index_header' = index_header
          /\ index_info'[p].last_index = n /\ index_info'[p].write_offset = x.write_offset + 1
      BY <2>6, EntryFrame DEF Entered
    <3>3. n = 1 \/ n = x.last_index + 1
      BY <2>6 DEF Write, Accepts
    <3>4. /\ Full(p) /\ x.write_offset >= 1
          /\ 1 <= index_header.write_offset /\ index_header.write_offset <= x.write_offset
      BY <3>1, <1>7
    <3>7. x.write_offset = 1 => n = 1
      BY <2>6, EmptyIndexFirst
    <3>5. Level(n, x.write_offset + 1) /\ x.write_offset + 1 # 1
      <4> DEFINE a == x.last_index  b == x.write_offset
      <4>1. Level(a, b) /\ b >= 1 /\ a \in Nat /\ b \in Nat /\ n \in Nat
        BY <3>1, <3>4, <1>5
      <4>2. (n = 1 \/ n = a + 1) /\ (b = 1 => n = 1)
        BY <3>3, <3>7
      <4> HIDE DEF a, b, n
      <4>3. Level(n, b + 1) /\ b + 1 # 1
        BY <4>1, <4>2
      <4> QED
        BY <4>3 DEF b
    <3>6. Full(p)'
      BY <3>1, <3>2, <3>5
    <3> QED
      BY <3>1, <3>2, <3>6
  <2>7. ASSUME NEW p \in Process, WriteUnindexed(p) PROVE FullOK'
    <3> HIDE DEF FilesOK, ObjectsOK, HolderInv
    <3> DEFINE n == rollback_info[p].last_index  x == index_info[p]
    <3>1. /\ UNCHANGED <<header, holder, pc>> /\ holder = p /\ pc[p] = "run"
          /\ \A q \in Process \ {p} : holder # q /\ pc[q] = "run"
          /\ rollback_info'[p].last_index = n + 1
      BY <2>7, WriteFrame DEF Wrote, WriteUnindexed
    <3>2. UNCHANGED <<index_header, index_info>>
      BY <2>7 DEF WriteUnindexed
    <3>3. ~index_has_space(p) \/ (n # 1 /\ n # x.last_index + 1)
      BY <2>7 DEF WriteUnindexed, Accepts
    <3>4. Full(p) /\ 1 <= index_header.write_offset /\ index_header.write_offset <= x.write_offset
      BY <3>1, <1>7
    <3>5. x.write_offset = 1 => ~RoomAtAll
      <4> SUFFICES ASSUME x.write_offset = 1 PROVE ~RoomAtAll
        OBVIOUS
      <4>1. CASE n > 1
        BY <3>1, <3>4, <4>1
      <4>2. CASE n = 1
        <5>1. index_header.write_offset = 1
          BY <3>4, <1>5
        <5>2. index_header.used_size = 0 /\ x.used_bytes = 0
          BY <3>1, <3>4, <5>1
        <5> QED
          BY <4>2, <5>2, <3>3, RoomOfEmpty
      <4> QED
        BY <4>1, <4>2, <3>1, <1>5
    <3>6. Full(p)'
      BY <3>1, <3>2, <3>4, <3>5
    <3> QED
      BY <3>1, <3>2, <3>6
  <2>8. ASSUME NEW p \in Process, Commit(p) PROVE FullOK'
    BY <2>8 DEF Commit, Ready, in_transaction
  <2>9. ASSUME NEW p \in Process, MarkDeleted(p) PROVE FullOK'
    <3> HIDE DEF FilesOK, ObjectsOK, HolderInv
    <3> QED
      BY <2>9, DeleteFrame DEF Marking
  <2>10. ASSUME NEW p \in Process, CountDeleted(p) PROVE FullOK'
    BY <2>10 DEF CountDeleted
  <2>11. ASSUME NEW p \in Process, CommitIndex(p) PROVE FullOK'
    BY <2>11 DEF CommitIndex
  <2>12. ASSUME NEW p \in Process, ShowEntry(p) PROVE FullOK'
    <3> HIDE DEF FilesOK, ObjectsOK, HolderInv
    <3> QED
      BY <2>12, ShowFrame DEF Showing
  <2>13. ASSUME NEW p \in Process, IndexLast(p) PROVE FullOK'
    <3> HIDE DEF FilesOK, ObjectsOK, HolderInv
    <3>1. UNCHANGED <<header, rollback_info, index_info, holder>> /\ pc[p] = "entries"
      BY <2>13 DEF IndexLast
    <3>2. holder = p /\ pc'[p] = "index_used"
          /\ \A q \in Process \ {p} : holder # q /\ pc[q] = "run"
      <4> HIDE DEF Goto, block, index, lock, local, commit
      <4>1. Goto(p, "index_used") /\ pc[p] # "run"
        BY <2>13 DEF IndexLast
      <4> QED
        BY <4>1, <1>3, MoveFrame
    <3>3. /\ index_header'.last_index = index_info[p].last_index
          /\ index_header'.write_offset = index_header.write_offset
          /\ index_header'.used_size = index_header.used_size
          /\ index_header'.total_size = index_header.total_size
      BY <2>13, <1>3 DEF IndexLast, FilesOK
    <3> HIDE DEF Level
    <3> QED
      BY <3>1, <3>2, <3>3
  <2>14. ASSUME NEW p \in Process, IndexUsed(p) PROVE FullOK'
    <3> HIDE DEF FilesOK, ObjectsOK, HolderInv
    <3>1. UNCHANGED <<header, rollback_info, index_info, holder>> /\ pc[p] = "index_used"
      BY <2>14 DEF IndexUsed
    <3>2. holder = p /\ pc'[p] = "index_offset"
          /\ \A q \in Process \ {p} : holder # q /\ pc[q] = "run"
      <4> HIDE DEF Goto, block, index, lock, local, commit
      <4>1. Goto(p, "index_offset") /\ pc[p] # "run"
        BY <2>14 DEF IndexUsed
      <4> QED
        BY <4>1, <1>3, MoveFrame
    <3>3. /\ index_header'.last_index = index_header.last_index
          /\ index_header'.write_offset = index_header.write_offset
          /\ index_header'.used_size = index_header.used_size + index_info[p].used_bytes
          /\ index_header'.total_size = index_header.total_size
      BY <2>14, <1>3 DEF IndexUsed, FilesOK
    <3>4. Full(p) /\ 1 <= index_header.write_offset
          /\ index_header.write_offset <= index_info[p].write_offset
      BY <3>1, <3>2, <1>7
    <3>5. index_info[p].write_offset = 1 => index_header'.used_size = 0
      <4>1. index_info[p].write_offset = 1 => index_header.write_offset = 1
        BY <3>4, <1>5
      <4> HIDE DEF Level
      <4> QED
        BY <4>1, <3>1, <3>2, <3>3, <3>4
    <3> HIDE DEF Level
    <3> QED
      BY <3>1, <3>2, <3>3, <3>5
  <2>15. ASSUME NEW p \in Process, IndexOffset(p) PROVE FullOK'
    <3> HIDE DEF FilesOK, ObjectsOK, HolderInv
    <3>1. UNCHANGED <<header, rollback_info, index_info, holder>> /\ pc[p] = "index_offset"
      BY <2>15 DEF IndexOffset
    <3>2. holder = p /\ pc'[p] = "index_deletes"
          /\ \A q \in Process \ {p} : holder # q /\ pc[q] = "run"
      <4> HIDE DEF Goto, block, index, lock, local, commit
      <4>1. Goto(p, "index_deletes") /\ pc[p] # "run"
        BY <2>15 DEF IndexOffset
      <4> QED
        BY <4>1, <1>3, MoveFrame
    <3>3. /\ index_header'.last_index = index_header.last_index
          /\ index_header'.write_offset = index_info[p].write_offset
          /\ index_header'.used_size = index_header.used_size
          /\ index_header'.total_size = index_header.total_size
      BY <2>15, <1>3 DEF IndexOffset, FilesOK
    <3>4. Full(p) /\ header.last_index <= rollback_info[p].last_index
      BY <3>1, <3>2, <1>6 DEF Preparing
    <3>5. header.last_index > 1 => rollback_info[p].last_index > 1
      BY <3>4, <1>5
    <3> HIDE DEF Level
    <3>6. Full(p)'
      BY <3>1, <3>2, <3>3, <3>4
    <3>7. Level(index_header.last_index, index_header.write_offset)'
      BY <3>1, <3>2, <3>3, <3>4 DEF Level
    <3>8. index_header'.write_offset = 1 /\ header.last_index > 1 => ~RoomAtAll'
      BY <3>1, <3>3, <3>4, <3>5
    <3>9. index_header'.write_offset = 1 => index_header'.used_size = 0
      BY <3>1, <3>3, <3>4
    <3> HIDE DEF Full, RoomAtAll
    <3> QED
      BY <3>1, <3>2, <3>6, <3>7, <3>8, <3>9
  <2>16. ASSUME NEW p \in Process, IndexDelete(p) PROVE FullOK'
    BY <2>16 DEF IndexDelete
  <2>17. ASSUME NEW p \in Process, EndIndex(p) PROVE FullOK'
    <3> HIDE DEF FilesOK, ObjectsOK, HolderInv
    <3>1. UNCHANGED <<header, index_header, rollback_info, holder>> /\ pc[p] = "index_deletes"
      BY <2>17 DEF EndIndex
    <3>2. holder = p /\ pc'[p] = "records" /\ \A q \in Process \ {p} : holder # q /\ pc[q] = "run"
      <4> HIDE DEF Goto, block, index, lock, local, commit
      <4>1. Goto(p, "records") /\ pc[p] # "run"
        BY <2>17 DEF EndIndex
      <4> QED
        BY <4>1, <1>3, MoveFrame
    <3> QED
      BY <3>1, <3>2
  <2>18. ASSUME NEW p \in Process, MarkReadable(p) PROVE FullOK'
    BY <2>18 DEF MarkReadable
  <2>19. ASSUME NEW p \in Process, PublishLast(p) PROVE FullOK'
    <3> HIDE DEF FilesOK, ObjectsOK, HolderInv
    <3>1. UNCHANGED <<index_header, rollback_info, holder>> /\ pc[p] = "records"
      BY <2>19 DEF PublishLast
    <3>2. holder = p /\ pc'[p] = "used" /\ \A q \in Process \ {p} : holder # q /\ pc[q] = "run"
      <4> HIDE DEF Goto, block, index, lock, local, commit
      <4>1. Goto(p, "used") /\ pc[p] # "run"
        BY <2>19 DEF PublishLast
      <4> QED
        BY <4>1, <1>3, MoveFrame
    <3>3. header'.last_index = rollback_info[p].last_index
      BY <2>19, <1>3 DEF PublishLast, FilesOK
    <3> QED
      BY <3>1, <3>2, <3>3
  <2>20. ASSUME NEW p \in Process, PublishUsed(p) PROVE FullOK'
    BY <2>20 DEF PublishUsed
  <2>21. ASSUME NEW p \in Process, PublishOffset(p) PROVE FullOK'
    BY <2>21 DEF PublishOffset
  <2>22. ASSUME NEW p \in Process, PublishCounts(p) PROVE FullOK'
    BY <2>22 DEF PublishCounts
  <2>23. ASSUME NEW p \in Process, EndCommit(p) PROVE FullOK'
    BY <2>23 DEF EndCommit, end_transaction
  <2>24. ASSUME NEW p \in Process, rollback(p) PROVE FullOK'
    BY <2>24 DEF rollback, Ready, in_transaction, end_transaction
  <2>25. ASSUME NEW p \in Process, Crash(p) PROVE FullOK'
    <3> HIDE DEF FilesOK, ObjectsOK, HolderInv
    <3>1. /\ pc'[p] = "run" /\ holder' # p /\ UNCHANGED <<block, index>>
          /\ ~Settling(p) /\ ~Indexed(p)
      BY <2>25, <1>0, <1>3 DEF Crash, Faulty, DiedIn, ObjectsOK, NoTear
    <3>2. \A q \in Process \ {p} : /\ pc'[q] = pc[q] /\ (holder' = q => holder = q)
                                /\ rollback_info'[q] = rollback_info[q] /\ index_info'[q] = index_info[q]
      BY <2>25, <1>3 DEF Crash, Forget, ObjectsOK
    <3>3. \A q \in Process \ {p} : holder' = q => Full(q)'
      BY <3>1, <3>2
    <3> HIDE DEF Full, Level
    <3> QED
      BY <3>1, <3>2, <3>3
  <2>26. ASSUME NEW p \in Process, NEW i \in Slot, delete_record(p, i) PROVE FullOK'
    BY <2>26 DEF delete_record, Ready, in_transaction, Faulty
  <2>27. CASE Expire
    BY <2>27 DEF Expire
  <2>28. CASE UNCHANGED vars
    BY <2>28 DEF vars
  <2> QED
    BY <2>1, <2>2, <2>3, <2>4, <2>5, <2>6, <2>7, <2>8, <2>9, <2>10, <2>11, <2>12, <2>13,
       <2>14, <2>15, <2>16, <2>17, <2>18, <2>19, <2>20, <2>21, <2>22, <2>23, <2>24,
       <2>25, <2>26, <2>27, <2>28
    DEF Next, CommitStep

(* The entry that a commit is about to show is one of its transaction's.     *)
LEMMA EntryIsUsed ==
  ASSUME TypeOK, HolderInv, PlaceInv, NEW p \in Process, ShowEntry(p)
  PROVE  entries[cursor].state = "USED"
<1>1. /\ pc[p] = "entries" /\ holder = p /\ cursor < index_info[p].write_offset
  BY ShowFrame DEF Showing
<1>2. /\ cursor \in Nat /\ index_info[p].start_offset \in Nat
      /\ index_info[p].write_offset \in Nat /\ index_info[p].write_offset <= MaxRecords + 2
  BY Ranges DEF TypeOK, ObjectsOK, RollbackInfo, Offset
<1>3. Place(p)
  BY <1>1 DEF PlaceInv
<1>4. index_info[p].start_offset <= cursor /\ 1 <= index_info[p].start_offset
  BY <1>1, <1>3 DEF Place
<1>5. cursor \in Slot
  BY <1>1, <1>2, <1>4, BoundAssumption DEF Slot
<1> QED
  BY <1>1, <1>2, <1>3, <1>4, <1>5 DEF Place, Collecting

(* What the transaction has to delete is still found when its commit marks   *)
(* it: no write takes the entry or the record's place.                       *)
FoundOK == \A p \in Process : holder = p /\ pc[p] \in {"run", "deletes", "count"} =>
             \A k \in DOMAIN deletes[p] : Found(deletes[p][k])
FoundInv == Sound => FoundOK
BlocksOK == TypeOK /\ HolderInv /\ OpenInv /\ BlockInvs /\ FullInv

(* A new entry is never placed below the index of its record.                *)
LEMMA EntryNotBefore ==
  ASSUME BlocksOK, Sound, NEW p \in Process, Write(p)
  PROVE  index_info[p].write_offset >= rollback_info[p].last_index
<1> USE DEF BlocksOK, BlockInvs, AgreeIInv
<1> DEFINE n == rollback_info[p].last_index  xl == index_info[p].last_index
           xw == index_info[p].write_offset  l == header.last_index
           il == index_header.last_index  iw == index_header.write_offset
<1>1. holder = p /\ pc[p] = "run" /\ n \in Slot /\ \A q \in Process \ {p} : pc[q] = "run"
  BY WriteFrame DEF Write, Wrote
<1>2. n = 1 \/ n = xl + 1
  BY DEF Write, Accepts
<1>3. /\ l \in Nat \ {0} /\ il \in Nat /\ iw \in Nat /\ n \in Nat \ {0} /\ xl \in Nat
      /\ xw \in Nat /\ iw >= 1
  BY <1>1, Ranges DEF TypeOK, FilesOK, ObjectsOK, RollbackInfo, PlaceInv
<1>4. l <= n
  BY <1>1 DEF BlockInv, BlockOK, Sound, WholeBlock, Preparing
<1>5. CASE "unindexed" \notin faults
  <2>1. FrontOK
    BY <1>5 DEF FrontInv, Kept, Sound
  <2>2. Front(l, il, iw) /\ Ahead(p)
    BY <1>1, <2>1 DEF FrontOK, Settling, Indexed
  <2>3. /\ xw = iw + (n - l) /\ (n = l => xl = il)
        /\ (n > l => xl = n - 1 /\ (l = 1 \/ il = l - 1))
    BY <1>1, <2>2 DEF Ahead, Collecting
  <2>4. l = 1 \/ il >= l \/ (il = l - 1 /\ iw >= l)
    BY <2>2 DEF Front
  <2>5. xw >= n
    <3> HIDE DEF l, il, iw, n, xl, xw
    <3> QED
      BY <1>2, <1>3, <1>4, <2>3, <2>4
  <2> QED
    BY <2>5
<1>6. CASE faults \cap {"torn", "torn_first"} = {}
  <2>1. FullOK
    BY <1>6 DEF FullInv, NoTear, Sound
  <2>2. xw = 1 => n = 1
    BY <2>1, EmptyIndexFirst
  <2>3. Level(xl, xw) /\ 1 <= xw
    BY <1>1, <1>3, <2>1 DEF FullOK, Full, Collecting, PlaceInv, Place
  <2>4. xw >= n
    <3> HIDE DEF l, il, iw, n, xl, xw
    <3> QED
      BY <1>2, <1>3, <2>2, <2>3 DEF Level
  <2> QED
    BY <2>4
<1> QED
  BY <1>5, <1>6 DEF Sound

(* A record that is found stays where it is while others are written.        *)
LEMMA WriteSpares ==
  ASSUME BlocksOK, Sound, NEW p \in Process, NEW i \in Slot, Found(i), WriteRecord(p),
         \/ Write(p)
         \/ UNCHANGED index
  PROVE  Found(i)'
<1> USE DEF BlocksOK, BlockInvs, AgreeIInv
<1> DEFINE n == rollback_info[p].last_index  xw == index_info[p].write_offset
<1>1. BlockOK
  BY DEF BlockInv, WholeBlock, Sound
<1>2. /\ holder = p /\ pc[p] = "run" /\ n \in Slot /\ header' = header
      /\ rollback_info[p].write_offset = n /\ header.last_index <= n
      /\ file'[n].index = n /\ \A s \in Slot \ {n} : file'[s] = file[s]
  <2>1. Wrote(p)
    BY WriteFrame
  <2>2. rollback_info[p].write_offset = n /\ header.last_index <= n
    BY <1>1, <2>1 DEF BlockOK, Preparing, Wrote
  <2> QED
    BY <2>1, <2>2 DEF Wrote
<1>3. /\ i <= index_header.last_index /\ i <= header.last_index /\ entries[i].index = i
      /\ entries[i].offset = i /\ file[i].index = i
  BY <1>1 DEF Found, BlockOK
<1>4. file'[i].index = i
  BY <1>2, <1>3
<1>5. CASE UNCHANGED index
  BY <1>2, <1>3, <1>4, <1>5 DEF Found, index
<1>6. CASE Write(p)
  <2>1. /\ xw \in Slot /\ index_header' = index_header
        /\ entries'[xw].index = n /\ entries'[xw].offset = rollback_info[p].write_offset
        /\ \A s \in Slot \ {xw} : entries'[s] = entries[s]
    BY <1>6, EntryFrame DEF Entered
  <2>2. xw >= n
    BY <1>6, EntryNotBefore
  <2>3. xw # i \/ n = i
    <3>1. i \in Nat /\ xw \in Nat /\ n \in Nat /\ header.last_index \in Nat
      BY <1>2, <2>1, Ranges DEF TypeOK, FilesOK
    <3> QED
      BY <3>1, <2>2, <1>2, <1>3
  <2>4. entries'[i].index = i /\ entries'[i].offset = i
    BY <2>1, <2>3, <1>2, <1>3
  <2> QED
    BY <1>2, <1>3, <1>4, <2>1, <2>4 DEF Found
<1> QED
  BY <1>5, <1>6

(* Finding a record asks for indices and places only.                        *)
LEMMA FoundUntouched ==
  ASSUME NEW i, index_header' = index_header, header'.last_index = header.last_index,
         entries' = entries, \A s \in Slot : file'[s].index = file[s].index, Found(i)
  PROVE  Found(i)'
BY DEF Found

LEMMA StepFound ==
  ASSUME BlocksOK, FoundInv, [Next]_vars
  PROVE  FoundInv'
<1> SUFFICES ASSUME Sound' PROVE FoundOK'
  BY DEF FoundInv
<1>1. Sound
  BY FaultsGrow DEF Sound
<1>0. Sound'
  OBVIOUS
<1>2. FoundOK
  BY <1>1 DEF FoundInv
<1>3. FilesOK /\ ObjectsOK /\ TypeOK /\ HolderInv /\ OpenInv
  BY DEF TypeOK, BlocksOK
<1>4. BlocksOK
  OBVIOUS
<1>5. \A p \in Process : \A k \in DOMAIN deletes[p] : deletes[p][k] \in Slot
  BY <1>3 DEF ObjectsOK
<1> USE <1>2, <1>3, ProcessAssumption DEF FoundOK, FilesOK, ObjectsOK, HolderInv, Goto, block,
        index, lock, local, commit
<1> QED
  <2>1. ASSUME NEW p \in Process, Open(p) PROVE FoundOK'
    <3> HIDE DEF FilesOK, ObjectsOK, HolderInv
    <3>1. UNCHANGED <<index_header, entries, file, holder, deletes>> /\ (pc' = pc \/ pc[p] = "run")
      BY <2>1 DEF Open
    <3>2. header'.last_index = header.last_index /\ \A q \in Process \ {p} : pc'[q] = pc[q]
      BY <2>1, <1>3 DEF Open, FilesOK, ObjectsOK
    <3> QED
      BY <3>1, <3>2, FoundUntouched
  <2>2. ASSUME NEW p \in Process, Close(p) PROVE FoundOK'
    <3> HIDE DEF FilesOK, ObjectsOK, HolderInv
    <3>1. UNCHANGED <<block, index, pc>> /\ holder' # p
      BY <2>2 DEF Close, Forget
    <3>2. \A q \in Process \ {p} : /\ (holder' = q => holder = q) /\ deletes'[q] = deletes[q]
      BY <2>2, <1>3 DEF Close, Forget, ObjectsOK
    <3> QED
      BY <3>1, <3>2, FoundUntouched
  <2>3. ASSUME NEW p \in Process, finish(p) PROVE FoundOK'
    <3> HIDE DEF FilesOK, ObjectsOK, HolderInv
    <3>1. UNCHANGED <<index_header, entries, file, holder, deletes>> /\ (pc' = pc \/ pc[p] = "run")
      BY <2>3 DEF finish, SetWriteState, Ready
    <3>2. header'.last_index = header.last_index /\ \A q \in Process \ {p} : pc'[q] = pc[q]
      BY <2>3, <1>3 DEF finish, SetWriteState, Ready, FilesOK, ObjectsOK
    <3> QED
      BY <3>1, <3>2, FoundUntouched
  <2>4. ASSUME NEW p \in Process, archive(p) PROVE FoundOK'
    <3> HIDE DEF FilesOK, ObjectsOK, HolderInv
    <3>1. UNCHANGED <<index_header, entries, file, holder, deletes>> /\ (pc' = pc \/ pc[p] = "run")
      BY <2>4 DEF archive, SetWriteState, Ready
    <3>2. header'.last_index = header.last_index /\ \A q \in Process \ {p} : pc'[q] = pc[q]
      BY <2>4, <1>3 DEF archive, SetWriteState, Ready, FilesOK, ObjectsOK
    <3> QED
      BY <3>1, <3>2, FoundUntouched
  <2>5. ASSUME NEW p \in Process, Start(p) PROVE FoundOK'
    <3> HIDE DEF FilesOK, ObjectsOK, HolderInv
    <3>1. /\ UNCHANGED <<block, index, pc>> /\ deletes'[p] = <<>>
          /\ \A q \in Process \ {p} : /\ holder' = q => holder = q
                                    /\ deletes'[q] = deletes[q]
      BY <2>5, StartFrame DEF Started
    <3> QED
      BY <3>1, FoundUntouched
  <2>6. ASSUME NEW p \in Process, Write(p) PROVE FoundOK'
    <3> HIDE DEF FilesOK, ObjectsOK, HolderInv
    <3>1. WriteRecord(p)
      BY <2>6 DEF Write
    <3>2. UNCHANGED <<holder, pc, deletes>>
      BY <3>1 DEF WriteRecord
    <3> HIDE DEF index
    <3>3. \A i \in Slot : Found(i) => Found(i)'
      BY <2>6, <1>1, <1>4, <3>1, WriteSpares
    <3> HIDE DEF Found
    <3> QED
      BY <3>2, <3>3, <1>5
  <2>7. ASSUME NEW p \in Process, WriteUnindexed(p) PROVE FoundOK'
    <3> HIDE DEF FilesOK, ObjectsOK, HolderInv
    <3>1. WriteRecord(p) /\ UNCHANGED index
      BY <2>7 DEF WriteUnindexed
    <3>2. UNCHANGED <<holder, pc, deletes>>
      BY <3>1 DEF WriteRecord
    <3> HIDE DEF index
    <3>3. \A i \in Slot : Found(i) => Found(i)'
      BY <1>1, <1>4, <3>1, WriteSpares
    <3> HIDE DEF Found
    <3> QED
      BY <3>2, <3>3, <1>5
  <2>8. ASSUME NEW p \in Process, Commit(p) PROVE FoundOK'
    <3> HIDE DEF FilesOK, ObjectsOK, HolderInv
    <3>1. UNCHANGED <<index_header, entries, file, holder, deletes>> /\ (pc' = pc \/ pc[p] = "run")
      BY <2>8 DEF Commit, Ready, in_transaction
    <3>2. header'.last_index = header.last_index /\ \A q \in Process \ {p} : pc'[q] = pc[q]
      BY <2>8, <1>3 DEF Commit, Ready, in_transaction, FilesOK, ObjectsOK
    <3> QED
      BY <3>1, <3>2, FoundUntouched
  <2>9. ASSUME NEW p \in Process, MarkDeleted(p) PROVE FoundOK'
    <3> HIDE DEF FilesOK, ObjectsOK, HolderInv
    <3>1. UNCHANGED <<header, entries, index_header, holder, deletes>>
          /\ pc[p] = "deletes" /\ holder = p
          /\ (\A q \in Process \ {p} : holder # q) /\ \A s \in Slot : file'[s].index = file[s].index
      BY <2>9, DeleteFrame DEF Marking
    <3> QED
      BY <3>1, FoundUntouched
  <2>10. ASSUME NEW p \in Process, CountDeleted(p) PROVE FoundOK'
    <3> HIDE DEF FilesOK, ObjectsOK, HolderInv
    <3>1. UNCHANGED <<file, entries, index_header, holder, deletes>>
          /\ pc[p] = "count" /\ holder = p
          /\ (\A q \in Process \ {p} : holder # q)
      BY <2>10, <1>3, OnlyHolder DEF CountDeleted
    <3>2. header'.last_index = header.last_index
      BY <2>10, <1>3 DEF CountDeleted, FilesOK
    <3> QED
      BY <3>1, <3>2, FoundUntouched
  <2>11. ASSUME NEW p \in Process, CommitIndex(p) PROVE FoundOK'
    <3> HIDE DEF FilesOK, ObjectsOK, HolderInv
    <3>1. pc[p] # "run" /\ ~(pc'[p] \in {"run", "deletes", "count"}) /\ holder' = holder
      BY <2>11, <1>3 DEF CommitIndex, ObjectsOK
    <3>2. \A q \in Process \ {p} : holder # q
      BY <3>1, <1>3, OnlyHolder
    <3> QED
      BY <3>1, <3>2
  <2>12. ASSUME NEW p \in Process, ShowEntry(p) PROVE FoundOK'
    <3> HIDE DEF FilesOK, ObjectsOK, HolderInv
    <3>1. /\ UNCHANGED <<block, index_header, holder, deletes>>
          /\ pc[p] = "entries" /\ holder = p /\ \A q \in Process \ {p} : holder # q
          /\ entries[cursor].state = "USED" => pc'[p] = "entries"
      BY <2>12, ShowFrame DEF Showing
    <3>2. entries[cursor].state = "USED"
      BY <2>12, <1>1, EntryIsUsed DEF BlocksOK, BlockInvs
    <3> QED
      BY <3>1, <3>2
  <2>13. ASSUME NEW p \in Process, IndexLast(p) PROVE FoundOK'
    <3> HIDE DEF FilesOK, ObjectsOK, HolderInv
    <3>1. pc[p] # "run" /\ ~(pc'[p] \in {"run", "deletes", "count"}) /\ holder' = holder
      BY <2>13, <1>3 DEF IndexLast, ObjectsOK
    <3>2. \A q \in Process \ {p} : holder # q
      BY <3>1, <1>3, OnlyHolder
    <3> QED
      BY <3>1, <3>2
  <2>14. ASSUME NEW p \in Process, IndexUsed(p) PROVE FoundOK'
    <3> HIDE DEF FilesOK, ObjectsOK, HolderInv
    <3>1. pc[p] # "run" /\ ~(pc'[p] \in {"run", "deletes", "count"}) /\ holder' = holder
      BY <2>14, <1>3 DEF IndexUsed, ObjectsOK
    <3>2. \A q \in Process \ {p} : holder # q
      BY <3>1, <1>3, OnlyHolder
    <3> QED
      BY <3>1, <3>2
  <2>15. ASSUME NEW p \in Process, IndexOffset(p) PROVE FoundOK'
    <3> HIDE DEF FilesOK, ObjectsOK, HolderInv
    <3>1. pc[p] # "run" /\ ~(pc'[p] \in {"run", "deletes", "count"}) /\ holder' = holder
      BY <2>15, <1>3 DEF IndexOffset, ObjectsOK
    <3>2. \A q \in Process \ {p} : holder # q
      BY <3>1, <1>3, OnlyHolder
    <3> QED
      BY <3>1, <3>2
  <2>16. ASSUME NEW p \in Process, IndexDelete(p) PROVE FoundOK'
    <3> HIDE DEF FilesOK, ObjectsOK, HolderInv
    <3>1. pc[p] # "run" /\ ~(pc'[p] \in {"run", "deletes", "count"}) /\ holder' = holder
      BY <2>16, <1>3 DEF IndexDelete, ObjectsOK
    <3>2. \A q \in Process \ {p} : holder # q
      BY <3>1, <1>3, OnlyHolder
    <3> QED
      BY <3>1, <3>2
  <2>17. ASSUME NEW p \in Process, EndIndex(p) PROVE FoundOK'
    <3> HIDE DEF FilesOK, ObjectsOK, HolderInv
    <3>1. pc[p] # "run" /\ ~(pc'[p] \in {"run", "deletes", "count"}) /\ holder' = holder
      BY <2>17, <1>3 DEF EndIndex, ObjectsOK
    <3>2. \A q \in Process \ {p} : holder # q
      BY <3>1, <1>3, OnlyHolder
    <3> QED
      BY <3>1, <3>2
  <2>18. ASSUME NEW p \in Process, MarkReadable(p) PROVE FoundOK'
    <3> HIDE DEF FilesOK, ObjectsOK, HolderInv
    <3>1. pc[p] # "run" /\ ~(pc'[p] \in {"run", "deletes", "count"}) /\ holder' = holder
      BY <2>18, <1>3 DEF MarkReadable, ObjectsOK
    <3>2. \A q \in Process \ {p} : holder # q
      BY <3>1, <1>3, OnlyHolder
    <3> QED
      BY <3>1, <3>2
  <2>19. ASSUME NEW p \in Process, PublishLast(p) PROVE FoundOK'
    <3> HIDE DEF FilesOK, ObjectsOK, HolderInv
    <3>1. pc[p] # "run" /\ ~(pc'[p] \in {"run", "deletes", "count"}) /\ holder' = holder
      BY <2>19, <1>3 DEF PublishLast, ObjectsOK
    <3>2. \A q \in Process \ {p} : holder # q
      BY <3>1, <1>3, OnlyHolder
    <3> QED
      BY <3>1, <3>2
  <2>20. ASSUME NEW p \in Process, PublishUsed(p) PROVE FoundOK'
    <3> HIDE DEF FilesOK, ObjectsOK, HolderInv
    <3>1. pc[p] # "run" /\ ~(pc'[p] \in {"run", "deletes", "count"}) /\ holder' = holder
      BY <2>20, <1>3 DEF PublishUsed, ObjectsOK
    <3>2. \A q \in Process \ {p} : holder # q
      BY <3>1, <1>3, OnlyHolder
    <3> QED
      BY <3>1, <3>2
  <2>21. ASSUME NEW p \in Process, PublishOffset(p) PROVE FoundOK'
    <3> HIDE DEF FilesOK, ObjectsOK, HolderInv
    <3>1. pc[p] # "run" /\ ~(pc'[p] \in {"run", "deletes", "count"}) /\ holder' = holder
      BY <2>21, <1>3 DEF PublishOffset, ObjectsOK
    <3>2. \A q \in Process \ {p} : holder # q
      BY <3>1, <1>3, OnlyHolder
    <3> QED
      BY <3>1, <3>2
  <2>22. ASSUME NEW p \in Process, PublishCounts(p) PROVE FoundOK'
    <3> HIDE DEF FilesOK, ObjectsOK, HolderInv
    <3>1. pc[p] # "run" /\ ~(pc'[p] \in {"run", "deletes", "count"}) /\ holder' = holder
      BY <2>22, <1>3 DEF PublishCounts, ObjectsOK
    <3>2. \A q \in Process \ {p} : holder # q
      BY <3>1, <1>3, OnlyHolder
    <3> QED
      BY <3>1, <3>2
  <2>23. ASSUME NEW p \in Process, EndCommit(p) PROVE FoundOK'
    <3> HIDE DEF FilesOK, ObjectsOK, HolderInv
    <3>1. holder' = NoProcess
      BY <2>23 DEF EndCommit, end_transaction
    <3> QED
      BY <3>1
  <2>24. ASSUME NEW p \in Process, rollback(p) PROVE FoundOK'
    <3> HIDE DEF FilesOK, ObjectsOK, HolderInv
    <3>1. holder' = NoProcess
      BY <2>24 DEF rollback, end_transaction
    <3> QED
      BY <3>1
  <2>25. ASSUME NEW p \in Process, Crash(p) PROVE FoundOK'
    <3> HIDE DEF FilesOK, ObjectsOK, HolderInv
    <3>1. holder' # p /\ UNCHANGED <<block, index>>
      BY <2>25 DEF Crash, Forget
    <3>2. \A q \in Process \ {p} : /\ pc'[q] = pc[q] /\ (holder' = q => holder = q)
                                /\ deletes'[q] = deletes[q]
      BY <2>25, <1>3 DEF Crash, Forget, ObjectsOK
    <3> QED
      BY <3>1, <3>2, FoundUntouched
  <2>26. ASSUME NEW p \in Process, NEW i \in Slot, delete_record(p, i) PROVE FoundOK'
    <3>1. /\ UNCHANGED <<block, index, holder, pc>> /\ Found(i)
          /\ deletes' = [deletes EXCEPT ![p] = Append(deletes[p], i)]
      BY <2>26 DEF delete_record
    <3>2. deletes[p] \in Seq(Slot)
      BY <1>3 DEF ObjectsOK
    <3>3. /\ \A q \in Process \ {p} : deletes'[q] = deletes[q]
          /\ deletes'[p] = Append(deletes[p], i)
      BY <3>1, <1>3 DEF ObjectsOK
    <3>4. /\ DOMAIN deletes'[p] = 1 .. Len(deletes[p]) + 1 /\ DOMAIN deletes[p] = 1 .. Len(deletes[p])
          /\ deletes'[p][Len(deletes[p]) + 1] = i
          /\ \A k \in DOMAIN deletes[p] : deletes'[p][k] = deletes[p][k]
      BY <3>2, <3>3
    <3>5. \A j \in Slot : Found(j) => Found(j)'
      BY <3>1, FoundUntouched
    <3> HIDE DEF FilesOK, ObjectsOK, HolderInv, Found
    <3>6. ASSUME holder = p, pc[p] \in {"run", "deletes", "count"}, NEW k \in DOMAIN deletes'[p]
          PROVE  Found(deletes[p][k])'
      <4>1. CASE k = Len(deletes[p]) + 1
        BY <4>1, <3>1, <3>4, <3>5
      <4>2. CASE k # Len(deletes[p]) + 1
        <5>1. k \in DOMAIN deletes[p]
          BY <3>2, <3>4, <4>2
        <5> QED
          BY <5>1, <3>1, <3>4, <3>5, <3>6, <1>5
      <4> QED
        BY <4>1, <4>2
    <3> QED
      BY <3>1, <3>3, <3>5, <3>6, <1>5
  <2>27. CASE Expire
    <3> HIDE DEF FilesOK, ObjectsOK, HolderInv
    <3>1. holder' = NoProcess
      BY <2>27 DEF Expire
    <3> QED
      BY <3>1
  <2>28. CASE UNCHANGED vars
    <3> HIDE DEF FilesOK, ObjectsOK, HolderInv
    <3> QED
      BY <2>28, FoundUntouched DEF vars
  <2> QED
    BY <2>1, <2>2, <2>3, <2>4, <2>5, <2>6, <2>7, <2>8, <2>9, <2>10, <2>11, <2>12, <2>13,
       <2>14, <2>15, <2>16, <2>17, <2>18, <2>19, <2>20, <2>21, <2>22, <2>23, <2>24,
       <2>25, <2>26, <2>27, <2>28
    DEF Next, CommitStep

ThrowIInv == BlocksOK /\ FoundInv

LEMMA InitThrow == Init => ThrowIInv
<1> SUFFICES ASSUME Init PROVE FullInv /\ FoundInv
  BY InitAgree DEF ThrowIInv, BlocksOK, AgreeIInv
<1>1. FullInv
  BY ProcessAssumption DEF Init, FullInv, FullOK, Level
<1>2. FoundInv
  BY ProcessAssumption DEF Init, FoundInv, FoundOK
<1> QED
  BY <1>1, <1>2

LEMMA StepThrow == ThrowIInv /\ [Next]_vars => ThrowIInv'
<1> SUFFICES ASSUME ThrowIInv, [Next]_vars PROVE ThrowIInv'
  OBVIOUS
<1>1. AgreeIInv'
  BY StepAgreeIInv DEF ThrowIInv, BlocksOK, AgreeIInv
<1>2. FullInv' /\ FoundInv'
  BY StepFull, StepFound DEF ThrowIInv, BlocksOK, BlockInvs
<1> QED
  BY <1>1, <1>2 DEF ThrowIInv, BlocksOK, AgreeIInv

(* A commit leaves off where it ends, or where its process does: the records *)
(* it deletes are found and the entries it shows are its own, whatever other *)
(* processes did, expired or died of since the transaction began.            *)
THEOREM NeverThrows == Spec => CommitNeverThrows
<1>1. ThrowIInv /\ [Next]_vars =>
        \A q \in Process : pc[q] # "run" /\ pc'[q] = "run" /\ Sound => pc[q] = "end" \/ ~open'[q]
  <2> SUFFICES ASSUME ThrowIInv, [Next]_vars, NEW q \in Process,
                      pc[q] # "run", pc'[q] = "run", Sound
               PROVE  pc[q] = "end" \/ ~open'[q]
    OBVIOUS
  <2> USE DEF Goto, Ready, local, commit
  <2>0. TypeOK /\ ObjectsOK /\ HolderInv /\ OpenInv /\ PlaceInv /\ CursorInv
    BY DEF ThrowIInv, BlocksOK, BlockInvs, TypeOK
  <2>1. ASSUME NEW p \in Process, Open(p) PROVE pc[q] = "end" \/ ~open'[q]
    BY <2>1, <2>0 DEF ObjectsOK, Open
  <2>2. ASSUME NEW p \in Process, Close(p) PROVE pc[q] = "end" \/ ~open'[q]
    BY <2>2, <2>0 DEF ObjectsOK, Close, Forget, Ready
  <2>3. ASSUME NEW p \in Process, finish(p) PROVE pc[q] = "end" \/ ~open'[q]
    BY <2>3, <2>0 DEF ObjectsOK, finish, SetWriteState, Ready
  <2>4. ASSUME NEW p \in Process, archive(p) PROVE pc[q] = "end" \/ ~open'[q]
    BY <2>4, <2>0 DEF ObjectsOK, archive, SetWriteState, Ready
  <2>5. ASSUME NEW p \in Process, Start(p) PROVE pc[q] = "end" \/ ~open'[q]
    BY <2>5, <2>0 DEF ObjectsOK, Start, Ready, setup_transaction, setup_index
  <2>6. ASSUME NEW p \in Process, Write(p) PROVE pc[q] = "end" \/ ~open'[q]
    BY <2>6, <2>0 DEF ObjectsOK, Write, WriteRecord, Ready, in_transaction
  <2>7. ASSUME NEW p \in Process, WriteUnindexed(p) PROVE pc[q] = "end" \/ ~open'[q]
    BY <2>7, <2>0 DEF ObjectsOK, WriteUnindexed, WriteRecord, Ready, in_transaction, Faulty
  <2>8. ASSUME NEW p \in Process, Commit(p) PROVE pc[q] = "end" \/ ~open'[q]
    BY <2>8, <2>0 DEF ObjectsOK, Commit, Ready, in_transaction
  <2>9. ASSUME NEW p \in Process, MarkDeleted(p) PROVE pc[q] = "end" \/ ~open'[q]
    <3>1. /\ pc[p] = "deletes" /\ holder = p /\ cursor <= Len(deletes[p])
          /\ \A r \in Process \ {p} : pc[r] = "run"
          /\ Found(deletes[p][cursor]) => pc'[p] = "count"
      BY <2>9, <2>0, DeleteFrame DEF Marking
    <3>2. deletes[p] \in Seq(Slot) /\ cursor \in Nat /\ cursor >= 1
      BY <2>0, <3>1 DEF ObjectsOK, CursorInv
    <3>3. cursor \in DOMAIN deletes[p]
      BY <3>1, <3>2
    <3>4. Found(deletes[p][cursor])
      BY <3>1, <3>3 DEF ThrowIInv, FoundInv, FoundOK
    <3> QED
      BY <3>1, <3>4
  <2>10. ASSUME NEW p \in Process, CountDeleted(p) PROVE pc[q] = "end" \/ ~open'[q]
    BY <2>10, <2>0 DEF ObjectsOK, CountDeleted
  <2>11. ASSUME NEW p \in Process, CommitIndex(p) PROVE pc[q] = "end" \/ ~open'[q]
    BY <2>11, <2>0 DEF ObjectsOK, CommitIndex
  <2>12. ASSUME NEW p \in Process, ShowEntry(p) PROVE pc[q] = "end" \/ ~open'[q]
    <3>1. entries[cursor].state = "USED"
      BY <2>12, <2>0, EntryIsUsed
    <3>2. \A r \in Process \ {p} : pc[r] = "run"
      BY <2>12, <2>0, ShowFrame DEF Showing
    <3> QED
      BY <2>12, <3>1, <3>2 DEF ShowEntry
  <2>13. ASSUME NEW p \in Process, IndexLast(p) PROVE pc[q] = "end" \/ ~open'[q]
    BY <2>13, <2>0 DEF ObjectsOK, IndexLast
  <2>14. ASSUME NEW p \in Process, IndexUsed(p) PROVE pc[q] = "end" \/ ~open'[q]
    BY <2>14, <2>0 DEF ObjectsOK, IndexUsed
  <2>15. ASSUME NEW p \in Process, IndexOffset(p) PROVE pc[q] = "end" \/ ~open'[q]
    BY <2>15, <2>0 DEF ObjectsOK, IndexOffset
  <2>16. ASSUME NEW p \in Process, IndexDelete(p) PROVE pc[q] = "end" \/ ~open'[q]
    BY <2>16, <2>0 DEF ObjectsOK, IndexDelete
  <2>17. ASSUME NEW p \in Process, EndIndex(p) PROVE pc[q] = "end" \/ ~open'[q]
    BY <2>17, <2>0 DEF ObjectsOK, EndIndex
  <2>18. ASSUME NEW p \in Process, MarkReadable(p) PROVE pc[q] = "end" \/ ~open'[q]
    BY <2>18, <2>0 DEF ObjectsOK, MarkReadable
  <2>19. ASSUME NEW p \in Process, PublishLast(p) PROVE pc[q] = "end" \/ ~open'[q]
    BY <2>19, <2>0 DEF ObjectsOK, PublishLast
  <2>20. ASSUME NEW p \in Process, PublishUsed(p) PROVE pc[q] = "end" \/ ~open'[q]
    BY <2>20, <2>0 DEF ObjectsOK, PublishUsed
  <2>21. ASSUME NEW p \in Process, PublishOffset(p) PROVE pc[q] = "end" \/ ~open'[q]
    BY <2>21, <2>0 DEF ObjectsOK, PublishOffset
  <2>22. ASSUME NEW p \in Process, PublishCounts(p) PROVE pc[q] = "end" \/ ~open'[q]
    BY <2>22, <2>0 DEF ObjectsOK, PublishCounts
  <2>23. ASSUME NEW p \in Process, EndCommit(p) PROVE pc[q] = "end" \/ ~open'[q]
    BY <2>23, <2>0 DEF ObjectsOK, EndCommit, end_transaction
  <2>24. ASSUME NEW p \in Process, rollback(p) PROVE pc[q] = "end" \/ ~open'[q]
    BY <2>24, <2>0 DEF ObjectsOK, rollback, Ready, in_transaction, end_transaction
  <2>25. ASSUME NEW p \in Process, Crash(p) PROVE pc[q] = "end" \/ ~open'[q]
    BY <2>25, <2>0 DEF ObjectsOK, Crash, Forget, Faulty
  <2>26. ASSUME NEW p \in Process, NEW i \in Slot, delete_record(p, i)
         PROVE pc[q] = "end" \/ ~open'[q]
    BY <2>26, <2>0 DEF ObjectsOK, delete_record, Ready, in_transaction, Faulty
  <2>27. CASE Expire
    BY <2>27 DEF Expire
  <2>28. CASE UNCHANGED vars
    BY <2>28 DEF vars
  <2> QED
    BY <2>1, <2>2, <2>3, <2>4, <2>5, <2>6, <2>7, <2>8, <2>9, <2>10, <2>11, <2>12, <2>13,
       <2>14, <2>15, <2>16, <2>17, <2>18, <2>19, <2>20, <2>21, <2>22, <2>23, <2>24,
       <2>25, <2>26, <2>27, <2>28
    DEF Next, CommitStep
<1>2. ThrowIInv /\ [Next]_vars =>
        [\A p \in Process :
           pc[p] # "run" /\ pc'[p] = "run" /\ Sound => pc[p] = "end" \/ ~open'[p]]_vars
  BY <1>1
<1>3. Spec => []ThrowIInv
  BY InitThrow, StepThrow, PTL DEF Spec
<1> QED
  BY <1>2, <1>3, PTL DEF Spec, CommitNeverThrows

----------------------------------------------------------------------------
(* As long as nothing went wrong, all of the above holds.                    *)
Clean == faults = {}
CleanBlock == /\ TypeOK /\ FilesOK /\ ObjectsOK /\ HolderInv /\ OpenInv /\ OwnInv /\ CursorInv /\ PlaceInv
              /\ BlockOK /\ FrontOK /\ AgreeOK /\ FoundOK

LEMMA CleanHolds == ASSUME ThrowIInv, Clean PROVE CleanBlock
<1>1. Safe /\ Kept /\ WholeBlock /\ Sound
  BY DEF Clean, Safe, Kept, WholeBlock, Sound
<1> QED
  BY <1>1 DEF ThrowIInv, BlocksOK, BlockInvs, TypeOK, BlockInv, FrontInv, AgreeInv, FoundInv,
     CleanBlock

(* The writes and the commit of a transaction stay above the block's end, so *)
(* that what others committed keeps its place and its state.                 *)
LEMMA WriteAbove ==
  ASSUME ThrowIInv, Clean, NEW p \in Process, Write(p)
  PROVE  /\ UNCHANGED <<header, holder, pc, cursor, added, deletes>>
         /\ holder = p /\ pc[p] = "run" /\ (\A q \in Process \ {p} : holder # q /\ pc[q] = "run")
         /\ \A s \in Slot : InBlock(s) => file'[s] = file[s] /\ entries'[s] = entries[s]
<1> DEFINE n == rollback_info[p].last_index
<1>1. CleanBlock
  BY CleanHolds
<1>2. /\ UNCHANGED <<header, holder, pc, cursor, added, deletes>>
      /\ holder = p /\ pc[p] = "run" /\ (\A q \in Process \ {p} : holder # q /\ pc[q] = "run")
      /\ \A s \in Slot \ {rollback_info[p].write_offset} : file'[s] = file[s]
  BY <1>1, WriteFrame DEF CleanBlock, Write, Wrote, commit, lock
<1>3. \A s \in Slot \ {index_info[p].write_offset} : entries'[s] = entries[s]
  BY <1>1, EntryFrame DEF CleanBlock, Entered
<1>4. index_info[p].write_offset = n
  BY <1>2, EntryInPlace DEF ThrowIInv, BlocksOK, BlockInvs, Clean, Safe
<1>5. rollback_info[p].write_offset = n /\ header.last_index <= n
  BY <1>1, <1>2 DEF CleanBlock, BlockOK, Preparing
<1>6. n \in Nat /\ header.last_index \in Nat /\ Slot \subseteq Nat
  BY <1>1, Ranges DEF CleanBlock, FilesOK, ObjectsOK, RollbackInfo
<1>7. \A s \in Slot : s < header.last_index => s # n
  <2> HIDE DEF n
  <2> QED
    BY <1>5, <1>6
<1> QED
  BY <1>2, <1>3, <1>4, <1>5, <1>7 DEF InBlock

LEMMA ShowAbove ==
  ASSUME ThrowIInv, Clean, NEW p \in Process, ShowEntry(p)
  PROVE  /\ UNCHANGED <<block, holder, added, deletes>> /\ holder = p
         /\ pc[p] = "entries" /\ pc'[p] = "entries"
         /\ (\A q \in Process \ {p} : holder # q /\ pc[q] = "run" /\ pc'[q] = "run")
         /\ \A s \in Slot : InBlock(s) => entries'[s].state = entries[s].state
<1> DEFINE n == rollback_info[p].last_index  l == header.last_index  x == index_info[p]
           iw == index_header.write_offset
<1>1. CleanBlock
  BY CleanHolds
<1>2. /\ UNCHANGED <<block, holder, added, deletes>>
      /\ holder = p /\ pc[p] = "entries" /\ cursor < x.write_offset
      /\ (\A q \in Process \ {p} : holder # q /\ pc[q] = "run" /\ pc'[q] = "run")
      /\ entries[cursor].state = "USED" =>
           pc'[p] = "entries" /\ \A s \in Slot : s # cursor => entries'[s].state = entries[s].state
  BY <1>1, ShowFrame DEF CleanBlock, Showing, lock, local
<1>3. entries[cursor].state = "USED"
  BY <1>1, EntryIsUsed DEF CleanBlock
<1>4. /\ l \in Nat /\ n \in Nat /\ x.write_offset \in Nat /\ x.start_offset \in Nat /\ iw \in Nat
      /\ cursor \in Nat /\ Slot \subseteq Nat
  BY <1>1, Ranges DEF CleanBlock, FilesOK, ObjectsOK, RollbackInfo
<1>5. x.start_offset <= cursor /\ x.start_offset = iw /\ l <= n /\ x.write_offset = iw + (n - l)
  BY <1>1, <1>2 DEF CleanBlock, PlaceInv, Place, Collecting, FrontOK, Ahead, BlockOK, Preparing
<1>6. n > l
  <2> DEFINE a == x.start_offset  b == x.write_offset
  <2>1. a <= cursor /\ cursor < b /\ a = iw /\ b = iw + (n - l) /\ a \in Nat /\ b \in Nat
    BY <1>2, <1>4, <1>5
  <2> HIDE DEF a, b, n, l, iw
  <2> QED
    BY <2>1, <1>4, <1>5
<1>7. x.start_offset = l
  BY <1>2, <1>6, SettledOffsets DEF ThrowIInv, BlocksOK, BlockInvs, Clean, Safe
<1>8. \A s \in Slot : InBlock(s) => s # cursor
  BY <1>4, <1>5, <1>7 DEF InBlock
<1> QED
  BY <1>2, <1>3, <1>8

(* A commit that nothing went wrong for finds what it deletes.               *)
LEMMA MarkFinds ==
  ASSUME ThrowIInv, Clean, NEW p \in Process, MarkDeleted(p)
  PROVE  LET i == deletes[p][cursor] IN
         /\ UNCHANGED <<header, entries, holder, cursor, added, deletes>> /\ holder = p
         /\ pc[p] = "deletes" /\ pc'[p] = "count" /\ cursor \in DOMAIN deletes[p]
         /\ cursor <= Len(deletes[p]) /\ i \in Slot /\ InBlock(i)
         /\ (\A q \in Process \ {p} : holder # q /\ pc[q] = "run" /\ pc'[q] = "run")
         /\ \A s \in Slot : file'[s].state = IF s = i THEN "DELETED" ELSE file[s].state
<1> DEFINE i == deletes[p][cursor]
<1>1. CleanBlock
  BY CleanHolds
<1>2. Marking(p)
  BY <1>1, DeleteFrame DEF CleanBlock
<1>3. cursor \in Nat /\ cursor >= 1 /\ cursor <= Len(deletes[p]) /\ deletes[p] \in Seq(Slot)
  BY <1>1, <1>2 DEF CleanBlock, ObjectsOK, CursorInv, Marking
<1>4. cursor \in DOMAIN deletes[p] /\ i \in Slot
  BY <1>3
<1>5. Found(i) /\ InBlock(i)
  BY <1>1, <1>2, <1>4 DEF CleanBlock, FoundOK, OwnInv, Clean, InBlock, Marking
<1>6. entries[i].offset = i
  BY <1>1, <1>4, <1>5 DEF CleanBlock, BlockOK, Found
<1> QED
  BY <1>2, <1>3, <1>4, <1>5, <1>6 DEF Marking, lock, local, index

(* What the index marks deleted is in the block, too.                        *)
LEMMA IndexMarks ==
  ASSUME ThrowIInv, Clean, NEW p \in Process, IndexDelete(p)
  PROVE  LET i == deletes[p][cursor] IN
         /\ UNCHANGED <<block, holder, pc, added, deletes>> /\ holder = p /\ cursor' = cursor + 1
         /\ pc[p] = "index_deletes" /\ cursor \in DOMAIN deletes[p]
         /\ cursor <= Len(deletes[p]) /\ i \in Slot /\ InBlock(i)
         /\ (\A q \in Process \ {p} : holder # q /\ pc[q] = "run")
         /\ \A s \in Slot : entries'[s].state = IF s = i THEN "DELETED" ELSE entries[s].state
<1> DEFINE i == deletes[p][cursor]
<1>1. CleanBlock
  BY CleanHolds
<1>2. /\ UNCHANGED <<block, holder, pc, added, deletes>> /\ cursor' = cursor + 1
      /\ pc[p] = "index_deletes" /\ cursor <= Len(deletes[p])
      /\ entries' = [entries EXCEPT ![i].state = "DELETED"]
  BY DEF IndexDelete, lock, local
<1>3. holder = p /\ \A q \in Process \ {p} : holder # q /\ pc[q] = "run"
  BY <1>1, <1>2, OnlyHolder DEF CleanBlock
<1>4. cursor \in Nat /\ cursor >= 1 /\ deletes[p] \in Seq(Slot)
  BY <1>1, <1>2 DEF CleanBlock, ObjectsOK, CursorInv
<1>5. cursor \in DOMAIN deletes[p] /\ i \in Slot
  BY <1>2, <1>4
<1>6. InBlock(i)
  BY <1>1, <1>3, <1>5 DEF CleanBlock, OwnInv, Clean, InBlock
<1>7. \A s \in Slot : entries'[s].state = IF s = i THEN "DELETED" ELSE entries[s].state
  BY <1>1, <1>2 DEF CleanBlock, FilesOK
<1> QED
  BY <1>2, <1>3, <1>5, <1>6, <1>7

(* The records that a commit publishes are shown in both files.              *)
LEMMA PublishShows ==
  ASSUME ThrowIInv, Clean, NEW p \in Process, PublishLast(p)
  PROVE  /\ UNCHANGED <<file, entries, holder, cursor, added, deletes>> /\ holder = p
         /\ pc[p] = "records" /\ pc'[p] = "used" /\ deletes[p] = <<>>
         /\ (\A q \in Process \ {p} : holder # q /\ pc[q] = "run" /\ pc'[q] = "run")
         /\ header'.last_index = rollback_info[p].last_index
         /\ header'.deleted_records = header.deleted_records
         /\ header'.total_records = header.total_records
         /\ \A s \in Slot : s < header'.last_index /\ ~InBlock(s) =>
              entries[s].state = "READABLE" /\ file[s].state = "READABLE"
<1> DEFINE n == rollback_info[p].last_index  l == header.last_index
<1>1. CleanBlock
  BY CleanHolds
<1>2. /\ UNCHANGED <<file, entries, holder, cursor, added, deletes>> /\ pc[p] = "records"
      /\ cursor >= rollback_info[p].write_offset
      /\ header' = [header EXCEPT !.last_index = rollback_info[p].last_index]
  BY DEF PublishLast, lock, local, index
<1>3. pc[p] # "run" /\ Goto(p, "used")
  BY DEF PublishLast
<1>4. holder = p /\ pc'[p] = "used"
      /\ \A q \in Process \ {p} : holder # q /\ pc[q] = "run" /\ pc'[q] = "run"
  BY <1>1, <1>3, MoveFrame DEF CleanBlock
<1>5. /\ header'.last_index = rollback_info[p].last_index
      /\ header'.deleted_records = header.deleted_records
      /\ header'.total_records = header.total_records
  BY <1>1, <1>2 DEF CleanBlock, FilesOK
<1>6. /\ l \in Nat /\ n \in Nat /\ cursor \in Nat /\ Slot \subseteq Nat
  BY <1>1, Ranges DEF CleanBlock, FilesOK, ObjectsOK, RollbackInfo
<1>7. rollback_info[p].write_offset = n /\ deletes[p] = <<>>
  BY <1>1, <1>2, <1>4 DEF CleanBlock, BlockOK, Preparing, OwnInv
<1>8. ASSUME NEW s \in Slot, s < n, ~InBlock(s)
      PROVE  entries[s].state = "READABLE" /\ file[s].state = "READABLE"
  <2>1. InTransaction(p, s) /\ s < cursor
    BY <1>2, <1>6, <1>7, <1>8 DEF InBlock, InTransaction
  <2>2. Fresh(p, s)
    BY <2>1, <1>1, <1>2, <1>4 DEF CleanBlock, AgreeOK, Preparing
  <2> QED
    BY <2>1, <2>2, <1>2 DEF Fresh, Collecting, Clean
<1> QED
  BY <1>2, <1>4, <1>5, <1>7, <1>8

(* The count of all records is that of the block, less what a commit shows   *)
(* and has not counted.                                                      *)
Shown(p) == pc[p] \in {"used", "offset", "counts"}
Counting(p) == pc[p] \in {"deletes", "count", "entries", "index_used", "index_offset",
                          "index_deletes"}
TotalOK ==
  /\ (\A p \in Process : ~Shown(p)) => header.total_records = header.last_index - 1
  /\ \A p \in Process :
       /\ Counting(p) => added = 0
       /\ pc[p] = "records" => /\ added + header.last_index = cursor
                               /\ cursor <= rollback_info[p].last_index
       /\ Shown(p) => header.total_records + added = header.last_index - 1
TotalInv == Clean => TotalOK

LEMMA StepTotal ==
  ASSUME ThrowIInv, TotalInv, [Next]_vars
  PROVE  TotalInv'
<1> SUFFICES ASSUME Clean' PROVE TotalOK'
  BY DEF TotalInv
<1>1. Clean
  BY FaultsGrow DEF Clean
<1>0. Clean'
  OBVIOUS
<1>2. TotalOK
  BY <1>1 DEF TotalInv
<1>3. FilesOK /\ ObjectsOK /\ TypeOK /\ HolderInv /\ OpenInv
  BY CleanHolds, <1>1 DEF CleanBlock
<1>5. BlockOK
  BY CleanHolds, <1>1 DEF CleanBlock
<1>6. /\ header.last_index \in Nat /\ cursor \in Nat /\ added \in Nat /\ header.total_records \in Nat
      /\ \A p \in Process : rollback_info[p].last_index \in Nat
  BY <1>3, Ranges DEF FilesOK, ObjectsOK, RollbackInfo
<1> USE <1>2, <1>3, ProcessAssumption DEF TotalOK, Shown, Counting, FilesOK, ObjectsOK, HolderInv,
        Goto, block, index, lock, local, commit
<1> QED
  <2>1. ASSUME NEW p \in Process, Open(p) PROVE TotalOK'
    BY <2>1 DEF Open
  <2>2. ASSUME NEW p \in Process, Close(p) PROVE TotalOK'
    BY <2>2 DEF Close, Forget, Ready
  <2>3. ASSUME NEW p \in Process, finish(p) PROVE TotalOK'
    BY <2>3 DEF finish, SetWriteState, Ready
  <2>4. ASSUME NEW p \in Process, archive(p) PROVE TotalOK'
    BY <2>4 DEF archive, SetWriteState, Ready
  <2>5. ASSUME NEW p \in Process, Start(p) PROVE TotalOK'
    <3> HIDE DEF FilesOK, ObjectsOK, HolderInv
    <3>1. /\ UNCHANGED <<header, pc, cursor, added>> /\ pc[p] = "run"
          /\ \A q \in Process \ {p} : rollback_info'[q] = rollback_info[q]
      BY <2>5, StartFrame DEF Started, block, commit
    <3> QED
      BY <3>1
  <2>6. ASSUME NEW p \in Process, Write(p) PROVE TotalOK'
    <3> HIDE DEF FilesOK, ObjectsOK, HolderInv
    <3> QED
      BY <2>6, WriteAbove, <1>1, WriteFrame, <1>3 DEF Write, Wrote
  <2>7. ASSUME NEW p \in Process, WriteUnindexed(p) PROVE TotalOK'
    BY <2>7, <1>0 DEF WriteUnindexed, Faulty, Clean
  <2>8. ASSUME NEW p \in Process, Commit(p) PROVE TotalOK'
    <3> HIDE DEF FilesOK, ObjectsOK, HolderInv
    <3>1. /\ UNCHANGED <<header, rollback_info>> /\ added' = 0 /\ pc[p] = "run" /\ holder = p
          /\ pc'[p] = "deletes"
      BY <2>8, <1>3 DEF Commit, Ready, in_transaction, ObjectsOK
    <3>2. \A q \in Process \ {p} : pc[q] = "run" /\ pc'[q] = "run"
      BY <2>8, <3>1, <1>3 DEF Commit, ObjectsOK, HolderInv
    <3> QED
      BY <3>1, <3>2
  <2>9. ASSUME NEW p \in Process, MarkDeleted(p) PROVE TotalOK'
    <3> HIDE DEF FilesOK, ObjectsOK, HolderInv
    <3> QED
      BY <2>9, <1>1, MarkFinds DEF MarkDeleted
  <2>10. ASSUME NEW p \in Process, CountDeleted(p) PROVE TotalOK'
    <3> HIDE DEF FilesOK, ObjectsOK, HolderInv
    <3>1. UNCHANGED <<rollback_info, added>> /\ pc[p] = "count"
      BY <2>10 DEF CountDeleted
    <3>2. holder = p /\ pc'[p] = "deletes"
          /\ \A q \in Process \ {p} : holder # q /\ pc[q] = "run" /\ pc'[q] = "run"
      <4> HIDE DEF Goto, block, index, lock, local, commit
      <4>1. Goto(p, "deletes") /\ pc[p] # "run"
        BY <2>10 DEF CountDeleted
      <4> QED
        BY <4>1, <1>3, MoveFrame
    <3>3. header'.last_index = header.last_index /\ header'.total_records = header.total_records
      BY <2>10, <1>3 DEF CountDeleted, FilesOK
    <3> QED
      BY <3>1, <3>2, <3>3
  <2>11. ASSUME NEW p \in Process, CommitIndex(p) PROVE TotalOK'
    <3> HIDE DEF FilesOK, ObjectsOK, HolderInv
    <3>1. UNCHANGED <<header, rollback_info, added>> /\ pc[p] = "deletes"
      BY <2>11 DEF CommitIndex
    <3>2. holder = p /\ pc'[p] = "entries"
          /\ \A q \in Process \ {p} : holder # q /\ pc[q] = "run" /\ pc'[q] = "run"
      <4> HIDE DEF Goto, block, index, lock, local, commit
      <4>1. Goto(p, "entries") /\ pc[p] # "run"
        BY <2>11 DEF CommitIndex
      <4> QED
        BY <4>1, <1>3, MoveFrame
    <3> QED
      BY <3>1, <3>2
  <2>12. ASSUME NEW p \in Process, ShowEntry(p) PROVE TotalOK'
    <3> HIDE DEF FilesOK, ObjectsOK, HolderInv
    <3> QED
      BY <2>12, <1>1, ShowAbove
  <2>13. ASSUME NEW p \in Process, IndexLast(p) PROVE TotalOK'
    <3> HIDE DEF FilesOK, ObjectsOK, HolderInv
    <3>1. UNCHANGED <<header, rollback_info, added>> /\ pc[p] = "entries"
      BY <2>13 DEF IndexLast
    <3>2. holder = p /\ pc'[p] = "index_used"
          /\ \A q \in Process \ {p} : holder # q /\ pc[q] = "run" /\ pc'[q] = "run"
      <4> HIDE DEF Goto, block, index, lock, local, commit
      <4>1. Goto(p, "index_used") /\ pc[p] # "run"
        BY <2>13 DEF IndexLast
      <4> QED
        BY <4>1, <1>3, MoveFrame
    <3> QED
      BY <3>1, <3>2
  <2>14. ASSUME NEW p \in Process, IndexUsed(p) PROVE TotalOK'
    <3> HIDE DEF FilesOK, ObjectsOK, HolderInv
    <3>1. UNCHANGED <<header, rollback_info, added>> /\ pc[p] = "index_used"
      BY <2>14 DEF IndexUsed
    <3>2. holder = p /\ pc'[p] = "index_offset"
          /\ \A q \in Process \ {p} : holder # q /\ pc[q] = "run" /\ pc'[q] = "run"
      <4> HIDE DEF Goto, block, index, lock, local, commit
      <4>1. Goto(p, "index_offset") /\ pc[p] # "run"
        BY <2>14 DEF IndexUsed
      <4> QED
        BY <4>1, <1>3, MoveFrame
    <3> QED
      BY <3>1, <3>2
  <2>15. ASSUME NEW p \in Process, IndexOffset(p) PROVE TotalOK'
    <3> HIDE DEF FilesOK, ObjectsOK, HolderInv
    <3>1. UNCHANGED <<header, rollback_info, added>> /\ pc[p] = "index_offset"
      BY <2>15 DEF IndexOffset
    <3>2. holder = p /\ pc'[p] = "index_deletes"
          /\ \A q \in Process \ {p} : holder # q /\ pc[q] = "run" /\ pc'[q] = "run"
      <4> HIDE DEF Goto, block, index, lock, local, commit
      <4>1. Goto(p, "index_deletes") /\ pc[p] # "run"
        BY <2>15 DEF IndexOffset
      <4> QED
        BY <4>1, <1>3, MoveFrame
    <3> QED
      BY <3>1, <3>2
  <2>16. ASSUME NEW p \in Process, IndexDelete(p) PROVE TotalOK'
    BY <2>16 DEF IndexDelete
  <2>17. ASSUME NEW p \in Process, EndIndex(p) PROVE TotalOK'
    <3> HIDE DEF FilesOK, ObjectsOK, HolderInv
    <3>1. UNCHANGED <<header, rollback_info, added>> /\ pc[p] = "index_deletes"
      BY <2>17 DEF EndIndex
    <3>2. holder = p /\ pc'[p] = "records"
          /\ \A q \in Process \ {p} : holder # q /\ pc[q] = "run" /\ pc'[q] = "run"
      <4> HIDE DEF Goto, block, index, lock, local, commit
      <4>1. Goto(p, "records") /\ pc[p] # "run"
        BY <2>17 DEF EndIndex
      <4> QED
        BY <4>1, <1>3, MoveFrame
    <3>3. cursor' = header.last_index /\ header.last_index <= rollback_info[p].last_index
      BY <2>17, <3>1, <3>2, <1>5 DEF EndIndex, BlockOK, Publishing, Preparing
    <3>4. header.last_index \in Nat
      BY <1>6
    <3> QED
      BY <3>1, <3>2, <3>3, <3>4
  <2>18. ASSUME NEW p \in Process, MarkReadable(p) PROVE TotalOK'
    <3> HIDE DEF FilesOK, ObjectsOK, HolderInv
    <3>1. /\ UNCHANGED <<header, rollback_info, pc>> /\ pc[p] = "records" /\ cursor' = cursor + 1
          /\ added' = added + 1 /\ cursor < rollback_info[p].write_offset
      BY <2>18 DEF MarkReadable
    <3>2. holder = p /\ \A q \in Process \ {p} : holder # q /\ pc[q] = "run"
      BY <3>1, <1>3, OnlyHolder
    <3>3. rollback_info[p].write_offset = rollback_info[p].last_index
      BY <3>1, <3>2, <1>5 DEF BlockOK, Preparing
    <3>4. cursor + 1 <= rollback_info[p].last_index
      BY <3>1, <3>3, <1>6
    <3>5. added' + header.last_index = cursor'
      BY <3>1, <1>6
    <3> QED
      BY <3>1, <3>2, <3>4, <3>5
  <2>19. ASSUME NEW p \in Process, PublishLast(p) PROVE TotalOK'
    <3> HIDE DEF FilesOK, ObjectsOK, HolderInv
    <3>1. /\ UNCHANGED <<cursor, added>> /\ holder = p /\ pc[p] = "records" /\ pc'[p] = "used"
          /\ (\A q \in Process \ {p} : holder # q /\ pc[q] = "run" /\ pc'[q] = "run")
          /\ header'.last_index = rollback_info[p].last_index
          /\ header'.total_records = header.total_records
      BY <2>19, <1>1, PublishShows
    <3>2. cursor >= rollback_info[p].last_index
      BY <2>19, <3>1, <1>5 DEF PublishLast, BlockOK, Preparing
    <3>3. cursor = rollback_info[p].last_index
      BY <3>1, <3>2, <1>6
    <3>4. header'.total_records + added' = header'.last_index - 1
      BY <3>1, <3>3, <1>6
    <3> QED
      BY <3>1, <3>4
  <2>20. ASSUME NEW p \in Process, PublishUsed(p) PROVE TotalOK'
    <3> HIDE DEF FilesOK, ObjectsOK, HolderInv
    <3>1. UNCHANGED <<rollback_info, added>> /\ pc[p] = "used"
      BY <2>20 DEF PublishUsed
    <3>2. holder = p /\ pc'[p] = "offset"
          /\ \A q \in Process \ {p} : holder # q /\ pc[q] = "run" /\ pc'[q] = "run"
      <4> HIDE DEF Goto, block, index, lock, local, commit
      <4>1. Goto(p, "offset") /\ pc[p] # "run"
        BY <2>20 DEF PublishUsed
      <4> QED
        BY <4>1, <1>3, MoveFrame
    <3>3. header'.last_index = header.last_index /\ header'.total_records = header.total_records
      BY <2>20, <1>3 DEF PublishUsed, FilesOK
    <3> QED
      BY <3>1, <3>2, <3>3
  <2>21. ASSUME NEW p \in Process, PublishOffset(p) PROVE TotalOK'
    <3> HIDE DEF FilesOK, ObjectsOK, HolderInv
    <3>1. UNCHANGED <<rollback_info, added>> /\ pc[p] = "offset"
      BY <2>21 DEF PublishOffset
    <3>2. holder = p /\ pc'[p] = "counts"
          /\ \A q \in Process \ {p} : holder # q /\ pc[q] = "run" /\ pc'[q] = "run"
      <4> HIDE DEF Goto, block, index, lock, local, commit
      <4>1. Goto(p, "counts") /\ pc[p] # "run"
        BY <2>21 DEF PublishOffset
      <4> QED
        BY <4>1, <1>3, MoveFrame
    <3>3. header'.last_index = header.last_index /\ header'.total_records = header.total_records
      BY <2>21, <1>3 DEF PublishOffset, FilesOK
    <3> QED
      BY <3>1, <3>2, <3>3
  <2>22. ASSUME NEW p \in Process, PublishCounts(p) PROVE TotalOK'
    <3> HIDE DEF FilesOK, ObjectsOK, HolderInv
    <3>1. UNCHANGED <<rollback_info, added>> /\ pc[p] = "counts"
      BY <2>22 DEF PublishCounts
    <3>2. holder = p /\ pc'[p] = "end"
          /\ \A q \in Process \ {p} : holder # q /\ pc[q] = "run" /\ pc'[q] = "run"
      <4> HIDE DEF Goto, block, index, lock, local, commit
      <4>1. Goto(p, "end") /\ pc[p] # "run"
        BY <2>22 DEF PublishCounts
      <4> QED
        BY <4>1, <1>3, MoveFrame
    <3> DEFINE t == header.total_records + added
    <3>3. header' = [header EXCEPT !.commit_sequence = @ + 1, !.total_records = t]
      BY <2>22 DEF PublishCounts
    <3>4. header'.last_index = header.last_index /\ header'.total_records = t
      <4> HIDE DEF t
      <4> QED
        BY <3>3, <1>3 DEF FilesOK
    <3> QED
      BY <3>1, <3>2, <3>4
  <2>23. ASSUME NEW p \in Process, EndCommit(p) PROVE TotalOK'
    <3> HIDE DEF FilesOK, ObjectsOK, HolderInv
    <3>1. UNCHANGED <<header>> /\ pc[p] = "end"
      BY <2>23 DEF EndCommit
    <3>2. holder = p /\ pc'[p] = "run"
          /\ \A q \in Process \ {p} : holder # q /\ pc[q] = "run" /\ pc'[q] = "run"
      <4> HIDE DEF Goto, block, index, lock, local, commit
      <4>1. Goto(p, "run") /\ pc[p] # "run"
        BY <2>23 DEF EndCommit
      <4> QED
        BY <4>1, <1>3, MoveFrame
    <3> QED
      BY <3>1, <3>2
  <2>24. ASSUME NEW p \in Process, rollback(p) PROVE TotalOK'
    BY <2>24 DEF rollback, Ready, in_transaction, end_transaction
  <2>25. ASSUME NEW p \in Process, Crash(p) PROVE TotalOK'
    <3> HIDE DEF FilesOK, ObjectsOK, HolderInv
    <3>1. /\ pc'[p] = "run" /\ UNCHANGED header /\ ~Shown(p)
          /\ \A q \in Process \ {p} : pc'[q] = pc[q] /\ rollback_info'[q] = rollback_info[q]
      BY <2>25, <1>0, <1>3 DEF Crash, Faulty, DiedIn, Forget, ObjectsOK, Clean
    <3>2. pc[p] = "run" => UNCHANGED <<cursor, added>>
      BY <2>25 DEF Crash
    <3>3. pc[p] # "run" => \A q \in Process \ {p} : pc[q] = "run"
      BY <1>3, OnlyHolder
    <3> QED
      BY <3>1, <3>2, <3>3
  <2>26. ASSUME NEW p \in Process, NEW i \in Slot, delete_record(p, i) PROVE TotalOK'
    BY <2>26 DEF delete_record, Ready, in_transaction, Faulty
  <2>27. CASE Expire
    BY <2>27 DEF Expire
  <2>28. CASE UNCHANGED vars
    BY <2>28 DEF vars
  <2> QED
    BY <2>1, <2>2, <2>3, <2>4, <2>5, <2>6, <2>7, <2>8, <2>9, <2>10, <2>11, <2>12, <2>13,
       <2>14, <2>15, <2>16, <2>17, <2>18, <2>19, <2>20, <2>21, <2>22, <2>23, <2>24,
       <2>25, <2>26, <2>27, <2>28
    DEF Next, CommitStep

(* The count of the deleted records is that of the index, with what a commit *)
(* has counted already and not yet marked there.                             *)
DeletedEntries == {i \in Slot : InBlock(i) /\ entries[i].state # "READABLE"}
Counted(p) ==
  LET known == Cardinality(DeletedEntries)  d == deletes[p] IN
  /\ pc[p] \in {"deletes", "count"} => header.deleted_records + 1 = known + cursor
  /\ pc[p] \in {"entries", "index_used", "index_offset"} => header.deleted_records = known + Len(d)
  /\ pc[p] = "index_deletes" => header.deleted_records + cursor = known + Len(d) + 1
  /\ pc[p] \in {"deletes", "index_deletes"} => cursor <= Len(d) + 1
  /\ pc[p] = "count" => cursor <= Len(d)
DeletedOK ==
  /\ (\A p \in Process : ~Counting(p)) => header.deleted_records = Cardinality(DeletedEntries)
  /\ \A p \in Process : Counted(p)
DeletedInv == Clean => DeletedOK

LEMMA DeletedFinite ==
  IsFiniteSet(DeletedEntries) /\ Cardinality(DeletedEntries) \in Nat
<1>1. IsFiniteSet(Slot)
  BY FS_Interval, BoundAssumption DEF Slot
<1>2. DeletedEntries \subseteq Slot
  BY DEF DeletedEntries
<1> QED
  BY <1>1, <1>2, FS_Subset, FS_CardinalityType

LEMMA SameDeleted ==
  ASSUME header'.last_index = header.last_index,
         \A s \in Slot : InBlock(s) => entries'[s].state = entries[s].state
  PROVE  DeletedEntries' = DeletedEntries
BY DEF DeletedEntries, InBlock

(* The lists of a commit and the marks of its deletes: a record is listed    *)
(* once, marked in the block first, and in the index when that is settled.   *)
MarkedBy(p, k) ==
  \/ pc[p] = "deletes" /\ k < cursor
  \/ pc[p] = "count" /\ k <= cursor
  \/ pc[p] \in {"entries", "index_used", "index_offset", "index_deletes"}
ListedOnce(p) == \A j, k \in DOMAIN deletes[p] : deletes[p][j] = deletes[p][k] => j = k
ListMarks(p) ==
  \A k \in DOMAIN deletes[p] :
    /\ file[deletes[p][k]].state = IF MarkedBy(p, k) THEN "DELETED" ELSE "READABLE"
    /\ entries[deletes[p][k]].state =
         IF pc[p] = "index_deletes" /\ k < cursor THEN "DELETED" ELSE "READABLE"
Pending(p, i) == Counting(p) /\ \E k \in DOMAIN deletes[p] : deletes[p][k] = i
ListOK ==
  /\ \A p \in Process : holder = p => ListedOnce(p) /\ ListMarks(p)
  /\ \A i \in Slot : InBlock(i) =>
       file[i].state = entries[i].state \/ \E p \in Process : Pending(p, i)
ListInv == Clean => ListOK

----------------------------------------------------------------------------
(* What moves neither a count nor a mark leaves the counts right.            *)
LEMMA CountedFrame ==
  ASSUME DeletedOK, header'.last_index = header.last_index,
         header'.deleted_records = header.deleted_records,
         \A s \in Slot : InBlock(s) => entries'[s].state = entries[s].state,
         \A q \in Process :
           IF Counting(q) THEN pc'[q] = pc[q] /\ cursor' = cursor /\ deletes'[q] = deletes[q]
                          ELSE ~Counting(q)'
  PROVE  DeletedOK'
<1>1. DeletedEntries' = DeletedEntries
  BY SameDeleted
<1>2. ASSUME \A p \in Process : ~Counting(p)'
      PROVE  header'.deleted_records = Cardinality(DeletedEntries')
  <2>1. \A p \in Process : ~Counting(p)
    BY <1>2 DEF Counting
  <2> QED
    BY <1>1, <2>1 DEF DeletedOK
<1>3. ASSUME NEW p \in Process PROVE Counted(p)'
  <2>1. CASE Counting(p)
    BY <1>1, <2>1 DEF DeletedOK, Counted
  <2>2. CASE ~Counting(p)
    BY <2>2 DEF Counted, Counting
  <2> QED
    BY <2>1, <2>2
<1> QED
  BY <1>2, <1>3 DEF DeletedOK

(* The step of the one that counts.                                          *)
LEMMA CountedMove ==
  ASSUME NEW p \in Process, Counting(p)', \A q \in Process \ {p} : pc'[q] = "run",
         Counted(p)'
  PROVE  DeletedOK'
BY DEF DeletedOK, Counted, Counting

LEMMA StepDeleted ==
  ASSUME ThrowIInv, ListInv, DeletedInv, [Next]_vars
  PROVE  DeletedInv'
<1> SUFFICES ASSUME Clean' PROVE DeletedOK'
  BY DEF DeletedInv
<1>1. Clean
  BY FaultsGrow DEF Clean
<1>0. Clean'
  OBVIOUS
<1>2. DeletedOK
  BY <1>1 DEF DeletedInv
<1>3. FilesOK /\ ObjectsOK /\ TypeOK /\ HolderInv /\ OpenInv
  BY CleanHolds, <1>1 DEF CleanBlock
<1>4. ListOK
  BY <1>1 DEF ListInv
<1>5. BlockOK
  BY CleanHolds, <1>1 DEF CleanBlock
<1>6. Cardinality(DeletedEntries) \in Nat
      /\ \A p \in Process : deletes[p] \in Seq(Slot) /\ Len(deletes[p]) \in Nat
  BY <1>3, DeletedFinite DEF ObjectsOK
<1>7. /\ header.last_index \in Nat /\ cursor \in Nat /\ header.deleted_records \in Nat
      /\ Slot \subseteq Nat /\ \A p \in Process : rollback_info[p].last_index \in Nat
  BY <1>3, Ranges DEF FilesOK, ObjectsOK, RollbackInfo
<1>8. CursorInv
  BY CleanHolds, <1>1 DEF CleanBlock
<1> USE ProcessAssumption DEF block, index, lock, local, commit
<1> QED
  <2>1. ASSUME NEW p \in Process, Open(p) PROVE DeletedOK'
    <3>1. /\ header'.last_index = header.last_index
          /\ header'.deleted_records = header.deleted_records
          /\ UNCHANGED <<entries, pc, cursor>>
      BY <2>1, <1>3 DEF Open, FilesOK
    <3>2. \A q \in Process : pc[q] = "run" \/ deletes'[q] = deletes[q]
      BY <2>1, <1>3 DEF Open, ObjectsOK
    <3> QED
      BY <3>1, <3>2, <1>2, CountedFrame DEF Counting
  <2>2. ASSUME NEW p \in Process, Close(p) PROVE DeletedOK'
    <3>1. /\ header'.last_index = header.last_index
          /\ header'.deleted_records = header.deleted_records
          /\ UNCHANGED <<entries, pc, cursor>>
      BY <2>2, <1>3 DEF Close, Forget, Ready, FilesOK
    <3>2. \A q \in Process : pc[q] = "run" \/ deletes'[q] = deletes[q]
      BY <2>2, <1>3 DEF Close, Forget, Ready, ObjectsOK
    <3> QED
      BY <3>1, <3>2, <1>2, CountedFrame DEF Counting
  <2>3. ASSUME NEW p \in Process, finish(p) PROVE DeletedOK'
    <3>1. /\ header'.last_index = header.last_index
          /\ header'.deleted_records = header.deleted_records
          /\ UNCHANGED <<entries, pc, cursor>>
      BY <2>3, <1>3 DEF finish, SetWriteState, FilesOK
    <3>2. \A q \in Process : pc[q] = "run" \/ deletes'[q] = deletes[q]
      BY <2>3, <1>3 DEF finish, SetWriteState, ObjectsOK
    <3> QED
      BY <3>1, <3>2, <1>2, CountedFrame DEF Counting
  <2>4. ASSUME NEW p \in Process, archive(p) PROVE DeletedOK'
    <3>1. /\ header'.last_index = header.last_index
          /\ header'.deleted_records = header.deleted_records
          /\ UNCHANGED <<entries, pc, cursor>>
      BY <2>4, <1>3 DEF archive, SetWriteState, FilesOK
    <3>2. \A q \in Process : pc[q] = "run" \/ deletes'[q] = deletes[q]
      BY <2>4, <1>3 DEF archive, SetWriteState, ObjectsOK
    <3> QED
      BY <3>1, <3>2, <1>2, CountedFrame DEF Counting
  <2>5. ASSUME NEW p \in Process, Start(p) PROVE DeletedOK'
    <3> HIDE DEF FilesOK, ObjectsOK, HolderInv
    <3>1. /\ UNCHANGED <<header, entries, pc, cursor>> /\ pc[p] = "run"
          /\ \A q \in Process \ {p} : deletes'[q] = deletes[q]
      BY <2>5, <1>3, StartFrame DEF Started, block, index, commit
    <3> QED
      BY <3>1, <1>2, CountedFrame DEF Counting
  <2>6. ASSUME NEW p \in Process, Write(p) PROVE DeletedOK'
    <3> HIDE DEF FilesOK, ObjectsOK, HolderInv
    <3>1. /\ UNCHANGED <<header, pc, cursor, deletes>>
          /\ \A s \in Slot : InBlock(s) => entries'[s].state = entries[s].state
      BY <2>6, <1>1, WriteAbove
    <3> QED
      BY <3>1, <1>2, CountedFrame DEF Counting
  <2>7. ASSUME NEW p \in Process, WriteUnindexed(p) PROVE DeletedOK'
    BY <2>7, <1>0 DEF WriteUnindexed, Faulty, Clean
  <2>8. ASSUME NEW p \in Process, Commit(p) PROVE DeletedOK'
    <3> HIDE DEF FilesOK, ObjectsOK, HolderInv
    <3>1. /\ UNCHANGED <<header, entries, deletes>> /\ cursor' = 1 /\ pc[p] = "run" /\ holder = p
          /\ pc'[p] = "deletes"
      BY <2>8, <1>3 DEF Commit, Goto, Ready, in_transaction, ObjectsOK
    <3>2. \A q \in Process \ {p} : pc[q] = "run" /\ pc'[q] = "run"
      BY <2>8, <3>1, <1>3 DEF Commit, Goto, ObjectsOK, HolderInv
    <3>3. header.deleted_records = Cardinality(DeletedEntries)
      BY <3>1, <3>2, <1>2 DEF DeletedOK, Counting
    <3>4. DeletedEntries' = DeletedEntries
      BY <3>1, SameDeleted
    <3>5. Len(deletes[p]) \in Nat
      BY <1>6
    <3>8. Counted(p)'
      BY <3>1, <3>3, <3>4, <3>5, <1>6, <1>7 DEF Counted
    <3> QED
      BY <3>1, <3>2, <3>8, CountedMove DEF Counting
  <2>9. ASSUME NEW p \in Process, MarkDeleted(p) PROVE DeletedOK'
    <3> HIDE DEF FilesOK, ObjectsOK, HolderInv
    <3>1. /\ UNCHANGED <<header, entries, cursor, deletes>>
          /\ pc[p] = "deletes" /\ pc'[p] = "count" /\ cursor <= Len(deletes[p])
          /\ (\A q \in Process \ {p} : pc'[q] = "run")
      BY <2>9, <1>1, MarkFinds
    <3>3. Counted(p)
      BY <1>2 DEF DeletedOK
    <3>4. DeletedEntries' = DeletedEntries
      BY <3>1, SameDeleted
    <3>8. Counted(p)'
      BY <3>1, <3>3, <3>4 DEF Counted
    <3> QED
      BY <3>1, <3>8, CountedMove DEF Counting
  <2>10. ASSUME NEW p \in Process, CountDeleted(p) PROVE DeletedOK'
    <3> HIDE DEF FilesOK, ObjectsOK, HolderInv
    <3>1. UNCHANGED <<entries, deletes>> /\ pc[p] = "count"
      BY <2>10 DEF CountDeleted
    <3>2. holder = p /\ pc'[p] = "deletes"
          /\ \A q \in Process \ {p} : holder # q /\ pc[q] = "run" /\ pc'[q] = "run"
      <4> HIDE DEF Goto, block, index, lock, local, commit
      <4>1. Goto(p, "deletes") /\ pc[p] # "run"
        BY <2>10 DEF CountDeleted
      <4> QED
        BY <4>1, <1>3, MoveFrame
    <3>9. /\ header'.last_index = header.last_index /\ cursor' = cursor + 1
          /\ header'.deleted_records = header.deleted_records + 1
      BY <2>10, <1>3 DEF CountDeleted, FilesOK
    <3>3. Counted(p)
      BY <1>2 DEF DeletedOK
    <3>4. DeletedEntries' = DeletedEntries
      BY <3>1, <3>9, SameDeleted
    <3>8. Counted(p)'
      BY <3>1, <3>2, <3>3, <3>4, <3>9, <1>6, <1>7 DEF Counted
    <3> QED
      BY <3>2, <3>8, CountedMove DEF Counting
  <2>11. ASSUME NEW p \in Process, CommitIndex(p) PROVE DeletedOK'
    <3> HIDE DEF FilesOK, ObjectsOK, HolderInv
    <3>1. UNCHANGED <<entries, deletes, header>> /\ pc[p] = "deletes"
      BY <2>11 DEF CommitIndex
    <3>2. holder = p /\ pc'[p] = "entries"
          /\ \A q \in Process \ {p} : holder # q /\ pc[q] = "run" /\ pc'[q] = "run"
      <4> HIDE DEF Goto, block, index, lock, local, commit
      <4>1. Goto(p, "entries") /\ pc[p] # "run"
        BY <2>11 DEF CommitIndex
      <4> QED
        BY <4>1, <1>3, MoveFrame
    <3>9. cursor > Len(deletes[p])
      BY <2>11 DEF CommitIndex
    <3>3. Counted(p)
      BY <1>2 DEF DeletedOK
    <3>4. DeletedEntries' = DeletedEntries
      BY <3>1, SameDeleted
    <3>8. Counted(p)'
      BY <3>1, <3>2, <3>3, <3>4, <3>9, <1>6, <1>7 DEF Counted
    <3> QED
      BY <3>2, <3>8, CountedMove DEF Counting
  <2>12. ASSUME NEW p \in Process, ShowEntry(p) PROVE DeletedOK'
    <3> HIDE DEF FilesOK, ObjectsOK, HolderInv
    <3>1. /\ UNCHANGED <<header, deletes>> /\ pc[p] = "entries" /\ pc'[p] = "entries"
          /\ (\A q \in Process \ {p} : pc'[q] = "run")
          /\ \A s \in Slot : InBlock(s) => entries'[s].state = entries[s].state
      BY <2>12, <1>1, ShowAbove DEF block
    <3>3. Counted(p)
      BY <1>2 DEF DeletedOK
    <3>4. DeletedEntries' = DeletedEntries
      BY <3>1, SameDeleted
    <3>8. Counted(p)'
      BY <3>1, <3>3, <3>4 DEF Counted
    <3> QED
      BY <3>1, <3>8, CountedMove DEF Counting
  <2>13. ASSUME NEW p \in Process, IndexLast(p) PROVE DeletedOK'
    <3> HIDE DEF FilesOK, ObjectsOK, HolderInv
    <3>1. UNCHANGED <<entries, deletes, header>> /\ pc[p] = "entries"
      BY <2>13 DEF IndexLast
    <3>2. holder = p /\ pc'[p] = "index_used"
          /\ \A q \in Process \ {p} : holder # q /\ pc[q] = "run" /\ pc'[q] = "run"
      <4> HIDE DEF Goto, block, index, lock, local, commit
      <4>1. Goto(p, "index_used") /\ pc[p] # "run"
        BY <2>13 DEF IndexLast
      <4> QED
        BY <4>1, <1>3, MoveFrame
    <3>3. Counted(p)
      BY <1>2 DEF DeletedOK
    <3>4. DeletedEntries' = DeletedEntries
      BY <3>1, SameDeleted
    <3>8. Counted(p)'
      BY <3>1, <3>2, <3>3, <3>4 DEF Counted
    <3> QED
      BY <3>2, <3>8, CountedMove DEF Counting
  <2>14. ASSUME NEW p \in Process, IndexUsed(p) PROVE DeletedOK'
    <3> HIDE DEF FilesOK, ObjectsOK, HolderInv
    <3>1. UNCHANGED <<entries, deletes, header>> /\ pc[p] = "index_used"
      BY <2>14 DEF IndexUsed
    <3>2. holder = p /\ pc'[p] = "index_offset"
          /\ \A q \in Process \ {p} : holder # q /\ pc[q] = "run" /\ pc'[q] = "run"
      <4> HIDE DEF Goto, block, index, lock, local, commit
      <4>1. Goto(p, "index_offset") /\ pc[p] # "run"
        BY <2>14 DEF IndexUsed
      <4> QED
        BY <4>1, <1>3, MoveFrame
    <3>3. Counted(p)
      BY <1>2 DEF DeletedOK
    <3>4. DeletedEntries' = DeletedEntries
      BY <3>1, SameDeleted
    <3>8. Counted(p)'
      BY <3>1, <3>2, <3>3, <3>4 DEF Counted
    <3> QED
      BY <3>2, <3>8, CountedMove DEF Counting
  <2>15. ASSUME NEW p \in Process, IndexOffset(p) PROVE DeletedOK'
    <3> HIDE DEF FilesOK, ObjectsOK, HolderInv
    <3>1. UNCHANGED <<entries, deletes, header>> /\ pc[p] = "index_offset"
      BY <2>15 DEF IndexOffset
    <3>2. holder = p /\ pc'[p] = "index_deletes"
          /\ \A q \in Process \ {p} : holder # q /\ pc[q] = "run" /\ pc'[q] = "run"
      <4> HIDE DEF Goto, block, index, lock, local, commit
      <4>1. Goto(p, "index_deletes") /\ pc[p] # "run"
        BY <2>15 DEF IndexOffset
      <4> QED
        BY <4>1, <1>3, MoveFrame
    <3>9. cursor' = 1
      BY <2>15 DEF IndexOffset
    <3>3. Counted(p)
      BY <1>2 DEF DeletedOK
    <3>4. DeletedEntries' = DeletedEntries
      BY <3>1, SameDeleted
    <3>8. Counted(p)'
      BY <3>1, <3>2, <3>3, <3>4, <3>9, <1>6, <1>7 DEF Counted
    <3> QED
      BY <3>2, <3>8, CountedMove DEF Counting
  <2>16. ASSUME NEW p \in Process, IndexDelete(p) PROVE DeletedOK'
    <3> HIDE DEF FilesOK, ObjectsOK, HolderInv
    <3> DEFINE i == deletes[p][cursor]
    <3>1. /\ UNCHANGED <<block, pc, deletes>> /\ cursor' = cursor + 1 /\ holder = p
          /\ pc[p] = "index_deletes" /\ cursor \in DOMAIN deletes[p]
          /\ cursor <= Len(deletes[p]) /\ i \in Slot /\ InBlock(i)
          /\ (\A q \in Process \ {p} : pc[q] = "run")
          /\ \A s \in Slot : entries'[s].state = IF s = i THEN "DELETED" ELSE entries[s].state
      BY <2>16, <1>1, IndexMarks
    <3>2. entries[i].state = "READABLE"
      <4>1. ListMarks(p)
        BY <3>1, <1>4 DEF ListOK
      <4> QED
        BY <4>1, <3>1, <1>7 DEF ListMarks
    <3>3. DeletedEntries' = DeletedEntries \cup {i} /\ i \notin DeletedEntries
      BY <3>1, <3>2 DEF DeletedEntries, InBlock, block
    <3>4. Cardinality(DeletedEntries') = Cardinality(DeletedEntries) + 1
      BY <3>3, DeletedFinite, FS_AddElement
    <3>5. Counted(p)
      BY <1>2 DEF DeletedOK
    <3>6. header.deleted_records + cursor' = Cardinality(DeletedEntries') + Len(deletes[p]) + 1
      <4>1. pc[p] = "index_deletes" /\ cursor' = cursor + 1
        BY <3>1
      <4>2. header.deleted_records + cursor = Cardinality(DeletedEntries) + Len(deletes[p]) + 1
        BY <4>1, <3>5 DEF Counted
      <4> DEFINE h == header.deleted_records  e == Len(deletes[p])  k == Cardinality(DeletedEntries)
      <4>3. h \in Nat /\ e \in Nat /\ k \in Nat /\ cursor \in Nat /\ h + cursor = k + e + 1
        BY <4>2, <1>6, <1>7
      <4> HIDE DEF h, e, k
      <4>4. h + (cursor + 1) = (k + 1) + e + 1
        BY <4>3
      <4> QED
        BY <4>1, <4>4, <3>4 DEF h, e, k
    <3>7. cursor' <= Len(deletes[p]) + 1
      BY <3>1, <1>6, <1>7
    <3>8. Counted(p)'
      <4>1. header' = header /\ deletes'[p] = deletes[p] /\ pc'[p] = "index_deletes"
        BY <3>1 DEF block
      <4> QED
        BY <4>1, <3>6, <3>7 DEF Counted
    <3> QED
      BY <3>1, <3>8, CountedMove DEF Counting
  <2>17. ASSUME NEW p \in Process, EndIndex(p) PROVE DeletedOK'
    <3> HIDE DEF FilesOK, ObjectsOK, HolderInv
    <3>1. UNCHANGED <<entries, header>> /\ pc[p] = "index_deletes"
      BY <2>17 DEF EndIndex
    <3>2. holder = p /\ pc'[p] = "records"
          /\ \A q \in Process \ {p} : holder # q /\ pc[q] = "run" /\ pc'[q] = "run"
      <4> HIDE DEF Goto, block, index, lock, local, commit
      <4>1. Goto(p, "records") /\ pc[p] # "run"
        BY <2>17 DEF EndIndex
      <4> QED
        BY <4>1, <1>3, MoveFrame
    <3>3. Counted(p) /\ cursor > Len(deletes[p])
      BY <2>17, <1>2 DEF DeletedOK, EndIndex
    <3>4. DeletedEntries' = DeletedEntries
      BY <3>1, SameDeleted
    <3>5. header.deleted_records = Cardinality(DeletedEntries)
      BY <3>1, <3>3, <1>6, <1>7 DEF Counted
    <3>6. \A q \in Process : Counted(q)'
      BY <3>2 DEF Counted
    <3> QED
      BY <3>1, <3>4, <3>5, <3>6 DEF DeletedOK
  <2>18. ASSUME NEW p \in Process, MarkReadable(p) PROVE DeletedOK'
    <3> HIDE DEF FilesOK, ObjectsOK, HolderInv
    <3>1. UNCHANGED <<header, entries, pc>> /\ pc[p] = "records"
      BY <2>18 DEF MarkReadable
    <3>2. \A q \in Process \ {p} : pc[q] = "run"
      BY <3>1, <1>3, OnlyHolder
    <3> QED
      BY <3>1, <3>2, <1>2, CountedFrame DEF Counting
  <2>19. ASSUME NEW p \in Process, PublishLast(p) PROVE DeletedOK'
    <3> HIDE DEF FilesOK, ObjectsOK, HolderInv
    <3>1. /\ UNCHANGED entries /\ pc[p] = "records" /\ pc'[p] = "used"
          /\ (\A q \in Process \ {p} : pc[q] = "run" /\ pc'[q] = "run")
          /\ header'.last_index = rollback_info[p].last_index
          /\ header'.deleted_records = header.deleted_records
          /\ \A s \in Slot : s < header'.last_index /\ ~InBlock(s) => entries[s].state = "READABLE"
      BY <2>19, <1>1, PublishShows
    <3>2. header.last_index <= rollback_info[p].last_index
      BY <2>19, <3>1, <1>3, <1>5, OnlyHolder DEF BlockOK, Preparing
    <3>3. \A s \in Slot : InBlock(s) => s < header'.last_index
      <4>1. header'.last_index = rollback_info[p].last_index
        BY <3>1
      <4> QED
        BY <4>1, <3>2, <1>7 DEF InBlock
    <3>4. DeletedEntries' = DeletedEntries
      BY <3>1, <3>3 DEF DeletedEntries, InBlock
    <3>5. \A q \in Process : ~Counting(q)
      BY <3>1 DEF Counting
    <3>6. header.deleted_records = Cardinality(DeletedEntries)
      BY <3>5, <1>2 DEF DeletedOK
    <3>7. \A q \in Process : Counted(q)'
      BY <3>1 DEF Counted
    <3> QED
      BY <3>1, <3>4, <3>6, <3>7 DEF DeletedOK
  <2>20. ASSUME NEW p \in Process, PublishUsed(p) PROVE DeletedOK'
    <3> HIDE DEF FilesOK, ObjectsOK, HolderInv
    <3>1. UNCHANGED <<entries>> /\ pc[p] = "used"
      BY <2>20 DEF PublishUsed
    <3>2. holder = p /\ pc'[p] = "offset"
          /\ \A q \in Process \ {p} : holder # q /\ pc[q] = "run" /\ pc'[q] = "run"
      <4> HIDE DEF Goto, block, index, lock, local, commit
      <4>1. Goto(p, "offset") /\ pc[p] # "run"
        BY <2>20 DEF PublishUsed
      <4> QED
        BY <4>1, <1>3, MoveFrame
    <3>3. /\ header'.last_index = header.last_index
          /\ header'.deleted_records = header.deleted_records
      BY <2>20, <1>3 DEF PublishUsed, FilesOK
    <3>4. \A q \in Process : ~Counting(q) /\ ~Counting(q)'
      BY <3>1, <3>2 DEF Counting
    <3> QED
      BY <3>1, <3>3, <3>4, <1>2, CountedFrame
  <2>21. ASSUME NEW p \in Process, PublishOffset(p) PROVE DeletedOK'
    <3> HIDE DEF FilesOK, ObjectsOK, HolderInv
    <3>1. UNCHANGED <<entries>> /\ pc[p] = "offset"
      BY <2>21 DEF PublishOffset
    <3>2. holder = p /\ pc'[p] = "counts"
          /\ \A q \in Process \ {p} : holder # q /\ pc[q] = "run" /\ pc'[q] = "run"
      <4> HIDE DEF Goto, block, index, lock, local, commit
      <4>1. Goto(p, "counts") /\ pc[p] # "run"
        BY <2>21 DEF PublishOffset
      <4> QED
        BY <4>1, <1>3, MoveFrame
    <3>3. /\ header'.last_index = header.last_index
          /\ header'.deleted_records = header.deleted_records
      BY <2>21, <1>3 DEF PublishOffset, FilesOK
    <3>4. \A q \in Process : ~Counting(q) /\ ~Counting(q)'
      BY <3>1, <3>2 DEF Counting
    <3> QED
      BY <3>1, <3>3, <3>4, <1>2, CountedFrame
  <2>22. ASSUME NEW p \in Process, PublishCounts(p) PROVE DeletedOK'
    <3> HIDE DEF FilesOK, ObjectsOK, HolderInv
    <3>1. UNCHANGED <<entries>> /\ pc[p] = "counts"
      BY <2>22 DEF PublishCounts
    <3>2. holder = p /\ pc'[p] = "end"
          /\ \A q \in Process \ {p} : holder # q /\ pc[q] = "run" /\ pc'[q] = "run"
      <4> HIDE DEF Goto, block, index, lock, local, commit
      <4>1. Goto(p, "end") /\ pc[p] # "run"
        BY <2>22 DEF PublishCounts
      <4> QED
        BY <4>1, <1>3, MoveFrame
    <3>3. /\ header'.last_index = header.last_index
          /\ header'.deleted_records = header.deleted_records
      BY <2>22, <1>3 DEF PublishCounts, FilesOK
    <3>4. \A q \in Process : ~Counting(q) /\ ~Counting(q)'
      BY <3>1, <3>2 DEF Counting
    <3> QED
      BY <3>1, <3>3, <3>4, <1>2, CountedFrame
  <2>23. ASSUME NEW p \in Process, EndCommit(p) PROVE DeletedOK'
    <3> HIDE DEF FilesOK, ObjectsOK, HolderInv
    <3>1. UNCHANGED <<entries>> /\ pc[p] = "end"
      BY <2>23 DEF EndCommit
    <3>2. holder = p /\ pc'[p] = "run"
          /\ \A q \in Process \ {p} : holder # q /\ pc[q] = "run" /\ pc'[q] = "run"
      <4> HIDE DEF Goto, block, index, lock, local, commit
      <4>1. Goto(p, "run") /\ pc[p] # "run"
        BY <2>23 DEF EndCommit
      <4> QED
        BY <4>1, <1>3, MoveFrame
    <3>3. /\ header'.last_index = header.last_index
          /\ header'.deleted_records = header.deleted_records
      BY <2>23, <1>3 DEF EndCommit, FilesOK
    <3>4. \A q \in Process : ~Counting(q) /\ ~Counting(q)'
      BY <3>1, <3>2 DEF Counting
    <3> QED
      BY <3>1, <3>3, <3>4, <1>2, CountedFrame
  <2>24. ASSUME NEW p \in Process, rollback(p) PROVE DeletedOK'
    <3>1. /\ header'.last_index = header.last_index
          /\ header'.deleted_records = header.deleted_records
          /\ UNCHANGED <<entries, pc, cursor>>
      BY <2>24, <1>3 DEF rollback, Ready, FilesOK
    <3>2. \A q \in Process : pc[q] = "run" \/ deletes'[q] = deletes[q]
      BY <2>24, <1>3 DEF rollback, Ready, ObjectsOK
    <3> QED
      BY <3>1, <3>2, <1>2, CountedFrame DEF Counting
  <2>25. ASSUME NEW p \in Process, Crash(p) PROVE DeletedOK'
    <3> HIDE DEF FilesOK, ObjectsOK, HolderInv
    <3>1. /\ UNCHANGED <<header, entries>> /\ pc'[p] = "run" /\ ~Marked(p)
          /\ pc[p] \notin {"index_used", "index_offset", "index_deletes", "records"}
          /\ \A q \in Process \ {p} : pc'[q] = pc[q] /\ deletes'[q] = deletes[q]
      BY <2>25, <1>0, <1>3 DEF Crash, Faulty, DiedIn, Forget, Goto, ObjectsOK, Clean
    <3>2. pc[p] = "run" => UNCHANGED cursor
      BY <2>25 DEF Crash
    <3>3. CASE ~Counting(p)
      <4>1. pc[p] # "run" => \A q \in Process \ {p} : pc[q] = "run"
        BY <1>3, OnlyHolder
      <4> QED
        BY <3>1, <3>2, <3>3, <4>1, <1>2, CountedFrame DEF Counting
    <3>4. CASE Counting(p)
      <4>1. pc[p] \in {"deletes", "entries"} /\ deletes[p] = <<>>
        BY <3>1, <3>4 DEF Counting, Marked
      <4>2. Counted(p) /\ Len(deletes[p]) = 0
        BY <4>1, <1>2 DEF DeletedOK
      <4>3. pc[p] = "deletes" => cursor >= 1
        BY <1>8 DEF CursorInv
      <4>4. header.deleted_records = Cardinality(DeletedEntries)
        BY <4>1, <4>2, <4>3, <1>6, <1>7 DEF Counted
      <4>5. \A q \in Process : pc'[q] = "run"
        BY <3>1, <4>1, <1>3, OnlyHolder
      <4>6. DeletedEntries' = DeletedEntries
        BY <3>1, SameDeleted
      <4>7. \A q \in Process : Counted(q)'
        BY <4>5 DEF Counted
      <4> QED
        BY <3>1, <4>4, <4>6, <4>7 DEF DeletedOK
    <3> QED
      BY <3>3, <3>4
  <2>26. ASSUME NEW p \in Process, NEW i \in Slot, delete_record(p, i) PROVE DeletedOK'
    <3>1. /\ header'.last_index = header.last_index
          /\ header'.deleted_records = header.deleted_records
          /\ UNCHANGED <<entries, pc, cursor>>
      BY <2>26, <1>3 DEF delete_record, Ready, FilesOK
    <3>2. \A q \in Process : pc[q] = "run" \/ deletes'[q] = deletes[q]
      BY <2>26, <1>3 DEF delete_record, Ready, ObjectsOK
    <3> QED
      BY <3>1, <3>2, <1>2, CountedFrame DEF Counting
  <2>27. CASE Expire
    <3>1. /\ header'.last_index = header.last_index
          /\ header'.deleted_records = header.deleted_records
          /\ UNCHANGED <<entries, pc, cursor>>
      BY <2>27, <1>3 DEF Expire, FilesOK
    <3>2. \A q \in Process : pc[q] = "run" \/ deletes'[q] = deletes[q]
      BY <2>27, <1>3 DEF Expire, ObjectsOK
    <3> QED
      BY <3>1, <3>2, <1>2, CountedFrame DEF Counting
  <2>28. CASE UNCHANGED vars
    BY <2>28, <1>2, CountedFrame DEF vars, Counting
  <2> QED
    BY <2>1, <2>2, <2>3, <2>4, <2>5, <2>6, <2>7, <2>8, <2>9, <2>10, <2>11, <2>12, <2>13,
       <2>14, <2>15, <2>16, <2>17, <2>18, <2>19, <2>20, <2>21, <2>22, <2>23, <2>24,
       <2>25, <2>26, <2>27, <2>28
    DEF Next, CommitStep

----------------------------------------------------------------------------
(* What keeps the records of the block and the lists of the commits, or      *)
(* empties a list that marked nothing.                                       *)
LEMMA ListFrame ==
  ASSUME ListOK, ObjectsOK, OwnInv, Clean, header'.last_index = header.last_index,
         \A s \in Slot : InBlock(s) =>
           file'[s].state = file[s].state /\ entries'[s].state = entries[s].state,
         \A q \in Process :
           /\ holder' = q => holder = q \/ deletes'[q] = <<>>
           /\ \/ pc'[q] = pc[q] /\ deletes'[q] = deletes[q] /\ (pc[q] # "run" => cursor' = cursor)
              \/ deletes'[q] = <<>> /\ (deletes[q] = <<>> \/ ~Counting(q))
  PROVE  ListOK'
<1>1. ASSUME NEW p \in Process, holder' = p PROVE ListedOnce(p)' /\ ListMarks(p)'
  <2>1. CASE deletes'[p] = <<>>
    BY <2>1 DEF ListedOnce, ListMarks
  <2>2. CASE deletes'[p] # <<>>
    <3>1. /\ holder = p /\ pc'[p] = pc[p] /\ deletes'[p] = deletes[p]
          /\ pc[p] # "run" => cursor' = cursor
      BY <1>1, <2>2
    <3>2. ListedOnce(p) /\ ListMarks(p)
      BY <3>1 DEF ListOK
    <3>3. \A k \in DOMAIN deletes[p] : deletes[p][k] \in Slot /\ InBlock(deletes[p][k])
      BY <3>1 DEF ObjectsOK, OwnInv, Clean, InBlock
    <3>4. ASSUME NEW k \in DOMAIN deletes[p] PROVE MarkedBy(p, k)' <=> MarkedBy(p, k)
      BY <3>1 DEF MarkedBy
    <3> QED
      BY <3>1, <3>2, <3>3, <3>4 DEF ListedOnce, ListMarks
  <2> QED
    BY <2>1, <2>2
<1>2. ASSUME NEW i \in Slot, InBlock(i)'
      PROVE  file'[i].state = entries'[i].state \/ \E p \in Process : Pending(p, i)'
  <2>1. InBlock(i)
    BY <1>2 DEF InBlock
  <2>2. ASSUME NEW p \in Process, Pending(p, i) PROVE Pending(p, i)'
    BY <2>2 DEF Pending, Counting
  <2> QED
    BY <2>1, <2>2 DEF ListOK
<1> QED
  BY <1>1, <1>2 DEF ListOK

(* A commit goes on, and its marks with it.                                  *)
LEMMA ListMove ==
  ASSUME ListOK, ObjectsOK, OwnInv, Clean, NEW p \in Process, holder = p,
         UNCHANGED <<holder, deletes>>, header'.last_index = header.last_index,
         \A s \in Slot : InBlock(s) =>
           file'[s].state = file[s].state /\ entries'[s].state = entries[s].state,
         \A q \in Process \ {p} : holder # q /\ pc[q] = "run" /\ pc'[q] = "run",
         Counting(p)',
         \A k \in DOMAIN deletes[p] :
           /\ MarkedBy(p, k)' <=> MarkedBy(p, k)
           /\ pc'[p] = "index_deletes" /\ k < cursor' <=> pc[p] = "index_deletes" /\ k < cursor
  PROVE  ListOK'
<1>1. ListedOnce(p) /\ ListMarks(p)
  BY DEF ListOK
<1>2. \A k \in DOMAIN deletes[p] : deletes[p][k] \in Slot /\ InBlock(deletes[p][k])
  BY DEF ObjectsOK, OwnInv, Clean, InBlock
<1>3. ListedOnce(p)' /\ ListMarks(p)'
  BY <1>1, <1>2 DEF ListedOnce, ListMarks
<1>4. ASSUME NEW i \in Slot, InBlock(i)'
      PROVE  file'[i].state = entries'[i].state \/ \E q \in Process : Pending(q, i)'
  <2>1. InBlock(i)
    BY <1>4 DEF InBlock
  <2>2. ASSUME NEW q \in Process, Pending(q, i) PROVE Pending(q, i)'
    BY <2>2 DEF Pending, Counting
  <2> QED
    BY <2>1, <2>2 DEF ListOK
<1> QED
  BY <1>3, <1>4 DEF ListOK

LEMMA StepList ==
  ASSUME ThrowIInv, TotalInv, ListInv, [Next]_vars
  PROVE  ListInv'
<1> SUFFICES ASSUME Clean' PROVE ListOK'
  BY DEF ListInv
<1>1. Clean
  BY FaultsGrow DEF Clean
<1>0. Clean'
  OBVIOUS
<1>2. ListOK
  BY <1>1 DEF ListInv
<1>3. FilesOK /\ ObjectsOK /\ TypeOK /\ HolderInv /\ OpenInv
  BY CleanHolds, <1>1 DEF CleanBlock
<1>4. OwnInv
  BY CleanHolds, <1>1 DEF CleanBlock
<1>5. BlockOK
  BY CleanHolds, <1>1 DEF CleanBlock
<1>6. \A p \in Process : /\ deletes[p] \in Seq(Slot) /\ Len(deletes[p]) \in Nat
                        /\ DOMAIN deletes[p] = 1 .. Len(deletes[p])
  BY <1>3 DEF ObjectsOK
<1>7. header.last_index \in Nat /\ cursor \in Nat /\ added \in Nat /\ Slot \subseteq Nat
  BY <1>3, Ranges DEF FilesOK, ObjectsOK
<1>8. AgreeOK
  BY CleanHolds, <1>1 DEF CleanBlock
<1>9. TotalOK
  BY <1>1 DEF TotalInv
<1> USE ProcessAssumption DEF block, index, lock, local, commit
<1> QED
  <2>1. ASSUME NEW p \in Process, Open(p) PROVE ListOK'
    <3>1. header'.last_index = header.last_index /\ UNCHANGED <<file, entries, pc, cursor>>
      BY <2>1, <1>3 DEF Open, FilesOK
    <3>2. \A q \in Process : /\ holder' = q => holder = q
                             /\ deletes'[q] = deletes[q] \/ (deletes'[q] = <<>> /\ pc[q] = "run")
      BY <2>1, <1>3, ProcessAssumption DEF Open, ObjectsOK
    <3> QED
      BY <3>1, <3>2, <1>1, <1>2, <1>3, <1>4, ListFrame DEF Counting
  <2>2. ASSUME NEW p \in Process, Close(p) PROVE ListOK'
    <3>1. header'.last_index = header.last_index /\ UNCHANGED <<file, entries, pc, cursor>>
      BY <2>2, <1>3 DEF Close, Forget, Ready, FilesOK
    <3>2. \A q \in Process : /\ holder' = q => holder = q
                             /\ deletes'[q] = deletes[q] \/ (deletes'[q] = <<>> /\ pc[q] = "run")
      BY <2>2, <1>3, ProcessAssumption DEF Close, Forget, Ready, ObjectsOK
    <3> QED
      BY <3>1, <3>2, <1>1, <1>2, <1>3, <1>4, ListFrame DEF Counting
  <2>3. ASSUME NEW p \in Process, finish(p) PROVE ListOK'
    <3>1. header'.last_index = header.last_index /\ UNCHANGED <<file, entries, pc, cursor>>
      BY <2>3, <1>3 DEF finish, SetWriteState, FilesOK
    <3>2. \A q \in Process : /\ holder' = q => holder = q
                             /\ deletes'[q] = deletes[q] \/ (deletes'[q] = <<>> /\ pc[q] = "run")
      BY <2>3, <1>3, ProcessAssumption DEF finish, SetWriteState, ObjectsOK
    <3> QED
      BY <3>1, <3>2, <1>1, <1>2, <1>3, <1>4, ListFrame DEF Counting
  <2>4. ASSUME NEW p \in Process, archive(p) PROVE ListOK'
    <3>1. header'.last_index = header.last_index /\ UNCHANGED <<file, entries, pc, cursor>>
      BY <2>4, <1>3 DEF archive, SetWriteState, FilesOK
    <3>2. \A q \in Process : /\ holder' = q => holder = q
                             /\ deletes'[q] = deletes[q] \/ (deletes'[q] = <<>> /\ pc[q] = "run")
      BY <2>4, <1>3, ProcessAssumption DEF archive, SetWriteState, ObjectsOK
    <3> QED
      BY <3>1, <3>2, <1>1, <1>2, <1>3, <1>4, ListFrame DEF Counting
  <2>5. ASSUME NEW p \in Process, Start(p) PROVE ListOK'
    <3> HIDE DEF FilesOK, ObjectsOK, HolderInv
    <3>1. /\ UNCHANGED <<header, file, entries, pc, cursor>> /\ pc[p] = "run" /\ deletes'[p] = <<>>
          /\ \A q \in Process \ {p} : deletes'[q] = deletes[q] /\ (holder' = q => holder = q)
      BY <2>5, <1>3, StartFrame DEF Started, block, index, commit
    <3> QED
      BY <3>1, <1>1, <1>2, <1>3, <1>4, ListFrame DEF Counting
  <2>6. ASSUME NEW p \in Process, Write(p) PROVE ListOK'
    <3> HIDE DEF FilesOK, ObjectsOK, HolderInv
    <3>1. /\ UNCHANGED <<header, holder, pc, cursor, deletes>>
          /\ \A s \in Slot : InBlock(s) => file'[s] = file[s] /\ entries'[s] = entries[s]
      BY <2>6, <1>1, WriteAbove
    <3> QED
      BY <3>1, <1>1, <1>2, <1>3, <1>4, ListFrame
  <2>7. ASSUME NEW p \in Process, WriteUnindexed(p) PROVE ListOK'
    BY <2>7, <1>0 DEF WriteUnindexed, Faulty, Clean
  <2>8. ASSUME NEW p \in Process, Commit(p) PROVE ListOK'
    <3> HIDE DEF FilesOK, ObjectsOK, HolderInv
    <3>1. /\ UNCHANGED <<block, index, holder, deletes>> /\ cursor' = 1 /\ pc[p] = "run"
          /\ holder = p /\ pc'[p] = "deletes"
      BY <2>8, <1>3 DEF Commit, Goto, Ready, in_transaction, ObjectsOK
    <3>2. \A q \in Process \ {p} : holder # q /\ pc[q] = "run" /\ pc'[q] = "run"
      BY <2>8, <3>1, <1>3 DEF Commit, Goto, ObjectsOK, HolderInv
    <3>8. ASSUME NEW k \in DOMAIN deletes[p]
          PROVE  /\ MarkedBy(p, k)' <=> MarkedBy(p, k)
                 /\ pc'[p] = "index_deletes" /\ k < cursor' <=>
                      pc[p] = "index_deletes" /\ k < cursor
      <4>1. k \in Nat /\ k >= 1
        BY <1>6
      <4> QED
        BY <4>1, <3>1 DEF MarkedBy
    <3> QED
      BY <3>1, <3>2, <3>8, <1>1, <1>2, <1>3, <1>4, ListMove DEF Counting
  <2>9. ASSUME NEW p \in Process, MarkDeleted(p) PROVE ListOK'
    <3> HIDE DEF FilesOK, ObjectsOK, HolderInv
    <3> DEFINE i == deletes[p][cursor]
    <3>1. /\ UNCHANGED <<header, entries, holder, cursor, deletes>> /\ holder = p
          /\ pc[p] = "deletes" /\ pc'[p] = "count" /\ cursor \in DOMAIN deletes[p]
          /\ cursor <= Len(deletes[p]) /\ i \in Slot /\ InBlock(i)
          /\ (\A q \in Process \ {p} : holder # q /\ pc[q] = "run" /\ pc'[q] = "run")
          /\ \A s \in Slot : file'[s].state = IF s = i THEN "DELETED" ELSE file[s].state
      BY <2>9, <1>1, MarkFinds
    <3>2. ListedOnce(p) /\ ListMarks(p)
      BY <3>1, <1>2 DEF ListOK
    <3>3. ListedOnce(p)'
      BY <3>1, <3>2 DEF ListedOnce
    <3>4. ListMarks(p)'
      <4> SUFFICES ASSUME NEW k \in DOMAIN deletes[p]
                   PROVE  /\ file'[deletes[p][k]].state = IF MarkedBy(p, k)' THEN "DELETED" ELSE "READABLE"
                          /\ entries[deletes[p][k]].state = "READABLE"
        BY <3>1 DEF ListMarks
      <4>1. deletes[p][k] \in Slot /\ k \in Nat
        BY <1>6
      <4>2. deletes[p][k] = i <=> k = cursor
        BY <3>1, <3>2 DEF ListedOnce
      <4>3. MarkedBy(p, k)' <=> MarkedBy(p, k) \/ k = cursor
        BY <4>1, <3>1, <1>7 DEF MarkedBy
      <4> QED
        BY <4>1, <4>2, <4>3, <3>1, <3>2 DEF ListMarks
    <3>5. ASSUME NEW s \in Slot, InBlock(s)
          PROVE  file'[s].state = entries[s].state \/ Pending(p, s)'
      <4>1. CASE s = i
        BY <4>1, <3>1 DEF Pending, Counting
      <4>2. CASE s # i
        <5>1. file[s].state = entries[s].state \/ Pending(p, s)
          BY <3>1, <3>5, <1>2 DEF ListOK, Pending, Counting
        <5>2. Pending(p, s) => Pending(p, s)'
          BY <3>1 DEF Pending, Counting
        <5> QED
          BY <4>2, <5>1, <5>2, <3>1
      <4> QED
        BY <4>1, <4>2
    <3> QED
      BY <3>1, <3>3, <3>4, <3>5 DEF ListOK, InBlock
  <2>10. ASSUME NEW p \in Process, CountDeleted(p) PROVE ListOK'
    <3> HIDE DEF FilesOK, ObjectsOK, HolderInv
    <3>1. UNCHANGED <<file, entries, deletes, holder>> /\ pc[p] = "count"
      BY <2>10 DEF CountDeleted
    <3>2. holder = p /\ pc'[p] = "deletes"
          /\ \A q \in Process \ {p} : holder # q /\ pc[q] = "run" /\ pc'[q] = "run"
      <4> HIDE DEF Goto, block, index, lock, local, commit
      <4>1. Goto(p, "deletes") /\ pc[p] # "run"
        BY <2>10 DEF CountDeleted
      <4> QED
        BY <4>1, <1>3, MoveFrame
    <3>3. cursor' = cursor + 1
      BY <2>10 DEF CountDeleted
    <3>8. ASSUME NEW k \in DOMAIN deletes[p]
          PROVE  /\ MarkedBy(p, k)' <=> MarkedBy(p, k)
                 /\ pc'[p] = "index_deletes" /\ k < cursor' <=>
                      pc[p] = "index_deletes" /\ k < cursor
      <4>1. k \in Nat /\ k >= 1 /\ k <= Len(deletes[p])
        BY <1>6
      <4> QED
        BY <4>1, <3>2, <1>6, <1>7, <3>1, <3>3 DEF MarkedBy
    <3>9. header'.last_index = header.last_index
      BY <2>10, <1>3 DEF CountDeleted, FilesOK
    <3> QED
      BY <3>1, <3>2, <3>8, <3>9, <1>1, <1>2, <1>3, <1>4, ListMove DEF Counting
  <2>11. ASSUME NEW p \in Process, CommitIndex(p) PROVE ListOK'
    <3> HIDE DEF FilesOK, ObjectsOK, HolderInv
    <3>1. UNCHANGED <<file, entries, deletes, holder>> /\ pc[p] = "deletes"
      BY <2>11 DEF CommitIndex
    <3>2. holder = p /\ pc'[p] = "entries"
          /\ \A q \in Process \ {p} : holder # q /\ pc[q] = "run" /\ pc'[q] = "run"
      <4> HIDE DEF Goto, block, index, lock, local, commit
      <4>1. Goto(p, "entries") /\ pc[p] # "run"
        BY <2>11 DEF CommitIndex
      <4> QED
        BY <4>1, <1>3, MoveFrame
    <3>3. cursor > Len(deletes[p])
      BY <2>11 DEF CommitIndex
    <3>8. ASSUME NEW k \in DOMAIN deletes[p]
          PROVE  /\ MarkedBy(p, k)' <=> MarkedBy(p, k)
                 /\ pc'[p] = "index_deletes" /\ k < cursor' <=>
                      pc[p] = "index_deletes" /\ k < cursor
      <4>1. k \in Nat /\ k >= 1 /\ k <= Len(deletes[p])
        BY <1>6
      <4> QED
        BY <4>1, <3>2, <1>6, <1>7, <3>1, <3>3 DEF MarkedBy
    <3>9. header'.last_index = header.last_index
      BY <2>11, <1>3 DEF CommitIndex, FilesOK
    <3> QED
      BY <3>1, <3>2, <3>8, <3>9, <1>1, <1>2, <1>3, <1>4, ListMove DEF Counting
  <2>12. ASSUME NEW p \in Process, ShowEntry(p) PROVE ListOK'
    <3> HIDE DEF FilesOK, ObjectsOK, HolderInv
    <3>1. /\ UNCHANGED <<block, holder, deletes>> /\ holder = p /\ pc[p] = "entries" /\ pc'[p] = "entries"
          /\ (\A q \in Process \ {p} : holder # q /\ pc[q] = "run" /\ pc'[q] = "run")
          /\ \A s \in Slot : InBlock(s) => entries'[s].state = entries[s].state
      BY <2>12, <1>1, ShowAbove
    <3> QED
      BY <3>1, <1>1, <1>2, <1>3, <1>4, ListMove DEF Counting, MarkedBy
  <2>13. ASSUME NEW p \in Process, IndexLast(p) PROVE ListOK'
    <3> HIDE DEF FilesOK, ObjectsOK, HolderInv
    <3>1. UNCHANGED <<file, entries, deletes, holder>> /\ pc[p] = "entries"
      BY <2>13 DEF IndexLast
    <3>2. holder = p /\ pc'[p] = "index_used"
          /\ \A q \in Process \ {p} : holder # q /\ pc[q] = "run" /\ pc'[q] = "run"
      <4> HIDE DEF Goto, block, index, lock, local, commit
      <4>1. Goto(p, "index_used") /\ pc[p] # "run"
        BY <2>13 DEF IndexLast
      <4> QED
        BY <4>1, <1>3, MoveFrame
    <3>8. ASSUME NEW k \in DOMAIN deletes[p]
          PROVE  /\ MarkedBy(p, k)' <=> MarkedBy(p, k)
                 /\ pc'[p] = "index_deletes" /\ k < cursor' <=>
                      pc[p] = "index_deletes" /\ k < cursor
      <4>1. k \in Nat /\ k >= 1 /\ k <= Len(deletes[p])
        BY <1>6
      <4> QED
        BY <4>1, <3>2, <1>6, <1>7, <3>1 DEF MarkedBy
    <3>9. header'.last_index = header.last_index
      BY <2>13, <1>3 DEF IndexLast, FilesOK
    <3> QED
      BY <3>1, <3>2, <3>8, <3>9, <1>1, <1>2, <1>3, <1>4, ListMove DEF Counting
  <2>14. ASSUME NEW p \in Process, IndexUsed(p) PROVE ListOK'
    <3> HIDE DEF FilesOK, ObjectsOK, HolderInv
    <3>1. UNCHANGED <<file, entries, deletes, holder>> /\ pc[p] = "index_used"
      BY <2>14 DEF IndexUsed
    <3>2. holder = p /\ pc'[p] = "index_offset"
          /\ \A q \in Process \ {p} : holder # q /\ pc[q] = "run" /\ pc'[q] = "run"
      <4> HIDE DEF Goto, block, index, lock, local, commit
      <4>1. Goto(p, "index_offset") /\ pc[p] # "run"
        BY <2>14 DEF IndexUsed
      <4> QED
        BY <4>1, <1>3, MoveFrame
    <3>8. ASSUME NEW k \in DOMAIN deletes[p]
          PROVE  /\ MarkedBy(p, k)' <=> MarkedBy(p, k)
                 /\ pc'[p] = "index_deletes" /\ k < cursor' <=>
                      pc[p] = "index_deletes" /\ k < cursor
      <4>1. k \in Nat /\ k >= 1 /\ k <= Len(deletes[p])
        BY <1>6
      <4> QED
        BY <4>1, <3>2, <1>6, <1>7, <3>1 DEF MarkedBy
    <3>9. header'.last_index = header.last_index
      BY <2>14, <1>3 DEF IndexUsed, FilesOK
    <3> QED
      BY <3>1, <3>2, <3>8, <3>9, <1>1, <1>2, <1>3, <1>4, ListMove DEF Counting
  <2>15. ASSUME NEW p \in Process, IndexOffset(p) PROVE ListOK'
    <3> HIDE DEF FilesOK, ObjectsOK, HolderInv
    <3>1. UNCHANGED <<file, entries, deletes, holder>> /\ pc[p] = "index_offset"
      BY <2>15 DEF IndexOffset
    <3>2. holder = p /\ pc'[p] = "index_deletes"
          /\ \A q \in Process \ {p} : holder # q /\ pc[q] = "run" /\ pc'[q] = "run"
      <4> HIDE DEF Goto, block, index, lock, local, commit
      <4>1. Goto(p, "index_deletes") /\ pc[p] # "run"
        BY <2>15 DEF IndexOffset
      <4> QED
        BY <4>1, <1>3, MoveFrame
    <3>3. cursor' = 1
      BY <2>15 DEF IndexOffset
    <3>8. ASSUME NEW k \in DOMAIN deletes[p]
          PROVE  /\ MarkedBy(p, k)' <=> MarkedBy(p, k)
                 /\ pc'[p] = "index_deletes" /\ k < cursor' <=>
                      pc[p] = "index_deletes" /\ k < cursor
      <4>1. k \in Nat /\ k >= 1 /\ k <= Len(deletes[p])
        BY <1>6
      <4> QED
        BY <4>1, <3>2, <1>6, <1>7, <3>1, <3>3 DEF MarkedBy
    <3>9. header'.last_index = header.last_index
      BY <2>15, <1>3 DEF IndexOffset, FilesOK
    <3> QED
      BY <3>1, <3>2, <3>8, <3>9, <1>1, <1>2, <1>3, <1>4, ListMove DEF Counting
  <2>16. ASSUME NEW p \in Process, IndexDelete(p) PROVE ListOK'
    <3> HIDE DEF FilesOK, ObjectsOK, HolderInv
    <3> DEFINE i == deletes[p][cursor]
    <3>1. /\ UNCHANGED <<block, holder, pc, deletes>> /\ cursor' = cursor + 1 /\ holder = p
          /\ pc[p] = "index_deletes" /\ cursor \in DOMAIN deletes[p]
          /\ cursor <= Len(deletes[p]) /\ i \in Slot /\ InBlock(i)
          /\ (\A q \in Process \ {p} : holder # q /\ pc[q] = "run")
          /\ \A s \in Slot : entries'[s].state = IF s = i THEN "DELETED" ELSE entries[s].state
      BY <2>16, <1>1, IndexMarks
    <3>2. ListedOnce(p) /\ ListMarks(p)
      BY <3>1, <1>2 DEF ListOK
    <3>3. ListedOnce(p)'
      BY <3>1, <3>2 DEF ListedOnce
    <3>4. ListMarks(p)'
      <4> SUFFICES ASSUME NEW k \in DOMAIN deletes[p]
                   PROVE  /\ file[deletes[p][k]].state = "DELETED"
                          /\ entries'[deletes[p][k]].state =
                               IF k < cursor + 1 THEN "DELETED" ELSE "READABLE"
        BY <3>1 DEF ListMarks, MarkedBy, block
      <4>1. deletes[p][k] \in Slot /\ k \in Nat
        BY <1>6
      <4>2. deletes[p][k] = i <=> k = cursor
        BY <3>1, <3>2 DEF ListedOnce
      <4>3. k < cursor + 1 <=> k < cursor \/ k = cursor
        BY <4>1, <1>7
      <4> QED
        BY <4>1, <4>2, <4>3, <3>1, <3>2 DEF ListMarks, MarkedBy
    <3>5. ASSUME NEW s \in Slot, InBlock(s)
          PROVE  file[s].state = entries'[s].state \/ Pending(p, s)'
      <4>1. CASE s = i
        BY <4>1, <3>1 DEF Pending, Counting
      <4>2. CASE s # i
        <5>1. file[s].state = entries[s].state \/ Pending(p, s)
          BY <3>1, <3>5, <1>2 DEF ListOK, Pending, Counting
        <5>2. Pending(p, s) => Pending(p, s)'
          BY <3>1 DEF Pending, Counting
        <5> QED
          BY <4>2, <5>1, <5>2, <3>1
      <4> QED
        BY <4>1, <4>2
    <3> QED
      BY <3>1, <3>3, <3>4, <3>5 DEF ListOK, InBlock, block
  <2>17. ASSUME NEW p \in Process, EndIndex(p) PROVE ListOK'
    <3> HIDE DEF FilesOK, ObjectsOK, HolderInv
    <3>1. UNCHANGED <<file, entries, header, holder>> /\ pc[p] = "index_deletes"
      BY <2>17 DEF EndIndex
    <3>2. holder = p /\ pc'[p] = "records"
          /\ \A q \in Process \ {p} : holder # q /\ pc[q] = "run" /\ pc'[q] = "run"
      <4> HIDE DEF Goto, block, index, lock, local, commit
      <4>1. Goto(p, "records") /\ pc[p] # "run"
        BY <2>17 DEF EndIndex
      <4> QED
        BY <4>1, <1>3, MoveFrame
    <3>3. cursor > Len(deletes[p]) /\ deletes'[p] = <<>>
      BY <2>17, <1>3 DEF EndIndex, ObjectsOK
    <3>4. ListMarks(p)
      BY <3>2, <1>2 DEF ListOK
    <3>5. ASSUME NEW k \in DOMAIN deletes[p]
          PROVE  file[deletes[p][k]].state = entries[deletes[p][k]].state
      <4>1. k < cursor
        BY <3>3, <1>6, <1>7
      <4> QED
        BY <4>1, <3>1, <3>4 DEF ListMarks, MarkedBy
    <3>6. ASSUME NEW s \in Slot, InBlock(s) PROVE file[s].state = entries[s].state
      <4>1. file[s].state = entries[s].state \/ Pending(p, s)
        BY <3>2, <3>6, <1>2 DEF ListOK, Pending, Counting
      <4> QED
        BY <4>1, <3>5 DEF Pending
    <3>7. ListedOnce(p)' /\ ListMarks(p)'
      BY <3>3 DEF ListedOnce, ListMarks
    <3> QED
      BY <3>1, <3>2, <3>6, <3>7 DEF ListOK, InBlock
  <2>18. ASSUME NEW p \in Process, MarkReadable(p) PROVE ListOK'
    <3> HIDE DEF FilesOK, ObjectsOK, HolderInv
    <3>1. /\ UNCHANGED <<header, entries, pc, holder, deletes>> /\ pc[p] = "records"
          /\ file' = [file EXCEPT ![cursor].state = "READABLE"]
      BY <2>18 DEF MarkReadable, lock, local, index
    <3>2. \A q \in Process \ {p} : pc[q] = "run"
      BY <3>1, <1>3, OnlyHolder
    <3>3. deletes[p] = <<>> /\ header.last_index <= cursor
      BY <3>1, <1>4, <1>9, <1>7 DEF OwnInv, TotalOK
    <3>4. \A s \in Slot : InBlock(s) => file'[s].state = file[s].state
      <4>1. \A s \in Slot : InBlock(s) => s # cursor
        BY <3>3, <1>7 DEF InBlock
      <4> QED
        BY <4>1, <3>1, <1>3 DEF FilesOK
    <3> QED
      BY <3>1, <3>2, <3>3, <3>4, <1>1, <1>2, <1>3, <1>4, ListFrame
  <2>19. ASSUME NEW p \in Process, PublishLast(p) PROVE ListOK'
    <3> HIDE DEF FilesOK, ObjectsOK, HolderInv
    <3>1. /\ UNCHANGED <<file, entries, holder, deletes>> /\ holder = p /\ deletes[p] = <<>>
          /\ (\A q \in Process \ {p} : holder # q /\ pc[q] = "run" /\ pc'[q] = "run")
          /\ pc[p] = "records"
          /\ \A s \in Slot : s < header'.last_index /\ ~InBlock(s) =>
               entries[s].state = "READABLE" /\ file[s].state = "READABLE"
      BY <2>19, <1>1, PublishShows
    <3>2. \A s \in Slot : InBlock(s) => file[s].state = entries[s].state
      BY <3>1, <1>2 DEF ListOK, Pending, Counting
    <3>3. ListedOnce(p)' /\ ListMarks(p)'
      BY <3>1 DEF ListedOnce, ListMarks
    <3> QED
      BY <3>1, <3>2, <3>3 DEF ListOK, InBlock
  <2>20. ASSUME NEW p \in Process, PublishUsed(p) PROVE ListOK'
    <3> HIDE DEF FilesOK, ObjectsOK, HolderInv
    <3>1. UNCHANGED <<file, entries, deletes, holder>> /\ pc[p] = "used"
      BY <2>20 DEF PublishUsed
    <3>2. holder = p /\ pc'[p] = "offset"
          /\ \A q \in Process \ {p} : holder # q /\ pc[q] = "run" /\ pc'[q] = "run"
      <4> HIDE DEF Goto, block, index, lock, local, commit
      <4>1. Goto(p, "offset") /\ pc[p] # "run"
        BY <2>20 DEF PublishUsed
      <4> QED
        BY <4>1, <1>3, MoveFrame
    <3>3. deletes[p] = <<>>
      BY <3>1, <1>4 DEF OwnInv
    <3>4. header'.last_index = header.last_index
      BY <2>20, <1>3 DEF PublishUsed, FilesOK
    <3> QED
      BY <3>1, <3>2, <3>3, <3>4, <1>1, <1>2, <1>3, <1>4, ListFrame
  <2>21. ASSUME NEW p \in Process, PublishOffset(p) PROVE ListOK'
    <3> HIDE DEF FilesOK, ObjectsOK, HolderInv
    <3>1. UNCHANGED <<file, entries, deletes, holder>> /\ pc[p] = "offset"
      BY <2>21 DEF PublishOffset
    <3>2. holder = p /\ pc'[p] = "counts"
          /\ \A q \in Process \ {p} : holder # q /\ pc[q] = "run" /\ pc'[q] = "run"
      <4> HIDE DEF Goto, block, index, lock, local, commit
      <4>1. Goto(p, "counts") /\ pc[p] # "run"
        BY <2>21 DEF PublishOffset
      <4> QED
        BY <4>1, <1>3, MoveFrame
    <3>3. deletes[p] = <<>>
      BY <3>1, <1>4 DEF OwnInv
    <3>4. header'.last_index = header.last_index
      BY <2>21, <1>3 DEF PublishOffset, FilesOK
    <3> QED
      BY <3>1, <3>2, <3>3, <3>4, <1>1, <1>2, <1>3, <1>4, ListFrame
  <2>22. ASSUME NEW p \in Process, PublishCounts(p) PROVE ListOK'
    <3> HIDE DEF FilesOK, ObjectsOK, HolderInv
    <3>1. UNCHANGED <<file, entries, deletes, holder>> /\ pc[p] = "counts"
      BY <2>22 DEF PublishCounts
    <3>2. holder = p /\ pc'[p] = "end"
          /\ \A q \in Process \ {p} : holder # q /\ pc[q] = "run" /\ pc'[q] = "run"
      <4> HIDE DEF Goto, block, index, lock, local, commit
      <4>1. Goto(p, "end") /\ pc[p] # "run"
        BY <2>22 DEF PublishCounts
      <4> QED
        BY <4>1, <1>3, MoveFrame
    <3>3. deletes[p] = <<>>
      BY <3>1, <1>4 DEF OwnInv
    <3>4. header'.last_index = header.last_index
      BY <2>22, <1>3 DEF PublishCounts, FilesOK
    <3> QED
      BY <3>1, <3>2, <3>3, <3>4, <1>1, <1>2, <1>3, <1>4, ListFrame
  <2>23. ASSUME NEW p \in Process, EndCommit(p) PROVE ListOK'
    <3> HIDE DEF FilesOK, ObjectsOK, HolderInv
    <3>1. UNCHANGED <<header, file, entries, deletes>> /\ pc[p] = "end"
      BY <2>23 DEF EndCommit
    <3>2. holder = p /\ pc'[p] = "run"
          /\ \A q \in Process \ {p} : holder # q /\ pc[q] = "run" /\ pc'[q] = "run"
      <4> HIDE DEF Goto, block, index, lock, local, commit
      <4>1. Goto(p, "run") /\ pc[p] # "run"
        BY <2>23 DEF EndCommit
      <4> QED
        BY <4>1, <1>3, MoveFrame
    <3>3. deletes[p] = <<>>
      BY <3>1, <1>4 DEF OwnInv
    <3>4. \A q \in Process : holder' # q
      BY <2>23, ProcessAssumption DEF EndCommit, end_transaction
    <3> QED
      BY <3>1, <3>2, <3>3, <3>4, <1>1, <1>2, <1>3, <1>4, ListFrame
  <2>24. ASSUME NEW p \in Process, rollback(p) PROVE ListOK'
    <3>1. header'.last_index = header.last_index /\ UNCHANGED <<file, entries, pc, cursor>>
      BY <2>24, <1>3 DEF rollback, Ready, end_transaction, FilesOK
    <3>2. \A q \in Process : /\ holder' = q => holder = q
                             /\ deletes'[q] = deletes[q] \/ (deletes'[q] = <<>> /\ pc[q] = "run")
      BY <2>24, <1>3, ProcessAssumption DEF rollback, Ready, end_transaction, ObjectsOK
    <3> QED
      BY <3>1, <3>2, <1>1, <1>2, <1>3, <1>4, ListFrame DEF Counting
  <2>25. ASSUME NEW p \in Process, Crash(p) PROVE ListOK'
    <3> HIDE DEF FilesOK, ObjectsOK, HolderInv
    <3>1. /\ UNCHANGED <<header, file, entries>> /\ ~Marked(p) /\ deletes'[p] = <<>>
          /\ pc[p] \notin {"index_used", "index_offset", "index_deletes", "records"}
          /\ \A q \in Process \ {p} : pc'[q] = pc[q] /\ deletes'[q] = deletes[q]
      BY <2>25, <1>0, <1>3 DEF Crash, Faulty, DiedIn, Forget, Goto, ObjectsOK, Clean, block, index
    <3>2. (pc[p] = "run" => UNCHANGED cursor) /\ \A q \in Process : holder' = q => holder = q
      BY <2>25, ProcessAssumption DEF Crash
    <3>3. deletes[p] = <<>> \/ ~Counting(p)
      BY <3>1 DEF Marked, Counting
    <3>4. pc[p] # "run" => \A q \in Process \ {p} : pc[q] = "run"
      BY <1>3, OnlyHolder
    <3> QED
      BY <3>1, <3>2, <3>3, <3>4, <1>1, <1>2, <1>3, <1>4, ListFrame
  <2>26. ASSUME NEW p \in Process, NEW i \in Slot, delete_record(p, i) PROVE ListOK'
    <3> HIDE DEF FilesOK, ObjectsOK, HolderInv
    <3>1. /\ UNCHANGED <<block, index, holder, commit>> /\ holder = p /\ pc[p] = "run"
          /\ deletes' = [deletes EXCEPT ![p] = Append(@, i)]
          /\ Found(i) /\ file[entries[i].offset].state \in {"READABLE", "DIRTY"}
      BY <2>26 DEF delete_record, Ready, in_transaction, lock
    <3>2. i < header.last_index /\ \A k \in DOMAIN deletes[p] : deletes[p][k] # i
      <4>1. ~(i >= header.last_index)
        BY <2>26, <1>0 DEF delete_record, Faulty, Clean
      <4>2. ~\E k \in DOMAIN deletes[p] : deletes[p][k] = i
        BY <2>26, <1>0 DEF delete_record, Faulty, Clean
      <4> QED
        BY <2>26, <4>1, <4>2, <1>7
    <3>3. \A q \in Process \ {p} : holder # q /\ pc[q] = "run"
      BY <3>1, <1>3 DEF HolderInv
    <3>4. InBlock(i) /\ entries[i].offset = i
      BY <3>1, <3>2, <1>5 DEF InBlock, BlockOK, Found
    <3>5. file[i].state = "READABLE" /\ entries[i].state = "READABLE"
      <4>1. Settled(i)
        BY <3>4, <1>8 DEF AgreeOK
      <4>2. file[i].state = entries[i].state
        BY <3>1, <3>3, <3>4, <1>2 DEF ListOK, Pending, Counting
      <4> QED
        BY <4>1, <4>2, <3>1, <3>4 DEF Settled
    <3> DEFINE d == deletes[p]
    <3>6. /\ d \in Seq(Slot) /\ deletes'[p] = Append(d, i)
          /\ \A q \in Process \ {p} : deletes'[q] = deletes[q]
      BY <3>1, <1>3 DEF ObjectsOK
    <3>7. ListedOnce(p) /\ ListMarks(p)
      BY <3>1, <1>2 DEF ListOK
    <3>8. ListedOnce(p)' /\ ListMarks(p)'
      <4>1. /\ DOMAIN Append(d, i) = 1 .. Len(d) + 1 /\ DOMAIN d = 1 .. Len(d) /\ Len(d) \in Nat
            /\ \A k \in 1 .. Len(d) + 1 : Append(d, i)[k] = IF k = Len(d) + 1 THEN i ELSE d[k]
        BY <3>6
      <4> HIDE DEF d
      <4>2. \A k \in 1 .. Len(d) + 1 : k \in 1 .. Len(d) \/ k = Len(d) + 1
        BY <4>1
      <4>3. pc'[p] = "run" /\ UNCHANGED <<file, entries>>
        BY <3>1 DEF block, index, commit
      <4>4. ListedOnce(p)'
        BY <4>1, <4>2, <3>2, <3>6, <3>7 DEF ListedOnce, d
      <4>5. ListMarks(p)'
        BY <4>1, <4>2, <4>3, <3>1, <3>5, <3>6, <3>7 DEF ListMarks, MarkedBy, d
      <4> QED
        BY <4>4, <4>5
    <3>9. \A s \in Slot, q \in Process : ~Pending(q, s)
      BY <3>1, <3>3 DEF Pending, Counting
    <3> QED
      BY <3>1, <3>3, <3>8, <3>9, <1>2 DEF ListOK, InBlock, block, index
  <2>27. CASE Expire
    <3>1. header'.last_index = header.last_index /\ UNCHANGED <<file, entries, pc, cursor>>
      BY <2>27, <1>3 DEF Expire, FilesOK
    <3>2. \A q \in Process : /\ holder' = q => holder = q
                             /\ deletes'[q] = deletes[q] \/ (deletes'[q] = <<>> /\ pc[q] = "run")
      BY <2>27, <1>3, ProcessAssumption DEF Expire, ObjectsOK
    <3> QED
      BY <3>1, <3>2, <1>1, <1>2, <1>3, <1>4, ListFrame DEF Counting
  <2>28. CASE UNCHANGED vars
    BY <2>28, <1>1, <1>2, <1>3, <1>4, ListFrame DEF vars
  <2> QED
    BY <2>1, <2>2, <2>3, <2>4, <2>5, <2>6, <2>7, <2>8, <2>9, <2>10, <2>11, <2>12, <2>13,
       <2>14, <2>15, <2>16, <2>17, <2>18, <2>19, <2>20, <2>21, <2>22, <2>23, <2>24,
       <2>25, <2>26, <2>27, <2>28
    DEF Next, CommitStep

(* The check of the block's sanity succeeds whenever no commit runs, unless  *)
(* a crash or a write that failed came before, or a transaction that deleted *)
(* a record of its own or one twice.                                         *)
SaneIInv == ThrowIInv /\ TotalInv /\ DeletedInv /\ ListInv

LEMMA InitSane == Init => SaneIInv
<1> SUFFICES ASSUME Init PROVE SaneIInv
  OBVIOUS
<1>1. ThrowIInv
  BY InitThrow
<1>2. \A s \in Slot : ~InBlock(s)
  BY Ranges DEF Init, InBlock, Slot
<1>3. TotalInv
  BY DEF Init, TotalInv, TotalOK, Shown, Counting
<1>4. Cardinality(DeletedEntries) = 0
  <2>1. DeletedEntries = {}
    BY <1>2 DEF DeletedEntries
  <2> QED
    BY <2>1, FS_EmptySet
<1>5. DeletedInv
  BY <1>4 DEF Init, DeletedInv, DeletedOK, Counted, Counting
<1>6. ListInv
  BY <1>2, ProcessAssumption DEF Init, ListInv, ListOK
<1> QED
  BY <1>1, <1>3, <1>5, <1>6 DEF SaneIInv

THEOREM Sane == Spec => []SanityHolds
<1>1. SaneIInv /\ [Next]_vars => SaneIInv'
  BY StepThrow, StepTotal, StepDeleted, StepList DEF SaneIInv
<1>2. SaneIInv => SanityHolds
  <2> SUFFICES ASSUME SaneIInv, Clean, \A p \in Process : pc[p] = "run"
               PROVE  /\ header.total_records = header.last_index - 1
                      /\ header.deleted_records = Cardinality(
                           {i \in 1 .. header.last_index - 1 : entries[i].state # "READABLE"})
                      /\ \A i \in 1 .. header.last_index - 1 :
                           file[entries[i].offset].state = entries[i].state
    BY DEF SanityHolds, Clean
  <2>1. header.total_records = header.last_index - 1
    BY DEF SaneIInv, TotalInv, TotalOK, Shown
  <2>2. {i \in 1 .. header.last_index - 1 : entries[i].state # "READABLE"} = DeletedEntries
    <3>1. header.last_index \in Slot
      BY BoundAssumption DEF SaneIInv, ThrowIInv, BlocksOK, TypeOK, FilesOK
    <3>2. 1 .. header.last_index - 1 = {i \in Slot : InBlock(i)}
      BY <3>1, BoundAssumption DEF Slot, InBlock
    <3> QED
      BY <3>2 DEF DeletedEntries
  <2>3. header.deleted_records = Cardinality(DeletedEntries)
    BY DEF SaneIInv, DeletedInv, DeletedOK, Counting
  <2>4. ASSUME NEW i \in 1 .. header.last_index - 1
        PROVE  file[entries[i].offset].state = entries[i].state
    <3>1. AgreeIInv /\ Safe
      BY DEF SaneIInv, ThrowIInv, BlocksOK, AgreeIInv, Safe, Clean
    <3>2. i \in Slot /\ entries[i].offset = i /\ InBlock(i)
      <4>1. header.last_index \in Nat
        BY Ranges DEF SaneIInv, ThrowIInv, BlocksOK, TypeOK, FilesOK
      <4> QED
        BY <4>1, <3>1, SettledIsFound DEF InBlock
    <3> QED
      BY <3>2 DEF SaneIInv, ListInv, ListOK, Pending, Counting
  <2> QED
    BY <2>1, <2>2, <2>3, <2>4
<1> QED
  BY <1>1, <1>2, InitSane, PTL DEF Spec

----------------------------------------------------------------------------
(* What a commit has gone through of its deletes is marked in the index,     *)
(* whatever went wrong before.                                               *)
MarkedOf(p) ==
  pc[p] = "index_deletes" => \A k \in DOMAIN deletes[p] :
    k < cursor => entries[deletes[p][k]].state = "DELETED"
MarkedInv == \A p \in Process : MarkedOf(p)

LEMMA MarkedElsewhere ==
  ASSUME MarkedInv,
         \A p \in Process : pc'[p] = "index_deletes" =>
           pc[p] = "index_deletes" /\ UNCHANGED <<deletes, entries, cursor>>
  PROVE  MarkedInv'
BY DEF MarkedInv, MarkedOf

LEMMA StepMarked ==
  ASSUME TypeOK, HolderInv, OpenInv, MarkedInv, [Next]_vars
  PROVE  MarkedInv'
<1>3. FilesOK /\ ObjectsOK
  BY DEF TypeOK
<1> USE DEF block, index, lock, local, commit
<1> QED
  <2>1. ASSUME NEW p \in Process, Open(p) PROVE MarkedInv'
    BY <2>1, MarkedElsewhere DEF Open
  <2>2. ASSUME NEW p \in Process, Close(p) PROVE MarkedInv'
    <3> HIDE DEF FilesOK, ObjectsOK, HolderInv
    <3>1. pc[p] = "run" /\ UNCHANGED pc
      BY <2>2 DEF Close, Forget, Ready
    <3>2. UNCHANGED <<entries, cursor>>
      BY <2>2 DEF Close, Forget, Ready
    <3>3. \A q \in Process \ {p} : deletes'[q] = deletes[q]
      BY <2>2, <1>3 DEF Close, Forget, Ready, ObjectsOK
    <3> QED
      BY <3>1, <3>2, <3>3 DEF MarkedInv, MarkedOf
  <2>3. ASSUME NEW p \in Process, finish(p) PROVE MarkedInv'
    <3> HIDE DEF FilesOK, ObjectsOK, HolderInv
    <3>1. pc[p] = "run" /\ UNCHANGED pc
      BY <2>3 DEF finish, SetWriteState, Ready
    <3>2. UNCHANGED <<entries, cursor>>
      BY <2>3 DEF finish, SetWriteState, Ready
    <3>3. \A q \in Process \ {p} : deletes'[q] = deletes[q]
      BY <2>3, <1>3 DEF finish, SetWriteState, Ready, ObjectsOK
    <3> QED
      BY <3>1, <3>2, <3>3 DEF MarkedInv, MarkedOf
  <2>4. ASSUME NEW p \in Process, archive(p) PROVE MarkedInv'
    <3> HIDE DEF FilesOK, ObjectsOK, HolderInv
    <3>1. pc[p] = "run" /\ UNCHANGED pc
      BY <2>4 DEF archive, SetWriteState, Ready
    <3>2. UNCHANGED <<entries, cursor>>
      BY <2>4 DEF archive, SetWriteState, Ready
    <3>3. \A q \in Process \ {p} : deletes'[q] = deletes[q]
      BY <2>4, <1>3 DEF archive, SetWriteState, Ready, ObjectsOK
    <3> QED
      BY <3>1, <3>2, <3>3 DEF MarkedInv, MarkedOf
  <2>5. ASSUME NEW p \in Process, Start(p) PROVE MarkedInv'
    <3> HIDE DEF FilesOK, ObjectsOK, HolderInv
    <3>1. /\ UNCHANGED <<entries, cursor, pc>> /\ pc[p] = "run"
          /\ \A q \in Process \ {p} : deletes'[q] = deletes[q]
      BY <2>5, <1>3, StartFrame DEF Started
    <3> QED
      BY <3>1 DEF MarkedInv, MarkedOf
  <2>6. ASSUME NEW p \in Process, Write(p) PROVE MarkedInv'
    <3> HIDE DEF FilesOK, ObjectsOK, HolderInv
    <3>1. UNCHANGED pc /\ \A q \in Process : pc[q] = "run"
      BY <2>6, WriteFrame DEF Write, Wrote
    <3> QED
      BY <3>1, MarkedElsewhere
  <2>7. ASSUME NEW p \in Process, WriteUnindexed(p) PROVE MarkedInv'
    BY <2>7, MarkedElsewhere DEF WriteUnindexed, WriteRecord
  <2>8. ASSUME NEW p \in Process, Commit(p) PROVE MarkedInv'
    <3> HIDE DEF FilesOK, ObjectsOK, HolderInv
    <3>1. pc'[p] = "deletes" /\ \A q \in Process \ {p} : pc'[q] = pc[q]
      BY <2>8, <1>3 DEF Commit, Goto, ObjectsOK
    <3>2. \A q \in Process \ {p} : pc[q] = "run"
      BY <2>8 DEF Commit, Ready, in_transaction, HolderInv
    <3> QED
      BY <3>1, <3>2, MarkedElsewhere
  <2>9. ASSUME NEW p \in Process, MarkDeleted(p) PROVE MarkedInv'
    <3> HIDE DEF FilesOK, ObjectsOK, HolderInv
    <3>1. pc'[p] \in {"run", "count"} /\ \A q \in Process \ {p} : pc'[q] = "run"
      BY <2>9, DeleteFrame DEF Marking
    <3> QED
      BY <3>1, MarkedElsewhere
  <2>10. ASSUME NEW p \in Process, CountDeleted(p) PROVE MarkedInv'
    <3> HIDE DEF FilesOK, ObjectsOK, HolderInv
    <3>1. Goto(p, "deletes") /\ pc[p] # "run"
      BY <2>10 DEF CountDeleted
    <3>2. pc'[p] = "deletes" /\ \A q \in Process \ {p} : pc'[q] = "run"
      BY <3>1, <1>3, MoveFrame
    <3> QED
      BY <3>2, MarkedElsewhere
  <2>11. ASSUME NEW p \in Process, CommitIndex(p) PROVE MarkedInv'
    <3> HIDE DEF FilesOK, ObjectsOK, HolderInv
    <3>1. Goto(p, "entries") /\ pc[p] # "run"
      BY <2>11 DEF CommitIndex
    <3>2. pc'[p] = "entries" /\ \A q \in Process \ {p} : pc'[q] = "run"
      BY <3>1, <1>3, MoveFrame
    <3> QED
      BY <3>2, MarkedElsewhere
  <2>12. ASSUME NEW p \in Process, ShowEntry(p) PROVE MarkedInv'
    <3> HIDE DEF FilesOK, ObjectsOK, HolderInv
    <3>1. pc'[p] \in {"run", "entries"} /\ \A q \in Process \ {p} : pc'[q] = "run"
      BY <2>12, ShowFrame DEF Showing
    <3> QED
      BY <3>1, MarkedElsewhere
  <2>13. ASSUME NEW p \in Process, IndexLast(p) PROVE MarkedInv'
    <3> HIDE DEF FilesOK, ObjectsOK, HolderInv
    <3>1. Goto(p, "index_used") /\ pc[p] # "run"
      BY <2>13 DEF IndexLast
    <3>2. pc'[p] = "index_used" /\ \A q \in Process \ {p} : pc'[q] = "run"
      BY <3>1, <1>3, MoveFrame
    <3> QED
      BY <3>2, MarkedElsewhere
  <2>14. ASSUME NEW p \in Process, IndexUsed(p) PROVE MarkedInv'
    <3> HIDE DEF FilesOK, ObjectsOK, HolderInv
    <3>1. Goto(p, "index_offset") /\ pc[p] # "run"
      BY <2>14 DEF IndexUsed
    <3>2. pc'[p] = "index_offset" /\ \A q \in Process \ {p} : pc'[q] = "run"
      BY <3>1, <1>3, MoveFrame
    <3> QED
      BY <3>2, MarkedElsewhere
  <2>15. ASSUME NEW p \in Process, IndexOffset(p) PROVE MarkedInv'
    <3> HIDE DEF FilesOK, ObjectsOK, HolderInv
    <3>1. Goto(p, "index_deletes") /\ pc[p] # "run" /\ cursor' = 1 /\ UNCHANGED deletes
      BY <2>15 DEF IndexOffset
    <3>2. pc'[p] = "index_deletes" /\ \A q \in Process \ {p} : pc'[q] = "run"
      BY <3>1, <1>3, MoveFrame
    <3>3. \A k \in DOMAIN deletes[p] : ~(k < 1)
      BY <1>3 DEF ObjectsOK
    <3> QED
      BY <3>1, <3>2, <3>3 DEF MarkedInv, MarkedOf
  <2>16. ASSUME NEW p \in Process, IndexDelete(p) PROVE MarkedInv'
    <3> HIDE DEF FilesOK, ObjectsOK, HolderInv
    <3> DEFINE i == deletes[p][cursor]
    <3>1. /\ UNCHANGED <<pc, deletes>> /\ cursor' = cursor + 1 /\ pc[p] = "index_deletes"
          /\ entries' = [entries EXCEPT ![i].state = "DELETED"]
      BY <2>16 DEF IndexDelete
    <3>2. \A s \in Slot : entries'[s].state = IF s = i THEN "DELETED" ELSE entries[s].state
      BY <3>1, <1>3 DEF FilesOK
    <3>3. \A q \in Process \ {p} : pc[q] = "run"
      BY <3>1, <1>3, OnlyHolder
    <3>4. ASSUME NEW k \in DOMAIN deletes[p], k < cursor + 1
          PROVE  entries'[deletes[p][k]].state = "DELETED"
      <4>1. deletes[p][k] \in Slot /\ (k = cursor \/ k < cursor)
        BY <3>4, <1>3 DEF ObjectsOK
      <4> QED
        BY <4>1, <3>1, <3>2 DEF MarkedInv, MarkedOf
    <3> QED
      BY <3>1, <3>3, <3>4 DEF MarkedInv, MarkedOf
  <2>17. ASSUME NEW p \in Process, EndIndex(p) PROVE MarkedInv'
    <3> HIDE DEF FilesOK, ObjectsOK, HolderInv
    <3>1. Goto(p, "records") /\ pc[p] # "run"
      BY <2>17 DEF EndIndex
    <3>2. pc'[p] = "records" /\ \A q \in Process \ {p} : pc'[q] = "run"
      BY <3>1, <1>3, MoveFrame
    <3> QED
      BY <3>2, MarkedElsewhere
  <2>18. ASSUME NEW p \in Process, MarkReadable(p) PROVE MarkedInv'
    <3> HIDE DEF FilesOK, ObjectsOK, HolderInv
    <3>1. UNCHANGED pc /\ pc[p] = "records"
      BY <2>18 DEF MarkReadable
    <3>2. \A q \in Process \ {p} : pc[q] = "run"
      BY <3>1, <1>3, OnlyHolder
    <3> QED
      BY <3>1, <3>2, MarkedElsewhere
  <2>19. ASSUME NEW p \in Process, PublishLast(p) PROVE MarkedInv'
    <3> HIDE DEF FilesOK, ObjectsOK, HolderInv
    <3>1. Goto(p, "used") /\ pc[p] # "run"
      BY <2>19 DEF PublishLast
    <3>2. pc'[p] = "used" /\ \A q \in Process \ {p} : pc'[q] = "run"
      BY <3>1, <1>3, MoveFrame
    <3> QED
      BY <3>2, MarkedElsewhere
  <2>20. ASSUME NEW p \in Process, PublishUsed(p) PROVE MarkedInv'
    <3> HIDE DEF FilesOK, ObjectsOK, HolderInv
    <3>1. Goto(p, "offset") /\ pc[p] # "run"
      BY <2>20 DEF PublishUsed
    <3>2. pc'[p] = "offset" /\ \A q \in Process \ {p} : pc'[q] = "run"
      BY <3>1, <1>3, MoveFrame
    <3> QED
      BY <3>2, MarkedElsewhere
  <2>21. ASSUME NEW p \in Process, PublishOffset(p) PROVE MarkedInv'
    <3> HIDE DEF FilesOK, ObjectsOK, HolderInv
    <3>1. Goto(p, "counts") /\ pc[p] # "run"
      BY <2>21 DEF PublishOffset
    <3>2. pc'[p] = "counts" /\ \A q \in Process \ {p} : pc'[q] = "run"
      BY <3>1, <1>3, MoveFrame
    <3> QED
      BY <3>2, MarkedElsewhere
  <2>22. ASSUME NEW p \in Process, PublishCounts(p) PROVE MarkedInv'
    <3> HIDE DEF FilesOK, ObjectsOK, HolderInv
    <3>1. Goto(p, "end") /\ pc[p] # "run"
      BY <2>22 DEF PublishCounts
    <3>2. pc'[p] = "end" /\ \A q \in Process \ {p} : pc'[q] = "run"
      BY <3>1, <1>3, MoveFrame
    <3> QED
      BY <3>2, MarkedElsewhere
  <2>23. ASSUME NEW p \in Process, EndCommit(p) PROVE MarkedInv'
    <3> HIDE DEF FilesOK, ObjectsOK, HolderInv
    <3>1. Goto(p, "run") /\ pc[p] # "run"
      BY <2>23 DEF EndCommit
    <3>2. pc'[p] = "run" /\ \A q \in Process \ {p} : pc'[q] = "run"
      BY <3>1, <1>3, MoveFrame
    <3> QED
      BY <3>2, MarkedElsewhere
  <2>24. ASSUME NEW p \in Process, rollback(p) PROVE MarkedInv'
    <3> HIDE DEF FilesOK, ObjectsOK, HolderInv
    <3>1. pc[p] = "run" /\ UNCHANGED pc
      BY <2>24 DEF rollback, Ready
    <3>2. UNCHANGED <<entries, cursor>>
      BY <2>24 DEF rollback, Ready
    <3>3. \A q \in Process \ {p} : deletes'[q] = deletes[q]
      BY <2>24, <1>3 DEF rollback, Ready, ObjectsOK
    <3> QED
      BY <3>1, <3>2, <3>3 DEF MarkedInv, MarkedOf
  <2>25. ASSUME NEW p \in Process, Crash(p) PROVE MarkedInv'
    <3> HIDE DEF FilesOK, ObjectsOK, HolderInv
    <3>1. pc'[p] = "run" /\ \A q \in Process \ {p} : pc'[q] = pc[q] /\ deletes'[q] = deletes[q]
      BY <2>25, <1>3 DEF Crash, Forget, Goto, ObjectsOK
    <3>2. UNCHANGED entries /\ (pc[p] = "run" => UNCHANGED cursor)
      BY <2>25 DEF Crash
    <3>3. pc[p] # "run" => \A q \in Process \ {p} : pc[q] = "run"
      BY <1>3, OnlyHolder
    <3> QED
      BY <3>1, <3>2, <3>3 DEF MarkedInv, MarkedOf
  <2>26. ASSUME NEW p \in Process, NEW i \in Slot, delete_record(p, i) PROVE MarkedInv'
    <3> HIDE DEF FilesOK, ObjectsOK, HolderInv
    <3>1. pc[p] = "run" /\ UNCHANGED pc
      BY <2>26 DEF delete_record, Ready
    <3>2. UNCHANGED <<entries, cursor>>
      BY <2>26 DEF delete_record, Ready
    <3>3. \A q \in Process \ {p} : deletes'[q] = deletes[q]
      BY <2>26, <1>3 DEF delete_record, Ready, ObjectsOK
    <3> QED
      BY <3>1, <3>2, <3>3 DEF MarkedInv, MarkedOf
  <2>27. CASE Expire
    BY <2>27, MarkedElsewhere DEF Expire
  <2>28. CASE UNCHANGED vars
    BY <2>28, MarkedElsewhere DEF vars
  <2> QED
    BY <2>1, <2>2, <2>3, <2>4, <2>5, <2>6, <2>7, <2>8, <2>9, <2>10, <2>11, <2>12, <2>13,
       <2>14, <2>15, <2>16, <2>17, <2>18, <2>19, <2>20, <2>21, <2>22, <2>23, <2>24,
       <2>25, <2>26, <2>27, <2>28
    DEF Next, CommitStep

----------------------------------------------------------------------------
(* The log is in the entries: who does not delete one leaves it as it is.    *)
LEMMA RecordsSame ==
  ASSUME header'.last_index = header.last_index, header.last_index \in Slot,
         \A s \in Slot : InBlock(s) =>
           (entries'[s].state = "DELETED" <=> entries[s].state = "DELETED")
  PROVE  logRecords' = logRecords
<1>1. \A s \in 1 .. header.last_index - 1 : s \in Slot /\ InBlock(s)
  BY BoundAssumption DEF Slot, InBlock
<1> QED
  BY <1>1 DEF logRecords

Drops(p) == logRequested' = [logRequested EXCEPT ![p] = {}]
Keeps == logRecords' = logRecords
Unchanged == logWriter' = logWriter /\ logAppended' = logAppended

LEMMA WriterOf ==
  ASSUME NEW p \in Process
  PROVE  logWriter = p <=> holder = p /\ Preparing(p)
BY ProcessAssumption DEF logWriter, Preparing

LEMMA NoWriter ==
  /\ logWriter \in Process \cup {NoProcess} /\ NoProcess \notin Process
  /\ logWriter = NoProcess <=> \A p \in Process : ~(holder = p /\ Preparing(p))
BY ProcessAssumption DEF logWriter, Preparing

LEMMA WriterSame ==
  ASSUME \A p \in Process : holder' = p /\ Preparing(p)' <=> holder = p /\ Preparing(p)
  PROVE  logWriter' = logWriter
BY ProcessAssumption DEF logWriter, Preparing

LEMMA AppendedSame ==
  ASSUME logWriter' = logWriter, header'.last_index = header.last_index,
         logWriter # NoProcess =>
           rollback_info'[logWriter].last_index = rollback_info[logWriter].last_index
  PROVE  logAppended' = logAppended
BY DEF logAppended

LEMMA RequestsSame ==
  ASSUME logWriter' = logWriter, logWriter # NoProcess => deletes'[logWriter] = deletes[logWriter]
  PROVE  logRequested' = logRequested
BY ProcessAssumption DEF logRequested

LEMMA NoRequests ==
  /\ \A p \in Process : p # logWriter => logRequested[p] = {}
  /\ \A p \in Process : deletes[p] = <<>> => logRequested[p] = {}
  /\ logRequested = [p \in Process |-> logRequested[p]]
BY DEF logRequested

LEMMA RequestsGone ==
  ASSUME NEW p \in Process, logWriter \in {p, NoProcess}, logRequested'[p] = {},
         logWriter' \in {p, NoProcess}
  PROVE  Drops(p)
<1>1. \A q \in Process \ {p} : logRequested[q] = {}
  BY NoRequests, NoWriter
<1>2. \A q \in Process \ {p} : logRequested'[q] = {}
  BY NoWriter DEF logRequested
<1>3. logRequested' = [q \in Process |-> logRequested'[q]]
  BY DEF logRequested
<1>4. logRequested = [q \in Process |-> logRequested[q]]
  BY NoRequests
<1> HIDE DEF logRequested
<1>5. \A q \in Process : logRequested'[q] = [logRequested EXCEPT ![p] = {}][q]
  BY <1>1, <1>2, <1>4
<1> QED
  BY <1>3, <1>4, <1>5 DEF Drops

LEMMA NoneRequested ==
  ASSUME logWriter = NoProcess PROVE logRequested = [p \in Process |-> {}]
BY NoWriter DEF logRequested

(* What a step of the log looks like from the two files.                     *)
LEMMA BothUnbroken == ASSUME ~Broken, ~Broken' PROVE Broken' = Broken
BY DEF Broken

LEMMA LogStutter ==
  ASSUME ~Broken, ~Broken', Keeps, Unchanged, logRequested' = logRequested
  PROVE  [Log!Next]_(Log!vars)
BY BothUnbroken DEF Log!vars, Keeps, Unchanged

LEMMA LogBegin ==
  ASSUME ~Broken, ~Broken', NEW p \in Process, Keeps, logWriter \in {p, NoProcess},
         logWriter' = p, logAppended' = 0, Drops(p)
  PROVE  [Log!Next]_(Log!vars)
BY BothUnbroken DEF Log!Next, Log!Begin, Keeps, Drops

LEMMA LogWrite ==
  ASSUME ~Broken, ~Broken', NEW p \in Process, Keeps, logWriter = p, logWriter' = p,
         logAppended' = logAppended + 1, logRequested' = logRequested
  PROVE  [Log!Next]_(Log!vars)
BY BothUnbroken DEF Log!Next, Log!Write, Keeps

LEMMA LogRequest ==
  ASSUME ~Broken, ~Broken', NEW p \in Process, NEW i \in 1 .. Len(logRecords) + 1, Keeps,
         logWriter = p, Unchanged, logRequested' = [logRequested EXCEPT ![p] = @ \cup {i}]
  PROVE  [Log!Next]_(Log!vars)
BY BothUnbroken DEF Log!Next, Log!Request, Keeps, Unchanged

LEMMA LogDelete ==
  ASSUME ~Broken, ~Broken', NEW p \in Process, NEW i \in DOMAIN logRecords,
         i \in logRequested[p], logRecords' = [logRecords EXCEPT ![i] = "deleted"],
         logWriter = p, Unchanged, logRequested' = logRequested
  PROVE  [Log!Next]_(Log!vars)
BY BothUnbroken DEF Log!Next, Log!Delete, Unchanged

LEMMA LogDeleted ==
  ASSUME ~Broken, ~Broken', NEW p \in Process, Keeps, logWriter = p, Unchanged, Drops(p),
         \A i \in logRequested[p] \cap DOMAIN logRecords : logRecords[i] = "deleted"
  PROVE  [Log!Next]_(Log!vars)
BY BothUnbroken DEF Log!Next, Log!Deleted, Keeps, Unchanged, Drops

LEMMA LogPublish ==
  ASSUME ~Broken, ~Broken', NEW p \in Process, logWriter = p, logRequested[p] = {},
         logRecords' = logRecords \o [i \in 1 .. logAppended |-> "live"],
         logWriter' = NoProcess, logAppended' = 0, logRequested' = logRequested
  PROVE  [Log!Next]_(Log!vars)
BY BothUnbroken DEF Log!Next, Log!Publish

LEMMA LogAbort ==
  ASSUME ~Broken, ~Broken', NEW p \in Process, Keeps, logWriter = p, logWriter' = NoProcess
  PROVE  [Log!Next]_(Log!vars)
<1>1. logAppended' = 0
  BY DEF logAppended
<1>2. Drops(p)
  BY RequestsGone, NoWriter DEF logRequested
<1> QED
  BY <1>1, <1>2, BothUnbroken DEF Log!Next, Log!Abort, Keeps, Drops

LEMMA LogExpire ==
  ASSUME ~Broken, ~Broken', Keeps, logWriter' = NoProcess
  PROVE  [Log!Next]_(Log!vars)
<1>1. logAppended' = 0
  BY DEF logAppended
<1>2. logRequested' = [p \in Process |-> {}]
  BY NoWriter DEF logRequested
<1> QED
  BY <1>1, <1>2, BothUnbroken DEF Log!Next, Log!Expire, Keeps

LEMMA LogBreak ==
  ASSUME ~Broken, Broken', Keeps PROVE [Log!Next]_(Log!vars)
BY DEF Log!Next, Log!Break, Keeps

LEMMA LogBroken == ASSUME Broken, Broken' PROVE [Log!Next]_(Log!vars)
BY DEF Log!Next

(* A step that leaves the lock, the transaction and the log alone, and moves *)
(* a commit only within its part, is none of the log's.                      *)
LEMMA LogQuiet ==
  ASSUME ~Broken, ~Broken', Keeps, holder' = holder, header'.last_index = header.last_index,
         \A p \in Process : holder = p =>
           /\ Preparing(p)' <=> Preparing(p)
           /\ Preparing(p) => /\ rollback_info'[p].last_index = rollback_info[p].last_index
                              /\ deletes'[p] = deletes[p]
  PROVE  [Log!Next]_(Log!vars)
<1>1. logWriter' = logWriter
  BY WriterSame
<1>2. logWriter # NoProcess => logWriter \in Process /\ holder = logWriter /\ Preparing(logWriter)
  BY NoWriter, WriterOf
<1> QED
  BY <1>1, <1>2, AppendedSame, RequestsSame, LogStutter DEF Unchanged

LEMMA SeqOf ==
  ASSUME NEW S, NEW n \in Nat, NEW f \in [1 .. n -> S]
  PROVE  f \in Seq(S) /\ Len(f) = n /\ DOMAIN f = 1 .. n
<1>1. f \in Seq(S)
  BY SeqDef
<1>2. DOMAIN f = 1 .. n /\ DOMAIN f = 1 .. Len(f) /\ Len(f) \in Nat
  BY <1>1, LenProperties
<1> QED
  BY <1>1, <1>2

LEMMA LogIsSeq == ASSUME header.last_index \in Slot
                  PROVE  /\ Len(logRecords) = header.last_index - 1
                         /\ DOMAIN logRecords = 1 .. header.last_index - 1
<1> DEFINE n == header.last_index - 1
<1>1. n \in Nat
  BY BoundAssumption DEF Slot
<1> HIDE DEF n
<1>2. logRecords \in [1 .. n -> {"live", "deleted"}]
  BY DEF logRecords, n
<1> QED
  BY <1>1, <1>2, SeqOf DEF n

(* The commit appends what its transaction wrote, all of it live.            *)
LEMMA RecordsPublished ==
  ASSUME header.last_index \in Slot, NEW n \in Nat, header'.last_index = header.last_index + n,
         entries' = entries,
         \A s \in header.last_index .. header.last_index + n - 1 : entries[s].state = "READABLE"
  PROVE  logRecords' = logRecords \o [i \in 1 .. n |-> "live"]
<1> DEFINE S == {"live", "deleted"}  new == [i \in 1 .. n |-> "live"]  m == header.last_index - 1
<1>1. m \in Nat /\ header.last_index \in Nat
  BY BoundAssumption DEF Slot
<1>2. header'.last_index - 1 = m + n
  BY <1>1
<1>3. logRecords' = [i \in 1 .. m + n |-> IF entries[i].state = "DELETED" THEN "deleted" ELSE "live"]
  <2> HIDE DEF m
  <2> QED
    BY <1>2 DEF logRecords
<1>4. ASSUME NEW i \in 1 .. m + n
      PROVE  logRecords'[i] = IF i <= m THEN logRecords[i] ELSE "live"
  <2>2. CASE i <= m
    BY <1>1, <1>3, <2>2 DEF logRecords
  <2>3. CASE ~(i <= m)
    <3>1. i \in header.last_index .. header.last_index + n - 1
      BY <1>1, <2>3
    <3>2. entries[i].state = "READABLE"
      BY <3>1
    <3> HIDE DEF m
    <3> QED
      BY <1>3, <2>3, <3>2
  <2> QED
    BY <2>2, <2>3
<1>5. new \in [1 .. n -> S] /\ \A i \in 1 .. n : new[i] = "live"
  OBVIOUS
<1>6. logRecords \in [1 .. m -> S]
  BY DEF logRecords
<1> HIDE DEF new, m
<1>7. logRecords' \in [1 .. m + n -> S]
  BY <1>3
<1> HIDE DEF S
<1>8. /\ logRecords \in Seq(S) /\ Len(logRecords) = m
      /\ logRecords' \in Seq(S) /\ Len(logRecords') = m + n
      /\ new \in Seq(S) /\ Len(new) = n
  <2>1. m + n \in Nat
    BY <1>1
  <2> QED
    BY <2>1, <1>1, <1>5, <1>6, <1>7, SeqOf
<1>9. /\ logRecords \o new \in Seq(S) /\ Len(logRecords \o new) = m + n
      /\ \A i \in 1 .. m + n :
           (logRecords \o new)[i] = IF i <= m THEN logRecords[i] ELSE new[i - m]
  BY <1>8, ConcatProperties
<1>10. \A i \in 1 .. m + n : (logRecords \o new)[i] = logRecords'[i]
  <2> SUFFICES ASSUME NEW i \in 1 .. m + n PROVE (logRecords \o new)[i] = logRecords'[i]
    OBVIOUS
  <2>1. CASE i <= m
    BY <1>4, <1>9, <2>1
  <2>2. CASE ~(i <= m)
    <3>1. i - m \in 1 .. n
      BY <1>1, <2>2
    <3> QED
      BY <1>4, <1>5, <1>9, <2>2, <3>1
  <2> QED
    BY <2>1, <2>2
<1>11. logRecords \o new = logRecords'
  BY <1>8, <1>9, <1>10, SeqEqual
<1> QED
  BY <1>11 DEF new

----------------------------------------------------------------------------
(* Every step of the two files, as long as nothing is broken.                *)
LEMMA UnbrokenFiles ==
  ASSUME AgreeIInv, ~Broken
  PROVE  /\ TypeOK /\ FilesOK /\ ObjectsOK /\ HolderInv /\ OpenInv
         /\ BlockOK /\ PlaceInv /\ OwnInv /\ CursorInv /\ FrontInv /\ AgreeOK
         /\ "own" \notin faults /\ Safe
<1>1. "own" \notin faults /\ Safe /\ WholeBlock
  BY DEF Broken, Safe, WholeBlock
<1> QED
  BY <1>1 DEF AgreeIInv, BlockInvs, BlockInv, AgreeInv, TypeOK

LEMMA StepLog ==
  ASSUME AgreeIInv, MarkedInv, ~Broken, ~Broken', [Next]_vars
  PROVE  [Log!Next]_(Log!vars)
<1>3. FilesOK /\ ObjectsOK /\ HolderInv /\ TypeOK /\ OpenInv
  BY UnbrokenFiles
<1>4. BlockOK /\ PlaceInv /\ OwnInv /\ FrontInv /\ AgreeOK /\ CursorInv
  BY UnbrokenFiles
<1>5. "own" \notin faults /\ Safe
  BY UnbrokenFiles
<1>6. header.last_index \in Slot
      /\ header.last_index \in Nat /\ cursor \in Nat /\ Slot \subseteq Nat
      /\ \A p \in Process : rollback_info[p].last_index \in Nat
  BY <1>3, Ranges DEF FilesOK, ObjectsOK, RollbackInfo
<1> USE ProcessAssumption DEF block, index, lock, local, commit
<1> QED
  <2>1. ASSUME NEW p \in Process, Open(p) PROVE [Log!Next]_(Log!vars)
    <3> HIDE DEF FilesOK, ObjectsOK, HolderInv
    <3>1. entries' = entries /\ header'.last_index = header.last_index
      BY <2>1, <1>3 DEF Open, FilesOK
    <3>2. Keeps
      BY <3>1, <1>6, RecordsSame DEF Keeps
    <3>3. UNCHANGED <<holder, pc, rollback_info, deletes>>
      BY <2>1 DEF Open
    <3> QED
      BY <3>1, <3>2, <3>3, LogQuiet DEF Preparing
  <2>2. ASSUME NEW p \in Process, Close(p) PROVE [Log!Next]_(Log!vars)
    <3> HIDE DEF FilesOK, ObjectsOK, HolderInv
    <3>1. entries' = entries /\ header'.last_index = header.last_index
      BY <2>2, <1>3 DEF Close, Forget, FilesOK
    <3>2. Keeps
      BY <3>1, <1>6, RecordsSame DEF Keeps
    <3>3. pc[p] = "run" /\ UNCHANGED pc
      BY <2>2 DEF Close, Ready
    <3>4. CASE holder = p
      <4>1. logWriter = p
        BY <3>3, <3>4, WriterOf DEF Preparing
      <4>2. logWriter' = NoProcess
        BY <2>2, <3>4 DEF Close, logWriter
      <4> QED
        BY <3>2, <4>1, <4>2, LogAbort
    <3>5. CASE holder # p
      <4>1. holder' = holder
        BY <2>2, <3>5 DEF Close
      <4>2. \A q \in Process \ {p} : rollback_info'[q] = rollback_info[q] /\ deletes'[q] = deletes[q]
        BY <2>2, <1>3 DEF Close, Forget, ObjectsOK
      <4> QED
        BY <3>1, <3>2, <3>3, <3>5, <4>1, <4>2, LogQuiet DEF Preparing
    <3> QED
      BY <3>4, <3>5
  <2>3. ASSUME NEW p \in Process, finish(p) PROVE [Log!Next]_(Log!vars)
    <3> HIDE DEF FilesOK, ObjectsOK, HolderInv
    <3>1. entries' = entries /\ header'.last_index = header.last_index
      BY <2>3, <1>3 DEF finish, SetWriteState, FilesOK
    <3>2. Keeps
      BY <3>1, <1>6, RecordsSame DEF Keeps
    <3>3. UNCHANGED <<holder, pc, rollback_info, deletes>>
      BY <2>3 DEF finish, SetWriteState
    <3> QED
      BY <3>1, <3>2, <3>3, LogQuiet DEF Preparing
  <2>4. ASSUME NEW p \in Process, archive(p) PROVE [Log!Next]_(Log!vars)
    <3> HIDE DEF FilesOK, ObjectsOK, HolderInv
    <3>1. entries' = entries /\ header'.last_index = header.last_index
      BY <2>4, <1>3 DEF archive, SetWriteState, FilesOK
    <3>2. Keeps
      BY <3>1, <1>6, RecordsSame DEF Keeps
    <3>3. UNCHANGED <<holder, pc, rollback_info, deletes>>
      BY <2>4 DEF archive, SetWriteState
    <3> QED
      BY <3>1, <3>2, <3>3, LogQuiet DEF Preparing
  <2>5. ASSUME NEW p \in Process, Start(p) PROVE [Log!Next]_(Log!vars)
    <3> HIDE DEF FilesOK, ObjectsOK, HolderInv
    <3>1. /\ UNCHANGED <<header, entries, pc>> /\ pc[p] = "run"
          /\ holder' # holder => holder = NoProcess /\ holder' = p
          /\ rollback_info'[p].last_index = header.last_index /\ deletes'[p] = <<>>
          /\ \A q \in Process \ {p} : rollback_info'[q] = rollback_info[q] /\ deletes'[q] = deletes[q]
      BY <2>5, <1>3, StartFrame DEF Started
    <3>2. Keeps
      BY <3>1, <1>6, RecordsSame DEF Keeps
    <3>3. CASE holder' = p
      <4>1. logWriter' = p /\ logWriter \in {p, NoProcess}
        BY <3>1, <3>3 DEF logWriter
      <4>2. logAppended' = 0
        BY <4>1, <3>1, <1>6 DEF logAppended
      <4>3. Drops(p)
        <5>1. logRequested'[p] = {}
          BY <3>1 DEF logRequested
        <5> QED
          BY <4>1, <5>1, RequestsGone
      <4> QED
        BY <3>2, <4>1, <4>2, <4>3, LogBegin
    <3>4. CASE holder' # p
      <4>1. holder' = holder
        BY <3>1, <3>4
      <4> QED
        BY <3>1, <3>2, <3>4, <4>1, LogQuiet DEF Preparing
    <3> QED
      BY <3>3, <3>4
  <2>6. ASSUME NEW p \in Process, Write(p) PROVE [Log!Next]_(Log!vars)
    <3> HIDE DEF FilesOK, ObjectsOK, HolderInv
    <3> DEFINE n == rollback_info[p].last_index
    <3>1. /\ UNCHANGED <<header, holder, pc, deletes>> /\ holder = p /\ pc[p] = "run"
          /\ rollback_info'[p].last_index = n + 1
          /\ \A q \in Process \ {p} : pc[q] = "run"
      BY <2>6, <1>3, WriteFrame DEF Write, Wrote
    <3>2. \A s \in Slot \ {index_info[p].write_offset} : entries'[s] = entries[s]
      BY <2>6, <1>3, EntryFrame DEF Entered
    <3>3. index_info[p].write_offset = n
      <4>1. BlockInv
        BY DEF AgreeIInv, BlockInvs
      <4> QED
        BY <2>6, <3>1, <4>1, <1>3, <1>4, <1>5, EntryInPlace
    <3>4. header.last_index <= n /\ n \in Nat
      BY <3>1, <1>4, <1>6 DEF BlockOK, Preparing
    <3>5. Keeps
      <4>1. \A s \in Slot : InBlock(s) => s # n
        <5> HIDE DEF n
        <5> QED
          BY <3>4, <1>6 DEF InBlock
      <4>2. \A s \in Slot : InBlock(s) => entries'[s].state = entries[s].state
        BY <3>2, <3>3, <4>1
      <4> QED
        BY <3>1, <4>2, <1>6, RecordsSame DEF Keeps
    <3>6. logWriter = p /\ logWriter' = p
      BY <3>1 DEF logWriter
    <3>7. logAppended' = logAppended + 1
      <4>1. logAppended = n - header.last_index
        BY <3>6 DEF logAppended
      <4>2. logAppended' = rollback_info'[p].last_index - header.last_index
        BY <3>1, <3>6 DEF logAppended
      <4> HIDE DEF n
      <4> QED
        BY <4>1, <4>2, <3>1, <3>4, <1>6
    <3>8. logRequested' = logRequested
      BY <3>1, <3>6, RequestsSame
    <3> QED
      BY <3>5, <3>6, <3>7, <3>8, LogWrite
  <2>7. ASSUME NEW p \in Process, WriteUnindexed(p) PROVE [Log!Next]_(Log!vars)
    BY <2>7 DEF WriteUnindexed, Faulty, Broken
  <2>8. ASSUME NEW p \in Process, Commit(p) PROVE [Log!Next]_(Log!vars)
    <3> HIDE DEF FilesOK, ObjectsOK, HolderInv
    <3>1. entries' = entries /\ header'.last_index = header.last_index
      BY <2>8, <1>3 DEF Commit, FilesOK
    <3>2. Keeps
      BY <3>1, <1>6, RecordsSame DEF Keeps
    <3>3. /\ UNCHANGED <<holder, rollback_info, deletes>> /\ holder = p /\ pc[p] = "run"
          /\ pc'[p] = "deletes"
      BY <2>8, <1>3 DEF Commit, Ready, in_transaction, Goto, ObjectsOK
    <3> QED
      BY <3>1, <3>2, <3>3, LogQuiet DEF Preparing
  <2>9. ASSUME NEW p \in Process, MarkDeleted(p) PROVE [Log!Next]_(Log!vars)
    <3> HIDE DEF FilesOK, ObjectsOK, HolderInv
    <3>1. /\ UNCHANGED <<header, entries, holder, rollback_info, deletes>> /\ holder = p
          /\ pc[p] = "deletes" /\ pc'[p] \in {"run", "count"}
      BY <2>9, <1>3, DeleteFrame DEF Marking
    <3>2. Keeps
      BY <3>1, <1>6, RecordsSame DEF Keeps
    <3> QED
      BY <3>1, <3>2, LogQuiet DEF Preparing
  <2>10. ASSUME NEW p \in Process, CountDeleted(p) PROVE [Log!Next]_(Log!vars)
    <3> HIDE DEF FilesOK, ObjectsOK, HolderInv
    <3>1. entries' = entries /\ header'.last_index = header.last_index
      BY <2>10, <1>3 DEF CountDeleted, FilesOK
    <3>2. Keeps
      BY <3>1, <1>6, RecordsSame DEF Keeps
    <3>3. UNCHANGED <<holder, rollback_info, deletes>> /\ Goto(p, "deletes") /\ pc[p] # "run"
      BY <2>10 DEF CountDeleted
    <3>4. pc'[p] = "deletes" /\ holder = p
      BY <3>3, <1>3, MoveFrame
    <3>5. Preparing(p)' <=> Preparing(p)
      BY <2>10, <3>4 DEF CountDeleted, Preparing
    <3> QED
      BY <3>1, <3>2, <3>3, <3>4, <3>5, LogQuiet
  <2>11. ASSUME NEW p \in Process, CommitIndex(p) PROVE [Log!Next]_(Log!vars)
    <3> HIDE DEF FilesOK, ObjectsOK, HolderInv
    <3>1. entries' = entries /\ header'.last_index = header.last_index
      BY <2>11, <1>3 DEF CommitIndex, FilesOK
    <3>2. Keeps
      BY <3>1, <1>6, RecordsSame DEF Keeps
    <3>3. UNCHANGED <<holder, rollback_info, deletes>> /\ Goto(p, "entries") /\ pc[p] # "run"
      BY <2>11 DEF CommitIndex
    <3>4. pc'[p] = "entries" /\ holder = p
      BY <3>3, <1>3, MoveFrame
    <3>5. Preparing(p)' <=> Preparing(p)
      BY <2>11, <3>4 DEF CommitIndex, Preparing
    <3> QED
      BY <3>1, <3>2, <3>3, <3>4, <3>5, LogQuiet
  <2>12. ASSUME NEW p \in Process, ShowEntry(p) PROVE [Log!Next]_(Log!vars)
    <3> HIDE DEF FilesOK, ObjectsOK, HolderInv
    <3>1. /\ UNCHANGED <<header, holder, rollback_info, deletes>> /\ holder = p
          /\ pc[p] = "entries" /\ pc'[p] \in {"run", "entries"}
          /\ entries' = entries \/ \A s \in Slot : entries'[s].state =
               IF s = cursor THEN "READABLE" ELSE entries[s].state
      BY <2>12, <1>3, ShowFrame DEF Showing
    <3>2. entries[cursor].state = "USED"
      BY <2>12, <1>3, <1>4, EntryIsUsed
    <3>3. Keeps
      BY <3>1, <3>2, <1>6, RecordsSame DEF Keeps
    <3> QED
      BY <3>1, <3>3, LogQuiet DEF Preparing
  <2>13. ASSUME NEW p \in Process, IndexLast(p) PROVE [Log!Next]_(Log!vars)
    <3> HIDE DEF FilesOK, ObjectsOK, HolderInv
    <3>1. entries' = entries /\ header'.last_index = header.last_index
      BY <2>13, <1>3 DEF IndexLast, FilesOK
    <3>2. Keeps
      BY <3>1, <1>6, RecordsSame DEF Keeps
    <3>3. UNCHANGED <<holder, rollback_info, deletes>> /\ Goto(p, "index_used") /\ pc[p] # "run"
      BY <2>13 DEF IndexLast
    <3>4. pc'[p] = "index_used" /\ holder = p
      BY <3>3, <1>3, MoveFrame
    <3>5. Preparing(p)' <=> Preparing(p)
      BY <2>13, <3>4 DEF IndexLast, Preparing
    <3> QED
      BY <3>1, <3>2, <3>3, <3>4, <3>5, LogQuiet
  <2>14. ASSUME NEW p \in Process, IndexUsed(p) PROVE [Log!Next]_(Log!vars)
    <3> HIDE DEF FilesOK, ObjectsOK, HolderInv
    <3>1. entries' = entries /\ header'.last_index = header.last_index
      BY <2>14, <1>3 DEF IndexUsed, FilesOK
    <3>2. Keeps
      BY <3>1, <1>6, RecordsSame DEF Keeps
    <3>3. UNCHANGED <<holder, rollback_info, deletes>> /\ Goto(p, "index_offset") /\ pc[p] # "run"
      BY <2>14 DEF IndexUsed
    <3>4. pc'[p] = "index_offset" /\ holder = p
      BY <3>3, <1>3, MoveFrame
    <3>5. Preparing(p)' <=> Preparing(p)
      BY <2>14, <3>4 DEF IndexUsed, Preparing
    <3> QED
      BY <3>1, <3>2, <3>3, <3>4, <3>5, LogQuiet
  <2>15. ASSUME NEW p \in Process, IndexOffset(p) PROVE [Log!Next]_(Log!vars)
    <3> HIDE DEF FilesOK, ObjectsOK, HolderInv
    <3>1. entries' = entries /\ header'.last_index = header.last_index
      BY <2>15, <1>3 DEF IndexOffset, FilesOK
    <3>2. Keeps
      BY <3>1, <1>6, RecordsSame DEF Keeps
    <3>3. UNCHANGED <<holder, rollback_info, deletes>> /\ Goto(p, "index_deletes") /\ pc[p] # "run"
      BY <2>15 DEF IndexOffset
    <3>4. pc'[p] = "index_deletes" /\ holder = p
      BY <3>3, <1>3, MoveFrame
    <3>5. Preparing(p)' <=> Preparing(p)
      BY <2>15, <3>4 DEF IndexOffset, Preparing
    <3> QED
      BY <3>1, <3>2, <3>3, <3>4, <3>5, LogQuiet
  <2>16. ASSUME NEW p \in Process, IndexDelete(p) PROVE [Log!Next]_(Log!vars)
    <3> HIDE DEF FilesOK, ObjectsOK, HolderInv
    <3> DEFINE i == deletes[p][cursor]
    <3>1. /\ UNCHANGED <<header, holder, pc, deletes, rollback_info>> /\ pc[p] = "index_deletes"
          /\ cursor <= Len(deletes[p]) /\ entries' = [entries EXCEPT ![i].state = "DELETED"]
      BY <2>16 DEF IndexDelete
    <3>2. holder = p
      BY <3>1, <1>3, OnlyHolder
    <3>3. logWriter = p /\ Unchanged /\ logRequested' = logRequested
      <4>1. logWriter = p /\ logWriter' = p
        BY <3>1, <3>2 DEF logWriter
      <4> QED
        BY <3>1, <4>1, AppendedSame, RequestsSame DEF Unchanged
    <3>4. cursor \in DOMAIN deletes[p] /\ i \in Slot
      <4>1. cursor >= 1 /\ deletes[p] \in Seq(Slot)
        BY <3>1, <1>3, <1>4 DEF CursorInv, ObjectsOK
      <4> QED
        BY <3>1, <4>1, <1>6
    <3>5. i < header.last_index
      BY <3>2, <3>4, <1>4, <1>5 DEF OwnInv
    <3>6. i \in DOMAIN logRecords
      BY <3>4, <3>5, <1>6, LogIsSeq, BoundAssumption DEF Slot
    <3>7. i \in logRequested[p]
      BY <3>3, <3>4 DEF logRequested
    <3>8. logRecords' = [logRecords EXCEPT ![i] = "deleted"]
      <4>1. \A s \in Slot : entries'[s].state = IF s = i THEN "DELETED" ELSE entries[s].state
        BY <3>1, <1>3 DEF FilesOK
      <4>2. \A s \in 1 .. header.last_index - 1 : s \in Slot
        BY <1>6, BoundAssumption DEF Slot
      <4> HIDE DEF i
      <4> QED
        BY <3>1, <4>1, <4>2 DEF logRecords
    <3> QED
      BY <3>3, <3>6, <3>7, <3>8, LogDelete
  <2>17. ASSUME NEW p \in Process, EndIndex(p) PROVE [Log!Next]_(Log!vars)
    <3> HIDE DEF FilesOK, ObjectsOK, HolderInv
    <3>1. entries' = entries /\ header'.last_index = header.last_index
      BY <2>17, <1>3 DEF EndIndex, FilesOK
    <3>2. Keeps
      BY <3>1, <1>6, RecordsSame DEF Keeps
    <3>3. /\ UNCHANGED <<holder, rollback_info>> /\ Goto(p, "records") /\ pc[p] = "index_deletes"
          /\ deletes' = [deletes EXCEPT ![p] = <<>>] /\ cursor > Len(deletes[p])
      BY <2>17 DEF EndIndex
    <3>4. pc'[p] = "records" /\ holder = p
      BY <3>3, <1>3, MoveFrame
    <3>5. logWriter = p /\ logWriter' = p
      BY <3>3, <3>4 DEF logWriter
    <3>6. Unchanged
      BY <3>1, <3>3, <3>5, AppendedSame DEF Unchanged
    <3>7. Drops(p)
      <4>1. deletes'[p] = <<>>
        BY <3>3, <1>3 DEF ObjectsOK
      <4>2. logRequested'[p] = {}
        BY <4>1 DEF logRequested
      <4> QED
        BY <3>5, <4>2, RequestsGone
    <3>8. ASSUME NEW i \in logRequested[p] \cap DOMAIN logRecords PROVE logRecords[i] = "deleted"
      <4>1. PICK k \in DOMAIN deletes[p] : i = deletes[p][k]
        BY <3>5, <3>8 DEF logRequested
      <4>2. k < cursor
        BY <3>3, <1>3, <1>6 DEF ObjectsOK
      <4>3. entries[i].state = "DELETED"
        BY <3>3, <4>1, <4>2 DEF MarkedInv, MarkedOf
      <4> QED
        BY <3>8, <4>3 DEF logRecords
    <3> QED
      BY <3>2, <3>5, <3>6, <3>7, <3>8, LogDeleted
  <2>18. ASSUME NEW p \in Process, MarkReadable(p) PROVE [Log!Next]_(Log!vars)
    <3> HIDE DEF FilesOK, ObjectsOK, HolderInv
    <3>1. entries' = entries /\ header'.last_index = header.last_index
      BY <2>18, <1>3 DEF MarkReadable, FilesOK
    <3>2. Keeps
      BY <3>1, <1>6, RecordsSame DEF Keeps
    <3>3. UNCHANGED <<holder, pc, rollback_info, deletes>>
      BY <2>18 DEF MarkReadable
    <3> QED
      BY <3>1, <3>2, <3>3, LogQuiet DEF Preparing
  <2>19. ASSUME NEW p \in Process, PublishLast(p) PROVE [Log!Next]_(Log!vars)
    <3> HIDE DEF FilesOK, ObjectsOK, HolderInv
    <3> DEFINE n == rollback_info[p].last_index - header.last_index
    <3>1. /\ UNCHANGED <<entries, holder, deletes, rollback_info>> /\ Goto(p, "used") /\ pc[p] = "records"
          /\ header'.last_index = rollback_info[p].last_index
      BY <2>19, <1>3 DEF PublishLast, FilesOK
    <3>2. pc'[p] = "used" /\ holder = p
      BY <3>1, <1>3, MoveFrame
    <3>3. n \in Nat /\ header'.last_index = header.last_index + n
      BY <3>1, <3>2, <1>4, <1>6 DEF BlockOK, Preparing
    <3>4. ASSUME NEW s \in header.last_index .. header.last_index + n - 1
          PROVE  entries[s].state = "READABLE"
      <4>1. rollback_info[p].last_index \in Index
        BY <1>3 DEF ObjectsOK, RollbackInfo
      <4>2. s \in Slot /\ InTransaction(p, s)
        BY <4>1, <1>6, BoundAssumption DEF Slot, Index, InTransaction
      <4>3. Fresh(p, s)
        BY <3>1, <3>2, <4>2, <1>4 DEF AgreeOK, Preparing
      <4> QED
        BY <3>1, <4>3, <1>5 DEF Fresh, Collecting
    <3>5. logWriter = p /\ logWriter' = NoProcess
      BY <3>1, <3>2 DEF logWriter
    <3>6. logAppended = n /\ logAppended' = 0
      BY <3>5 DEF logAppended
    <3>7. deletes[p] = <<>>
      BY <3>1, <1>4 DEF OwnInv
    <3>8. logRequested = [q \in Process |-> {}] /\ logRequested' = [q \in Process |-> {}]
      BY <3>5, <3>7, <3>1, NoWriter DEF logRequested
    <3> HIDE DEF n
    <3>9. logRecords' = logRecords \o [i \in 1 .. logAppended |-> "live"]
      BY <3>1, <3>3, <3>4, <3>6, <1>6, RecordsPublished
    <3> QED
      BY <3>5, <3>6, <3>8, <3>9, LogPublish
  <2>20. ASSUME NEW p \in Process, PublishUsed(p) PROVE [Log!Next]_(Log!vars)
    <3> HIDE DEF FilesOK, ObjectsOK, HolderInv
    <3>1. entries' = entries /\ header'.last_index = header.last_index
      BY <2>20, <1>3 DEF PublishUsed, FilesOK
    <3>2. Keeps
      BY <3>1, <1>6, RecordsSame DEF Keeps
    <3>3. UNCHANGED <<holder, rollback_info, deletes>> /\ Goto(p, "offset") /\ pc[p] # "run"
      BY <2>20 DEF PublishUsed
    <3>4. pc'[p] = "offset" /\ holder = p
      BY <3>3, <1>3, MoveFrame
    <3>5. Preparing(p)' <=> Preparing(p)
      BY <2>20, <3>4 DEF PublishUsed, Preparing
    <3> QED
      BY <3>1, <3>2, <3>3, <3>4, <3>5, LogQuiet
  <2>21. ASSUME NEW p \in Process, PublishOffset(p) PROVE [Log!Next]_(Log!vars)
    <3> HIDE DEF FilesOK, ObjectsOK, HolderInv
    <3>1. entries' = entries /\ header'.last_index = header.last_index
      BY <2>21, <1>3 DEF PublishOffset, FilesOK
    <3>2. Keeps
      BY <3>1, <1>6, RecordsSame DEF Keeps
    <3>3. UNCHANGED <<holder, rollback_info, deletes>> /\ Goto(p, "counts") /\ pc[p] # "run"
      BY <2>21 DEF PublishOffset
    <3>4. pc'[p] = "counts" /\ holder = p
      BY <3>3, <1>3, MoveFrame
    <3>5. Preparing(p)' <=> Preparing(p)
      BY <2>21, <3>4 DEF PublishOffset, Preparing
    <3> QED
      BY <3>1, <3>2, <3>3, <3>4, <3>5, LogQuiet
  <2>22. ASSUME NEW p \in Process, PublishCounts(p) PROVE [Log!Next]_(Log!vars)
    <3> HIDE DEF FilesOK, ObjectsOK, HolderInv
    <3>1. entries' = entries /\ header'.last_index = header.last_index
      BY <2>22, <1>3 DEF PublishCounts, FilesOK
    <3>2. Keeps
      BY <3>1, <1>6, RecordsSame DEF Keeps
    <3>3. UNCHANGED <<holder, rollback_info, deletes>> /\ Goto(p, "end") /\ pc[p] # "run"
      BY <2>22 DEF PublishCounts
    <3>4. pc'[p] = "end" /\ holder = p
      BY <3>3, <1>3, MoveFrame
    <3>5. Preparing(p)' <=> Preparing(p)
      BY <2>22, <3>4 DEF PublishCounts, Preparing
    <3> QED
      BY <3>1, <3>2, <3>3, <3>4, <3>5, LogQuiet
  <2>23. ASSUME NEW p \in Process, EndCommit(p) PROVE [Log!Next]_(Log!vars)
    <3> HIDE DEF FilesOK, ObjectsOK, HolderInv
    <3>1. entries' = entries /\ header'.last_index = header.last_index
      BY <2>23, <1>3 DEF EndCommit, FilesOK
    <3>2. Keeps
      BY <3>1, <1>6, RecordsSame DEF Keeps
    <3>3. pc[p] = "end" /\ holder' = NoProcess
      BY <2>23 DEF EndCommit, end_transaction
    <3>4. holder = p
      BY <3>3, <1>3, OnlyHolder
    <3>5. logWriter = NoProcess /\ logWriter' = NoProcess
      BY <3>3, <3>4 DEF logWriter
    <3> QED
      BY <3>2, <3>5, LogExpire
  <2>24. ASSUME NEW p \in Process, rollback(p) PROVE [Log!Next]_(Log!vars)
    <3> HIDE DEF FilesOK, ObjectsOK, HolderInv
    <3>1. entries' = entries /\ header'.last_index = header.last_index
      BY <2>24, <1>3 DEF rollback, FilesOK
    <3>2. Keeps
      BY <3>1, <1>6, RecordsSame DEF Keeps
    <3>3. pc[p] = "run" /\ holder = p /\ holder' = NoProcess
      BY <2>24 DEF rollback, Ready, in_transaction, end_transaction
    <3>4. logWriter = p /\ logWriter' = NoProcess
      BY <3>3 DEF logWriter
    <3> QED
      BY <3>2, <3>4, LogAbort
  <2>25. ASSUME NEW p \in Process, Crash(p) PROVE [Log!Next]_(Log!vars)
    <3> HIDE DEF FilesOK, ObjectsOK, HolderInv
    <3>1. entries' = entries /\ header'.last_index = header.last_index
      BY <2>25, <1>3 DEF Crash, FilesOK
    <3>2. Keeps
      BY <3>1, <1>6, RecordsSame DEF Keeps
    <3>3. holder' = (IF holder = p THEN Dead ELSE holder)
          /\ \A q \in Process \ {p} : /\ pc'[q] = pc[q] /\ deletes'[q] = deletes[q]
                                     /\ rollback_info'[q] = rollback_info[q]
      BY <2>25, <1>3 DEF Crash, Forget, Goto, ObjectsOK
    <3>4. CASE holder = p
      <4>1. logWriter' = NoProcess
        BY <3>3, <3>4 DEF logWriter
      <4> QED
        BY <3>2, <4>1, LogExpire
    <3>5. CASE holder # p
      BY <3>1, <3>2, <3>3, <3>5, LogQuiet DEF Preparing
    <3> QED
      BY <3>4, <3>5
  <2>26. ASSUME NEW p \in Process, NEW i \in Slot, delete_record(p, i) PROVE [Log!Next]_(Log!vars)
    <3> HIDE DEF FilesOK, ObjectsOK, HolderInv
    <3>1. entries' = entries /\ header'.last_index = header.last_index
      BY <2>26, <1>3 DEF delete_record, FilesOK
    <3>2. Keeps
      BY <3>1, <1>6, RecordsSame DEF Keeps
    <3>3. /\ UNCHANGED <<holder, pc, rollback_info>> /\ holder = p /\ pc[p] = "run"
          /\ deletes' = [deletes EXCEPT ![p] = Append(@, i)] /\ i <= header.last_index
      BY <2>26 DEF delete_record, Ready, in_transaction, Found
    <3>4. logWriter = p /\ logWriter' = p
      BY <3>3 DEF logWriter
    <3>5. Unchanged
      BY <3>1, <3>3, <3>4, AppendedSame DEF Unchanged
    <3>6. i \in 1 .. Len(logRecords) + 1
      BY <2>26, <3>3, <1>6, LogIsSeq, BoundAssumption DEF Slot
    <3>7. logRequested' = [logRequested EXCEPT ![p] = @ \cup {i}]
      <4> DEFINE d == deletes[p]
      <4>1. d \in Seq(Slot) /\ deletes'[p] = Append(d, i)
        BY <3>3, <1>3 DEF ObjectsOK
      <4>2. {Append(d, i)[k] : k \in DOMAIN Append(d, i)} = {d[k] : k \in DOMAIN d} \cup {i}
        <5>1. /\ DOMAIN Append(d, i) = 1 .. Len(d) + 1 /\ DOMAIN d = 1 .. Len(d) /\ Len(d) \in Nat
              /\ \A k \in 1 .. Len(d) + 1 : Append(d, i)[k] = IF k = Len(d) + 1 THEN i ELSE d[k]
          BY <4>1
        <5> HIDE DEF d
        <5>2. 1 .. Len(d) + 1 = 1 .. Len(d) \cup {Len(d) + 1}
          BY <5>1
        <5>3. Len(d) + 1 \notin 1 .. Len(d)
          BY <5>1
        <5> QED
          BY <5>1, <5>2, <5>3
      <4> HIDE DEF d
      <4>3. logRequested'[p] = logRequested[p] \cup {i}
        BY <3>4, <4>1, <4>2 DEF logRequested, d
      <4>4. \A q \in Process \ {p} : logRequested'[q] = {} /\ logRequested[q] = {}
        BY <3>4 DEF logRequested
      <4>5. logRequested' = [q \in Process |-> logRequested'[q]]
            /\ logRequested = [q \in Process |-> logRequested[q]]
        BY DEF logRequested
      <4> HIDE DEF logRequested
      <4>6. \A q \in Process : logRequested'[q] = [logRequested EXCEPT ![p] = @ \cup {i}][q]
        BY <4>3, <4>4, <4>5
      <4> QED
        BY <4>5, <4>6
    <3> QED
      BY <3>2, <3>4, <3>5, <3>6, <3>7, LogRequest
  <2>27. CASE Expire
    <3> HIDE DEF FilesOK, ObjectsOK, HolderInv
    <3>1. entries' = entries /\ header'.last_index = header.last_index
      BY <2>27, <1>3 DEF Expire, FilesOK
    <3>2. Keeps
      BY <3>1, <1>6, RecordsSame DEF Keeps
    <3>3. holder' = NoProcess
      BY <2>27 DEF Expire
    <3>4. logWriter' = NoProcess
      BY <3>3 DEF logWriter
    <3> QED
      BY <3>2, <3>4, LogExpire
  <2>28. CASE UNCHANGED vars
    <3> HIDE DEF FilesOK, ObjectsOK, HolderInv
    <3>1. entries' = entries /\ header'.last_index = header.last_index
      BY <2>28, <1>3 DEF vars, FilesOK
    <3>2. Keeps
      BY <3>1, <1>6, RecordsSame DEF Keeps
    <3>3. UNCHANGED <<holder, pc, rollback_info, deletes>>
      BY <2>28 DEF vars
    <3> QED
      BY <3>1, <3>2, <3>3, LogQuiet DEF Preparing
  <2> QED
    BY <2>1, <2>2, <2>3, <2>4, <2>5, <2>6, <2>7, <2>8, <2>9, <2>10, <2>11, <2>12, <2>13,
       <2>14, <2>15, <2>16, <2>17, <2>18, <2>19, <2>20, <2>21, <2>22, <2>23, <2>24,
       <2>25, <2>26, <2>27, <2>28
    DEF Next, CommitStep

(* Only a write that the index refuses, a request and a death break the      *)
(* promise, and none of them touches the log.                                *)
LEMMA StepBreaks ==
  ASSUME TypeOK, [Next]_vars
  PROVE  faults' = faults \/ Keeps
<1> QED
  <2>1. ASSUME NEW p \in Process, Open(p) PROVE faults' = faults \/ Keeps
    BY <2>1 DEF Open
  <2>2. ASSUME NEW p \in Process, Close(p) PROVE faults' = faults \/ Keeps
    BY <2>2 DEF Close, Forget, Ready
  <2>3. ASSUME NEW p \in Process, finish(p) PROVE faults' = faults \/ Keeps
    BY <2>3 DEF finish, SetWriteState, Ready
  <2>4. ASSUME NEW p \in Process, archive(p) PROVE faults' = faults \/ Keeps
    BY <2>4 DEF archive, SetWriteState, Ready
  <2>5. ASSUME NEW p \in Process, Start(p) PROVE faults' = faults \/ Keeps
    BY <2>5 DEF Start, Ready, setup_transaction, setup_index
  <2>6. ASSUME NEW p \in Process, Write(p) PROVE faults' = faults \/ Keeps
    BY <2>6 DEF Write, WriteRecord, Ready, in_transaction
  <2>7. ASSUME NEW p \in Process, WriteUnindexed(p) PROVE faults' = faults \/ Keeps
    <3>1. UNCHANGED <<header, entries>>
      BY <2>7 DEF WriteUnindexed, WriteRecord, block, index
    <3> QED
      BY <3>1 DEF Keeps, logRecords
  <2>8. ASSUME NEW p \in Process, Commit(p) PROVE faults' = faults \/ Keeps
    BY <2>8 DEF Commit, Ready, in_transaction
  <2>9. ASSUME NEW p \in Process, MarkDeleted(p) PROVE faults' = faults \/ Keeps
    BY <2>9 DEF MarkDeleted
  <2>10. ASSUME NEW p \in Process, CountDeleted(p) PROVE faults' = faults \/ Keeps
    BY <2>10 DEF CountDeleted
  <2>11. ASSUME NEW p \in Process, CommitIndex(p) PROVE faults' = faults \/ Keeps
    BY <2>11 DEF CommitIndex
  <2>12. ASSUME NEW p \in Process, ShowEntry(p) PROVE faults' = faults \/ Keeps
    BY <2>12 DEF ShowEntry
  <2>13. ASSUME NEW p \in Process, IndexLast(p) PROVE faults' = faults \/ Keeps
    BY <2>13 DEF IndexLast
  <2>14. ASSUME NEW p \in Process, IndexUsed(p) PROVE faults' = faults \/ Keeps
    BY <2>14 DEF IndexUsed
  <2>15. ASSUME NEW p \in Process, IndexOffset(p) PROVE faults' = faults \/ Keeps
    BY <2>15 DEF IndexOffset
  <2>16. ASSUME NEW p \in Process, IndexDelete(p) PROVE faults' = faults \/ Keeps
    BY <2>16 DEF IndexDelete
  <2>17. ASSUME NEW p \in Process, EndIndex(p) PROVE faults' = faults \/ Keeps
    BY <2>17 DEF EndIndex
  <2>18. ASSUME NEW p \in Process, MarkReadable(p) PROVE faults' = faults \/ Keeps
    BY <2>18 DEF MarkReadable
  <2>19. ASSUME NEW p \in Process, PublishLast(p) PROVE faults' = faults \/ Keeps
    BY <2>19 DEF PublishLast
  <2>20. ASSUME NEW p \in Process, PublishUsed(p) PROVE faults' = faults \/ Keeps
    BY <2>20 DEF PublishUsed
  <2>21. ASSUME NEW p \in Process, PublishOffset(p) PROVE faults' = faults \/ Keeps
    BY <2>21 DEF PublishOffset
  <2>22. ASSUME NEW p \in Process, PublishCounts(p) PROVE faults' = faults \/ Keeps
    BY <2>22 DEF PublishCounts
  <2>23. ASSUME NEW p \in Process, EndCommit(p) PROVE faults' = faults \/ Keeps
    BY <2>23 DEF EndCommit, end_transaction
  <2>24. ASSUME NEW p \in Process, rollback(p) PROVE faults' = faults \/ Keeps
    BY <2>24 DEF rollback, Ready, in_transaction, end_transaction
  <2>25. ASSUME NEW p \in Process, Crash(p) PROVE faults' = faults \/ Keeps
    <3>1. UNCHANGED <<header, entries>>
      BY <2>25 DEF Crash, block, index
    <3> QED
      BY <3>1 DEF Keeps, logRecords
  <2>26. ASSUME NEW p \in Process, NEW i \in Slot, delete_record(p, i)
         PROVE faults' = faults \/ Keeps
    <3>1. UNCHANGED <<header, entries>>
      BY <2>26 DEF delete_record, block, index
    <3> QED
      BY <3>1 DEF Keeps, logRecords
  <2>27. CASE Expire
    BY <2>27 DEF Expire
  <2>28. CASE UNCHANGED vars
    BY <2>28 DEF vars
  <2> QED
    BY <2>1, <2>2, <2>3, <2>4, <2>5, <2>6, <2>7, <2>8, <2>9, <2>10, <2>11, <2>12, <2>13,
       <2>14, <2>15, <2>16, <2>17, <2>18, <2>19, <2>20, <2>21, <2>22, <2>23, <2>24,
       <2>25, <2>26, <2>27, <2>28
    DEF Next, CommitStep

LEMMA InitialLog == Init => Log!Init
<1> SUFFICES ASSUME Init PROVE Log!Init
  OBVIOUS
<1>1. header.last_index - 1 = 0
  BY DEF Init
<1>2. logRecords = <<>>
  <2>1. logRecords \in [1 .. 0 -> {"live", "deleted"}]
    BY <1>1 DEF logRecords
  <2>2. 1 .. 0 = {} /\ 0 \in Nat
    OBVIOUS
  <2>3. logRecords \in Seq({"live", "deleted"}) /\ Len(logRecords) = 0
    BY <2>1, <2>2, SeqOf
  <2> QED
    BY <2>3, EmptySeq
<1>3. logWriter = NoProcess
  BY ProcessAssumption DEF Init, logWriter
<1>4. logAppended = 0
  BY <1>3 DEF logAppended
<1>5. logRequested = [p \in Process |-> {}]
  BY <1>3, NoneRequested
<1>6. Broken = FALSE
  BY DEF Init, Broken
<1> QED
  BY <1>2, <1>3, <1>4, <1>5, <1>6 DEF Log!Init

(* base_indexed_block.h: the block and its index together are the log that   *)
(* RecordLog describes.  A commit appends its records all at once, when the  *)
(* block publishes them; its deletes appear one at a time, when the index    *)
(* marks them; a rollback, an expiry, a close or a death before that leaves  *)
(* no trace in the log, and only what Broken names ends the promise.         *)
THEOREM Implements == Spec => ImplementsLog
<1> DEFINE I == AgreeIInv /\ MarkedInv
<1>1. Init => I
  <2>1. Init => MarkedInv
    BY DEF Init, MarkedInv, MarkedOf
  <2> QED
    BY <2>1, InitAgree
<1>2. I /\ [Next]_vars => I'
  BY StepAgreeIInv, StepMarked DEF AgreeIInv
<1>3. I /\ [Next]_vars => [Log!Next]_(Log!vars)
  <2> SUFFICES ASSUME I, [Next]_vars PROVE [Log!Next]_(Log!vars)
    OBVIOUS
  <2>1. CASE Broken
    <3>1. Broken'
      BY <2>1, FaultsGrow DEF Broken
    <3> QED
      BY <2>1, <3>1, LogBroken
  <2>2. CASE ~Broken /\ ~Broken'
    BY <2>2, StepLog
  <2>3. CASE ~Broken /\ Broken'
    <3>1. faults' # faults
      BY <2>3 DEF Broken
    <3>2. Keeps
      BY <3>1, StepBreaks DEF AgreeIInv
    <3> QED
      BY <2>3, <3>2, LogBreak
  <2> QED
    BY <2>1, <2>2, <2>3
<1> QED
  BY <1>1, <1>2, <1>3, InitialLog, PTL DEF Spec, ImplementsLog, Log!Spec
=============================================================================
