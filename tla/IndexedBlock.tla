---------------------------- MODULE IndexedBlock ----------------------------
(* core/includes/base_block_index.h, base_indexed_block.h and their sources: *)
(* a data block whose records are found through an index file.               *)
(*                                                                           *)
(* Both files are memory-mapped and shared by the processes that have the    *)
(* block open.  A process has one object for the block and one for its       *)
(* index, each with rollback information of its own; the lock is the block's *)
(* only.  A commit settles the index first and the block after it, store by  *)
(* store.  Each process has one thread (BlockStore has the threads that      *)
(* share an object), all records have the same size, offsets count records   *)
(* and entries, and the block starts at index 1.                             *)
EXTENDS Integers, Sequences, FiniteSets

CONSTANTS
  Process,
  NoProcess, Dead,            \* the lock is free; its holder died
  BlockSize, HeaderSize, RecordSize,  \* of the block, of a record header, of a record
  IndexSizes, IndexHeaderSize, EntrySize, \* of the index file, its header, an entry
  Modulus,                    \* of the unsigned arithmetic (2^64 in the code)
  MaxRecords, MaxDeletes, MaxCommits, MaxCrashes, MaxFaults

ASSUME ProcessAssumption == NoProcess \notin Process /\ Dead \notin Process /\ Dead # NoProcess
ASSUME SizeAssumption == /\ BlockSize \in Nat /\ HeaderSize \in Nat /\ RecordSize \in Nat \ {0}
                         /\ IndexSizes \subseteq Nat /\ IndexHeaderSize \in Nat
                         /\ EntrySize \in Nat \ {0} /\ Modulus \in Nat \ {0}
                         /\ \A n \in IndexSizes : n < Modulus
ASSUME BoundAssumption == /\ MaxRecords \in Nat /\ MaxDeletes \in Nat /\ MaxCommits \in Nat
                          /\ MaxCrashes \in Nat /\ MaxFaults \in Nat

VARIABLES
  file,          \* the record headers, by offset
  header,        \* __block_header
  entries,       \* the __record_index_ptr, by offset
  index_header,  \* __record_index_header
  holder,        \* process that holds block_lock
  has_txn,       \* [Process -> BOOLEAN], block_lock's txn_id is not empty
  open,          \* [Process -> BOOLEAN]
  rollback_info, \* [Process -> __rollback_info] of the block object
  index_info,    \* [Process -> __rollback_info] of the index object
  deletes,       \* [Process -> rollback_info_deletes] of the index object
  pc,            \* [Process -> where it is in commit], "run" = outside
  cursor, added, \* the local variables of the running commit
  crashes,
  faults         \* history: what has gone wrong so far

block == <<file, header>>
index == <<entries, index_header>>
lock == <<holder, has_txn>>
local == <<open, rollback_info, index_info, deletes>>
commit == <<pc, cursor, added>>
vars == <<block, index, lock, local, commit, crashes, faults>>

Slot == 1 .. MaxRecords + 1
RecordState == {"FREE", "DIRTY", "READABLE", "DELETED"}
EntryState == {"FREE", "USED", "READABLE", "DELETED"}
NoRollback == [in_transaction |-> FALSE, last_index |-> 0, start_offset |-> 0,
               write_offset |-> 0, used_bytes |-> 0]

Init ==
  /\ file = [s \in Slot |-> [index |-> 0, state |-> "FREE"]]
  /\ header = [last_index |-> 1, write_offset |-> 1, used_bytes |-> 0, commit_sequence |-> 0,
               total_records |-> 0, deleted_records |-> 0, write_state |-> "WRITABLE"]
  /\ entries = [s \in Slot |-> [index |-> 0, offset |-> 0, state |-> "FREE"]]
  /\ index_header \in [last_index : {1}, write_offset : {1}, used_size : {0},
                       total_size : IndexSizes]
  /\ holder = NoProcess /\ has_txn = [p \in Process |-> FALSE]
  /\ open = [p \in Process |-> FALSE]
  /\ rollback_info = [p \in Process |-> NoRollback]
  /\ index_info = [p \in Process |-> NoRollback]
  /\ deletes = [p \in Process |-> <<>>]
  /\ pc = [p \in Process |-> "run"] /\ cursor = 0 /\ added = 0
  /\ crashes = 0 /\ faults = {}

Goto(p, label) == pc' = [pc EXCEPT ![p] = label]
Ready(p) == open[p] /\ pc[p] = "run"
Faulty(names) == faults' = faults \cup names /\ Cardinality(faults') <= MaxFaults

(* The block asks the lock as well; the index does not.                      *)
in_transaction(p) == rollback_info[p].in_transaction /\ holder = p

----------------------------------------------------------------------------
(* open, close, finish, archive                                              *)

Open(p) == /\ ~open[p]
           /\ open' = [open EXCEPT ![p] = TRUE]
           /\ UNCHANGED <<block, index, lock, rollback_info, index_info, deletes, commit,
                          crashes, faults>>

(* What close() and a death leave of the objects of a process.               *)
Forget(p) == /\ open' = [open EXCEPT ![p] = FALSE]
             /\ rollback_info' = [rollback_info EXCEPT ![p] = NoRollback]
             /\ index_info' = [index_info EXCEPT ![p] = NoRollback]
             /\ deletes' = [deletes EXCEPT ![p] = <<>>]
             /\ has_txn' = [has_txn EXCEPT ![p] = FALSE]

Close(p) == /\ Ready(p)
            /\ Forget(p)
            /\ holder' = IF holder = p THEN NoProcess ELSE holder
            /\ UNCHANGED <<block, index, commit, crashes, faults>>

(* Of the block's file only.                                                 *)
SetWriteState(p, s) == /\ Ready(p)
                       /\ header' = [header EXCEPT !.write_state = s]
                       /\ UNCHANGED <<file, index, lock, local, commit, crashes, faults>>
finish(p) == SetWriteState(p, "UPDATEABLE")
archive(p) == SetWriteState(p, "CLOSED")

----------------------------------------------------------------------------
(* start_transaction                                                         *)

setup_transaction(p) ==
  rollback_info' = [rollback_info EXCEPT ![p] =
    [in_transaction |-> TRUE, last_index |-> header.last_index,
     start_offset |-> header.write_offset, write_offset |-> header.write_offset,
     used_bytes |-> 0]]

\* Mutant: the index goes on where the object stopped.
setup_indexKept(p) ==
  /\ index_info' = IF index_info[p].in_transaction THEN index_info
       ELSE [index_info EXCEPT ![p] =
              [in_transaction |-> TRUE, last_index |-> index_header.last_index,
               start_offset |-> index_header.write_offset,
               write_offset |-> index_header.write_offset, used_bytes |-> 0]]
  /\ deletes' = [deletes EXCEPT ![p] = <<>>]
(* The index forgets the deletes of a transaction that is not over; the      *)
(* block of BlockStore does not.                                             *)
setup_index(p) ==
  /\ index_info' = [index_info EXCEPT ![p] =
       [in_transaction |-> TRUE, last_index |-> index_header.last_index,
        start_offset |-> index_header.write_offset,
        write_offset |-> index_header.write_offset, used_bytes |-> 0]]
  /\ deletes' = [deletes EXCEPT ![p] = <<>>]

(* get_lock returns at once to the holder; when it times out it returns the  *)
(* transaction id that the process's lock object still carries.              *)
Start(p) == /\ Ready(p)
            /\ \/ holder = NoProcess /\ holder' = p /\ has_txn' = [has_txn EXCEPT ![p] = TRUE]
               \/ holder # NoProcess /\ has_txn[p] /\ UNCHANGED lock
            /\ setup_transaction(p) /\ setup_index(p)
            /\ UNCHANGED <<block, index, open, commit, crashes, faults>>

----------------------------------------------------------------------------
(* write                                                                     *)

Room(used) == IF BlockSize > used + HeaderSize THEN BlockSize - (used + HeaderSize) ELSE 0
has_space(p) ==
  LET inside == Room(header.used_bytes + rollback_info[p].used_bytes) IN
  (IF inside > 0 THEN inside ELSE Room(header.used_bytes)) >= RecordSize

(* The index's free space is computed in unsigned arithmetic.                *)
\* Mutant: the entries of the transaction itself are not counted.
index_has_spaceCommitted(p) ==
  (index_header.total_size - (index_header.used_size + IndexHeaderSize)) % Modulus >= EntrySize
index_has_space(p) ==
  (index_header.total_size
     - (index_header.used_size + index_info[p].used_bytes + IndexHeaderSize)) % Modulus
  >= EntrySize

(* __write_record: the record goes to the block ...                          *)
WriteRecord(p) ==
  LET r == rollback_info[p] IN
  /\ Ready(p) /\ header.write_state = "WRITABLE" /\ has_space(p) /\ in_transaction(p)
  /\ r.last_index <= MaxRecords /\ r.write_offset <= MaxRecords
  /\ file' = [file EXCEPT ![r.write_offset] = [index |-> r.last_index, state |-> "DIRTY"]]
  /\ rollback_info' = [rollback_info EXCEPT ![p] =
       [in_transaction |-> TRUE, last_index |-> r.last_index + 1, start_offset |-> r.start_offset,
        write_offset |-> r.write_offset + 1, used_bytes |-> r.used_bytes + RecordSize]]
  /\ UNCHANGED <<header, lock, open, deletes, commit, crashes>>

(* ... and __write_index accepts it, or throws when the record is not the    *)
(* next one of the index or the index is full.                               *)
\* Mutant: any index is accepted.
AcceptsAny(p, i) == index_has_space(p)
Accepts(p, i) == /\ index_has_space(p)
                 /\ i = 1 \/ i = index_info[p].last_index + 1

Write(p) ==
  LET i == rollback_info[p].last_index  r == index_info[p] IN
  /\ WriteRecord(p) /\ Accepts(p, i) /\ r.write_offset \in Slot
  /\ entries' = [entries EXCEPT ![r.write_offset] =
       [index |-> i, offset |-> rollback_info[p].write_offset, state |-> "USED"]]
  /\ index_info' = [index_info EXCEPT ![p] =
       [in_transaction |-> TRUE, last_index |-> i, start_offset |-> r.start_offset,
        write_offset |-> r.write_offset + 1, used_bytes |-> r.used_bytes + EntrySize]]
  /\ UNCHANGED <<index_header, faults>>

(* The caller sees an exception, and the block has the record.               *)
WriteUnindexed(p) == /\ WriteRecord(p) /\ ~Accepts(p, rollback_info[p].last_index)
                     /\ Faulty({"unindexed"})
                     /\ UNCHANGED <<index, index_info>>

----------------------------------------------------------------------------
(* delete_record                                                             *)

(* read_index, then __read_record at the entry's offset.                     *)
Found(i) == /\ i \in Slot /\ i <= index_header.last_index /\ i <= header.last_index
            /\ entries[i].index = i
            /\ entries[i].offset \in Slot /\ file[entries[i].offset].index = i

delete_record(p, i) ==
  /\ Ready(p) /\ header.write_state = "WRITABLE" /\ in_transaction(p)
  /\ i <= rollback_info[p].last_index
  /\ Found(i) /\ file[entries[i].offset].state \in {"READABLE", "DIRTY"}
  /\ Len(deletes[p]) < MaxDeletes
  /\ deletes' = [deletes EXCEPT ![p] = Append(@, i)]
  /\ Faulty((IF i >= header.last_index THEN {"own"} ELSE {})
            \cup (IF \E k \in DOMAIN deletes[p] : deletes[p][k] = i THEN {"twice"} ELSE {}))
  /\ UNCHANGED <<block, index, lock, open, rollback_info, index_info, commit, crashes>>

----------------------------------------------------------------------------
(* commit                                                                    *)

Commit(p) == /\ Ready(p) /\ in_transaction(p)
             /\ header.commit_sequence < MaxCommits
             /\ header.deleted_records <= MaxDeletes   \* bound: it may throw and be called again
             /\ Goto(p, "deletes") /\ cursor' = 1 /\ added' = 0
             /\ UNCHANGED <<block, index, lock, local, crashes, faults>>

(* The records to delete are marked in the block ...                         *)
MarkDeleted(p) ==
  LET d == deletes[p] IN
  /\ pc[p] = "deletes" /\ cursor <= Len(d)
  /\ IF Found(d[cursor])
     THEN file' = [file EXCEPT ![entries[d[cursor]].offset].state = "DELETED"] /\ Goto(p, "count")
     ELSE UNCHANGED file /\ Goto(p, "run")           \* commit throws
  /\ UNCHANGED <<header, index, lock, local, cursor, added, crashes, faults>>

CountDeleted(p) == /\ pc[p] = "count"
                   /\ header' = [header EXCEPT !.deleted_records = @ + 1]
                   /\ cursor' = cursor + 1 /\ Goto(p, "deletes")
                   /\ UNCHANGED <<file, index, lock, local, added, crashes, faults>>

CommitIndex(p) == /\ pc[p] = "deletes" /\ cursor > Len(deletes[p])
                  /\ cursor' = index_info[p].start_offset /\ Goto(p, "entries")
                  /\ UNCHANGED <<block, index, lock, local, added, crashes, faults>>

(* ... then the index commits: its new entries, its header, its deletes ...  *)
ShowEntry(p) ==
  /\ pc[p] = "entries" /\ cursor < index_info[p].write_offset
  /\ IF entries[cursor].state = "USED"
     THEN entries' = [entries EXCEPT ![cursor].state = "READABLE"] /\ cursor' = cursor + 1
          /\ UNCHANGED pc
     ELSE UNCHANGED <<entries, cursor>> /\ Goto(p, "run")   \* commit throws
  /\ UNCHANGED <<block, index_header, lock, local, added, crashes, faults>>

IndexLast(p) == /\ pc[p] = "entries" /\ cursor >= index_info[p].write_offset
                /\ index_header' = [index_header EXCEPT !.last_index = index_info[p].last_index]
                /\ Goto(p, "index_used")
                /\ UNCHANGED <<block, entries, lock, local, cursor, added, crashes, faults>>

IndexUsed(p) == /\ pc[p] = "index_used"
                /\ index_header' = [index_header EXCEPT !.used_size = @ + index_info[p].used_bytes]
                /\ Goto(p, "index_offset")
                /\ UNCHANGED <<block, entries, lock, local, cursor, added, crashes, faults>>

\* Mutant: the transaction's offset is taken for a distance.
IndexOffsetAdded(p) ==
  /\ pc[p] = "index_offset"
  /\ index_header' = [index_header EXCEPT !.write_offset = @ + index_info[p].write_offset]
  /\ cursor' = 1 /\ Goto(p, "index_deletes")
  /\ UNCHANGED <<block, entries, lock, local, added, crashes, faults>>
\* Mutant: the index's offset stays.
IndexOffsetKept(p) == /\ pc[p] = "index_offset"
                      /\ cursor' = 1 /\ Goto(p, "index_deletes")
                      /\ UNCHANGED <<block, index, lock, local, added, crashes, faults>>
IndexOffset(p) ==
  /\ pc[p] = "index_offset"
  /\ index_header' = [index_header EXCEPT !.write_offset = index_info[p].write_offset]
  /\ cursor' = 1 /\ Goto(p, "index_deletes")
  /\ UNCHANGED <<block, entries, lock, local, added, crashes, faults>>

IndexDelete(p) ==
  LET i == deletes[p][cursor] IN
  /\ pc[p] = "index_deletes" /\ cursor <= Len(deletes[p])
  /\ entries' = [entries EXCEPT ![i].state = "DELETED"]
  /\ cursor' = cursor + 1
  /\ UNCHANGED <<block, index_header, lock, local, pc, added, crashes, faults>>

\* Mutant: the list of deletes outlives the index's transaction.
EndIndexKept(p) ==
  /\ pc[p] = "index_deletes" /\ cursor > Len(deletes[p])
  /\ index_info' = [index_info EXCEPT ![p] = NoRollback]
  /\ cursor' = header.write_offset /\ Goto(p, "records")
  /\ UNCHANGED <<block, index, lock, open, rollback_info, deletes, added, crashes, faults>>
EndIndex(p) ==
  /\ pc[p] = "index_deletes" /\ cursor > Len(deletes[p])
  /\ index_info' = [index_info EXCEPT ![p] = NoRollback]
  /\ deletes' = [deletes EXCEPT ![p] = <<>>]
  /\ cursor' = header.write_offset /\ Goto(p, "records")
  /\ UNCHANGED <<block, index, lock, open, rollback_info, added, crashes, faults>>

(* ... and then the block.                                                   *)
\* Mutant: the record is not counted.
MarkReadableUncounted(p) == /\ pc[p] = "records" /\ cursor < rollback_info[p].write_offset
                            /\ file' = [file EXCEPT ![cursor].state = "READABLE"]
                            /\ cursor' = cursor + 1
                            /\ UNCHANGED <<header, index, lock, local, pc, added, crashes, faults>>
MarkReadable(p) == /\ pc[p] = "records" /\ cursor < rollback_info[p].write_offset
                   /\ file' = [file EXCEPT ![cursor].state = "READABLE"]
                   /\ cursor' = cursor + 1 /\ added' = added + 1
                   /\ UNCHANGED <<header, index, lock, local, pc, crashes, faults>>

PublishLast(p) == /\ pc[p] = "records" /\ cursor >= rollback_info[p].write_offset
                  /\ header' = [header EXCEPT !.last_index = rollback_info[p].last_index]
                  /\ Goto(p, "used")
                  /\ UNCHANGED <<file, index, lock, local, cursor, added, crashes, faults>>

PublishUsed(p) == /\ pc[p] = "used"
                  /\ header' = [header EXCEPT !.used_bytes = @ + rollback_info[p].used_bytes]
                  /\ Goto(p, "offset")
                  /\ UNCHANGED <<file, index, lock, local, cursor, added, crashes, faults>>

PublishOffset(p) == /\ pc[p] = "offset"
                    /\ header' = [header EXCEPT !.write_offset = rollback_info[p].write_offset]
                    /\ Goto(p, "counts")
                    /\ UNCHANGED <<file, index, lock, local, cursor, added, crashes, faults>>

PublishCounts(p) == /\ pc[p] = "counts"
                    /\ header' = [header EXCEPT !.commit_sequence = @ + 1,
                                                !.total_records = @ + added]
                    /\ Goto(p, "end")
                    /\ UNCHANGED <<file, index, lock, local, cursor, added, crashes, faults>>

end_transaction(p) == /\ rollback_info' = [rollback_info EXCEPT ![p] = NoRollback]
                      /\ holder' = NoProcess
                      /\ has_txn' = [has_txn EXCEPT ![p] = FALSE]

EndCommit(p) == /\ pc[p] = "end"
                /\ end_transaction(p)
                /\ Goto(p, "run") /\ cursor' = 0 /\ added' = 0
                /\ UNCHANGED <<block, index, open, index_info, deletes, crashes, faults>>

CommitStep(p) == \/ MarkDeleted(p) \/ CountDeleted(p) \/ CommitIndex(p)
                 \/ ShowEntry(p) \/ IndexLast(p) \/ IndexUsed(p) \/ IndexOffset(p)
                 \/ IndexDelete(p) \/ EndIndex(p)
                 \/ MarkReadable(p) \/ PublishLast(p) \/ PublishUsed(p) \/ PublishOffset(p)
                 \/ PublishCounts(p) \/ EndCommit(p)

----------------------------------------------------------------------------
rollback(p) == /\ Ready(p) /\ in_transaction(p)
               /\ end_transaction(p)
               /\ index_info' = [index_info EXCEPT ![p] = NoRollback]
               /\ deletes' = [deletes EXCEPT ![p] = <<>>]
               /\ UNCHANGED <<block, index, open, commit, crashes, faults>>

(* The lock manager frees a lock that was not used for five minutes.         *)
Expire == /\ holder # NoProcess
          /\ holder \in Process => pc[holder] = "run"
          /\ holder' = NoProcess
          /\ UNCHANGED <<block, index, has_txn, local, commit, crashes, faults>>

(* A process dies in commit.  Until the index is published, all that shows   *)
(* are records marked deleted; then the index is ahead of the block, until   *)
(* the block is published too; then of the block's own stores.               *)
Marked(p) == \/ pc[p] = "count"
             \/ pc[p] \in {"deletes", "entries"} /\ deletes[p] # <<>>
DiedIn(p) ==
  (IF Marked(p) THEN {"marked"} ELSE {}) \cup
  (IF pc[p] \in {"index_used", "index_offset", "index_deletes", "records"}
   THEN {IF header.last_index = 1 THEN "torn_first" ELSE "torn"} ELSE {}) \cup
  (IF pc[p] \in {"used", "offset"} THEN {"torn_block"} ELSE {}) \cup
  (IF pc[p] = "counts" THEN {"uncounted"} ELSE {})

Crash(p) ==
  /\ open[p] /\ crashes < MaxCrashes
  /\ crashes' = crashes + 1
  /\ Forget(p)
  /\ holder' = IF holder = p THEN Dead ELSE holder
  /\ Goto(p, "run")
  /\ IF pc[p] = "run" THEN UNCHANGED <<cursor, added>> ELSE cursor' = 0 /\ added' = 0
  /\ Faulty(DiedIn(p))
  /\ UNCHANGED <<block, index>>

Next == \/ \E p \in Process : \/ Open(p) \/ Close(p) \/ finish(p) \/ archive(p)
                              \/ Start(p) \/ Write(p) \/ WriteUnindexed(p)
                              \/ \E i \in Slot : delete_record(p, i)
                              \/ Commit(p) \/ CommitStep(p) \/ rollback(p) \/ Crash(p)
        \/ Expire

Spec == Init /\ [][Next]_vars
----------------------------------------------------------------------------
(* Properties                                                                *)

PC == {"run", "deletes", "count", "entries", "index_used", "index_offset", "index_deletes",
       "records", "used", "offset", "counts", "end"}
Faults == {"own", "twice", "unindexed", "marked", "torn_first", "torn", "torn_block", "uncounted"}
Index == 0 .. MaxRecords + 1
Offset == 0 .. MaxRecords + 2
RollbackInfo == [in_transaction : BOOLEAN, last_index : Index, start_offset : Offset,
                 write_offset : Offset, used_bytes : Nat]

(* Types: indices and offsets stay within the records there are.             *)
FilesOK ==
  /\ file \in [Slot -> [index : Index, state : RecordState]]
  /\ header \in [last_index : Slot, write_offset : Slot, used_bytes : Nat, commit_sequence : Nat,
                 total_records : Nat, deleted_records : Nat,
                 write_state : {"WRITABLE", "UPDATEABLE", "CLOSED"}]
  /\ entries \in [Slot -> [index : Index, offset : Index, state : EntryState]]
  /\ index_header \in [last_index : Index, write_offset : Offset, used_size : Nat,
                       total_size : IndexSizes]
ObjectsOK ==
  /\ holder \in Process \cup {NoProcess, Dead}
  /\ has_txn \in [Process -> BOOLEAN] /\ open \in [Process -> BOOLEAN]
  /\ rollback_info \in [Process -> RollbackInfo] /\ index_info \in [Process -> RollbackInfo]
  /\ deletes \in [Process -> Seq(Slot)]
  /\ pc \in [Process -> PC] /\ cursor \in Nat /\ added \in Nat /\ crashes \in Nat
  /\ faults \subseteq Faults
TypeOK == FilesOK /\ ObjectsOK

(* Every committed record is found through the index, whatever dies when.    *)
(* When the index is left ahead of a block that has records, __write_index   *)
(* refuses the block's next record, and so protects the entries it has; a    *)
(* block without records is not protected.  Nor is one whose own header was  *)
(* torn, or where a record that the index refused was committed.             *)
IndexAgrees ==
  faults \cap {"torn_first", "torn_block", "unindexed"} = {} =>
    \A i \in 1 .. header.last_index - 1 :
      /\ Found(i)
      /\ entries[i].state \in {"READABLE", "DELETED"}
      /\ file[entries[i].offset].state \in {"READABLE", "DELETED"}

(* check_block_sanity, outside of commits: the counters of the block agree   *)
(* with the entries of the index, and these with the records.                *)
SanityHolds ==
  faults = {} /\ (\A p \in Process : pc[p] = "run") =>
    /\ header.total_records = header.last_index - 1
    /\ header.deleted_records =
         Cardinality({i \in 1 .. header.last_index - 1 : entries[i].state # "READABLE"})
    /\ \A i \in 1 .. header.last_index - 1 : file[entries[i].offset].state = entries[i].state

(* The index never grows past its file, unless the file is smaller than its  *)
(* header: then the unsigned difference of get_free_space is huge.           *)
EntriesFit ==
  index_header.total_size >= IndexHeaderSize =>
    \A p \in Process : holder = p =>
      EntrySize * (index_info[p].write_offset - 1) + IndexHeaderSize <= index_header.total_size

(* A commit that has begun does not throw half-way: what it deletes is still *)
(* found, and the entries it shows are still its own.  Not where the block's *)
(* own header was torn: the next records overwrite committed ones.  Nor      *)
(* where the index missed a record and was torn as well: its offset may then *)
(* be behind an index that catches up, and new entries overwrite old ones.   *)
Sound == /\ "torn_block" \notin faults
         /\ "unindexed" \in faults => faults \cap {"torn", "torn_first"} = {}
CommitNeverThrows ==
  [][\A p \in Process :
       pc[p] # "run" /\ pc'[p] = "run" /\ Sound => pc[p] = "end" \/ ~open'[p]]_vars

(* The block implements the log: a commit takes effect when it publishes the *)
(* block's index, and its deletes when they reach the index.                 *)
logWriter == IF holder \in Process /\ pc[holder] \notin {"used", "offset", "counts", "end"}
             THEN holder ELSE NoProcess
logRecords == [i \in 1 .. header.last_index - 1 |->
                 IF entries[i].state = "DELETED" THEN "deleted" ELSE "live"]
logAppended == IF logWriter = NoProcess THEN 0
               ELSE rollback_info[logWriter].last_index - header.last_index
logRequested == [p \in Process |-> IF p = logWriter THEN {deletes[p][k] : k \in DOMAIN deletes[p]}
                                                    ELSE {}]
Broken == faults \cap {"own", "torn_first", "torn_block", "unindexed"} # {}
Log == INSTANCE RecordLog WITH
  KeepsRequests <- FALSE, log <- logRecords, writer <- logWriter, appended <- logAppended,
  requested <- logRequested, broken <- Broken
ImplementsLog == Log!Spec
=============================================================================
