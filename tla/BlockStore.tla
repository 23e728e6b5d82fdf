----------------------------- MODULE BlockStore -----------------------------
(* core/includes/base_block.h and core/src/base_block.cpp: transactions on  *)
(* one append-only data block.                                              *)
(*                                                                          *)
(* The block is a memory-mapped file, shared by every process that opened   *)
(* it, so what a process stored before it died is in the file.  Each        *)
(* process has one base_block object: the rollback information and the list *)
(* of deletes in it are shared by the threads of the process.  The write    *)
(* lock is the one of WriteLock, reduced to its holder and to whether the   *)
(* process's lock object still carries a transaction id.                    *)
(*                                                                          *)
(* Records all have the same size and offsets count records: the record at  *)
(* offset n is the n-th one of the chain that __read_record walks.  The     *)
(* block starts at index 1.  Checks of the caller's transaction id are left *)
(* out: a holder's id is always the rollback information's.                 *)
EXTENDS Naturals, Sequences, FiniteSets

CONSTANTS
  Process, Thread,
  Deployments,                         \* the ways threads may be spread over processes
  NoProcess, NoThread, DeadThread,
  BlockSize, HeaderSize, RecordSize,   \* bytes
  MaxRecords, MaxDeletes, MaxCommits, MaxCrashes,
  MaxFaults                            \* kinds of fault in one behaviour

ASSUME ProcessAssumption == /\ Deployments \subseteq [Thread -> Process]
                            /\ NoProcess \notin Process
                            /\ NoThread \notin Thread /\ DeadThread \notin Thread
                            /\ NoThread # DeadThread
ASSUME SizeAssumption == /\ BlockSize \in Nat /\ HeaderSize \in Nat
                         /\ RecordSize \in Nat \ {0}
ASSUME BoundAssumption == /\ MaxRecords \in Nat /\ MaxDeletes \in Nat
                          /\ MaxCommits \in Nat /\ MaxCrashes \in Nat
                          /\ MaxFaults \in Nat

VARIABLES
  file,          \* the record headers, by offset
  header,        \* __block_header
  holder,        \* thread that holds block_lock
  has_txn,       \* [Process -> BOOLEAN], block_lock's txn_id is not empty
  open,          \* [Process -> BOOLEAN], the block is open for update
  rollback_info, \* [Process -> __rollback_info]
  deletes,       \* [Process -> rollback_info_deletes]
  pc,            \* where a thread is in commit, "run" = outside
  cursor, added, \* the local variables of the running commit
  ProcessOf,     \* [Thread -> Process], fixed
  crashes,
  written,       \* history: records written since the holder's last start
  faults         \* history: what has gone wrong so far

shared == <<file, header>>
local == <<open, rollback_info, deletes>>
lock == <<holder, has_txn>>
commit == <<pc, cursor, added>>
history == <<ProcessOf, crashes, written, faults>>
vars == <<shared, local, lock, commit, history>>

Slot == 1 .. MaxRecords + 1
RecordState == {"FREE", "DIRTY", "READABLE", "DELETED"}
WriteState == {"WRITABLE", "UPDATEABLE", "CLOSED"}
NoRollback == [in_transaction |-> FALSE, last_index |-> 0, write_offset |-> 0,
               used_bytes |-> 0]

Init ==
  /\ file = [s \in Slot |-> [index |-> 0, state |-> "FREE"]]
  /\ header = [last_index |-> 1, write_offset |-> 1, used_bytes |-> 0,
               commit_sequence |-> 0, total_records |-> 0, deleted_records |-> 0,
               write_state |-> "WRITABLE"]
  /\ holder = NoThread /\ has_txn = [p \in Process |-> FALSE]
  /\ open = [p \in Process |-> FALSE]
  /\ rollback_info = [p \in Process |-> NoRollback]
  /\ deletes = [p \in Process |-> <<>>]
  /\ pc = [t \in Thread |-> "run"] /\ cursor = 0 /\ added = 0
  /\ ProcessOf \in Deployments /\ crashes = 0 /\ written = 0 /\ faults = {}

Goto(t, label) == pc' = [pc EXCEPT ![t] = label]
Ready(t) == open[ProcessOf[t]] /\ pc[t] = "run"
Fault(name) == faults' = faults \cup {name} /\ Cardinality(faults') <= MaxFaults

(* The transaction's lock may have expired since it was started.            *)
in_transaction(t) == rollback_info[ProcessOf[t]].in_transaction /\ holder = t

is_writeable == header.write_state = "WRITABLE"
is_updateable == header.write_state \in {"WRITABLE", "UPDATEABLE"}

----------------------------------------------------------------------------
(* open, close, finish, archive                                             *)

Open(p) == /\ ~open[p]
           /\ open' = [open EXCEPT ![p] = TRUE]
           /\ UNCHANGED <<shared, lock, rollback_info, deletes, commit, history>>

(* The list of deletes survives a close of the object, unless the object is *)
(* destroyed.  Not modelled: a close under another thread's transaction.    *)
Close(t) ==
  LET p == ProcessOf[t] IN
  /\ Ready(t)
  /\ holder \in Thread => ProcessOf[holder] # p \/ holder = t
  /\ open' = [open EXCEPT ![p] = FALSE]
  /\ rollback_info' = [rollback_info EXCEPT ![p] = NoRollback]
  /\ \/ deletes' = [deletes EXCEPT ![p] = <<>>] /\ UNCHANGED faults
     \/ /\ deletes[p] # <<>> /\ UNCHANGED deletes
        /\ IF holder = t THEN Fault("expired") ELSE UNCHANGED faults
  /\ holder' = IF holder = t THEN NoThread ELSE holder
  /\ has_txn' = [has_txn EXCEPT ![p] = FALSE]
  /\ UNCHANGED <<shared, commit, ProcessOf, crashes, written>>

SetWriteState(p, s) == /\ open[p]
                       /\ header' = [header EXCEPT !.write_state = s]
                       /\ UNCHANGED <<file, local, lock, commit, history>>
finish(p) == SetWriteState(p, "UPDATEABLE")
archive(p) == SetWriteState(p, "CLOSED")

----------------------------------------------------------------------------
(* start_transaction                                                        *)

\* Mutant: a transaction that is thought to be open is not set up again.
setup_transactionOnce(p) ==
  rollback_info' = IF rollback_info[p].in_transaction THEN rollback_info
    ELSE [rollback_info EXCEPT ![p] =
           [in_transaction |-> TRUE, last_index |-> header.last_index,
            write_offset |-> header.write_offset, used_bytes |-> 0]]
setup_transaction(p) ==
  rollback_info' = [rollback_info EXCEPT ![p] =
    [in_transaction |-> TRUE, last_index |-> header.last_index,
     write_offset |-> header.write_offset, used_bytes |-> 0]]

Start(t) == /\ Ready(t) /\ holder = NoThread
            /\ holder' = t
            /\ has_txn' = [has_txn EXCEPT ![ProcessOf[t]] = TRUE]
            /\ setup_transaction(ProcessOf[t])
            /\ written' = 0
            /\ UNCHANGED <<shared, open, deletes, commit, ProcessOf, crashes, faults>>

(* get_lock returns at once to the thread that holds the lock.              *)
StartAgain(t) == /\ Ready(t) /\ holder = t
                 /\ setup_transaction(ProcessOf[t])
                 /\ written' = 0
                 /\ UNCHANGED <<shared, lock, open, deletes, commit, ProcessOf, crashes, faults>>

(* get_lock times out and returns the transaction id that its object still  *)
(* carries.  (Where it carries none, start_transaction throws.)             *)
StartTimedOut(t) ==
  LET p == ProcessOf[t] IN
  /\ Ready(t) /\ holder \notin {NoThread, t} /\ has_txn[p]
  /\ setup_transaction(p)
  /\ IF holder \in Thread /\ ProcessOf[holder] = p
     THEN Fault("reset") ELSE UNCHANGED faults
  /\ UNCHANGED <<shared, lock, open, deletes, commit, ProcessOf, crashes, written>>

----------------------------------------------------------------------------
(* write, delete_record                                                     *)

(* get_free_space: a transaction that has filled the block up is offered    *)
(* what the committed records leave.                                        *)
Room(used) == IF BlockSize > used + HeaderSize THEN BlockSize - (used + HeaderSize) ELSE 0
get_free_space(t) ==
  LET inside == header.used_bytes + rollback_info[ProcessOf[t]].used_bytes IN
  IF Room(inside) > 0 THEN Room(inside) ELSE Room(header.used_bytes)

\* Mutant: a write that does not ask for space.
has_spaceAlways(t) == TRUE
has_space(t) == get_free_space(t) >= RecordSize

Write(t) ==
  LET p == ProcessOf[t]  r == rollback_info[p] IN
  /\ Ready(t) /\ is_writeable /\ has_space(t) /\ in_transaction(t)
  /\ r.last_index <= MaxRecords /\ written < MaxRecords
  /\ file' = [file EXCEPT ![r.write_offset] = [index |-> r.last_index, state |-> "DIRTY"]]
  /\ rollback_info' = [rollback_info EXCEPT
       ![p] = [in_transaction |-> TRUE, last_index |-> r.last_index + 1,
               write_offset |-> r.write_offset + 1, used_bytes |-> r.used_bytes + RecordSize]]
  /\ written' = written + 1
  /\ UNCHANGED <<header, open, deletes, lock, commit, ProcessOf, crashes, faults>>

(* __read_record walks the chain from the first record.                     *)
Readable(i) == /\ i \in Slot /\ i <= header.last_index
               /\ \A k \in 1 .. i : file[k].index = k

(* The index after the last committed one is accepted: the transaction's    *)
(* own first record, or one that a dropped transaction left there.          *)
delete_record(t, i) ==
  LET p == ProcessOf[t] IN
  /\ Ready(t) /\ is_updateable /\ in_transaction(t)
  /\ i <= rollback_info[p].last_index
  /\ Readable(i) /\ file[i].state \in {"READABLE", "DIRTY"}
  /\ Len(deletes[p]) < MaxDeletes
  /\ deletes' = [deletes EXCEPT ![p] = Append(@, i)]
  /\ IF i = header.last_index \/ \E k \in DOMAIN deletes[p] : deletes[p][k] = i
     THEN Fault("redelete") ELSE UNCHANGED faults
  /\ UNCHANGED <<shared, open, rollback_info, lock, commit, ProcessOf, crashes, written>>

----------------------------------------------------------------------------
(* commit                                                                   *)

Commit(t) == /\ Ready(t) /\ in_transaction(t)
             /\ header.commit_sequence < MaxCommits
             /\ Goto(t, "deletes") /\ cursor' = 1 /\ added' = 0
             /\ UNCHANGED <<shared, local, lock, history>>

MarkDeleted(t) ==
  LET d == deletes[ProcessOf[t]] IN
  /\ pc[t] = "deletes" /\ cursor <= Len(d)
  /\ IF Readable(d[cursor])
     THEN file' = [file EXCEPT ![d[cursor]].state = "DELETED"] /\ Goto(t, "count")
     ELSE UNCHANGED file /\ Goto(t, "run")           \* commit throws
  /\ UNCHANGED <<header, local, lock, cursor, added, history>>

CountDeleted(t) == /\ pc[t] = "count"
                   /\ header' = [header EXCEPT !.deleted_records = @ + 1]
                   /\ cursor' = cursor + 1 /\ Goto(t, "deletes")
                   /\ UNCHANGED <<file, local, lock, added, history>>

\* Mutant: the list is cleared before it is walked.
ClearDeletesEarly(t) ==
  LET p == ProcessOf[t] IN
  /\ pc[t] = "deletes"
  /\ deletes' = [deletes EXCEPT ![p] = <<>>]
  /\ cursor' = header.write_offset /\ Goto(t, "records")
  /\ UNCHANGED <<shared, open, rollback_info, lock, added, history>>
ClearDeletes(t) ==
  LET p == ProcessOf[t] IN
  /\ pc[t] = "deletes" /\ cursor > Len(deletes[p])
  /\ deletes' = [deletes EXCEPT ![p] = <<>>]
  /\ cursor' = header.write_offset /\ Goto(t, "records")
  /\ UNCHANGED <<shared, open, rollback_info, lock, added, history>>

\* Mutant: the marked records are not counted.
MarkReadableUncounted(t) == /\ pc[t] = "records"
                            /\ cursor < rollback_info[ProcessOf[t]].write_offset
                            /\ file' = [file EXCEPT ![cursor].state = "READABLE"]
                            /\ cursor' = cursor + 1
                            /\ UNCHANGED <<header, local, lock, pc, added, history>>
MarkReadable(t) == /\ pc[t] = "records"
                   /\ cursor < rollback_info[ProcessOf[t]].write_offset
                   /\ file' = [file EXCEPT ![cursor].state = "READABLE"]
                   /\ cursor' = cursor + 1 /\ added' = added + 1
                   /\ UNCHANGED <<header, local, lock, pc, history>>

\* Mutant: the index is published before the records are marked.
PublishEarly(t) ==
  LET r == rollback_info[ProcessOf[t]] IN
  /\ pc[t] = "records"
  /\ header' = [header EXCEPT !.last_index = r.last_index]
  /\ Goto(t, "used")
  /\ UNCHANGED <<file, local, lock, cursor, added, history>>
PublishIndex(t) ==
  LET r == rollback_info[ProcessOf[t]] IN
  /\ pc[t] = "records" /\ cursor >= r.write_offset
  /\ header' = [header EXCEPT !.last_index = r.last_index]
  /\ Goto(t, "used")
  /\ UNCHANGED <<file, local, lock, cursor, added, history>>

PublishUsed(t) ==
  LET r == rollback_info[ProcessOf[t]] IN
  /\ pc[t] = "used"
  /\ header' = [header EXCEPT !.used_bytes = @ + r.used_bytes]
  /\ Goto(t, "offset")
  /\ UNCHANGED <<file, local, lock, cursor, added, history>>

\* Mutant: the transaction's offset is taken for a distance.
PublishOffsetAdded(t) ==
  LET r == rollback_info[ProcessOf[t]] IN
  /\ pc[t] = "offset"
  /\ header' = [header EXCEPT !.write_offset = @ + r.write_offset]
  /\ Goto(t, "counts")
  /\ UNCHANGED <<file, local, lock, cursor, added, history>>
PublishOffset(t) ==
  LET r == rollback_info[ProcessOf[t]] IN
  /\ pc[t] = "offset"
  /\ header' = [header EXCEPT !.write_offset = r.write_offset]
  /\ Goto(t, "counts")
  /\ UNCHANGED <<file, local, lock, cursor, added, history>>

PublishCounts(t) == /\ pc[t] = "counts"
                    /\ header' = [header EXCEPT !.commit_sequence = @ + 1,
                                                !.total_records = @ + added]
                    /\ Goto(t, "end")
                    /\ UNCHANGED <<file, local, lock, cursor, added, history>>

end_transaction(t) ==
  /\ rollback_info' = [rollback_info EXCEPT ![ProcessOf[t]] = NoRollback]
  /\ holder' = NoThread
  /\ has_txn' = [has_txn EXCEPT ![ProcessOf[t]] = FALSE]

EndCommit(t) == /\ pc[t] = "end"
                /\ end_transaction(t)
                /\ Goto(t, "run") /\ cursor' = 0 /\ added' = 0
                /\ UNCHANGED <<shared, open, deletes, history>>

CommitStep(t) == \/ MarkDeleted(t) \/ CountDeleted(t) \/ ClearDeletes(t)
                 \/ MarkReadable(t) \/ PublishIndex(t) \/ PublishUsed(t)
                 \/ PublishOffset(t) \/ PublishCounts(t) \/ EndCommit(t)

----------------------------------------------------------------------------
\* Mutant: the list of deletes outlives the rollback.
force_rollbackKept(t) == /\ Ready(t) /\ in_transaction(t)
                         /\ end_transaction(t)
                         /\ UNCHANGED <<shared, open, deletes, commit, history>>
force_rollback(t) == /\ Ready(t) /\ in_transaction(t)
                     /\ deletes' = [deletes EXCEPT ![ProcessOf[t]] = <<>>]
                     /\ end_transaction(t)
                     /\ UNCHANGED <<shared, open, commit, history>>

(* The lock manager frees a lock that was not used for five minutes.  Every *)
(* operation renews it, so it does not expire inside one.  The object's     *)
(* rollback information and list of deletes stay as they are.               *)
Expire == /\ holder # NoThread
          /\ holder \in Thread => pc[holder] = "run"
          /\ IF holder \in Thread /\ deletes[ProcessOf[holder]] # <<>>
             THEN Fault("expired") ELSE UNCHANGED faults
          /\ holder' = NoThread
          /\ UNCHANGED <<shared, local, has_txn, commit, ProcessOf, crashes, written>>

(* A process dies; its successor starts with a new object and a new pid.    *)
Crash(p) ==
  LET mine == {t \in Thread : ProcessOf[t] = p} IN
  /\ open[p] /\ crashes < MaxCrashes
  /\ crashes' = crashes + 1
  /\ open' = [open EXCEPT ![p] = FALSE]
  /\ rollback_info' = [rollback_info EXCEPT ![p] = NoRollback]
  /\ deletes' = [deletes EXCEPT ![p] = <<>>]
  /\ has_txn' = [has_txn EXCEPT ![p] = FALSE]
  /\ holder' = IF holder \in mine THEN DeadThread ELSE holder
  /\ pc' = [t \in Thread |-> IF t \in mine THEN "run" ELSE pc[t]]
  /\ IF \E t \in mine : pc[t] \in {"count", "used", "offset", "counts"}
     THEN Fault("torn") ELSE UNCHANGED faults
  /\ IF \E t \in mine : pc[t] # "run"
     THEN cursor' = 0 /\ added' = 0 ELSE UNCHANGED <<cursor, added>>
  /\ UNCHANGED <<shared, ProcessOf, written>>

Next == \/ \E t \in Thread : \/ Close(t) \/ Start(t) \/ StartAgain(t) \/ StartTimedOut(t)
                             \/ Write(t) \/ Commit(t) \/ CommitStep(t) \/ force_rollback(t)
                             \/ \E i \in Slot : delete_record(t, i)
        \/ \E p \in Process : Open(p) \/ finish(p) \/ archive(p) \/ Crash(p)
        \/ Expire

Spec == Init /\ [][Next]_vars
----------------------------------------------------------------------------
Faults == {"reset", "redelete", "expired", "torn"}
PC == {"run", "deletes", "count", "records", "used", "offset", "counts", "end"}
Index == 0 .. MaxRecords + 1
FileOK == file \in [Slot -> [index : Index, state : RecordState]]
HeaderOK ==
  header \in [last_index : Slot, write_offset : Slot, used_bytes : Nat,
             commit_sequence : Nat, total_records : Nat, deleted_records : Nat,
             write_state : WriteState]
ObjectsOK ==
  /\ has_txn \in [Process -> BOOLEAN] /\ open \in [Process -> BOOLEAN]
  /\ rollback_info \in [Process -> [in_transaction : BOOLEAN, last_index : Index,
                                     write_offset : Index, used_bytes : Nat]]
  /\ deletes \in [Process -> Seq(Slot)]
ThreadsOK ==
  /\ holder \in Thread \cup {NoThread, DeadThread}
  /\ pc \in [Thread -> PC] /\ cursor \in Nat /\ added \in Nat
  /\ ProcessOf \in [Thread -> Process]
  /\ crashes \in Nat /\ written \in Nat /\ faults \subseteq Faults
TypeOK == FileOK /\ HeaderOK /\ ObjectsOK /\ ThreadsOK

(* Where the published index is ahead of the published offset, with nobody  *)
(* about to catch up, the next record will overwrite committed ones: a      *)
(* process died between the two stores, or a start by another thread of the *)
(* process reset the transaction between them.                              *)
Publishing(t) == pc[t] \in {"used", "offset"}
Broken == /\ header.last_index # header.write_offset
          /\ \A t \in Thread : Publishing(t) =>
               header.last_index # rollback_info[ProcessOf[t]].write_offset

(* Otherwise every committed record is found by walking the chain, and is   *)
(* neither a dirty record nor the remains of a dropped transaction.         *)
ChainIntact == ~Broken => \A i \in 1 .. header.last_index - 1 :
                 Readable(i) /\ file[i].state \in {"READABLE", "DELETED"}

(* Why: a commit runs in the thread that holds the lock, whose process has  *)
(* a transaction open;                                                      *)
HolderInv ==
  \A t \in Thread :
    /\ pc[t] # "run" => holder = t
    /\ holder = t => open[ProcessOf[t]] /\ rollback_info[ProcessOf[t]].in_transaction

(* its index and offset are as far ahead of the header's, until it          *)
(* publishes them one after the other;                                      *)
Preparing(t) == pc[t] \in {"run", "deletes", "count", "records"}
OffsetInv ==
  /\ header.write_offset <= header.last_index
  /\ \A p \in Process : rollback_info[p].in_transaction =>
       /\ rollback_info[p].write_offset \in Slot /\ rollback_info[p].last_index \in Slot
       /\ rollback_info[p].write_offset <= rollback_info[p].last_index
  /\ \A t \in Thread : holder = t =>
       LET r == rollback_info[ProcessOf[t]] IN
       /\ header.write_offset <= r.write_offset
       /\ Preparing(t) =>
            r.last_index + header.write_offset = r.write_offset + header.last_index
       /\ Publishing(t) => r.write_offset <= header.last_index

(* and what lies between the header's offset and its own are the records it *)
(* wrote, in order, readable as far as the commit has come.                 *)
DirtyInv ==
  \A t \in Thread :
    holder = t /\ Preparing(t) /\ header.last_index = header.write_offset =>
      \A s \in header.write_offset .. rollback_info[ProcessOf[t]].write_offset - 1 :
        /\ file[s].index = s
        /\ pc[t] = "records" /\ s < cursor => file[s].state = "READABLE"

IInv == TypeOK /\ HolderInv /\ OffsetInv /\ DirtyInv /\ ChainIntact

(* check_block_sanity: the counters of the header agree with the records.   *)
(* They stop doing so after a death inside commit, a reset by another       *)
(* thread, and deletes that are listed twice, that name a record which is   *)
(* not committed, or that are left by an expired transaction.               *)
SanityHolds ==
  faults = {} /\ (\A t \in Thread : pc[t] = "run") =>
    /\ header.total_records = header.last_index - 1
    /\ header.deleted_records =
         Cardinality({i \in 1 .. header.last_index - 1 : file[i].state # "READABLE"})
    /\ header.used_bytes = RecordSize * (header.last_index - 1)

(* Deletes wait for commit in the transaction that asked for them: outside  *)
(* of it the list is empty, until a transaction expires.                    *)
DeletesOfOwner ==
  "expired" \notin faults =>
    \A p \in Process : deletes[p] # <<>> => holder \in Thread /\ ProcessOf[holder] = p

(* A transaction writes only to a block that had room for a record when it  *)
(* began.  (Once it has filled the block up, it can write on.)              *)
FullBlockRefuses ==
  \A t \in Thread :
    holder = t /\ pc[t] = "run" /\ rollback_info[ProcessOf[t]].used_bytes > 0
      => header.used_bytes + HeaderSize + RecordSize <= BlockSize

(* "If block is currently locked for write, then the call will wait till    *)
(* the block is available": a commit publishes every record its thread      *)
(* wrote since it started, whatever starts other threads attempt.           *)
WritesPublished ==
  [][\A t \in Thread : PublishIndex(t) =>
       header'.last_index = header.last_index + written]_vars

(* It does so as long as no other thread of its process tried to start one. *)
WritesPublishedAlone ==
  [][\A t \in Thread : PublishIndex(t) /\ "reset" \notin faults =>
       header'.last_index = header.last_index + written]_vars

(* The block implements the log.  A commit takes effect when it publishes   *)
(* the index.                                                               *)
logRecords == [i \in 1 .. header.last_index - 1 |->
                 IF file[i].state = "DELETED" THEN "deleted" ELSE "live"]
logWriter == IF holder \in Thread /\ pc[holder] \notin {"used", "offset", "counts", "end"}
             THEN ProcessOf[holder] ELSE NoProcess
logAppended == IF logWriter = NoProcess THEN 0
               ELSE rollback_info[logWriter].last_index - header.last_index
logRequested == [p \in Process |-> {deletes[p][k] : k \in DOMAIN deletes[p]}]
Log == INSTANCE RecordLog WITH
  KeepsRequests <- TRUE, log <- logRecords, writer <- logWriter, appended <- logAppended,
  requested <- logRequested, broken <- Broken
ImplementsLog == Log!Spec
============================================================================
