---------------------------- MODULE ReadWriteLock ----------------------------
(* common/includes/read_write_lock.h and common/src/read_write_lock_manager   *)
(* .cpp.                                                                      *)
(*                                                                            *)
(* One record of the shared-memory table: a write lock, the slots of its      *)
(* readers and a count of them.  The calls run under the table's exclusive    *)
(* lock.  The manager's sweep takes no lock, so its stores fall between any   *)
(* two of theirs, and a count that is incremented or decremented is read in   *)
(* one step and written in the next one.  Clock readings are abstracted to    *)
(* facts: a lock_timestamp is five minutes old (stale).                       *)
EXTENDS Integers, FiniteSets, FiniteSetsExt

CONSTANTS
  Process, Thread, ProcessOf,
  NoProcess, NoThread,  \* owner.process_id = -1; an empty thread_id
  MaxReaders,           \* MAX_READER_LOCKS
  Modulus,              \* of reader_count (2^64 in the code)
  MaxTxn,               \* bound on the transaction ids handed out
  MaxCrashes,           \* bound on process deaths
  MaxFaults             \* bound: no call begins after that many kinds of fault

ASSUME ProcessAssumption == /\ ProcessOf \in [Thread -> Process]
                            /\ NoProcess \notin Process /\ NoThread \notin Thread
ASSUME BoundAssumption == /\ MaxReaders \in Nat \ {0} /\ Modulus \in Nat /\ Modulus > MaxReaders
                          /\ MaxTxn \in Nat /\ MaxCrashes \in Nat /\ MaxFaults \in Nat

Slot == 1 .. MaxReaders
First == 1      \* readers[0]
NoSlot == 0
NoTxn == 0

VARIABLES
  write_locked, \* w_lock_struct.write_locked
  owner,        \* w_lock_struct.owner
  stale,        \* owner.lock_timestamp is old
  reader,       \* [Slot -> thread_id], readers[ii].thread_id; forgotten with a freed slot
  slot_used,    \* [Slot -> BOOLEAN], readers[ii].used
  slot_stale,   \* [Slot -> BOOLEAN], readers[ii].lock_timestamp is old
  reader_count,
  reader_threads, \* [Thread -> Slot or none], a map of the thread's process
  txn_id,       \* [Process -> transaction id]
  guard,        \* the thread inside the exclusive lock
  waiting,      \* the threads in write_lock's retry loop
  pc, mine, seen, \* where it is, its slot, and the count it has read
  m_pc, m_slot, m_seen, \* the same of the manager
  alive,        \* [Process -> BOOLEAN]
  reads, writes,\* history [Thread -> lease]: granted and not given up
  next_txn, crashes,
  faults        \* history: what the sweep has done to the calls

writer == <<write_locked, owner, stale>>
slots == <<reader, slot_used, slot_stale>>
object == <<reader_threads, txn_id>>
call == <<guard, waiting, pc, mine, seen>>
manager == <<m_pc, m_slot, m_seen>>
leases == <<reads, writes>>
bounds == <<next_txn, crashes>>
vars == <<writer, slots, reader_count, object, call, manager, alive, leases, bounds, faults>>

NoOwner == [process_id |-> NoProcess, thread_id |-> NoThread, txn_id |-> NoTxn]

(* A record that add_lock has cleared.                                        *)
Init ==
  /\ write_locked = FALSE /\ owner = NoOwner /\ stale = TRUE
  /\ reader = [i \in Slot |-> NoThread] /\ slot_used = [i \in Slot |-> FALSE]
  /\ slot_stale = [i \in Slot |-> TRUE] /\ reader_count = 0
  /\ reader_threads = [t \in Thread |-> NoSlot] /\ txn_id = [p \in Process |-> NoTxn]
  /\ guard = NoThread /\ waiting = {} /\ pc = "none" /\ mine = NoSlot /\ seen = 0
  /\ m_pc = "writer" /\ m_slot = First /\ m_seen = 0
  /\ alive = [p \in Process |-> TRUE]
  /\ reads = [t \in Thread |-> "none"] /\ writes = [t \in Thread |-> "none"]
  /\ next_txn = 1 /\ crashes = 0 /\ faults = {}

Enter(t) == /\ alive[ProcessOf[t]] /\ guard = NoThread /\ t \notin waiting
            /\ Cardinality(faults) < MaxFaults
At(t, label) == guard = t /\ pc = label
Used == {i \in Slot : slot_used[i]}
Fault(happened, name) == faults' = IF happened THEN faults \cup {name} ELSE faults

(* The slot may have been given to another thread since.                      *)
has_thread_lock(t) == reader_threads[t] # NoSlot /\ slot_used[reader_threads[t]]

has_write_lock(t) ==
  write_locked /\ owner = [process_id |-> ProcessOf[t], thread_id |-> t,
                           txn_id |-> txn_id[ProcessOf[t]]]

(* The guard's destructor.                                                    *)
Leave == guard' = NoThread /\ pc' = "none" /\ mine' = NoSlot /\ seen' = 0 /\ UNCHANGED waiting

----------------------------------------------------------------------------
(* read_lock                                                                  *)

ReadAgain(t) == /\ Enter(t) /\ ~write_locked /\ has_thread_lock(t)
                /\ reads' = [reads EXCEPT ![t] = IF @ = "none" THEN "on" ELSE @]
                /\ Fault(reader[reader_threads[t]] # t, "borrowed")
                /\ UNCHANGED <<writer, slots, reader_count, object, call, manager, alive,
                               writes, bounds>>

(* find_free_reader marks the first free slot used ...                        *)
\* Mutant: readers do not look for a writer.
ClaimSlotAnyway(t) ==
  /\ Enter(t) /\ ~has_thread_lock(t)
  /\ reader_count < MaxReaders /\ Used # Slot
  /\ LET i == Min(Slot \ Used) IN slot_used' = [slot_used EXCEPT ![i] = TRUE] /\ mine' = i
  /\ guard' = t /\ pc' = "stamp"
  /\ UNCHANGED <<writer, reader, slot_stale, reader_count, object, waiting, seen, manager, alive,
                 leases, bounds, faults>>
ClaimSlot(t) ==
  /\ Enter(t) /\ ~write_locked /\ ~has_thread_lock(t)
  /\ reader_count < MaxReaders /\ Used # Slot
  /\ LET i == Min(Slot \ Used) IN slot_used' = [slot_used EXCEPT ![i] = TRUE] /\ mine' = i
  /\ guard' = t /\ pc' = "stamp"
  /\ UNCHANGED <<writer, reader, slot_stale, reader_count, object, waiting, seen, manager, alive,
                 leases, bounds, faults>>

(* ... then it gets its timestamp, and is marked again, ...                   *)
StampSlot(t) ==
  /\ At(t, "stamp")
  /\ slot_stale' = [slot_stale EXCEPT ![mine] = FALSE]
  /\ pc' = "register"
  /\ UNCHANGED <<writer, reader, slot_used, reader_count, object, guard, waiting, mine, seen, manager,
                 alive, leases, bounds, faults>>

Register(t) ==
  /\ At(t, "register")
  /\ reader' = [reader EXCEPT ![mine] = t]
  /\ slot_used' = [slot_used EXCEPT ![mine] = TRUE]
  /\ reader_threads' = [reader_threads EXCEPT ![t] = mine]
  /\ pc' = "load"
  /\ UNCHANGED <<writer, slot_stale, reader_count, txn_id, guard, waiting, mine, seen, manager, alive,
                 leases, bounds, faults>>

(* ... and is counted.                                                        *)
CountLoad(t) == /\ At(t, "load")
                /\ seen' = reader_count /\ pc' = "store"
                /\ UNCHANGED <<writer, slots, reader_count, object, guard, waiting, mine, manager, alive,
                               leases, bounds, faults>>

CountStore(t) == /\ At(t, "store")
                 /\ reader_count' = (seen + 1) % Modulus
                 /\ reads' = [reads EXCEPT ![t] = "on"]
                 /\ Fault(seen # reader_count, "raced")
                 /\ Leave
                 /\ UNCHANGED <<writer, slots, object, manager, alive, writes, bounds>>

----------------------------------------------------------------------------
(* release_read_lock                                                          *)

\* Mutant: any reader may decrement the count.
ReleaseLoadAnyway(t) ==
  /\ Enter(t) /\ reader_threads[t] # NoSlot /\ reader_count > 0
  /\ guard' = t /\ pc' = "unstore" /\ mine' = reader_threads[t] /\ seen' = reader_count
  /\ UNCHANGED <<writer, slots, reader_count, object, waiting, manager, alive, leases, bounds, faults>>
ReleaseLoad(t) ==
  /\ Enter(t) /\ has_thread_lock(t) /\ reader_count > 0
  /\ guard' = t /\ pc' = "unstore" /\ mine' = reader_threads[t] /\ seen' = reader_count
  /\ UNCHANGED <<writer, slots, reader_count, object, waiting, manager, alive, leases, bounds,
                 faults>>

ReleaseStore(t) ==
  /\ At(t, "unstore")
  /\ reader_count' = (seen - 1) % Modulus
  /\ pc' = "free" /\ seen' = 0
  /\ Fault(seen # reader_count, "raced")
  /\ UNCHANGED <<writer, slots, object, guard, waiting, mine, manager, alive, leases, bounds>>

ReleaseSlot(t) ==
  /\ At(t, "free")
  /\ slot_used' = [slot_used EXCEPT ![mine] = FALSE]
  /\ reader' = [reader EXCEPT ![mine] = NoThread]
  /\ reader_threads' = [reader_threads EXCEPT ![t] = NoSlot]
  /\ reads' = [reads EXCEPT ![t] = "none"]
  /\ Fault(reader[mine] # t, "borrowed")
  /\ Leave
  /\ UNCHANGED <<writer, slot_stale, reader_count, txn_id, manager, alive, writes, bounds>>

(* There is no slot any more, or it throws because nothing is counted.        *)
ReleaseNothing(t) ==
  /\ Enter(t) /\ reads[t] # "none" /\ ~(has_thread_lock(t) /\ reader_count > 0)
  /\ reads' = [reads EXCEPT ![t] = "none"]
  /\ UNCHANGED <<writer, slots, reader_count, object, call, manager, alive, writes, bounds, faults>>

----------------------------------------------------------------------------
(* write_lock, release_write_lock                                             *)

(* It throws when the process's object carries a transaction id, also for a   *)
(* thread that holds the lock; then it tries until its timeout.               *)
AskWrite(t) ==
  /\ Enter(t) /\ txn_id[ProcessOf[t]] = NoTxn
  /\ waiting' = waiting \cup {t}
  /\ UNCHANGED <<writer, slots, reader_count, object, guard, pc, mine, seen, manager, alive, leases,
                 bounds, faults>>

GiveUp(t) ==
  /\ t \in waiting /\ guard = NoThread
  /\ waiting' = waiting \ {t}
  /\ UNCHANGED <<writer, slots, reader_count, object, guard, pc, mine, seen, manager, alive, leases,
                 bounds, faults>>

GrantWrite(t) ==
  /\ t \in waiting /\ guard = NoThread
  /\ ~write_locked /\ reader_count = 0 /\ next_txn <= MaxTxn
  /\ write_locked' = TRUE
  /\ waiting' = waiting \ {t} /\ guard' = t /\ pc' = "sign"
  /\ UNCHANGED <<owner, stale, slots, reader_count, object, mine, seen, manager, alive, leases,
                 bounds, faults>>

SignWrite(t) ==
  /\ At(t, "sign")
  /\ owner' = [process_id |-> ProcessOf[t], thread_id |-> t, txn_id |-> next_txn]
  /\ stale' = FALSE
  /\ txn_id' = [txn_id EXCEPT ![ProcessOf[t]] = next_txn] /\ next_txn' = next_txn + 1
  /\ writes' = [writes EXCEPT ![t] = "on"]
  /\ Leave
  /\ UNCHANGED <<write_locked, slots, reader_count, reader_threads, manager, alive, reads,
                 crashes, faults>>

\* Mutant: the transaction id is not cleared.
ReleaseWriteKept(t) ==
  /\ Enter(t) /\ txn_id[ProcessOf[t]] # NoTxn /\ has_write_lock(t)
  /\ write_locked' = FALSE /\ owner' = NoOwner /\ stale' = TRUE
  /\ writes' = [writes EXCEPT ![t] = "none"]
  /\ UNCHANGED <<slots, reader_count, object, call, manager, alive, reads, bounds, faults>>
ReleaseWrite(t) ==
  /\ Enter(t) /\ txn_id[ProcessOf[t]] # NoTxn /\ has_write_lock(t)
  /\ write_locked' = FALSE /\ owner' = NoOwner /\ stale' = TRUE
  /\ txn_id' = [txn_id EXCEPT ![ProcessOf[t]] = NoTxn]
  /\ writes' = [writes EXCEPT ![t] = "none"]
  /\ UNCHANGED <<slots, reader_count, reader_threads, call, manager, alive, reads, bounds, faults>>

(* The lock is not the thread's any more: the transaction id stays.           *)
ReleaseLost(t) ==
  /\ Enter(t) /\ writes[t] # "none" /\ ~has_write_lock(t)
  /\ writes' = [writes EXCEPT ![t] = "none"]
  /\ UNCHANGED <<writer, slots, reader_count, object, call, manager, alive, reads, bounds, faults>>

CallStep(t) == \/ StampSlot(t) \/ Register(t) \/ CountLoad(t) \/ CountStore(t)
               \/ ReleaseStore(t) \/ ReleaseSlot(t) \/ SignWrite(t)

----------------------------------------------------------------------------
(* read_write_lock_manager::check_lock_states                                 *)

Manage(label) == m_pc' = label /\ UNCHANGED <<m_slot, m_seen>>

CheckWriter == /\ m_pc = "writer"
               /\ Manage(IF write_locked /\ stale THEN "unlock" ELSE "look")
               /\ UNCHANGED <<writer, slots, reader_count, object, call, alive, leases, bounds,
                              faults>>

(* Somebody may have been granted the lock since, or is being granted it.     *)
Unlock == /\ m_pc = "unlock"
          /\ owner' = [process_id |-> NoProcess, thread_id |-> owner.thread_id, txn_id |-> NoTxn]
          /\ write_locked' = FALSE /\ stale' = TRUE
          /\ Fault(pc = "sign" \/ \E t \in Thread : writes[t] = "on", "young")
          /\ Manage("look")
          /\ UNCHANGED <<slots, reader_count, object, call, alive, leases, bounds>>

NextSlot == IF m_slot = MaxReaders THEN m_pc' = "writer" /\ m_slot' = First
                                   ELSE m_pc' = "look" /\ m_slot' = m_slot + 1

(* A reader is timed out by the timestamp of the first slot.                  *)
Look == /\ m_pc = "look"
        /\ IF slot_used[m_slot] /\ slot_stale[First]
           THEN Manage("free") ELSE NextSlot /\ UNCHANGED m_seen
        /\ UNCHANGED <<writer, slots, reader_count, object, call, alive, leases, bounds, faults>>

(* The slot of a reader whose lease runs is freed, or one that a call is      *)
(* about to count or to free itself.                                          *)
Live(i) == slot_used[i] /\ \E t \in Thread : reads[t] # "none" /\ reads[t] # "over"
                                             /\ reader_threads[t] = i
Crossed(i) == mine = i \/ ~slot_used[i]

Free == /\ m_pc = "free"
        /\ slot_used' = [slot_used EXCEPT ![m_slot] = FALSE]
        /\ reader' = [reader EXCEPT ![m_slot] = NoThread]
        /\ faults' = faults \cup (IF Live(m_slot) THEN {"live"} ELSE {})
                            \cup (IF Crossed(m_slot) THEN {"crossed"} ELSE {})
        /\ Manage("load")
        /\ UNCHANGED <<writer, slot_stale, reader_count, object, call, alive, leases, bounds>>

Load == /\ m_pc = "load"
        /\ m_seen' = reader_count /\ m_pc' = "store" /\ UNCHANGED m_slot
        /\ UNCHANGED <<writer, slots, reader_count, object, call, alive, leases, bounds, faults>>

\* Mutant: the freed reader stays in the count.
StoreNothing == /\ m_pc = "store"
                /\ NextSlot /\ m_seen' = 0
                /\ UNCHANGED <<writer, slots, reader_count, object, call, alive, leases, bounds, faults>>
\* Mutant: a signed count.
StoreSigned == /\ m_pc = "store"
               /\ reader_count' = m_seen - 1
               /\ Fault(m_seen # reader_count, "raced")
               /\ NextSlot /\ m_seen' = 0
               /\ UNCHANGED <<writer, slots, object, call, alive, leases, bounds>>
Store == /\ m_pc = "store"
         /\ reader_count' = (m_seen - 1) % Modulus
         /\ Fault(m_seen # reader_count, "raced")
         /\ NextSlot /\ m_seen' = 0
         /\ UNCHANGED <<writer, slots, object, call, alive, leases, bounds>>

ManagerStep == CheckWriter \/ Unlock \/ Look \/ Free \/ Load \/ Store

----------------------------------------------------------------------------
(* A process dies outside of the guard (ExclusiveLock has what follows when   *)
(* it dies inside).                                                           *)
Die(p) ==
  LET own(t) == ProcessOf[t] = p IN
  /\ alive[p] /\ crashes < MaxCrashes /\ crashes' = crashes + 1
  /\ guard = NoThread
  /\ alive' = [alive EXCEPT ![p] = FALSE]
  /\ txn_id' = [txn_id EXCEPT ![p] = NoTxn]
  /\ reader_threads' = [t \in Thread |-> IF own(t) THEN NoSlot ELSE reader_threads[t]]
  /\ reads' = [t \in Thread |-> IF own(t) THEN "none" ELSE reads[t]]
  /\ writes' = [t \in Thread |-> IF own(t) THEN "none" ELSE writes[t]]
  /\ waiting' = {t \in waiting : ~own(t)}
  /\ UNCHANGED <<writer, slots, reader_count, guard, pc, mine, seen, manager, next_txn, faults>>

(* Five minutes pass for a timestamp, and for the lease that it dates.  A     *)
(* call is shorter than that.                                                 *)
AgeSlot(i) ==
  /\ ~slot_stale[i] /\ mine # i
  /\ slot_stale' = [slot_stale EXCEPT ![i] = TRUE]
  /\ reads' = [t \in Thread |-> IF reads[t] = "on" /\ reader[i] = t /\ reader_threads[t] = i
                                THEN "over" ELSE reads[t]]
  /\ UNCHANGED <<writer, reader, slot_used, reader_count, object, call, manager, alive, writes,
                 bounds, faults>>

AgeWriter ==
  /\ ~stale
  /\ stale' = TRUE
  /\ writes' = [t \in Thread |-> IF writes[t] = "on" /\ owner.thread_id = t THEN "over" ELSE writes[t]]
  /\ UNCHANGED <<write_locked, owner, slots, reader_count, object, call, manager, alive, reads,
                 bounds, faults>>

Next == \/ \E t \in Thread : \/ ReadAgain(t) \/ ClaimSlot(t) \/ ReleaseLoad(t) \/ ReleaseNothing(t)
                             \/ AskWrite(t) \/ GiveUp(t)
                             \/ GrantWrite(t) \/ ReleaseWrite(t) \/ ReleaseLost(t) \/ CallStep(t)
        \/ ManagerStep
        \/ \E p \in Process : Die(p)
        \/ \E i \in Slot : AgeSlot(i)
        \/ AgeWriter

(* A call goes on; the manager's loop runs; time passes.                      *)
Fairness == /\ \A t \in Thread : WF_vars(CallStep(t))
            /\ WF_vars(ManagerStep)
            /\ \A i \in Slot : WF_vars(AgeSlot(i))
            /\ WF_vars(AgeWriter)

Spec == Init /\ [][Next]_vars
FairSpec == Spec /\ Fairness
----------------------------------------------------------------------------
(* Properties                                                                 *)

Lease == {"none", "on", "over"}
Label == {"none", "stamp", "register", "load", "store", "unstore", "free", "sign"}

Owner == [process_id : Process \cup {NoProcess}, thread_id : Thread \cup {NoThread},
          txn_id : 0 .. MaxTxn]
WriterOK ==
  /\ write_locked \in BOOLEAN /\ stale \in BOOLEAN
  /\ owner \in Owner
  /\ txn_id \in [Process -> 0 .. MaxTxn] /\ next_txn \in 1 .. MaxTxn + 1
ReadersOK ==
  /\ reader \in [Slot -> Thread \cup {NoThread}]
  /\ slot_used \in [Slot -> BOOLEAN] /\ slot_stale \in [Slot -> BOOLEAN]
  /\ reader_count \in 0 .. Modulus - 1
  /\ reader_threads \in [Thread -> Slot \cup {NoSlot}]
CallOK ==
  /\ guard \in Thread \cup {NoThread} /\ waiting \subseteq Thread /\ pc \in Label
  /\ pc = "none" <=> guard = NoThread
  /\ mine \in Slot \cup {NoSlot} /\ seen \in 0 .. Modulus - 1
  /\ mine = NoSlot <=> pc \in {"none", "sign"}
  /\ pc = "sign" => next_txn <= MaxTxn
ManagerOK ==
  /\ m_pc \in {"writer", "unlock", "look", "free", "load", "store"}
  /\ m_slot \in Slot /\ m_seen \in 0 .. Modulus - 1
HistoryOK ==
  /\ alive \in [Process -> BOOLEAN]
  /\ reads \in [Thread -> Lease] /\ writes \in [Thread -> Lease]
  /\ crashes \in Nat /\ faults \subseteq {"borrowed", "raced", "young", "live", "crossed"}

(* Types: the count is unsigned, a call has a slot where it needs one.        *)
TypeOK == WriterOK /\ ReadersOK /\ CallOK /\ ManagerOK /\ HistoryOK

(* Outside of calls and sweeps the count is the number of used slots: it only *)
(* parts from them when the manager frees a slot that a call is at work on,   *)
(* or writes the count between a call's reading and writing it, and back.     *)
CountAgrees ==
  faults \cap {"raced", "crossed"} = {} =>
    reader_count + (IF pc \in {"register", "stamp", "load", "store"} THEN 1 ELSE 0)
      = Cardinality(Used) + (IF m_pc \in {"load", "store"} THEN 1 ELSE 0)
                          - (IF pc = "free" THEN 1 ELSE 0)

(* A writer has the lock for itself for the five minutes of its lease, and    *)
(* so have readers, unless the sweep freed what was in use or a timed-out     *)
(* reader came back to a slot that has a new owner.                           *)
Excluding(t, u) == writes[t] = "on" /\ u # t => reads[u] # "on" /\ writes[u] # "on"
ExclusionKept == faults = {} => \A t, u \in Thread : Excluding(t, u)

(* What a dead process held is freed, whatever it held and whoever else used  *)
(* the lock, unless the count was lost before.                                *)
FreedAfterDeath ==
  (\A p \in Process : ~alive[p]) ~> \/ reader_count = 0 /\ ~write_locked
                                    \/ faults \cap {"raced", "crossed"} # {}

(* get_txn_id: "Will be empty if not currently holding a write lock."  An id  *)
(* parts from its lock only when the manager expires the lock (from then on   *)
(* the process's write_lock throws), unless the manager has unlocked under    *)
(* write_lock, and two callers of it believe that they were granted the lock. *)
Holding(p) == txn_id[p] # NoTxn /\ write_locked
              /\ owner.process_id = p /\ owner.txn_id = txn_id[p]
TxnIdFollowsLock ==
  [][\A p \in Process : Holding(p) /\ ~Holding(p)' /\ m_pc # "unlock" /\ "young" \notin faults
       => txn_id'[p] = NoTxn]_vars
=============================================================================
