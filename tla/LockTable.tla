----------------------------- MODULE LockTable -----------------------------
(* common/src/write_lock.cpp (w_lock_table), write_lock_client.cpp and      *)
(* write_lock_manager.cpp: which record of the shared table a lock name has.*)
(*                                                                          *)
(* Each process has a client, with one write_lock object per name; several  *)
(* users of the name share the object and are counted in it.  The table's   *)
(* operations run under its exclusive lock; the manager looks at the        *)
(* records without it.  Of a record's lock only the owning process matters  *)
(* here: WriteLock says how it is taken.                                    *)
EXTENDS Naturals, FiniteSets, Functions

CONSTANTS
  Process, Name, NoProcess, NoName,
  MaxCount,    \* records in the table
  MaxUsers,    \* bound on the users of locks in one process
  MaxRestarts, \* bound on restarts of the manager
  Modulus      \* used_count is a uint32_t

ASSUME NameAssumption == NoName \notin Name /\ NoProcess \notin Process
ASSUME CountAssumption == /\ MaxCount \in Nat \ {0} /\ MaxUsers \in Nat
                          /\ MaxRestarts \in Nat
                          /\ Modulus \in Nat /\ MaxCount + 1 < Modulus

VARIABLES
  locks,       \* the table: [Slot -> __w_lock_struct]
  used_count,  \* __shared_lock_data::used_count
  lock_struct, \* [Process -> [Name -> Slot, 0 where the client has no object]]
  reference_count,
  registering, \* [Process -> name that register_lock has not yet stamped]
  state,       \* [Process -> "live", "leaving" (~write_lock_client), "dead"]
  manager,     \* where check_lock_states is, or "dead" where it has thrown
  target,      \* the record, then the name it is about to remove
  restarts,
  history      \* what has happened: "removed", "restarted"

client == <<lock_struct, reference_count, registering, state>>
sweep == <<manager, target>>
vars == <<locks, used_count, client, sweep, restarts, history>>

Slot == 1 .. MaxCount
Unused == [name |-> NoName, last_used |-> "zero", owner |-> NoProcess]
Used(s) == locks[s].name # NoName

Init ==
  /\ locks = [s \in Slot |-> Unused] /\ used_count = 0
  /\ lock_struct = [p \in Process |-> [n \in Name |-> 0]]
  /\ reference_count = [p \in Process |-> [n \in Name |-> 0]]
  /\ registering = [p \in Process |-> NoName]
  /\ state = [p \in Process |-> "live"]
  /\ manager = "sleep" /\ target = NoName
  /\ restarts = 0 /\ history = {}

Ready(p) == state[p] = "live" /\ registering[p] = NoName

----------------------------------------------------------------------------
(* w_lock_table                                                             *)

Found(n) == {s \in Slot : locks[s].name = n}
First(s, S) == s \in S /\ \A u \in S : s <= u

\* Mutant: the search does not stop at the record of the name.
FreeAnywhere(n) == {s \in Slot : ~Used(s)}
(* The search stops at the first record of the name, and takes the first    *)
(* free slot it has passed.                                                 *)
FreeBefore(n) == {s \in Slot : ~Used(s) /\ \A f \in Found(n) : s < f}

(* add_lock returns record s for name n.  The slot that was passed has      *)
(* precedence over the record that was found.                               *)
add_lock(n, s) ==
  /\ used_count < MaxCount
  /\ \/ /\ First(s, FreeBefore(n))
        /\ locks' = [locks EXCEPT ![s] = [name |-> n, last_used |-> "zero", owner |-> NoProcess]]
        /\ used_count' = used_count + 1
     \/ /\ FreeBefore(n) = {} /\ First(s, Found(n))
        /\ UNCHANGED <<locks, used_count>>

\* Mutant: a record that is removed is still counted.
remove_lockCounted(table, n) ==
  \/ /\ Found(n) = {} /\ locks' = table
     /\ UNCHANGED <<used_count, history>>
  \/ /\ \E s \in Slot : First(s, Found(n)) /\ locks' = [table EXCEPT ![s] = Unused]
     /\ history' = history \cup {"removed"} /\ UNCHANGED used_count

(* remove_lock on the given state of the table: no code increments the      *)
(* record's ref_count, so the first record of the name goes, whoever uses it*)
remove_lock(table, n) ==
  \/ /\ Found(n) = {} /\ locks' = table
     /\ UNCHANGED <<used_count, history>>
  \/ /\ \E s \in Slot : First(s, Found(n)) /\ locks' = [table EXCEPT ![s] = Unused]
     /\ used_count' = IF used_count = 0 THEN Modulus - 1 ELSE used_count - 1
     /\ history' = history \cup {"removed"}

----------------------------------------------------------------------------
(* write_lock_client                                                        *)

Users(p) == SumFunction(reference_count[p])

AddFirst(p, n) ==
  /\ Ready(p) /\ reference_count[p][n] = 0 /\ Users(p) < MaxUsers
  /\ \E s \in Slot : /\ add_lock(n, s)
                     /\ lock_struct' = [lock_struct EXCEPT ![p][n] = s]
  /\ reference_count' = [reference_count EXCEPT ![p][n] = 1]
  /\ registering' = [registering EXCEPT ![p] = n]
  /\ UNCHANGED <<state, sweep, restarts, history>>

(* register_lock goes on after add_lock has released the table.  (Nobody    *)
(* reads the stamp of a record that was removed meanwhile.)                 *)
Stamp(p) ==
  LET s == lock_struct[p][registering[p]] IN
  /\ state[p] = "live" /\ registering[p] # NoName
  /\ locks' = IF Used(s) THEN [locks EXCEPT ![s].last_used = "now"] ELSE locks
  /\ registering' = [registering EXCEPT ![p] = NoName]
  /\ UNCHANGED <<used_count, lock_struct, reference_count, state, sweep, restarts, history>>

AddAgain(p, n) ==
  /\ Ready(p) /\ reference_count[p][n] > 0 /\ Users(p) < MaxUsers
  /\ reference_count' = [reference_count EXCEPT ![p][n] = @ + 1]
  /\ UNCHANGED <<locks, used_count, lock_struct, registering, state, sweep, restarts, history>>

Object(p, n) == locks[lock_struct[p][n]]
Valid(p, n) == Object(p, n).name = n
has_write_lock(p, n) ==
  reference_count[p][n] > 0 /\ Valid(p, n) /\ Object(p, n).last_used = "now"
  /\ Object(p, n).owner = p

(* The memory of a process that has ended, or of its client's object.       *)
NoObjects == [n \in Name |-> 0]
Die(p) == /\ state' = [state EXCEPT ![p] = "dead"]
          /\ lock_struct' = [lock_struct EXCEPT ![p] = NoObjects]
          /\ reference_count' = [reference_count EXCEPT ![p] = NoObjects]
          /\ registering' = [registering EXCEPT ![p] = NoName]

(* ~write_lock: release_lock throws when the object's record is still       *)
(* locked by this process, and a destructor that throws ends it.            *)
Destroy(p, n, next) ==
  LET mine == locks'[lock_struct[p][n]] IN
  IF mine.name # NoName /\ mine.owner = p THEN Die(p)
  ELSE /\ state' = [state EXCEPT ![p] = next]
       /\ lock_struct' = [lock_struct EXCEPT ![p][n] = 0]
       /\ reference_count' = [reference_count EXCEPT ![p][n] = 0]
       /\ UNCHANGED registering

RemoveLast(p, n) ==
  /\ Ready(p) /\ reference_count[p][n] = 1 /\ Valid(p, n)
  /\ remove_lock(IF has_write_lock(p, n)
                 THEN [locks EXCEPT ![lock_struct[p][n]].owner = NoProcess] ELSE locks, n)
  /\ Destroy(p, n, "live")
  /\ UNCHANGED <<sweep, restarts>>

RemoveOther(p, n) ==
  /\ Ready(p) /\ reference_count[p][n] > 1 /\ Valid(p, n)
  /\ locks' = IF has_write_lock(p, n)
              THEN [locks EXCEPT ![lock_struct[p][n]].owner = NoProcess] ELSE locks
  /\ reference_count' = [reference_count EXCEPT ![p][n] = @ - 1]
  /\ UNCHANGED <<used_count, lock_struct, registering, state, sweep, restarts, history>>

(* ~write_lock_client removes the records of all names, counted or not.     *)
Dispose(p, n) ==
  /\ state[p] \in {"live", "leaving"} /\ registering[p] = NoName
  /\ reference_count[p][n] > 0
  /\ remove_lock(locks, n)
  /\ Destroy(p, n, IF \E m \in Name \ {n} : reference_count[p][m] > 0 THEN "leaving" ELSE "dead")
  /\ UNCHANGED <<sweep, restarts>>

----------------------------------------------------------------------------
(* write_lock                                                               *)

(* An idle record is granted like any other.                                *)
get_lock(p, n) ==
  /\ Ready(p) /\ reference_count[p][n] > 0 /\ Valid(p, n)
  /\ Object(p, n).owner = NoProcess
  /\ locks' = [locks EXCEPT ![lock_struct[p][n]].owner = p]
  /\ UNCHANGED <<used_count, client, sweep, restarts, history>>

release_lock(p, n) ==
  /\ Ready(p) /\ has_write_lock(p, n)
  /\ locks' = [locks EXCEPT ![lock_struct[p][n]].owner = NoProcess]
  /\ UNCHANGED <<used_count, client, sweep, restarts, history>>

(* check_lock_valid: the object's record is gone, or another name's.  It    *)
(* clears the pointer to the record and reads through it.                   *)
UseRemoved(p, n) ==
  /\ Ready(p) /\ reference_count[p][n] > 0 /\ ~Valid(p, n)
  /\ Die(p)
  /\ UNCHANGED <<locks, used_count, sweep, restarts, history>>

Crash(p) ==
  /\ state[p] # "dead" /\ Die(p)
  /\ UNCHANGED <<locks, used_count, sweep, restarts, history>>

----------------------------------------------------------------------------
(* write_lock_manager                                                       *)

(* An owner whose last_updated is five minutes old loses the lock.          *)
ManagerExpire(s) ==
  /\ manager = "sleep" /\ Used(s) /\ locks[s].owner # NoProcess
  /\ locks' = [locks EXCEPT ![s].owner = NoProcess]
  /\ UNCHANGED <<used_count, client, sweep, restarts, history>>

\* Mutant: a record that was never stamped is not old.
ManagerCheckOld(s) ==
  /\ manager = "sleep" /\ Used(s) /\ locks[s].last_used = "old"
  /\ manager' = "check" /\ target' = s
  /\ UNCHANGED <<locks, used_count, client, restarts, history>>

(* A record that was not used for ten minutes, or not yet stamped.          *)
ManagerCheck(s) ==
  /\ manager = "sleep" /\ Used(s) /\ locks[s].last_used # "now"
  /\ manager' = "check" /\ target' = s
  /\ UNCHANGED <<locks, used_count, client, restarts, history>>

(* The name is copied out of the record; remove_lock throws at an empty one *)
(* and the manager's run ends with an error.                                *)
ManagerName ==
  /\ manager = "check"
  /\ IF Used(target) THEN manager' = "remove" /\ target' = locks[target].name
                     ELSE manager' = "dead" /\ target' = NoName
  /\ UNCHANGED <<locks, used_count, client, restarts, history>>

ManagerRemove ==
  /\ manager = "remove"
  /\ remove_lock(locks, target)
  /\ manager' = "sleep" /\ target' = NoName
  /\ UNCHANGED <<client, restarts>>

(* The server's process has died and starts again.  The count is zeroed,    *)
(* with or without a reset; a reset clears the records when it has given    *)
(* the table's lock back.                                                   *)
Restart(next) ==
  /\ restarts < MaxRestarts /\ restarts' = restarts + 1
  /\ used_count' = 0
  /\ manager' = next /\ target' = NoName
  /\ history' = history \cup {"restarted"}
  /\ UNCHANGED <<locks, client>>
RestartKeep == Restart("sleep")
RestartReset == Restart("clear")
ManagerReset ==
  /\ manager = "clear" /\ manager' = "sleep"
  /\ locks' = [s \in Slot |-> Unused]
  /\ UNCHANGED <<used_count, client, target, restarts, history>>

(* Ten minutes without a use of the record.                                 *)
Age(s) == /\ Used(s) /\ locks[s].last_used = "now"
          /\ locks' = [locks EXCEPT ![s].last_used = "old"]
          /\ UNCHANGED <<used_count, client, sweep, restarts, history>>

Next ==
  \/ \E p \in Process :
       \/ Stamp(p) \/ Crash(p)
       \/ \E n \in Name : \/ AddFirst(p, n) \/ AddAgain(p, n)
                          \/ RemoveLast(p, n) \/ RemoveOther(p, n) \/ Dispose(p, n)
                          \/ get_lock(p, n) \/ release_lock(p, n) \/ UseRemoved(p, n)
  \/ \E s \in Slot : ManagerExpire(s) \/ ManagerCheck(s) \/ Age(s)
  \/ ManagerName \/ ManagerRemove
  \/ RestartKeep \/ RestartReset \/ ManagerReset

Spec == Init /\ [][Next]_vars

(* Time passes, and the manager's scan comes to every record.               *)
FairSpec ==
  /\ Spec /\ WF_vars(ManagerName \/ ManagerRemove \/ ManagerReset)
  /\ \A s \in Slot : WF_vars(Age(s)) /\ SF_vars(ManagerCheck(s))
----------------------------------------------------------------------------
RecordOK == locks \in [Slot -> [name : Name \cup {NoName}, last_used : {"zero", "now", "old"},
                                owner : Process \cup {NoProcess}]]
ClientOK ==
  /\ lock_struct \in [Process -> [Name -> Slot \cup {0}]]
  /\ reference_count \in [Process -> [Name -> Nat]]
  /\ registering \in [Process -> Name \cup {NoName}]
  /\ state \in [Process -> {"live", "leaving", "dead"}]
SweepOK ==
  /\ manager \in {"sleep", "check", "remove", "clear", "dead"}
  /\ target \in Slot \cup Name \cup {NoName}
  /\ (manager = "check" => target \in Slot) /\ (manager = "remove" => target \in Name)
TypeOK ==
  /\ RecordOK /\ ClientOK /\ SweepOK
  /\ used_count \in 0 .. Modulus - 1
  /\ restarts \in Nat /\ history \subseteq {"removed", "restarted"}

(* "Max records exhausted": the count that refuses a new lock is the number *)
(* of records, through all additions and removals, so a table with a free   *)
(* record accepts and the search of add_lock returns a record.  A restart   *)
(* of the manager that keeps the table is the one thing that breaks it.     *)
UsedSlots == {s \in Slot : Used(s)}
CountAgrees == "restarted" \notin history => used_count = Cardinality(UsedSlots)

(* As long as no record is removed, the records fill the table from its     *)
(* start, one for each name, and every object in every process points to    *)
(* the record of its name;                                                  *)
Prefix == \A s \in Slot, u \in Slot : s <= u /\ Used(u) => Used(s)
OneEach == \A s \in Slot, u \in Slot : Used(s) /\ locks[s].name = locks[u].name => s = u
Pointed == \A p \in Process, n \in Name :
             reference_count[p][n] > 0 => lock_struct[p][n] \in Slot /\ Valid(p, n)
IInv == history = {} => Prefix /\ OneEach /\ Pointed

(* so that two processes never have the write lock of one name.             *)
Exclusive == \A p \in Process, q \in Process, n \in Name :
  state[p] = "live" /\ state[q] = "live" /\ has_write_lock(p, n) /\ has_write_lock(q, n)
    => p = q
ExclusiveUntilRemoved == history = {} => Exclusive

(* A record that no object points to any more, because its process died or  *)
(* removed another record in its place, is given back, unless the manager   *)
(* has been stopped by a record that was removed under its eyes.            *)
Abandoned(s) ==
  Used(s) /\ \A p \in Process, n \in Name : lock_struct[p][n] # s
Reclaimed == \A s \in Slot : Abandoned(s) ~> ~Abandoned(s) \/ manager = "dead"
============================================================================
