------------------------- MODULE LockTable_proof ---------------------------
(* What holds of the table of locks for any number of processes, names,     *)
(* records and restarts.                                                    *)
EXTENDS LockTable, FiniteSetTheorems, TLAPS

Tables == [Slot -> [name : Name \cup {NoName}, last_used : {"zero", "now", "old"},
                           owner : Process \cup {NoProcess}]]

LEMMA AddType ==
  ASSUME TypeOK, NEW n \in Name, NEW s, add_lock(n, s)
  PROVE  s \in Slot /\ RecordOK' /\ used_count' \in 0 .. Modulus - 1
<1> USE NameAssumption, CountAssumption DEF Slot
<1>1. s \in Slot
  BY DEF add_lock, First, FreeBefore, Found
<1>2. RecordOK'
  BY <1>1 DEF add_lock, TypeOK, RecordOK
<1>3. used_count' \in 0 .. Modulus - 1
  BY DEF add_lock, TypeOK
<1> QED
  BY <1>1, <1>2, <1>3

LEMMA RemoveType ==
  ASSUME TypeOK, NEW table \in Tables, NEW n, remove_lock(table, n)
  PROVE  /\ RecordOK' /\ used_count' \in 0 .. Modulus - 1
         /\ history' \subseteq {"removed", "restarted"}
<1> USE NameAssumption, CountAssumption DEF Slot
<1>1. RecordOK'
  BY DEF remove_lock, Unused, RecordOK, Tables
<1>2. used_count' \in 0 .. Modulus - 1
  <2>1. used_count \in 0 .. Modulus - 1
    BY DEF TypeOK
  <2>2. \/ used_count' = used_count
        \/ used_count' = IF used_count = 0 THEN Modulus - 1 ELSE used_count - 1
    BY DEF remove_lock
  <2> QED
    BY <2>1, <2>2
<1>3. history' \subseteq {"removed", "restarted"}
  BY DEF remove_lock, TypeOK
<1> QED
  BY <1>1, <1>2, <1>3

LEMMA DestroyType ==
  ASSUME TypeOK, NEW p \in Process, NEW n \in Name, NEW next \in {"live", "leaving", "dead"},
         Destroy(p, n, next)
  PROVE  ClientOK'
<1> USE NameAssumption DEF TypeOK, ClientOK, NoObjects
<1>1. CASE Die(p)
  BY <1>1 DEF Die
<1>2. CASE ~Die(p)
  <2>1. /\ state' = [state EXCEPT ![p] = next] /\ UNCHANGED registering
        /\ lock_struct' = [lock_struct EXCEPT ![p][n] = 0]
        /\ reference_count' = [reference_count EXCEPT ![p][n] = 0]
    BY <1>2 DEF Destroy
  <2> QED
    BY <2>1
<1> QED
  BY <1>1, <1>2

LEMMA OwnerType ==
  ASSUME TypeOK, NEW s, NEW q \in Process \cup {NoProcess},
         locks' = [locks EXCEPT ![s].owner = q]
  PROVE  RecordOK'
BY DEF TypeOK, RecordOK

(* and what release_lock leaves of it before a record is removed;           *)
Released(p, n) == IF has_write_lock(p, n)
                  THEN [locks EXCEPT ![lock_struct[p][n]].owner = NoProcess] ELSE locks

LEMMA ReleasedType ==
  ASSUME TypeOK, NEW p \in Process, NEW n \in Name
  PROVE  Released(p, n) \in Tables /\ \A t \in Slot : Released(p, n)[t].name = locks[t].name
<1> DEFINE freed == [locks EXCEPT ![lock_struct[p][n]].owner = NoProcess]
<1>1. locks \in Tables
  BY DEF TypeOK, RecordOK, Tables
<1>2. freed \in [Slot -> [name : Name \cup {NoName}, last_used : {"zero", "now", "old"},
                          owner : Process \cup {NoProcess}]]
      /\ \A t \in Slot : freed[t].name = locks[t].name
  BY <1>1 DEF Tables
<1> HIDE DEF freed
<1>3. Released(p, n) = IF has_write_lock(p, n) THEN freed ELSE locks
  BY DEF Released, freed
<1> QED
  BY <1>1, <1>2, <1>3 DEF Tables

(* Every step keeps the type of the records,                                *)
LEMMA RecordType ==
  ASSUME TypeOK, Next
  PROVE  RecordOK'
<1> USE NameAssumption, CountAssumption DEF Slot
<1>1. ASSUME NEW p \in Process, Stamp(p) PROVE RecordOK'
  <2> DEFINE s == lock_struct[p][registering[p]]
  <2>1. \/ UNCHANGED locks \/ locks' = [locks EXCEPT ![s].last_used = "now"]
    BY <1>1 DEF Stamp
  <2> HIDE DEF s
  <2> QED
    BY <2>1 DEF RecordOK, TypeOK
<1>2. ASSUME NEW p \in Process, Crash(p) PROVE RecordOK'
  BY <1>2 DEF Crash, RecordOK, TypeOK
<1>3. ASSUME NEW p \in Process, NEW n \in Name, AddFirst(p, n) PROVE RecordOK'
  BY <1>3, AddType DEF AddFirst
<1>4. ASSUME NEW p \in Process, NEW n \in Name, AddAgain(p, n) PROVE RecordOK'
  BY <1>4 DEF AddAgain, RecordOK, TypeOK
<1>5. ASSUME NEW p \in Process, NEW n \in Name, RemoveLast(p, n) PROVE RecordOK'
  <2> DEFINE table == Released(p, n)
  <2>1. table \in Tables
    BY ReleasedType
  <2>2. remove_lock(table, n)
    BY <1>5 DEF RemoveLast, Released
  <2> HIDE DEF table
  <2> QED
    BY <2>1, <2>2, RemoveType
<1>6. ASSUME NEW p \in Process, NEW n \in Name, RemoveOther(p, n) PROVE RecordOK'
  <2>1. CASE has_write_lock(p, n)
    BY <1>6, <2>1, OwnerType DEF RemoveOther
  <2>2. CASE ~has_write_lock(p, n)
    BY <1>6, <2>2 DEF RemoveOther, RecordOK, TypeOK
  <2> QED
    BY <2>1, <2>2
<1>7. ASSUME NEW p \in Process, NEW n \in Name, Dispose(p, n) PROVE RecordOK'
  <2>1. locks \in Tables
    BY DEF TypeOK, RecordOK, Tables
  <2> QED
    BY <2>1, <1>7, RemoveType DEF Dispose
<1>8. ASSUME NEW p \in Process, NEW n \in Name, get_lock(p, n) PROVE RecordOK'
  <2>1. locks' = [locks EXCEPT ![lock_struct[p][n]].owner = p]
    BY <1>8 DEF get_lock
  <2> QED
    BY <2>1, OwnerType
<1>9. ASSUME NEW p \in Process, NEW n \in Name, release_lock(p, n) PROVE RecordOK'
  <2>1. locks' = [locks EXCEPT ![lock_struct[p][n]].owner = NoProcess]
    BY <1>9 DEF release_lock
  <2> QED
    BY <2>1, OwnerType
<1>10. ASSUME NEW p \in Process, NEW n \in Name, UseRemoved(p, n) PROVE RecordOK'
  BY <1>10 DEF UseRemoved, RecordOK, TypeOK
<1>11. ASSUME NEW s \in Slot, ManagerExpire(s) PROVE RecordOK'
  BY <1>11 DEF ManagerExpire, RecordOK, TypeOK
<1>12. ASSUME NEW s \in Slot, ManagerCheck(s) PROVE RecordOK'
  BY <1>12 DEF ManagerCheck, RecordOK, TypeOK
<1>13. ASSUME NEW s \in Slot, Age(s) PROVE RecordOK'
  BY <1>13, SMTT(30) DEF Age, RecordOK, TypeOK
<1>14. CASE ManagerName
  BY <1>14 DEF ManagerName, RecordOK, TypeOK
<1>15. CASE ManagerRemove
  <2>1. locks \in Tables
    BY DEF TypeOK, RecordOK, Tables
  <2> QED
    BY <2>1, <1>15, RemoveType DEF ManagerRemove
<1>16. CASE RestartKeep
  BY <1>16 DEF RestartKeep, RecordOK, TypeOK, Restart
<1>17. CASE RestartReset
  BY <1>17 DEF RestartReset, RecordOK, TypeOK, Restart
<1>18. CASE ManagerReset
  BY <1>18 DEF ManagerReset, RecordOK, TypeOK, Unused
<1> QED
  BY <1>1, <1>2, <1>3, <1>4, <1>5, <1>6, <1>7, <1>8, <1>9, <1>10, <1>11, <1>12,
     <1>13, <1>14, <1>15, <1>16, <1>17, <1>18 DEF Next

(* of the clients,                                                          *)
LEMMA ClientType ==
  ASSUME TypeOK, Next
  PROVE  ClientOK'
<1> USE NameAssumption, CountAssumption DEF Slot
<1>1. ASSUME NEW p \in Process, Stamp(p) PROVE ClientOK'
  BY <1>1 DEF Stamp, ClientOK, TypeOK, client, NoObjects
<1>2. ASSUME NEW p \in Process, Crash(p) PROVE ClientOK'
  BY <1>2 DEF Crash, ClientOK, TypeOK, client, NoObjects, Die
<1>3. ASSUME NEW p \in Process, NEW n \in Name, AddFirst(p, n) PROVE ClientOK'
  <2>1. PICK s \in Slot : lock_struct' = [lock_struct EXCEPT ![p][n] = s]
    BY <1>3 DEF AddFirst
  <2> QED
    BY <2>1, <1>3 DEF AddFirst, ClientOK, TypeOK
<1>4. ASSUME NEW p \in Process, NEW n \in Name, AddAgain(p, n) PROVE ClientOK'
  BY <1>4 DEF AddAgain, ClientOK, TypeOK, client, NoObjects
<1>5. ASSUME NEW p \in Process, NEW n \in Name, RemoveLast(p, n) PROVE ClientOK'
  <2>1. Destroy(p, n, "live")
    BY <1>5 DEF RemoveLast
  <2> QED
    BY <2>1, DestroyType
<1>6. ASSUME NEW p \in Process, NEW n \in Name, RemoveOther(p, n) PROVE ClientOK'
  BY <1>6 DEF RemoveOther, ClientOK, TypeOK, client, NoObjects
<1>7. ASSUME NEW p \in Process, NEW n \in Name, Dispose(p, n) PROVE ClientOK'
  <2>1. PICK next \in {"live", "leaving", "dead"} : Destroy(p, n, next)
    BY <1>7 DEF Dispose
  <2> QED
    BY <2>1, DestroyType
<1>8. ASSUME NEW p \in Process, NEW n \in Name, get_lock(p, n) PROVE ClientOK'
  BY <1>8 DEF get_lock, ClientOK, TypeOK, client, NoObjects
<1>9. ASSUME NEW p \in Process, NEW n \in Name, release_lock(p, n) PROVE ClientOK'
  BY <1>9 DEF release_lock, ClientOK, TypeOK, client, NoObjects
<1>10. ASSUME NEW p \in Process, NEW n \in Name, UseRemoved(p, n) PROVE ClientOK'
  BY <1>10 DEF UseRemoved, ClientOK, TypeOK, client, NoObjects, Die
<1>11. ASSUME NEW s \in Slot, ManagerExpire(s) PROVE ClientOK'
  BY <1>11 DEF ManagerExpire, ClientOK, TypeOK, client, NoObjects
<1>12. ASSUME NEW s \in Slot, ManagerCheck(s) PROVE ClientOK'
  BY <1>12 DEF ManagerCheck, ClientOK, TypeOK, client, NoObjects
<1>13. ASSUME NEW s \in Slot, Age(s) PROVE ClientOK'
  BY <1>13 DEF Age, ClientOK, TypeOK, client, NoObjects
<1>14. CASE ManagerName
  BY <1>14 DEF ManagerName, ClientOK, TypeOK, client, NoObjects
<1>15. CASE ManagerRemove
  BY <1>15 DEF ManagerRemove, ClientOK, TypeOK, client, NoObjects
<1>16. CASE RestartKeep
  BY <1>16 DEF RestartKeep, ClientOK, TypeOK, client, NoObjects, Restart
<1>17. CASE RestartReset
  BY <1>17 DEF RestartReset, ClientOK, TypeOK, client, NoObjects, Restart
<1>18. CASE ManagerReset
  BY <1>18 DEF ManagerReset, ClientOK, TypeOK, client, NoObjects
<1> QED
  BY <1>1, <1>2, <1>3, <1>4, <1>5, <1>6, <1>7, <1>8, <1>9, <1>10, <1>11, <1>12,
     <1>13, <1>14, <1>15, <1>16, <1>17, <1>18 DEF Next

(* of the manager,                                                          *)
LEMMA SweepType ==
  ASSUME TypeOK, Next
  PROVE  SweepOK'
<1> USE NameAssumption, CountAssumption DEF Slot
<1>1. ASSUME NEW p \in Process, Stamp(p) PROVE SweepOK'
  BY <1>1 DEF Stamp, SweepOK, TypeOK, sweep
<1>2. ASSUME NEW p \in Process, Crash(p) PROVE SweepOK'
  BY <1>2 DEF Crash, SweepOK, TypeOK, sweep
<1>3. ASSUME NEW p \in Process, NEW n \in Name, AddFirst(p, n) PROVE SweepOK'
  BY <1>3 DEF AddFirst, SweepOK, TypeOK, sweep
<1>4. ASSUME NEW p \in Process, NEW n \in Name, AddAgain(p, n) PROVE SweepOK'
  BY <1>4 DEF AddAgain, SweepOK, TypeOK, sweep
<1>5. ASSUME NEW p \in Process, NEW n \in Name, RemoveLast(p, n) PROVE SweepOK'
  BY <1>5 DEF RemoveLast, SweepOK, TypeOK, sweep
<1>6. ASSUME NEW p \in Process, NEW n \in Name, RemoveOther(p, n) PROVE SweepOK'
  BY <1>6 DEF RemoveOther, SweepOK, TypeOK, sweep
<1>7. ASSUME NEW p \in Process, NEW n \in Name, Dispose(p, n) PROVE SweepOK'
  BY <1>7 DEF Dispose, SweepOK, TypeOK, sweep
<1>8. ASSUME NEW p \in Process, NEW n \in Name, get_lock(p, n) PROVE SweepOK'
  BY <1>8 DEF get_lock, SweepOK, TypeOK, sweep
<1>9. ASSUME NEW p \in Process, NEW n \in Name, release_lock(p, n) PROVE SweepOK'
  BY <1>9 DEF release_lock, SweepOK, TypeOK, sweep
<1>10. ASSUME NEW p \in Process, NEW n \in Name, UseRemoved(p, n) PROVE SweepOK'
  BY <1>10 DEF UseRemoved, SweepOK, TypeOK, sweep
<1>11. ASSUME NEW s \in Slot, ManagerExpire(s) PROVE SweepOK'
  BY <1>11 DEF ManagerExpire, SweepOK, TypeOK, sweep
<1>12. ASSUME NEW s \in Slot, ManagerCheck(s) PROVE SweepOK'
  BY <1>12 DEF ManagerCheck, SweepOK, TypeOK, sweep
<1>13. ASSUME NEW s \in Slot, Age(s) PROVE SweepOK'
  BY <1>13 DEF Age, SweepOK, TypeOK, sweep
<1>14. CASE ManagerName
  BY <1>14 DEF ManagerName, SweepOK, TypeOK, sweep, RecordOK, Used
<1>15. CASE ManagerRemove
  BY <1>15 DEF ManagerRemove, SweepOK, TypeOK, sweep
<1>16. CASE RestartKeep
  BY <1>16 DEF RestartKeep, SweepOK, TypeOK, sweep, Restart
<1>17. CASE RestartReset
  BY <1>17 DEF RestartReset, SweepOK, TypeOK, sweep, Restart
<1>18. CASE ManagerReset
  BY <1>18 DEF ManagerReset, SweepOK, TypeOK, sweep
<1> QED
  BY <1>1, <1>2, <1>3, <1>4, <1>5, <1>6, <1>7, <1>8, <1>9, <1>10, <1>11, <1>12,
     <1>13, <1>14, <1>15, <1>16, <1>17, <1>18 DEF Next

CountOK == /\ used_count \in 0 .. Modulus - 1
           /\ restarts \in Nat /\ history \subseteq {"removed", "restarted"}

(* and of the counters.                                                     *)
LEMMA CountType ==
  ASSUME TypeOK, Next
  PROVE  CountOK'
<1> USE NameAssumption, CountAssumption DEF Slot, CountOK
<1>1. ASSUME NEW p \in Process, Stamp(p) PROVE CountOK'
  BY <1>1 DEF Stamp, TypeOK
<1>2. ASSUME NEW p \in Process, Crash(p) PROVE CountOK'
  BY <1>2 DEF Crash, TypeOK
<1>3. ASSUME NEW p \in Process, NEW n \in Name, AddFirst(p, n) PROVE CountOK'
  BY <1>3, AddType DEF AddFirst, TypeOK
<1>4. ASSUME NEW p \in Process, NEW n \in Name, AddAgain(p, n) PROVE CountOK'
  BY <1>4 DEF AddAgain, TypeOK
<1>5. ASSUME NEW p \in Process, NEW n \in Name, RemoveLast(p, n) PROVE CountOK'
  <2> DEFINE table == Released(p, n)
  <2>1. table \in Tables
    BY ReleasedType
  <2>2. remove_lock(table, n)
    BY <1>5 DEF RemoveLast, Released
  <2> HIDE DEF table
  <2> QED
    BY <2>1, <2>2, <1>5, RemoveType DEF RemoveLast, TypeOK
<1>6. ASSUME NEW p \in Process, NEW n \in Name, RemoveOther(p, n) PROVE CountOK'
  BY <1>6 DEF RemoveOther, TypeOK
<1>7. ASSUME NEW p \in Process, NEW n \in Name, Dispose(p, n) PROVE CountOK'
  <2>1. locks \in Tables
    BY DEF TypeOK, RecordOK, Tables
  <2> QED
    BY <2>1, <1>7, RemoveType DEF Dispose, TypeOK
<1>8. ASSUME NEW p \in Process, NEW n \in Name, get_lock(p, n) PROVE CountOK'
  BY <1>8 DEF get_lock, TypeOK
<1>9. ASSUME NEW p \in Process, NEW n \in Name, release_lock(p, n) PROVE CountOK'
  BY <1>9 DEF release_lock, TypeOK
<1>10. ASSUME NEW p \in Process, NEW n \in Name, UseRemoved(p, n) PROVE CountOK'
  BY <1>10 DEF UseRemoved, TypeOK
<1>11. ASSUME NEW s \in Slot, ManagerExpire(s) PROVE CountOK'
  BY <1>11 DEF ManagerExpire, TypeOK
<1>12. ASSUME NEW s \in Slot, ManagerCheck(s) PROVE CountOK'
  BY <1>12 DEF ManagerCheck, TypeOK
<1>13. ASSUME NEW s \in Slot, Age(s) PROVE CountOK'
  BY <1>13 DEF Age, TypeOK
<1>14. CASE ManagerName
  BY <1>14 DEF ManagerName, TypeOK
<1>15. CASE ManagerRemove
  <2>1. locks \in Tables
    BY DEF TypeOK, RecordOK, Tables
  <2> QED
    BY <2>1, <1>15, RemoveType DEF ManagerRemove, TypeOK
<1>16. CASE RestartKeep
  BY <1>16 DEF RestartKeep, TypeOK, Restart
<1>17. CASE RestartReset
  BY <1>17 DEF RestartReset, TypeOK, Restart
<1>18. CASE ManagerReset
  BY <1>18 DEF ManagerReset, TypeOK
<1> QED
  BY <1>1, <1>2, <1>3, <1>4, <1>5, <1>6, <1>7, <1>8, <1>9, <1>10, <1>11, <1>12,
     <1>13, <1>14, <1>15, <1>16, <1>17, <1>18 DEF Next

(* The table's records, the clients' objects and counters, and the          *)
(* manager's scan keep their types; used_count stays within its 32 bits.    *)
THEOREM TypeCorrect == Spec => []TypeOK
<1>1. Init => TypeOK
  BY NameAssumption, CountAssumption
  DEF Init, TypeOK, RecordOK, ClientOK, SweepOK, Unused, Slot
<1>2. TypeOK /\ [Next]_vars => TypeOK'
  <2>1. CASE Next
    BY <2>1, RecordType, ClientType, SweepType, CountType DEF TypeOK, CountOK
  <2>2. CASE UNCHANGED vars
    BY <2>2 DEF vars, client, sweep, TypeOK, RecordOK, ClientOK, SweepOK, Slot
  <2> QED
    BY <2>1, <2>2
<1> QED
  BY <1>1, <1>2, PTL DEF Spec

----------------------------------------------------------------------------
(* What a step does to the names in the table, seen from its records.       *)
Others(s) == \A t \in Slot \ {s} : locks'[t].name = locks[t].name
SameNames == (\A t \in Slot : locks'[t].name = locks[t].name) /\ UNCHANGED used_count
Adds(s) == /\ ~Used(s) /\ locks'[s].name # NoName /\ Others(s)
           /\ used_count' = used_count + 1
Removes(s) == /\ Used(s) /\ locks'[s].name = NoName /\ Others(s)
              /\ used_count' = (IF used_count = 0 THEN Modulus - 1 ELSE used_count - 1)
              /\ history' # {}
Changes == SameNames \/ (\E s \in Slot : Adds(s)) \/ (\E s \in Slot : Removes(s))

LEMMA AddChanges ==
  ASSUME TypeOK, NEW n \in Name, NEW s, add_lock(n, s)
  PROVE  SameNames \/ (s \in Slot /\ Adds(s))
<1>1. CASE UNCHANGED <<locks, used_count>>
  BY <1>1 DEF SameNames
<1>2. CASE First(s, FreeBefore(n)) /\ used_count' = used_count + 1
           /\ locks' = [locks EXCEPT ![s] = [name |-> n, last_used |-> "zero", owner |-> NoProcess]]
  <2>1. s \in Slot /\ ~Used(s)
    BY <1>2 DEF First, FreeBefore
  <2> QED
    BY <1>2, <2>1, NameAssumption DEF Adds, Others, TypeOK, RecordOK
<1> QED
  BY <1>1, <1>2 DEF add_lock

LEMMA RemoveChanges ==
  ASSUME TypeOK, NEW table \in Tables, NEW n, n # NoName, remove_lock(table, n),
         \A t \in Slot : table[t].name = locks[t].name
  PROVE  Changes /\ history \subseteq history'
<1>1. CASE locks' = table /\ UNCHANGED <<used_count, history>>
  BY <1>1 DEF Changes, SameNames
<1>2. CASE ~(locks' = table /\ UNCHANGED <<used_count, history>>)
  <2>1. PICK s \in Slot : First(s, Found(n)) /\ locks' = [table EXCEPT ![s] = Unused]
    BY <1>2 DEF remove_lock
  <2>2. /\ used_count' = (IF used_count = 0 THEN Modulus - 1 ELSE used_count - 1)
        /\ history' = history \cup {"removed"}
    BY <1>2 DEF remove_lock
  <2>3. locks[s].name = n
    BY <2>1 DEF First, Found
  <2>4. locks'[s].name = NoName /\ Others(s)
    BY <2>1 DEF Unused, Tables, Others
  <2>5. Removes(s)
    BY <2>2, <2>3, <2>4 DEF Removes, Used
  <2> QED
    BY <2>5, <2>2 DEF Changes
<1> QED
  BY <1>1, <1>2

(* Every step changes at most one name, unless the manager restarts.        *)
LEMMA StepTable ==
  ASSUME TypeOK, Next
  PROVE  /\ history \subseteq history'
         /\ \/ Changes
            \/ "restarted" \in history' /\ (\A t \in Slot : locks'[t].name = locks[t].name)
            \/ manager = "clear"
         /\ manager' = "clear" => manager = "clear" \/ "restarted" \in history'
<1> DEFINE Goal == /\ history \subseteq history'
                   /\ \/ Changes
                      \/ /\ "restarted" \in history'
                         /\ \A t \in Slot : locks'[t].name = locks[t].name
                      \/ manager = "clear"
                   /\ manager' = "clear" => manager = "clear" \/ "restarted" \in history'
<1> USE NameAssumption, CountAssumption
<1>1. ASSUME NEW p \in Process, Stamp(p) PROVE Goal
  BY <1>1 DEF Stamp, Changes, SameNames, TypeOK, RecordOK, sweep
<1>2. ASSUME NEW p \in Process, Crash(p) PROVE Goal
  BY <1>2 DEF Crash, Changes, SameNames, TypeOK, RecordOK, sweep
<1>3. ASSUME NEW p \in Process, NEW n \in Name, AddFirst(p, n) PROVE Goal
  <2>1. PICK s \in Slot : add_lock(n, s)
    BY <1>3 DEF AddFirst
  <2>2. Changes
    BY <2>1, AddChanges DEF Changes
  <2> QED
    BY <2>2, <1>3 DEF AddFirst, sweep
<1>4. ASSUME NEW p \in Process, NEW n \in Name, AddAgain(p, n) PROVE Goal
  BY <1>4 DEF AddAgain, Changes, SameNames, TypeOK, RecordOK, sweep
<1>5. ASSUME NEW p \in Process, NEW n \in Name, RemoveLast(p, n) PROVE Goal
  <2> DEFINE table == Released(p, n)
  <2>1. table \in Tables /\ \A t \in Slot : table[t].name = locks[t].name
    BY ReleasedType
  <2>2. remove_lock(table, n)
    BY <1>5 DEF RemoveLast, Released
  <2> HIDE DEF table
  <2>3. Changes /\ history \subseteq history'
    BY <2>1, <2>2, RemoveChanges, NameAssumption
  <2> QED
    BY <2>3, <1>5 DEF RemoveLast, sweep
<1>6. ASSUME NEW p \in Process, NEW n \in Name, RemoveOther(p, n) PROVE Goal
  BY <1>6 DEF RemoveOther, Changes, SameNames, TypeOK, RecordOK, sweep
<1>7. ASSUME NEW p \in Process, NEW n \in Name, Dispose(p, n) PROVE Goal
  <2>1. locks \in Tables
    BY DEF TypeOK, RecordOK, Tables
  <2> QED
    BY <2>1, <1>7, RemoveChanges, NameAssumption DEF Dispose, sweep
<1>8. ASSUME NEW p \in Process, NEW n \in Name, get_lock(p, n) PROVE Goal
  BY <1>8 DEF get_lock, Changes, SameNames, TypeOK, RecordOK, sweep
<1>9. ASSUME NEW p \in Process, NEW n \in Name, release_lock(p, n) PROVE Goal
  BY <1>9 DEF release_lock, Changes, SameNames, TypeOK, RecordOK, sweep
<1>10. ASSUME NEW p \in Process, NEW n \in Name, UseRemoved(p, n) PROVE Goal
  BY <1>10 DEF UseRemoved, Changes, SameNames, TypeOK, RecordOK, sweep
<1>11. ASSUME NEW s \in Slot, ManagerExpire(s) PROVE Goal
  BY <1>11 DEF ManagerExpire, Changes, SameNames, TypeOK, RecordOK, sweep
<1>12. ASSUME NEW s \in Slot, ManagerCheck(s) PROVE Goal
  BY <1>12 DEF ManagerCheck, Changes, SameNames, TypeOK, RecordOK, sweep
<1>13. ASSUME NEW s \in Slot, Age(s) PROVE Goal
  BY <1>13 DEF Age, Changes, SameNames, TypeOK, RecordOK, sweep
<1>14. CASE ManagerName
  BY <1>14 DEF ManagerName, Changes, SameNames, TypeOK, RecordOK, sweep
<1>15. CASE ManagerRemove
  <2>1. locks \in Tables
    BY DEF TypeOK, RecordOK, Tables
  <2>2. remove_lock(locks, target) /\ manager' = "sleep"
    BY <1>15 DEF ManagerRemove
  <2>3. ~(target = NoName)
    BY <1>15, NameAssumption DEF ManagerRemove, TypeOK, SweepOK
  <2> QED
    BY <2>1, <2>2, <2>3, RemoveChanges
<1>16. CASE RestartKeep
  BY <1>16 DEF RestartKeep, Changes, SameNames, TypeOK, RecordOK, sweep, Restart
<1>17. CASE RestartReset
  BY <1>17 DEF RestartReset, Changes, SameNames, TypeOK, RecordOK, sweep, Restart
<1>18. CASE ManagerReset
  BY <1>18 DEF ManagerReset, Changes, SameNames, TypeOK, RecordOK, sweep
<1> QED
  BY <1>1, <1>2, <1>3, <1>4, <1>5, <1>6, <1>7, <1>8, <1>9, <1>10, <1>11, <1>12,
     <1>13, <1>14, <1>15, <1>16, <1>17, <1>18 DEF Next

(* used_count is the number of used records until the manager restarts.     *)
Resetting == manager = "clear" => "restarted" \in history

LEMMA StepCount ==
  ASSUME TypeOK, Resetting, CountAgrees, Next
  PROVE  Resetting' /\ CountAgrees'
<1>1. history \subseteq history' /\ Resetting'
  BY StepTable DEF Resetting
<1>2. CASE "restarted" \in history'
  BY <1>1, <1>2 DEF CountAgrees
<1>3. CASE "restarted" \notin history'
  <2>1. "restarted" \notin history /\ manager # "clear"
    BY <1>1, <1>3 DEF Resetting
  <2>2. used_count = Cardinality(UsedSlots)
    BY <2>1 DEF CountAgrees
  <2>3. IsFiniteSet(UsedSlots)
    <3>1. IsFiniteSet(Slot) /\ UsedSlots \in SUBSET Slot
      BY CountAssumption, FS_Interval DEF Slot, UsedSlots
    <3> QED
      BY <3>1, FS_Subset
  <2>4. SUFFICES used_count' = Cardinality(UsedSlots')
    BY <1>1 DEF CountAgrees
  <2>5. Changes
    BY <1>3, <2>1, StepTable
  <2>6. CASE SameNames
    <3>1. UsedSlots' = UsedSlots
      BY <2>6 DEF SameNames, UsedSlots, Used, Slot
    <3> QED
      BY <2>2, <2>6, <3>1 DEF SameNames
  <2>7. ASSUME NEW s \in Slot, Adds(s) PROVE used_count' = Cardinality(UsedSlots')
    <3>1. UsedSlots' = UsedSlots \cup {s}
      BY <2>7 DEF Adds, Others, UsedSlots, Used, Slot
    <3>2. s \notin UsedSlots
      BY <2>7 DEF Adds, UsedSlots
    <3>3. Cardinality(UsedSlots') = Cardinality(UsedSlots) + 1
      BY <2>3, <3>1, <3>2, FS_AddElement
    <3> QED
      BY <2>2, <2>7, <3>3 DEF Adds
  <2>8. ASSUME NEW s \in Slot, Removes(s) PROVE used_count' = Cardinality(UsedSlots')
    <3>1. UsedSlots' = UsedSlots \ {s}
      BY <2>8 DEF Removes, Others, UsedSlots, Used, Slot
    <3>2. s \in UsedSlots
      BY <2>8 DEF Removes, UsedSlots
    <3>3. Cardinality(UsedSlots') = Cardinality(UsedSlots) - 1
      BY <2>3, <3>1, <3>2, FS_RemoveElement
    <3>4. used_count # 0
      BY <2>2, <2>3, <3>2, FS_EmptySet
    <3> QED
      BY <2>2, <2>8, <3>3, <3>4 DEF Removes
  <2> QED
    BY <2>5, <2>6, <2>7, <2>8 DEF Changes
<1> QED
  BY <1>1, <1>2, <1>3

(* The count by which add_lock refuses a new lock is right, for any number  *)
(* of records, processes and names, until the manager restarts.             *)
THEOREM Count == Spec => []CountAgrees
<1>1. Init => Resetting /\ CountAgrees
  <2>1. ASSUME Init PROVE UsedSlots = {} /\ used_count = 0 /\ manager = "sleep"
    BY <2>1 DEF Init, UsedSlots, Used, Unused
  <2> QED
    BY <2>1, FS_EmptySet DEF Resetting, CountAgrees
<1>2. TypeOK /\ Resetting /\ CountAgrees /\ [Next]_vars => Resetting' /\ CountAgrees'
  <2>1. CASE UNCHANGED vars
    BY <2>1 DEF vars, sweep, Resetting, CountAgrees, UsedSlots, Used, Slot
  <2> QED
    BY <2>1, StepCount
<1> QED
  BY <1>1, <1>2, TypeCorrect, PTL DEF Spec

----------------------------------------------------------------------------
(* As long as no record is removed, the objects of a step's clients keep    *)
(* their records, or get the one that add_lock returns.                     *)
SameRecords == /\ \A t \in Slot : locks'[t].name = locks[t].name
               /\ \A p \in Process, n \in Name : reference_count'[p][n] > 0 =>
                    /\ reference_count[p][n] > 0
                    /\ lock_struct'[p][n] = lock_struct[p][n]
NewRecord(p, n, s) == /\ add_lock(n, s)
                      /\ lock_struct' = [lock_struct EXCEPT ![p][n] = s]
                      /\ reference_count' = [reference_count EXCEPT ![p][n] = 1]

LEMMA DieSame ==
  ASSUME TypeOK, NEW p \in Process, Die(p)
  PROVE  \A q \in Process, m \in Name : reference_count'[q][m] > 0 =>
           reference_count[q][m] > 0 /\ lock_struct'[q][m] = lock_struct[q][m]
BY DEF Die, NoObjects, TypeOK, ClientOK

LEMMA DestroySame ==
  ASSUME TypeOK, NEW p \in Process, NEW n \in Name, NEW next, Destroy(p, n, next)
  PROVE  \A q \in Process, m \in Name : reference_count'[q][m] > 0 =>
           reference_count[q][m] > 0 /\ lock_struct'[q][m] = lock_struct[q][m]
<1>1. CASE Die(p)
  BY <1>1, DieSame
<1>2. CASE ~Die(p)
  <2>1. /\ lock_struct' = [lock_struct EXCEPT ![p][n] = 0]
        /\ reference_count' = [reference_count EXCEPT ![p][n] = 0]
    BY <1>2 DEF Destroy
  <2> QED
    BY <2>1 DEF TypeOK, ClientOK
<1> QED
  BY <1>1, <1>2

LEMMA RemoveNone ==
  ASSUME NEW table, NEW n, remove_lock(table, n), history' = {}
  PROVE  locks' = table
BY DEF remove_lock

LEMMA StepRecords ==
  ASSUME TypeOK, Resetting, history' = {}, Next
  PROVE  \/ SameRecords
         \/ \E p \in Process, n \in Name, s \in Slot : NewRecord(p, n, s)
<1>1. history = {} /\ manager # "clear"
  BY StepTable DEF Resetting
<1>2. ASSUME NEW p \in Process, Stamp(p) PROVE SameRecords
  BY <1>2 DEF Stamp, SameRecords, TypeOK, RecordOK, ClientOK, client
<1>3. ASSUME NEW p \in Process, Crash(p) PROVE SameRecords
  BY <1>3, DieSame DEF Crash, SameRecords
<1>4. ASSUME NEW p \in Process, NEW n \in Name, AddFirst(p, n)
      PROVE  \E s \in Slot : NewRecord(p, n, s)
  <2>1. PICK s \in Slot : NewRecord(p, n, s)
    BY <1>4 DEF AddFirst, NewRecord
  <2> QED
    BY <2>1
<1>5. ASSUME NEW p \in Process, NEW n \in Name, AddAgain(p, n) PROVE SameRecords
  BY <1>5 DEF AddAgain, SameRecords, TypeOK, RecordOK, ClientOK, client
<1>6. ASSUME NEW p \in Process, NEW n \in Name, RemoveLast(p, n) PROVE SameRecords
  <2>1. locks' = IF has_write_lock(p, n)
                 THEN [locks EXCEPT ![lock_struct[p][n]].owner = NoProcess] ELSE locks
    BY <1>6, RemoveNone DEF RemoveLast
  <2>2. \A t \in Slot : locks'[t].name = locks[t].name
    BY <2>1 DEF TypeOK, RecordOK
  <2>3. PICK next : Destroy(p, n, next)
    BY <1>6 DEF RemoveLast
  <2> QED
    BY <2>2, <2>3, DestroySame DEF SameRecords
<1>7. ASSUME NEW p \in Process, NEW n \in Name, RemoveOther(p, n) PROVE SameRecords
  BY <1>7 DEF RemoveOther, SameRecords, TypeOK, RecordOK, ClientOK, client
<1>8. ASSUME NEW p \in Process, NEW n \in Name, Dispose(p, n) PROVE SameRecords
  <2>1. locks' = locks
    BY <1>8, RemoveNone DEF Dispose
  <2>2. \A t \in Slot : locks'[t].name = locks[t].name
    BY <2>1 DEF TypeOK, RecordOK
  <2>3. PICK next : Destroy(p, n, next)
    BY <1>8 DEF Dispose
  <2> QED
    BY <2>2, <2>3, DestroySame DEF SameRecords
<1>9. ASSUME NEW p \in Process, NEW n \in Name, get_lock(p, n) PROVE SameRecords
  BY <1>9 DEF get_lock, SameRecords, TypeOK, RecordOK, ClientOK, client
<1>10. ASSUME NEW p \in Process, NEW n \in Name, release_lock(p, n) PROVE SameRecords
  BY <1>10 DEF release_lock, SameRecords, TypeOK, RecordOK, ClientOK, client
<1>11. ASSUME NEW p \in Process, NEW n \in Name, UseRemoved(p, n) PROVE SameRecords
  BY <1>11, DieSame DEF UseRemoved, SameRecords
<1>12. ASSUME NEW s \in Slot, ManagerExpire(s) PROVE SameRecords
  BY <1>12 DEF ManagerExpire, SameRecords, TypeOK, RecordOK, ClientOK, client
<1>13. ASSUME NEW s \in Slot, ManagerCheck(s) PROVE SameRecords
  BY <1>13 DEF ManagerCheck, SameRecords, TypeOK, RecordOK, ClientOK, client
<1>14. ASSUME NEW s \in Slot, Age(s) PROVE SameRecords
  BY <1>14 DEF Age, SameRecords, TypeOK, RecordOK, ClientOK, client
<1>15. ASSUME ManagerName PROVE SameRecords
  BY <1>15 DEF ManagerName, SameRecords, TypeOK, RecordOK, ClientOK, client
<1>16. ASSUME ManagerRemove PROVE SameRecords
  BY <1>16, RemoveNone DEF ManagerRemove, SameRecords, client
<1>17. ASSUME RestartKeep PROVE SameRecords
  BY <1>17 DEF RestartKeep, Restart
<1>18. ASSUME RestartReset PROVE SameRecords
  BY <1>18 DEF RestartReset, Restart
<1>19. ASSUME ManagerReset PROVE SameRecords
  BY <1>1, <1>19 DEF ManagerReset
<1> QED
  BY <1>2, <1>3, <1>4, <1>5, <1>6, <1>7, <1>8, <1>9, <1>10, <1>11, <1>12, <1>13,
     <1>14, <1>15, <1>16, <1>17, <1>18, <1>19 DEF Next

(* add_lock finds the record of the name, if there is one, because there is *)
(* no free slot before it.                                                  *)
LEMMA NoneBefore ==
  ASSUME TypeOK, Prefix, NEW n \in Name, NEW s \in FreeBefore(n)
  PROVE  Found(n) = {} /\ s \in Slot /\ ~Used(s)
<1>1. s \in Slot /\ ~Used(s) /\ \A f \in Found(n) : s < f
  BY DEF FreeBefore
<1>2. ASSUME NEW f \in Found(n) PROVE FALSE
  <2>1. f \in Slot /\ Used(f) /\ s < f
    BY <1>1, <1>2, NameAssumption DEF Found, Used
  <2>2. s <= f
    BY <1>1, <2>1 DEF Slot
  <2> QED
    BY <1>1, <2>1, <2>2 DEF Prefix
<1> QED
  BY <1>1, <1>2

LEMMA StepIInv ==
  ASSUME TypeOK, Resetting, history = {}, history' = {}, Prefix, OneEach, Pointed, Next
  PROVE  Prefix' /\ OneEach' /\ Pointed'
<1> USE DEF Used, Valid, Object
<1>1. CASE SameRecords
  <2>1. Prefix' /\ OneEach'
    BY <1>1 DEF SameRecords, Prefix, OneEach, Slot
  <2>2. Pointed'
    BY <1>1 DEF SameRecords, Pointed, Slot
  <2> QED
    BY <2>1, <2>2
<1>2. ASSUME NEW p \in Process, NEW n \in Name, NEW s \in Slot, NewRecord(p, n, s)
      PROVE  Prefix' /\ OneEach' /\ Pointed'
  <2>1. /\ lock_struct' = [lock_struct EXCEPT ![p][n] = s]
        /\ reference_count' = [reference_count EXCEPT ![p][n] = 1]
    BY <1>2 DEF NewRecord
  <2>2. CASE First(s, Found(n)) /\ UNCHANGED locks
    <3>1. locks[s].name = n
      BY <2>2 DEF First, Found
    <3>2. Pointed'
      BY <2>1, <2>2, <3>1 DEF Pointed, TypeOK, ClientOK, Slot
    <3> QED
      BY <2>2, <3>2 DEF Prefix, OneEach, Slot
  <2>3. CASE /\ First(s, FreeBefore(n))
             /\ locks' = [locks EXCEPT ![s] = [name |-> n, last_used |-> "zero", owner |-> NoProcess]]
    <3>1. Found(n) = {} /\ ~Used(s)
      BY <2>3, NoneBefore DEF First
    <3>2. ASSUME NEW t \in Slot, t < s PROVE Used(t)
      <4>1. ~Used(t) => t \in FreeBefore(n)
        BY <3>1 DEF FreeBefore
      <4> QED
        BY <2>3, <3>2, <4>1 DEF First, Slot
    <3>3. /\ locks'[s].name = n
          /\ \A t \in Slot \ {s} : locks'[t].name = locks[t].name
      BY <2>3 DEF TypeOK, RecordOK
    <3>4. Prefix'
      <4>1. SUFFICES ASSUME NEW t \in Slot, NEW u \in Slot, t <= u, locks'[u].name # NoName
                     PROVE  locks'[t].name # NoName
        BY DEF Prefix, Slot
      <4>2. CASE t = s
        BY <4>2, <3>3, NameAssumption
      <4>3. CASE t # s /\ u = s
        BY <4>1, <4>3, <3>2, <3>3 DEF Slot
      <4>4. CASE t # s /\ u # s
        BY <4>1, <4>4, <3>3 DEF Prefix
      <4> QED
        BY <4>2, <4>3, <4>4
    <3>5. OneEach'
      <4>1. \A t \in Slot : locks[t].name # n
        BY <3>1 DEF Found
      <4> QED
        BY <3>3, <4>1 DEF OneEach, Slot
    <3>6. Pointed'
      <4>1. SUFFICES ASSUME NEW q \in Process, NEW m \in Name, reference_count'[q][m] > 0
                    
                     PROVE   lock_struct'[q][m] \in Slot /\ locks'[lock_struct'[q][m]].name = m
        BY DEF Pointed, Slot
      <4>2. CASE q = p /\ m = n
        BY <4>2, <2>1, <3>3 DEF TypeOK, ClientOK
      <4>3. CASE ~(q = p /\ m = n)
        <5>1. lock_struct'[q][m] = lock_struct[q][m] /\ reference_count'[q][m] = reference_count[q][m]
          BY <4>3, <2>1 DEF TypeOK, ClientOK
        <5>2. lock_struct[q][m] \in Slot /\ locks[lock_struct[q][m]].name = m
          BY <4>1, <5>1 DEF Pointed
        <5>3. lock_struct[q][m] # s
          BY <3>1, <5>2, NameAssumption
        <5> QED
          BY <5>1, <5>2, <5>3, <3>3
      <4> QED
        BY <4>2, <4>3
    <3> QED
      BY <3>4, <3>5, <3>6
  <2> QED
    BY <1>2, <2>2, <2>3 DEF NewRecord, add_lock
<1> QED
  BY <1>1, <1>2, StepRecords

(* Until a record is removed or the manager restarts, a name has one        *)
(* record, and every process that uses the name points to it.               *)
THEOREM OneRecord == Spec => []IInv
<1>1. Init => Resetting /\ IInv
  BY NameAssumption DEF Init, Resetting, IInv, Prefix, OneEach, Pointed, Used,
     Unused, Slot
<1>2. TypeOK /\ Resetting /\ IInv /\ [Next]_vars => Resetting' /\ IInv'
  <2>1. ASSUME TypeOK, Resetting, IInv, Next PROVE Resetting' /\ IInv'
    <3>1. history \subseteq history' /\ Resetting'
      BY <2>1, StepTable DEF Resetting
    <3>2. CASE history' # {}
      BY <3>1, <3>2 DEF IInv
    <3>3. CASE history' = {}
      <4>1. history = {} /\ Prefix /\ OneEach /\ Pointed
        BY <3>1, <3>3, <2>1 DEF IInv
      <4>2. Prefix' /\ OneEach' /\ Pointed'
        BY <2>1, <3>3, <4>1, StepIInv
      <4> QED
        BY <3>1, <4>2 DEF IInv
    <3> QED
      BY <3>2, <3>3
  <2>2. CASE UNCHANGED vars
    BY <2>2 DEF vars, client, sweep, Resetting, IInv, Prefix, OneEach, Pointed,
       Used, Valid, Object, Slot
  <2> QED
    BY <2>1, <2>2
<1> QED
  BY <1>1, <1>2, TypeCorrect, PTL DEF Spec

(* So until then two processes never have the write lock of one name.       *)
THEOREM Exclusion == Spec => []ExclusiveUntilRemoved
<1>1. IInv => ExclusiveUntilRemoved
  <2>1. ASSUME OneEach, Pointed, NEW p \in Process, NEW q \in Process, NEW n \in Name,
               has_write_lock(p, n), has_write_lock(q, n)
        PROVE  p = q
    <3>1. lock_struct[p][n] = lock_struct[q][n]
      BY <2>1, NameAssumption DEF has_write_lock, Pointed, OneEach, Valid,
         Object, Used
    <3> QED
      BY <2>1, <3>1 DEF has_write_lock, Object
  <2> QED
    BY <2>1 DEF IInv, ExclusiveUntilRemoved, Exclusive
<1> QED
  BY <1>1, OneRecord, PTL
============================================================================
