----------------------------- MODULE RecordLog -----------------------------
(* What a block, indexed or not, promises to its users: a log of            *)
(* records that one transaction at a time appends to and deletes from.  The *)
(* appends of a transaction appear all at once, its deletes one by one      *)
(* while it commits, and no record disappears or is revived.                *)
EXTENDS Naturals, Sequences

CONSTANTS
  Process, NoProcess,
  KeepsRequests   \* requests outlive a transaction whose lock has expired

VARIABLES
  log,        \* the committed records, each "live" or "deleted"
  writer,     \* the process whose transaction is open
  appended,   \* records it has appended so far
  requested,  \* [Process -> set of indices it asked to delete]
  broken      \* nothing is promised any more

vars == <<log, writer, appended, requested, broken>>

Init == /\ log = <<>> /\ writer = NoProcess /\ appended = 0
        /\ requested = [p \in Process |-> {}]
        /\ broken = FALSE

(* A start opens a transaction or, when its process has it open already,    *)
(* empties it.                                                              *)
Begin(p) == /\ writer \in {p, NoProcess}
            /\ writer' = p /\ appended' = 0
            /\ requested' = IF KeepsRequests THEN requested ELSE [requested EXCEPT ![p] = {}]
            /\ UNCHANGED <<log, broken>>

Write(p) == /\ writer = p
             /\ appended' = appended + 1
             /\ UNCHANGED <<log, writer, requested, broken>>

Request(p, i) == /\ writer = p
                 /\ requested' = [requested EXCEPT ![p] = @ \cup {i}]
                 /\ UNCHANGED <<log, writer, appended, broken>>

Delete(p, i) == /\ writer = p /\ i \in requested[p]
                /\ log' = [log EXCEPT ![i] = "deleted"]
                /\ UNCHANGED <<writer, appended, requested, broken>>

Deleted(p) == /\ writer = p
              /\ \A i \in requested[p] \cap DOMAIN log : log[i] = "deleted"
              /\ requested' = [requested EXCEPT ![p] = {}]
              /\ UNCHANGED <<log, writer, appended, broken>>

Publish(p) == /\ writer = p /\ requested[p] = {}
              /\ log' = log \o [i \in 1 .. appended |-> "live"]
              /\ writer' = NoProcess /\ appended' = 0
              /\ UNCHANGED <<requested, broken>>

(* A rollback, a close or the death of the process.  An open transaction is *)
(* dropped with its requests.                                               *)
Abort(p) == /\ requested' = [requested EXCEPT ![p] = {}]
            /\ IF writer = p THEN writer' = NoProcess /\ appended' = 0
                             ELSE UNCHANGED <<writer, appended>>
            /\ UNCHANGED <<log, broken>>

(* The lock expired or the block was closed: the appends are dropped, the   *)
(* requests may wait for the next transaction of the process.               *)
Expire == /\ writer' = NoProcess /\ appended' = 0
          /\ requested' = IF KeepsRequests THEN requested ELSE [p \in Process |-> {}]
          /\ UNCHANGED <<log, broken>>

(* Where the code gives up: see the faults of the block that implements it. *)
Break == /\ broken' = TRUE /\ log' = log

Next == \/ ~broken /\ \/ \E p \in Process :
                           \/ Begin(p) \/ Write(p) \/ Deleted(p) \/ Publish(p) \/ Abort(p)
                           \/ \E i \in 1 .. Len(log) + 1 : Request(p, i)
                           \/ \E i \in DOMAIN log : Delete(p, i)
                      \/ Expire \/ Break
        \/ broken /\ broken'

Spec == Init /\ [][Next]_vars
============================================================================
