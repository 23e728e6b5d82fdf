----------------------------- MODULE ThreadPool -----------------------------
(* common/includes/__threads.h: a pool of threads over a queue of tasks or  *)
(* over a registry of periodic ones.                                        *)
(*                                                                          *)
(* The queue and the registry change under their mutex.  The state of a     *)
(* thread is stored by the thread and by whoever stops it, without one.  A  *)
(* callback ends, with or without an exception; an exception out of its     *)
(* error() would end the process.                                           *)
EXTENDS SequencesExt

CONSTANTS Thread, Task, NoTask

ASSUME TaskAssumption == IsFiniteSet(Task) /\ NoTask \notin Task

VARIABLES
  kind,     \* fixed: "queue", "flush" (flush_before_stop) or "registry"
  pool,     \* the pool's state: "available" or "disposed"
  task_queue,
  map,      \* the registered tasks
  due,      \* those of them whose can_run() is true
  state,    \* [Thread -> __thread_state_enum]
  pc, task, \* where the thread is in run(), and its local variable
  adding,   \* tasks between the check of add_task and its push
  added,    \* history: tasks that were pushed
  done,     \* history: tasks whose callback has ended
  stopper,  \* where the owner is in stop()
  told,     \* the threads whose state it has set
  lost      \* history: threads that have overwritten what it set

tasks == <<task_queue, map, due>>
thread == <<state, pc, task>>
users == <<adding, added>>
owner == <<pool, stopper, told>>
vars == <<kind, tasks, thread, users, owner, done, lost>>

Init ==
  /\ kind \in {"queue", "flush", "registry"}
  /\ task_queue = <<>> /\ map = {} /\ due = {}
  /\ state = [t \in Thread |-> "unknown"]
  /\ pc = [t \in Thread |-> "new"] /\ task = [t \in Thread |-> NoTask]
  /\ adding = {} /\ added = {} /\ done = {} /\ lost = {}
  /\ pool = "available" /\ stopper = "none" /\ told = {}

----------------------------------------------------------------------------
(* __m_thread::run                                                          *)

At(t, from, to) == pc[t] = from /\ pc' = [pc EXCEPT ![t] = to]
SetState(t, s) == /\ state' = [state EXCEPT ![t] = s]
                  /\ lost' = IF state[t] = "stopped" THEN lost \cup {t} ELSE lost

Begin(t) == /\ At(t, "begin", "check") /\ SetState(t, "available")
            /\ UNCHANGED <<kind, tasks, task, users, owner, done>>

\* Mutant: the loop does not look at the state.
CheckNever(t) == /\ At(t, "check", "next")
                 /\ UNCHANGED <<kind, tasks, state, task, users, owner, done, lost>>

Check(t) == /\ At(t, "check", IF state[t] = "stopped" THEN "ended" ELSE "next")
            /\ UNCHANGED <<kind, tasks, state, task, users, owner, done, lost>>

(* __thread_stack::next_task, and __runnable_stack's: when the queue is     *)
(* empty, all tasks that are due enter it, in the order of a hash map.      *)
\* Mutant: a task stays in the queue until it has been run.
TakeFrontOnly(t, q) == task' = [task EXCEPT ![t] = Head(q)] /\ task_queue' = q
Take(t, q) == task' = [task EXCEPT ![t] = Head(q)] /\ task_queue' = Tail(q)

\* Mutant: only the first task that is due enters the queue.
RefillFirst(t) == /\ task_queue = <<>> /\ due # {}
                  /\ \E k \in due : Take(t, <<k>>) /\ due' = {}
Refill(t) == /\ task_queue = <<>> /\ due # {}
             /\ \E q \in SetToSeqs(due) : Take(t, q) /\ due' = {}

NextTask(t) ==
  /\ \/ /\ task_queue # <<>> /\ Take(t, task_queue) /\ UNCHANGED due
        /\ At(t, "next", "ready")
     \/ Refill(t) /\ At(t, "next", "ready")
     \/ /\ task_queue = <<>> /\ due = {} /\ At(t, "next", "check")
        /\ UNCHANGED <<task, task_queue, due>>
  /\ UNCHANGED <<kind, map, state, users, owner, done, lost>>

SetRunning(t) == /\ At(t, "ready", "callback") /\ SetState(t, "running")
                 /\ UNCHANGED <<kind, tasks, task, users, owner, done>>

EndCallback(t) == /\ At(t, "callback", "end") /\ done' = done \cup {task[t]}
                  /\ UNCHANGED <<kind, tasks, state, task, users, owner, lost>>

SetAvailable(t) == /\ At(t, "end", "check") /\ SetState(t, "available")
                   /\ task' = [task EXCEPT ![t] = NoTask]
                   /\ UNCHANGED <<kind, tasks, users, owner, done>>

Run(t) == Begin(t) \/ Check(t) \/ NextTask(t) \/ SetRunning(t) \/ EndCallback(t)
          \/ SetAvailable(t)

----------------------------------------------------------------------------
(* __thread_pool                                                            *)

(* The owner starts the pool once.  (A second start throws or does nothing; *)
(* after a stop the pool is not available any more.)                        *)
Started == \A t \in Thread : pc[t] # "new"
Start == /\ pool = "available" /\ \A t \in Thread : pc[t] = "new"
         /\ pc' = [t \in Thread |-> "begin"]
         /\ UNCHANGED <<kind, tasks, state, task, users, owner, done, lost>>

(* A task of a queue is added once, one of a registry also after it was     *)
(* removed.                                                                 *)
AddTask(k) == /\ pool = "available" /\ k \notin adding
              /\ kind # "registry" => k \notin added
              /\ adding' = adding \cup {k}
              /\ UNCHANGED <<kind, tasks, thread, added, owner, done, lost>>

(* The check of the pool's state was a moment ago.  (last_run_time is not   *)
(* initialised.)                                                            *)
Push(k) ==
  /\ k \in adding /\ adding' = adding \ {k} /\ added' = added \cup {k}
  /\ IF kind = "registry"
     THEN map' = map \cup {k} /\ due' \in {due, due \cup {k}} /\ UNCHANGED task_queue
     ELSE task_queue' = Append(task_queue, k) /\ UNCHANGED <<map, due>>
  /\ UNCHANGED <<kind, thread, owner, done, lost>>

(* The task may be in the queue, or running.                                *)
RemoveTask(k) == /\ pool = "available" /\ k \in map
                 /\ map' = map \ {k} /\ due' = due \ {k}
                 /\ UNCHANGED <<kind, task_queue, thread, users, owner, done, lost>>

(* The interval of a periodic task has passed.                              *)
Due(k) == /\ k \in map \ due /\ due' = due \cup {k}
          /\ UNCHANGED <<kind, task_queue, map, thread, users, owner, done, lost>>

Stop == /\ stopper = "none" /\ pool' = "disposed"
        /\ stopper' = IF kind = "flush" THEN "flush" ELSE "stop"
        /\ UNCHANGED <<kind, tasks, thread, users, told, done, lost>>

\* Mutant: the pool does not wait for its queue.
FlushNothing == /\ stopper = "flush" /\ stopper' = "stop"
                /\ UNCHANGED <<kind, tasks, thread, users, pool, told, done, lost>>

Flush == /\ stopper = "flush" /\ task_queue = <<>> /\ stopper' = "stop"
         /\ UNCHANGED <<kind, tasks, thread, users, pool, told, done, lost>>

StopThread(t) == /\ stopper = "stop" /\ t \notin told /\ told' = told \cup {t}
                 /\ state' = [state EXCEPT ![t] = "stopped"]
                 /\ UNCHANGED <<kind, tasks, pc, task, users, pool, stopper, done, lost>>

Join == /\ stopper = "stop" /\ told = Thread
        /\ \A t \in Thread : pc[t] \in {"new", "ended"}
        /\ stopper' = "stopped"
        /\ UNCHANGED <<kind, tasks, thread, users, pool, told, done, lost>>

Stopping == Flush \/ Join \/ \E t \in Thread : StopThread(t)

Next == \/ \E t \in Thread : Run(t)
        \/ \E k \in Task : AddTask(k) \/ Push(k) \/ RemoveTask(k) \/ Due(k)
        \/ Start \/ Stop \/ Stopping

Spec == Init /\ [][Next]_vars

(* Threads run and callbacks end, calls go on, and intervals pass.          *)
FairSpec ==
  /\ Spec /\ WF_vars(Stopping)
  /\ \A t \in Thread : WF_vars(Run(t))
  /\ \A k \in Task : WF_vars(Push(k)) /\ WF_vars(Due(k))
----------------------------------------------------------------------------
TasksOK == task_queue \in Seq(Task) /\ map \subseteq Task /\ due \subseteq map
Busy(t) == task[t] # NoTask
ThreadsOK ==
  /\ state \in [Thread -> {"unknown", "available", "running", "stopped"}]
  /\ pc \in [Thread -> {"new", "begin", "check", "next", "ready", "callback", "end", "ended"}]
  /\ task \in [Thread -> Task \cup {NoTask}]
  /\ \A t \in Thread : Busy(t) <=> pc[t] \in {"ready", "callback", "end"}
PoolOK ==
  /\ kind \in {"queue", "flush", "registry"} /\ pool \in {"available", "disposed"}
  /\ stopper \in {"none", "flush", "stop", "stopped"}
  /\ adding \subseteq Task /\ added \subseteq Task /\ done \subseteq Task
  /\ told \subseteq Thread /\ lost \subseteq Thread
TypeOK == TasksOK /\ ThreadsOK /\ PoolOK

(* A task of a queue is run once: it is not in the queue twice, nor in two  *)
(* threads, nor queued while a thread has it or after its callback ended.   *)
(* (The periodic tasks of a registry may be in two threads at once.)        *)
QueuedOnce ==
  \A i \in DOMAIN task_queue, j \in DOMAIN task_queue : task_queue[i] = task_queue[j] => i = j
TakenOnce ==
  \A t \in Thread : Busy(t) =>
    /\ \A u \in Thread : task[u] = task[t] => u = t
    /\ \A i \in DOMAIN task_queue : task_queue[i] # task[t]
RunOnce ==
  /\ \A i \in DOMAIN task_queue : task_queue[i] \notin done
  /\ \A t \in Thread : pc[t] \in {"ready", "callback"} => task[t] \notin done
Once == kind # "registry" => QueuedOnce /\ TakenOnce /\ RunOnce

(* Why: what is queued, taken or done was added, and is added once.         *)
Accepted ==
  /\ adding \cap added = {} /\ done \subseteq added
  /\ \A i \in DOMAIN task_queue : task_queue[i] \in added
  /\ \A t \in Thread : Busy(t) => task[t] \in added
IInv == TypeOK /\ (kind # "registry" => map = {} /\ Accepted) /\ Once

(* "Ensure the pending tasks are completed prior to shutting down": with    *)
(* flush_before_stop, a task that is queued before the wait is over is run. *)
Pending(k) == /\ kind = "flush" /\ Started /\ stopper \in {"none", "flush"}
              /\ \E i \in DOMAIN task_queue : task_queue[i] = k
Flushed == \A k \in Task : Pending(k) ~> k \in done

(* "The task will keep getting executed ... till they explicitly are        *)
(* removed", or until the pool is stopped.                                  *)
Running(k) == \E t \in Thread : pc[t] = "callback" /\ task[t] = k
Registered ==
  \A k \in Task : k \in map /\ Started ~> Running(k) \/ k \notin map \/ stopper # "none"

(* "Stop the execution of this thread": when the threads have been told,    *)
(* they end and stop() returns.                                             *)
StopReturns == (stopper = "stop") ~> (stopper = "stopped")

(* It does unless a thread stored its own state after it was told.          *)
StopReturnsUnlessLost == (stopper = "stop") ~> (stopper = "stopped" \/ lost # {})
============================================================================
