-------------------------- MODULE ThreadPool_proof --------------------------
(* The thread pool, for any threads and tasks: types are kept, and a task   *)
(* of a queue is run once.                                                  *)
EXTENDS ThreadPool, FiniteSetTheorems, TLAPS

----------------------------------------------------------------------------
(* What is left of a queue, and what it is with a task more.                *)
LEMMA Rest ==
  ASSUME NEW S, NEW q \in Seq(S), q # <<>>
  PROVE  /\ Head(q) \in S /\ Tail(q) \in Seq(S)
         /\ 1 \in DOMAIN q /\ Head(q) = q[1]
         /\ \A i \in DOMAIN Tail(q) :
              i \in Nat /\ i + 1 \in DOMAIN q /\ i + 1 # 1 /\ Tail(q)[i] = q[i + 1]
OBVIOUS

LEMMA More ==
  ASSUME NEW S, NEW q \in Seq(S), NEW k \in S
  PROVE  /\ Append(q, k) \in Seq(S)
         /\ \A i \in DOMAIN Append(q, k) :
              \/ i \in DOMAIN q /\ Append(q, k)[i] = q[i]
              \/ i = Len(q) + 1 /\ Append(q, k)[i] = k
<1>1. Append(q, k) \in Seq(S) /\ Len(Append(q, k)) = Len(q) + 1
  OBVIOUS
<1>2. DOMAIN Append(q, k) = 1 .. (Len(q) + 1) /\ DOMAIN q = 1 .. Len(q) /\ Len(q) \in Nat
  BY <1>1
<1>3. \A i \in 1 .. Len(q) : Append(q, k)[i] = q[i]
  OBVIOUS
<1>4. Append(q, k)[Len(q) + 1] = k
  OBVIOUS
<1> QED  BY <1>1, <1>2, <1>3, <1>4

(* An order of the tasks that are due is a sequence of them, and not empty. *)
LEMMA Order ==
  ASSUME NEW S, IsFiniteSet(S), S # {}, NEW q \in SetToSeqs(S)
  PROVE  q \in Seq(S) /\ q # <<>>
<1>1. Cardinality(S) \in Nat /\ Cardinality(S) # 0
  BY FS_CardinalityType, FS_EmptySet
<1>2. q \in [1 .. Cardinality(S) -> S]
  BY DEF SetToSeqs
<1>3. q \in Seq(S) /\ Len(q) = Cardinality(S)
  BY <1>1, <1>2
<1> QED  BY <1>1, <1>3

----------------------------------------------------------------------------
(* Types.                                                                   *)
LEMMA RefillTyped ==
  ASSUME NEW t \in Thread, TypeOK, Refill(t)
  PROVE  /\ task' \in [Thread -> Task \cup {NoTask}] /\ task_queue' \in Seq(Task) /\ due' = {}
         /\ \E k \in Task : task' = [task EXCEPT ![t] = k]
<1>1. PICK q \in SetToSeqs(due) : Take(t, q) /\ due' = {}
  BY DEF Refill
<1>2. q \in Seq(due) /\ q # <<>> /\ due \subseteq Task
  BY Order, FS_Subset, TaskAssumption DEF Refill, TypeOK, TasksOK
<1>3. Head(q) \in Task /\ Tail(q) \in Seq(Task)
  BY <1>2, Rest
<1> QED  BY <1>1, <1>3 DEF Take, TypeOK, ThreadsOK

LEMMA TypeStep ==
  ASSUME TypeOK, [Next]_vars
  PROVE  TypeOK'
<1> USE DEF TypeOK
<1>1. ASSUME NEW t \in Thread, Begin(t) \/ SetRunning(t) \/ SetAvailable(t)
      PROVE  TypeOK'
  BY <1>1 DEF Begin, SetRunning, SetAvailable, At, SetState, TasksOK, ThreadsOK, PoolOK, Busy,
              tasks, users, owner
<1>2. ASSUME NEW t \in Thread, Check(t)
      PROVE  TypeOK'
  BY <1>2 DEF Check, At, Busy, TasksOK, ThreadsOK, PoolOK, tasks, users, owner
<1>3. ASSUME NEW t \in Thread, NextTask(t)
      PROVE  TypeOK'
  <2>1. /\ task' \in [Thread -> Task \cup {NoTask}] /\ task_queue' \in Seq(Task)
        /\ due' \subseteq due
    <3>1. CASE task_queue # <<>> /\ Take(t, task_queue) /\ UNCHANGED due
      BY <3>1, Rest DEF Take, TasksOK, ThreadsOK
    <3>2. CASE Refill(t)
      BY <3>2, RefillTyped
    <3>3. CASE UNCHANGED <<task, task_queue, due>>
      BY <3>3 DEF TasksOK, ThreadsOK
    <3> QED  BY <1>3, <3>1, <3>2, <3>3 DEF NextTask
  <2>2. pc' \in [Thread -> {"new", "begin", "check", "next", "ready", "callback", "end", "ended"}]
    BY <1>3 DEF NextTask, At, ThreadsOK
  <2>3. \A u \in Thread : (task'[u] # NoTask) <=> pc'[u] \in {"ready", "callback", "end"}
    <3>1. CASE task_queue # <<>> /\ Take(t, task_queue) /\ At(t, "next", "ready")
      BY <3>1, Rest, TaskAssumption DEF Take, At, TasksOK, ThreadsOK, Busy
    <3>2. CASE Refill(t) /\ At(t, "next", "ready")
      <4>1. PICK k \in Task : task' = [task EXCEPT ![t] = k]
        BY <3>2, RefillTyped
      <4> QED  BY <3>2, <4>1, TaskAssumption DEF At, ThreadsOK, Busy
    <3>3. CASE At(t, "next", "check") /\ UNCHANGED task
      BY <3>3 DEF At, ThreadsOK, Busy
    <3> QED  BY <1>3, <3>1, <3>2, <3>3 DEF NextTask
  <2> QED  BY <1>3, <2>1, <2>2, <2>3 DEF NextTask, TasksOK, ThreadsOK, PoolOK, Busy, users, owner
<1>4. ASSUME NEW t \in Thread, EndCallback(t)
      PROVE  TypeOK'
  <2>1. task[t] \in Task
    BY <1>4 DEF EndCallback, At, ThreadsOK, Busy
  <2> QED  BY <1>4, <2>1 DEF EndCallback, At, Busy, TasksOK, ThreadsOK, PoolOK, tasks, users, owner
<1>5. ASSUME NEW k \in Task, AddTask(k) \/ RemoveTask(k) \/ Due(k)
      PROVE  TypeOK'
  BY <1>5 DEF AddTask, RemoveTask, Due, TasksOK, ThreadsOK, PoolOK, Busy, tasks, thread, users, owner
<1>6. ASSUME NEW k \in Task, Push(k)
      PROVE  TypeOK'
  <2>1. TasksOK'
    <3>1. CASE kind = "registry"
      BY <1>6, <3>1 DEF Push, TasksOK
    <3>2. CASE kind # "registry"
      BY <1>6, <3>2, More DEF Push, TasksOK
    <3> QED  BY <3>1, <3>2
  <2> QED  BY <1>6, <2>1 DEF Push, ThreadsOK, PoolOK, Busy, thread, owner
<1>7. CASE Start
  BY <1>7 DEF Start, TasksOK, ThreadsOK, PoolOK, Busy, tasks, users, owner
<1>8. CASE Stop \/ Flush \/ Join \/ \E t \in Thread : StopThread(t)
  BY <1>8 DEF Stop, Flush, Join, StopThread, TasksOK, ThreadsOK, PoolOK, Busy, tasks, thread, users
<1>9. CASE UNCHANGED vars
  BY <1>9 DEF vars, TasksOK, ThreadsOK, PoolOK, Busy, tasks, thread, users, owner
<1> QED  BY <1>1, <1>2, <1>3, <1>4, <1>5, <1>6, <1>7, <1>8, <1>9 DEF Next, Run, Stopping

LEMMA TypeInit ==
  ASSUME Init
  PROVE  TypeOK
BY DEF Init, TypeOK, TasksOK, ThreadsOK, PoolOK, Busy

(* Types are kept, and a thread has a task exactly from taking it to the    *)
(* end of its callback.                                                     *)
THEOREM TypeCorrect == Spec => []TypeOK
<1>1. TypeOK /\ [Next]_vars => TypeOK'
  BY TypeStep
<1> QED  BY <1>1, TypeInit, PTL DEF Spec

----------------------------------------------------------------------------
(* A task of a queue is added, queued, taken and run in this order.         *)
QInv == map = {} /\ Accepted /\ QueuedOnce /\ TakenOnce /\ RunOnce

LEMMA TakeOnce ==
  ASSUME TypeOK, QInv, NEW t \in Thread, NextTask(t)
  PROVE  QInv'
<1>1. due = {} /\ map' = {} /\ added' = added /\ adding' = adding /\ done' = done
  BY DEF NextTask, users, TypeOK, TasksOK, QInv
<1>2. CASE task_queue # <<>> /\ Take(t, task_queue) /\ At(t, "next", "ready")
  <2>1. PICK k \in Task : k = Head(task_queue)
    BY <1>2, Rest DEF TypeOK, TasksOK
  <2>2. /\ task_queue' = Tail(task_queue) /\ 1 \in DOMAIN task_queue /\ k = task_queue[1]
        /\ \A i \in DOMAIN task_queue' :
             i \in Nat /\ i + 1 \in DOMAIN task_queue /\ i + 1 # 1
             /\ task_queue'[i] = task_queue[i + 1]
    BY <1>2, <2>1, Rest DEF Take, TypeOK, TasksOK
  <2>3. task'[t] = k /\ \A u \in Thread : u # t => task'[u] = task[u]
    BY <1>2, <2>1 DEF Take, TypeOK, ThreadsOK
  <2>4. pc'[t] = "ready" /\ \A u \in Thread : u # t => pc'[u] = pc[u]
    BY <1>2 DEF At, TypeOK, ThreadsOK
  <2>5. k \in added /\ k \notin done /\ \A u \in Thread : Busy(u) => task[u] # k
    BY <2>2 DEF QInv, Accepted, TakenOnce, RunOnce
  <2>6. Accepted'
    BY <1>1, <2>2, <2>3, <2>5 DEF QInv, Accepted, Busy
  <2>7. QueuedOnce'
    BY <2>2 DEF QInv, QueuedOnce
  <2>8. \A i \in DOMAIN task_queue' : task_queue'[i] # k
    BY <2>2 DEF QInv, QueuedOnce
  <2>9. TakenOnce'
    <3> SUFFICES ASSUME NEW u \in Thread, Busy(u)'
                 PROVE  /\ \A v \in Thread : task'[v] = task'[u] => v = u
                        /\ \A i \in DOMAIN task_queue' : task_queue'[i] # task'[u]
      BY DEF TakenOnce
    <3>1. CASE u = t
      BY <2>3, <2>5, <2>8, <3>1, TaskAssumption DEF Busy
    <3>2. CASE u # t
      <4>1. Busy(u) /\ task'[u] = task[u] /\ task[u] # k
        BY <2>3, <2>5, <3>2 DEF Busy
      <4> QED  BY <2>2, <2>3, <3>2, <4>1 DEF QInv, TakenOnce
    <3> QED  BY <3>1, <3>2
  <2>10. RunOnce'
    BY <1>1, <2>2, <2>3, <2>4, <2>5 DEF QInv, RunOnce
  <2> QED  BY <1>1, <2>6, <2>7, <2>9, <2>10 DEF QInv
<1>3. CASE UNCHANGED <<task, task_queue>> /\ At(t, "next", "check")
  <2>1. \A u \in Thread : pc'[u] \in {"ready", "callback"} => pc[u] = pc'[u]
    BY <1>3 DEF At, TypeOK, ThreadsOK
  <2> QED  BY <1>1, <1>3, <2>1 DEF QInv, Accepted, QueuedOnce, TakenOnce, RunOnce, Busy
<1> QED  BY <1>1, <1>2, <1>3 DEF NextTask, Refill

LEMMA EndOnce ==
  ASSUME TypeOK, QInv, NEW t \in Thread, EndCallback(t) \/ SetAvailable(t)
  PROVE  QInv'
<1>1. /\ map' = map /\ task_queue' = task_queue /\ added' = added /\ adding' = adding
      /\ \A u \in Thread : u # t => task'[u] = task[u] /\ pc'[u] = pc[u]
      /\ pc'[t] \in {"end", "check"} /\ task'[t] \in {task[t], NoTask}
  BY DEF EndCallback, SetAvailable, At, tasks, users, TypeOK, ThreadsOK
<1>2. done' = done \/ (Busy(t) /\ done' = done \cup {task[t]})
  BY DEF EndCallback, SetAvailable, At, TypeOK, ThreadsOK
<1>3. Accepted' /\ QueuedOnce'
  BY <1>1, <1>2 DEF QInv, Accepted, QueuedOnce, Busy
<1>4. TakenOnce'
  BY <1>1 DEF QInv, TakenOnce, Busy
<1>5. RunOnce'
  <2>1. \A i \in DOMAIN task_queue' : task_queue'[i] \notin done'
    BY <1>1, <1>2 DEF QInv, RunOnce, TakenOnce
  <2>2. \A u \in Thread : pc'[u] \in {"ready", "callback"} => task'[u] \notin done'
    BY <1>1, <1>2 DEF QInv, RunOnce, TakenOnce
  <2> QED  BY <2>1, <2>2 DEF RunOnce
<1> QED  BY <1>1, <1>3, <1>4, <1>5 DEF QInv

LEMMA PushOnce ==
  ASSUME TypeOK, QInv, kind # "registry", NEW k \in Task, Push(k)
  PROVE  QInv'
<1>1. /\ map' = map /\ k \notin added /\ added' = added \cup {k} /\ adding' = adding \ {k}
      /\ task_queue' = Append(task_queue, k) /\ UNCHANGED <<pc, task, done>>
  BY DEF Push, thread, QInv, Accepted
<1>2. \A i \in DOMAIN task_queue' :
        \/ i \in DOMAIN task_queue /\ task_queue'[i] = task_queue[i]
        \/ i = Len(task_queue) + 1 /\ task_queue'[i] = k
  BY <1>1, More DEF TypeOK, TasksOK
<1>3. Accepted'
  BY <1>1, <1>2 DEF QInv, Accepted, Busy
<1>4. QueuedOnce'
  BY <1>1, <1>2 DEF QInv, QueuedOnce, Accepted
<1>5. TakenOnce'
  BY <1>1, <1>2 DEF QInv, TakenOnce, Accepted, Busy
<1>6. RunOnce'
  BY <1>1, <1>2 DEF QInv, RunOnce, Accepted
<1> QED  BY <1>1, <1>3, <1>4, <1>5, <1>6 DEF QInv

(* The other steps leave the queue, the local tasks and what is done.       *)
LEMMA RestOnce ==
  ASSUME TypeOK, QInv, kind # "registry", UNCHANGED <<map, task_queue, task, added, done>>,
         \A u \in Thread : pc'[u] \in {"ready", "callback"} => pc[u] \in {"ready", "callback"},
         adding' \cap added = {}
  PROVE  QInv'
BY DEF QInv, Accepted, QueuedOnce, TakenOnce, RunOnce, Busy

LEMMA OnceStep ==
  ASSUME TypeOK, QInv, kind # "registry", [Next]_vars
  PROVE  QInv'
<1>0. adding \cap added = {} /\ map = {} /\ due = {}
  BY DEF QInv, Accepted, TypeOK, TasksOK
<1>1. ASSUME NEW t \in Thread, Begin(t) \/ Check(t) \/ SetRunning(t)
      PROVE  QInv'
  <2>1. UNCHANGED <<map, task_queue, task, added, adding, done>>
    BY <1>1 DEF Begin, Check, SetRunning, tasks, users
  <2>2. \A u \in Thread : pc'[u] \in {"ready", "callback"} => pc[u] \in {"ready", "callback"}
    BY <1>1 DEF Begin, Check, SetRunning, At, TypeOK, ThreadsOK
  <2> QED  BY <1>0, <2>1, <2>2, RestOnce
<1>2. ASSUME NEW t \in Thread, NextTask(t)
      PROVE  QInv'
  BY <1>2, TakeOnce
<1>3. ASSUME NEW t \in Thread, EndCallback(t) \/ SetAvailable(t)
      PROVE  QInv'
  BY <1>3, EndOnce
<1>4. ASSUME NEW k \in Task, Push(k)
      PROVE  QInv'
  BY <1>4, PushOnce
<1>5. ASSUME NEW k \in Task, AddTask(k) \/ RemoveTask(k) \/ Due(k)
      PROVE  QInv'
  <2>1. AddTask(k)
    BY <1>0, <1>5 DEF RemoveTask, Due
  <2>2. UNCHANGED <<map, task_queue, task, pc, added, done>> /\ adding' \cap added = {}
    BY <1>0, <2>1 DEF AddTask, tasks, thread
  <2> QED  BY <2>2, RestOnce
<1>6. CASE Start
  <2>1. /\ UNCHANGED <<map, task_queue, task, added, adding, done>>
        /\ \A u \in Thread : pc'[u] = "begin"
    BY <1>6 DEF Start, tasks, users
  <2> QED  BY <1>0, <2>1, RestOnce
<1>7. CASE Stop \/ Flush \/ Join \/ (\E t \in Thread : StopThread(t)) \/ UNCHANGED vars
  <2>1. UNCHANGED <<map, task_queue, task, pc, added, adding, done>>
    BY <1>7 DEF Stop, Flush, Join, StopThread, vars, tasks, thread, users
  <2> QED  BY <1>0, <2>1, RestOnce
<1> QED  BY <1>1, <1>2, <1>3, <1>4, <1>5, <1>6, <1>7 DEF Next, Run, Stopping

LEMMA KindFixed == ASSUME [Next]_vars PROVE kind' = kind
BY DEF Next, Run, Stopping, Begin, Check, NextTask, SetRunning, EndCallback, SetAvailable,
       Start, AddTask, Push, RemoveTask, Due, Stop, Flush, StopThread, Join, vars

(* A task of a queue is run once, whatever the threads, whoever adds and    *)
(* whenever the pool is stopped: next_task and add_task change the queue    *)
(* under its mutex.                                                         *)
THEOREM RunsOnce == Spec => []Once
<1>1. Init => IInv
  <2> SUFFICES ASSUME Init PROVE IInv
    OBVIOUS
  <2>1. TypeOK
    BY TypeInit
  <2> QED  BY <2>1 DEF Init, IInv, Once, Accepted, QueuedOnce, TakenOnce, RunOnce, Busy
<1>2. IInv /\ [Next]_vars => IInv'
  <2> SUFFICES ASSUME IInv, [Next]_vars PROVE IInv'
    OBVIOUS
  <2>1. TypeOK' /\ kind' = kind
    BY TypeStep, KindFixed DEF IInv
  <2>2. kind # "registry" => QInv'
    BY OnceStep DEF IInv, Once, QInv
  <2> QED  BY <2>1, <2>2 DEF IInv, Once, QInv
<1>3. IInv => Once
  BY DEF IInv
<1> QED  BY <1>1, <1>2, <1>3, PTL DEF Spec
============================================================================
