-------------------------- MODULE ThreadPoolProofs ---------------------------
(***************************************************************************)
(* The destructor of a thread_group deletes no pool that is still used, and *)
(* the pools implement TaskQueue, for any number of pools, workers and      *)
(* tasks and any way the tasks post.                                        *)
(***************************************************************************)
EXTENDS ThreadPool, TLAPS

Ending == {"deleting", "gone"}

(* The workers the destructor has joined have left their loops. *)
JoinedHaveExited ==
  \A w \in Workers :
    layout.of[w] < destroyer.pool \/ destroyer.phase \in Ending => worker[w] = "exited"

(* A task that runs is run by a worker. *)
RunningHaveWorkers ==
  \A t \in Tasks : task[t] = "running" =>
    \E w \in Workers : worker[w] = "running" /\ current[w] = t

(* Whoever is inside post is the application before it destroys, or a task   *)
(* that runs.                                                                *)
PostersAreAlive ==
  \A t \in notifying :
    IF layout.by[t] = NoTask THEN destroyer.phase = "idle" ELSE task[layout.by[t]] = "running"

(* Inductive. *)
PoolInv ==
  /\ TypeOK
  /\ JoinedHaveExited
  /\ RunningHaveWorkers
  /\ PostersAreAlive
  /\ deleted # {} => destroyer.phase \in Ending

(* What the layouts give the steps. *)
LEMMA LayoutFacts ==
  ASSUME layout \in Layouts
  PROVE  /\ layout.count \in Pools
         /\ \A w \in Workers : layout.of[w] \in Pools /\ layout.of[w] <= layout.count
         /\ \A t \in Tasks : layout.home[t] \in Pools /\ layout.by[t] \in Tasks \cup {NoTask}
BY PoolAssumption DEF PoolAssumption, LayoutOK, Pools

LEMMA PoolInitInv == Init => PoolInv
<1> SUFFICES ASSUME Init PROVE PoolInv
  OBVIOUS
<1>1. TypeOK
  <2>1. stop \in [Pools -> BOOLEAN]
    BY Zenon DEF Init
  <2>2. destroyer.pool \in Pools /\ destroyer.phase = "idle" /\ 1 \in Pools
    BY PoolAssumption DEF PoolAssumption, Init, Pools
  <2>3. tasks \in [Pools -> Seq(Tasks)]
    BY DEF Init
  <2>4. QED
    BY <2>1, <2>2, <2>3 DEF Init, TypeOK, WorkerStates
<1>2. JoinedHaveExited
  BY LayoutFacts DEF Init, JoinedHaveExited, Ending, Pools
<1>3. QED
  BY <1>1, <1>2 DEF Init, PoolInv, RunningHaveWorkers, PostersAreAlive

(* Posting and being woken. *)
LEMMA PosterStepsInv ==
  ASSUME PoolInv, UNCHANGED layout, NEW t \in Tasks, post(t) \/ notify_one(t)
  PROVE  PoolInv'
<1> USE LayoutFacts DEF PoolInv
<1>1. CASE post(t)
  <2> DEFINE p == layout.home[t]
  <2>a. /\ task[t] = "new" /\ AtPost(t) /\ UNCHANGED <<stop, workerVars, endVars>>
        /\ \/ /\ task' = [task EXCEPT ![t] = "refused"]
              /\ UNCHANGED <<tasks, notifying>>
           \/ /\ task' = [task EXCEPT ![t] = "queued"]
              /\ tasks' = [tasks EXCEPT ![p] = Append(@, t)]
              /\ notifying' = notifying \cup {t}
    BY <1>1 DEF post
  <2>b. p \in Pools /\ (tasks \in [Pools -> Seq(Tasks)] => Append(tasks[p], t) \in Seq(Tasks))
    BY DEF TypeOK
  <2> HIDE DEF p
  <2>1. TypeOK'
    <3>1. tasks' \in [Pools -> Seq(Tasks)]
      BY <2>a, <2>b DEF TypeOK
    <3>2. notifying' \in SUBSET Tasks
      BY <2>a DEF TypeOK
    <3>3. task' \in [Tasks -> {"new", "queued", "running", "done", "refused"}]
      BY <2>a DEF TypeOK
    <3>4. QED
      BY <2>a, <3>1, <3>2, <3>3 DEF TypeOK, workerVars, endVars
  <2>2. JoinedHaveExited' /\ (deleted # {} => destroyer.phase \in Ending)'
    BY <1>1 DEF post, JoinedHaveExited, workerVars, endVars
  <2>3. RunningHaveWorkers'
    <3>1. \A x \in Tasks : task'[x] = "running" => task[x] = "running"
      BY <2>a DEF TypeOK
    <3>2. QED
      BY <2>a, <3>1 DEF RunningHaveWorkers, workerVars
  <2>4. PostersAreAlive'
    BY <1>1 DEF post, AtPost, TypeOK, PostersAreAlive, endVars
  <2>5. QED
    BY <2>1, <2>2, <2>3, <2>4
<1>2. CASE notify_one(t)
  <2>1. TypeOK'
    BY <1>2 DEF notify_one, TypeOK, poolVars, endVars, WorkersOf, WorkerStates
  <2>2. \A w \in Workers : worker[w] \in {"running", "exited"} => worker'[w] = worker[w]
    BY <1>2 DEF notify_one, TypeOK, WorkersOf
  <2>3. JoinedHaveExited' /\ RunningHaveWorkers'
    BY <1>2, <2>2 DEF notify_one, JoinedHaveExited, RunningHaveWorkers, endVars
  <2>4. PostersAreAlive' /\ (deleted # {} => destroyer.phase \in Ending)'
    BY <1>2 DEF notify_one, PostersAreAlive, endVars
  <2>5. QED
    BY <2>1, <2>3, <2>4
<1>3. QED
  BY <1>1, <1>2

(* A worker takes a task, leaves or blocks; wakes; ends its task. *)
LEMMA WorkerStepsInv ==
  ASSUME PoolInv, UNCHANGED layout, NEW w \in Workers, take(w) \/ wake(w) \/ finish(w)
  PROVE  PoolInv'
<1> USE LayoutFacts DEF PoolInv
<1>1. CASE take(w)
  <2>1. CASE tasks[layout.of[w]] # <<>>
    <3> DEFINE p == layout.of[w]
               h == Head(tasks[p])
    <3>1. /\ worker[w] = "checking"
          /\ worker' = [worker EXCEPT ![w] = "running"]
          /\ current' = [current EXCEPT ![w] = h]
          /\ task' = [task EXCEPT ![h] = "running"]
          /\ tasks' = [tasks EXCEPT ![p] = Tail(@)]
          /\ UNCHANGED <<stop, notifying, endVars>>
      BY <1>1, <2>1 DEF take
    <3>2. p \in Pools /\ tasks[p] \in Seq(Tasks) /\ h \in Tasks /\ Tail(tasks[p]) \in Seq(Tasks)
      BY <2>1 DEF TypeOK
    <3> HIDE DEF p, h
    <3>3. TypeOK'
      BY <3>1, <3>2 DEF TypeOK, endVars, WorkerStates
    <3>4. JoinedHaveExited' /\ (deleted # {} => destroyer.phase \in Ending)'
      BY <3>1 DEF TypeOK, JoinedHaveExited, endVars
    <3>5. RunningHaveWorkers'
      BY <3>1, <3>2 DEF TypeOK, RunningHaveWorkers
    <3>6. PostersAreAlive'
      BY <3>1, <3>2 DEF TypeOK, PostersAreAlive, endVars
    <3>7. QED
      BY <3>3, <3>4, <3>5, <3>6
  <2>2. CASE tasks[layout.of[w]] = <<>>
    <3>1. /\ worker[w] = "checking"
          /\ worker' = [worker EXCEPT ![w] = IF stop[layout.of[w]] THEN "exited" ELSE "waiting"]
          /\ UNCHANGED <<current, task, tasks, stop, notifying, endVars>>
      BY <1>1, <2>2 DEF take
    <3>2. TypeOK'
      BY <3>1 DEF TypeOK, endVars, WorkerStates
    <3>3. JoinedHaveExited' /\ RunningHaveWorkers'
      BY <3>1 DEF TypeOK, JoinedHaveExited, RunningHaveWorkers, endVars
    <3>4. PostersAreAlive' /\ (deleted # {} => destroyer.phase \in Ending)'
      BY <3>1 DEF PostersAreAlive, endVars
    <3>5. QED
      BY <3>2, <3>3, <3>4
  <2>3. QED
    BY <2>1, <2>2
<1>2. CASE wake(w)
  <2>1. TypeOK'
    BY <1>2 DEF wake, TypeOK, poolVars, endVars, WorkerStates
  <2>2. JoinedHaveExited' /\ RunningHaveWorkers'
    BY <1>2 DEF wake, TypeOK, JoinedHaveExited, RunningHaveWorkers, endVars
  <2>3. PostersAreAlive' /\ (deleted # {} => destroyer.phase \in Ending)'
    BY <1>2 DEF wake, PostersAreAlive, endVars
  <2>4. QED
    BY <2>1, <2>2, <2>3
<1>3. CASE finish(w)
  <2> DEFINE t == current[w]
  <2>1. /\ worker[w] = "running" /\ PostedBy(t) \cap notifying = {}
        /\ task' = [task EXCEPT ![t] = "done"]
        /\ worker' = [worker EXCEPT ![w] = "checking"]
        /\ current' = [current EXCEPT ![w] = NoTask]
        /\ UNCHANGED <<poolVars, notifying, endVars>>
    BY <1>3 DEF finish
  <2>2. TypeOK'
    BY <2>1 DEF TypeOK, poolVars, endVars, WorkerStates
  <2>3. JoinedHaveExited' /\ (deleted # {} => destroyer.phase \in Ending)'
    BY <2>1 DEF TypeOK, JoinedHaveExited, endVars
  <2>4. RunningHaveWorkers'
    BY <2>1 DEF TypeOK, RunningHaveWorkers
  <2>5. PostersAreAlive'
    BY <2>1 DEF TypeOK, PostersAreAlive, PostedBy, endVars
  <2>6. QED
    BY <2>2, <2>3, <2>4, <2>5
<1>4. QED
  BY <1>1, <1>2, <1>3

(* The destructor. *)
LEMMA DestroyerStepsInv ==
  ASSUME PoolInv, UNCHANGED layout, destroy \/ DestroyerStep
  PROVE  PoolInv'
<1> USE LayoutFacts DEF PoolInv
<1>1. CASE destroy
  BY <1>1 DEF destroy, TypeOK, JoinedHaveExited, RunningHaveWorkers, PostersAreAlive, Ending,
     poolVars, workerVars
<1>2. CASE set_stop
  BY <1>2 DEF set_stop, TypeOK, JoinedHaveExited, RunningHaveWorkers, PostersAreAlive, Ending,
     workerVars
<1>3. CASE notify_all
  <2>1. \A w \in Workers : worker[w] \in {"running", "exited"} => worker'[w] = worker[w]
    BY <1>3 DEF notify_all
  <2>2. TypeOK'
    BY <1>3 DEF notify_all, TypeOK, poolVars, WorkerStates
  <2>3. JoinedHaveExited' /\ RunningHaveWorkers'
    BY <1>3, <2>1 DEF notify_all, TypeOK, JoinedHaveExited, RunningHaveWorkers, Ending
  <2>4. PostersAreAlive' /\ (deleted # {} => destroyer.phase \in Ending)'
    BY <1>3 DEF notify_all, TypeOK, PostersAreAlive, Ending
  <2>5. QED
    BY <2>2, <2>3, <2>4
<1>4. CASE join
  <2>1. destroyer.phase = "joining" /\ UNCHANGED <<poolVars, workerVars, task, notifying, deleted>>
    BY <1>4 DEF join
  <2>2. \A w \in Workers : layout.of[w] <= destroyer.pool => worker[w] = "exited"
    BY <1>4 DEF join, TypeOK, JoinedHaveExited, WorkersOf, Pools
  <2>3. \/ /\ destroyer.pool < layout.count
           /\ destroyer' = [phase |-> "stopping", pool |-> destroyer.pool + 1]
        \/ /\ destroyer.pool >= layout.count
           /\ destroyer' = [phase |-> "deleting", pool |-> 1]
    BY <1>4 DEF join, TypeOK, Pools
  <2>4. destroyer' \in [phase : {"idle", "stopping", "notifying", "joining", "deleting", "gone"},
                        pool : Pools]
    BY <2>3, PoolAssumption DEF PoolAssumption, TypeOK, Pools
  <2>5. TypeOK'
    BY <2>1, <2>4 DEF TypeOK, poolVars, workerVars
  <2>6. JoinedHaveExited'
    BY <2>1, <2>2, <2>3 DEF TypeOK, JoinedHaveExited, Ending, Pools, workerVars
  <2>7. RunningHaveWorkers' /\ PostersAreAlive' /\ (deleted # {} => destroyer.phase \in Ending)'
    BY <2>1, <2>3 DEF RunningHaveWorkers, PostersAreAlive, Ending, workerVars
  <2>8. QED
    BY <2>5, <2>6, <2>7
<1>5. CASE delete
  <2>1. destroyer.phase = "deleting" /\ UNCHANGED <<poolVars, workerVars, task, notifying>>
    BY <1>5 DEF delete
  <2>2. destroyer'.phase \in Ending
    BY <1>5 DEF delete, TypeOK, Ending
  <2>3. TypeOK'
    <3>1. destroyer' \in [phase : {"idle", "stopping", "notifying", "joining", "deleting", "gone"},
                          pool : Pools]
      <4>1. CASE destroyer.pool < layout.count
        <5>1. destroyer' = [destroyer EXCEPT !.pool = destroyer.pool + 1]
          BY <1>5, <4>1 DEF delete
        <5>2. destroyer.pool + 1 \in Pools
          BY <4>1, PoolAssumption DEF PoolAssumption, TypeOK, Pools
        <5>3. QED
          BY <5>1, <5>2 DEF TypeOK
      <4>2. CASE ~(destroyer.pool < layout.count)
        BY <1>5, <4>2 DEF delete, TypeOK
      <4>3. QED
        BY <4>1, <4>2
    <3>2. deleted' \in SUBSET Pools
      BY <1>5 DEF delete, TypeOK
    <3>3. QED
      BY <2>1, <3>1, <3>2 DEF TypeOK, poolVars, workerVars
  <2>4. JoinedHaveExited'
    BY <2>1 DEF JoinedHaveExited, Ending, workerVars
  <2>5. RunningHaveWorkers' /\ PostersAreAlive'
    BY <2>1 DEF RunningHaveWorkers, PostersAreAlive, workerVars
  <2>6. QED
    BY <2>2, <2>3, <2>4, <2>5
<1>6. QED
  BY <1>1, <1>2, <1>3, <1>4, <1>5 DEF DestroyerStep

(* The inductive invariant of the pools. *)
THEOREM PoolInvariant == Spec => []PoolInv
<1>1. Init => PoolInv
  BY PoolInitInv
<1>2. PoolInv /\ [Next]_vars => PoolInv'
  <2>1. ASSUME PoolInv, Next PROVE PoolInv'
    BY <2>1, PosterStepsInv, WorkerStepsInv, DestroyerStepsInv DEF Next
  <2>2. ASSUME PoolInv, UNCHANGED vars PROVE PoolInv'
    BY <2>2 DEF vars, stepVars, poolVars, workerVars, endVars, PoolInv, TypeOK,
       JoinedHaveExited, RunningHaveWorkers, PostersAreAlive
  <2>3. QED
    BY <2>1, <2>2
<1>3. QED
  BY <1>1, <1>2, PTL DEF Spec

(* Type correctness (core/thread_pool.hpp). *)
THEOREM PoolTypeCorrect == Spec => []TypeOK
<1>1. PoolInv => TypeOK
  BY DEF PoolInv
<1>2. QED
  BY <1>1, PoolInvariant, PTL

(* No pool is deleted while a worker or a task of any pool may use it        *)
(* (the two loops of the destructor, core/thread_pool.hpp:335-343).          *)
THEOREM NoUseAfterDelete == Spec => []DeletedIsUnused
<1>1. PoolInv => DeletedIsUnused
  <2> SUFFICES ASSUME PoolInv, deleted # {} PROVE DeletedIsUnused
    BY DEF DeletedIsUnused
  <2>1. destroyer.phase \in Ending
    BY DEF PoolInv
  <2>2. \A w \in Workers : worker[w] = "exited"
    BY <2>1 DEF PoolInv, JoinedHaveExited
  <2>3. \A t \in Tasks : task[t] # "running"
    BY <2>2 DEF PoolInv, RunningHaveWorkers
  <2>4. notifying = {}
    BY <2>1, <2>3, LayoutFacts DEF PoolInv, TypeOK, PostersAreAlive, Ending
  <2>5. QED
    BY <2>2, <2>3, <2>4 DEF DeletedIsUnused
<1>2. QED
  BY <1>1, PoolInvariant, PTL
------------------------------------------------------------------------------
(* That the pools implement TaskQueue.                                       *)

(* A queue holds each of its tasks once, and only tasks of its pool that     *)
(* nobody has taken.                                                         *)
QueueHoldsQueued ==
  \A p \in Pools : \A i \in 1 .. Len(tasks[p]) :
    /\ task[tasks[p][i]] = "queued"
    /\ layout.home[tasks[p][i]] = p
    /\ \A j \in 1 .. Len(tasks[p]) : tasks[p][i] = tasks[p][j] => i = j

(* An accepted task that nobody has taken is in its pool's queue. *)
QueuedIsInQueue ==
  \A t \in Tasks : task[t] = "queued" =>
    \E i \in 1 .. Len(tasks[layout.home[t]]) : tasks[layout.home[t]][i] = t

(* A worker leaves its pool stopped and its queue empty, for good. *)
ExitedLeaveNothing ==
  \A w \in Workers : worker[w] = "exited" => stop[layout.of[w]] /\ tasks[layout.of[w]] = <<>>

(* No two workers run the same task. *)
WorkersRunTheirOwn ==
  \A v, w \in Workers : worker[v] = "running" =>
    /\ current[v] \in Tasks
    /\ task[current[v]] = "running"
    /\ worker[w] = "running" /\ current[v] = current[w] => v = w

(* Inductive. *)
QueueInv ==
  /\ PoolInv
  /\ QueueHoldsQueued
  /\ QueuedIsInQueue
  /\ ExitedLeaveNothing
  /\ WorkersRunTheirOwn

(* Each task has a worker. *)
LEMMA HomeHasWorker ==
  ASSUME layout \in Layouts
  PROVE  \A t \in Tasks : \E w \in Workers : layout.of[w] = layout.home[t]
BY PoolAssumption DEF PoolAssumption, LayoutOK

(* Taking the first element of a sequence, and adding one at the end. *)
LEMMA TailElements ==
  ASSUME NEW s \in Seq(Tasks), s # <<>>
  PROVE  /\ Head(s) = s[1] /\ 1 \in 1 .. Len(s)
         /\ Tail(s) \in Seq(Tasks) /\ Len(Tail(s)) = Len(s) - 1
         /\ \A i \in 1 .. Len(Tail(s)) : i + 1 \in 1 .. Len(s) /\ Tail(s)[i] = s[i + 1]
         /\ \A i \in 1 .. Len(s) : i = 1 \/ i - 1 \in 1 .. Len(Tail(s))
OBVIOUS

LEMMA AppendElements ==
  ASSUME NEW s \in Seq(Tasks), NEW t \in Tasks
  PROVE  /\ Append(s, t) \in Seq(Tasks) /\ Len(Append(s, t)) = Len(s) + 1
         /\ Append(s, t)[Len(s) + 1] = t /\ Append(s, t) # <<>>
         /\ \A i \in 1 .. Len(s) : i \in 1 .. Len(Append(s, t)) /\ Append(s, t)[i] = s[i]
         /\ \A i \in 1 .. Len(Append(s, t)) : i \in 1 .. Len(s) \/ i = Len(s) + 1
OBVIOUS

(* The queues are as they were after a step that leaves them alone.          *)
LEMMA QueuesStay ==
  ASSUME QueueHoldsQueued, QueuedIsInQueue, TypeOK, UNCHANGED <<layout, tasks>>,
         \A t \in Tasks : task'[t] = "queued" <=> task[t] = "queued"
  PROVE  QueueHoldsQueued' /\ QueuedIsInQueue'
<1>1. \A p \in Pools : \A i \in 1 .. Len(tasks[p]) : tasks[p][i] \in Tasks
  BY DEF TypeOK
<1>2. QueueHoldsQueued'
  BY <1>1 DEF QueueHoldsQueued
<1>3. QueuedIsInQueue'
  BY DEF QueuedIsInQueue
<1>4. QED
  BY <1>2, <1>3

LEMMA PostKeepsQueues ==
  ASSUME QueueInv, UNCHANGED layout, NEW t \in Tasks, post(t)
  PROVE  /\ QueueHoldsQueued' /\ QueuedIsInQueue' /\ ExitedLeaveNothing' /\ WorkersRunTheirOwn'
<1> USE DEF QueueInv, PoolInv
<1>a. /\ layout.count \in Pools
      /\ \A v \in Workers : layout.of[v] \in Pools
      /\ \A x \in Tasks : layout.home[x] \in Pools
  BY LayoutFacts DEF TypeOK
<1>1. task[t] = "new" /\ UNCHANGED <<stop, worker, current>>
  BY DEF post, workerVars
<1>2. WorkersRunTheirOwn'
  <2>1. \A x \in Tasks : task[x] = "running" => task'[x] = "running"
    BY <1>1 DEF post, TypeOK
  <2>2. QED
    BY <1>1, <2>1 DEF WorkersRunTheirOwn
<1>3. CASE stop[layout.home[t]]
  <2>1. task' = [task EXCEPT ![t] = "refused"] /\ UNCHANGED tasks
    BY <1>3 DEF post
  <2>2. \A x \in Tasks : task'[x] = "queued" <=> task[x] = "queued"
    BY <1>1, <2>1 DEF TypeOK
  <2>3. QueueHoldsQueued' /\ QueuedIsInQueue'
    BY <2>1, <2>2, QueuesStay
  <2>4. QED
    BY <1>1, <1>2, <2>1, <2>3 DEF ExitedLeaveNothing
<1>4. CASE ~stop[layout.home[t]]
  <2> DEFINE p == layout.home[t]
             s == tasks[p]
  <2>1. /\ task' = [task EXCEPT ![t] = "queued"]
        /\ tasks' = [tasks EXCEPT ![p] = Append(s, t)]
    BY <1>4 DEF post
  <2>2. p \in Pools /\ s \in Seq(Tasks) /\ ~stop[p]
    BY <1>a, <1>4 DEF TypeOK
  <2>3. /\ tasks'[p] = Append(s, t)
        /\ \A q \in Pools \ {p} : tasks'[q] = tasks[q]
    BY <2>1, <2>2 DEF TypeOK
  <2>4. task'[t] = "queued" /\ \A x \in Tasks \ {t} : task'[x] = task[x]
    BY <2>1 DEF TypeOK
  <2>5. \A q \in Pools : \A i \in 1 .. Len(tasks[q]) : tasks[q][i] \in Tasks \ {t}
    BY <1>1 DEF TypeOK, QueueHoldsQueued
  <2>6. \A i \in 1 .. Len(s) : s[i] \in Tasks \ {t}
    BY <2>2, <2>5
  <2>7. layout'.home = layout.home /\ layout.home[t] = p
    OBVIOUS
  <2> HIDE DEF s, p
  <2>8. ASSUME NEW i \in 1 .. Len(tasks'[p])
        PROVE  /\ task'[tasks'[p][i]] = "queued"
               /\ layout.home[tasks'[p][i]] = p
               /\ \A j \in 1 .. Len(tasks'[p]) : tasks'[p][i] = tasks'[p][j] => i = j
    <3>1. \A j \in 1 .. Len(s) : /\ task[s[j]] = "queued" /\ layout.home[s[j]] = p
                                 /\ \A k \in 1 .. Len(s) : s[j] = s[k] => j = k
      BY <2>2 DEF QueueHoldsQueued, s
    <3>2. CASE i \in 1 .. Len(s)
      BY <3>2, <2>2, <2>3, <2>4, <2>6, <3>1, AppendElements
    <3>3. CASE i = Len(s) + 1
      BY <3>3, <2>2, <2>3, <2>4, <2>6, <2>7, AppendElements
    <3>4. QED
      BY <2>2, <2>3, <3>2, <3>3, AppendElements
  <2>9. QueueHoldsQueued'
    <3>1. \A q \in Pools \ {p} : \A i \in 1 .. Len(tasks'[q]) :
            /\ task'[tasks'[q][i]] = "queued"
            /\ layout.home[tasks'[q][i]] = q
            /\ \A j \in 1 .. Len(tasks'[q]) : tasks'[q][i] = tasks'[q][j] => i = j
      BY <2>3, <2>4, <2>5 DEF QueueHoldsQueued
    <3>2. QED
      BY <2>7, <2>8, <3>1 DEF QueueHoldsQueued
  <2>10. QueuedIsInQueue'
    <3>1. \E i \in 1 .. Len(tasks'[p]) : tasks'[p][i] = t
      <4>1. Len(s) + 1 \in 1 .. Len(tasks'[p])
        BY <2>2, <2>3, AppendElements
      <4>2. QED
        BY <2>2, <2>3, <4>1, AppendElements
    <3>2. ASSUME NEW x \in Tasks \ {t}, task[x] = "queued"
          PROVE  \E i \in 1 .. Len(tasks'[layout.home[x]]) : tasks'[layout.home[x]][i] = x
      <4>1. PICK i \in 1 .. Len(tasks[layout.home[x]]) : tasks[layout.home[x]][i] = x
        BY <3>2 DEF QueuedIsInQueue
      <4>2. CASE layout.home[x] = p
        BY <4>1, <4>2, <2>2, <2>3, AppendElements DEF s
      <4>3. CASE layout.home[x] # p
        BY <1>a, <4>1, <4>3, <2>3
      <4>4. QED
        BY <4>2, <4>3
    <3>3. QED
      BY <2>4, <2>7, <3>1, <3>2 DEF QueuedIsInQueue
  <2>11. ExitedLeaveNothing'
    BY <1>a, <1>1, <2>2, <2>3 DEF ExitedLeaveNothing
  <2>12. QED
    BY <1>2, <2>9, <2>10, <2>11
<1>5. QED
  BY <1>3, <1>4

LEMMA TakeKeepsQueues ==
  ASSUME QueueInv, UNCHANGED layout, NEW w \in Workers, take(w)
  PROVE  /\ QueueHoldsQueued' /\ QueuedIsInQueue' /\ ExitedLeaveNothing' /\ WorkersRunTheirOwn'
<1> USE DEF QueueInv, PoolInv
<1>a. /\ layout.count \in Pools
      /\ \A v \in Workers : layout.of[v] \in Pools
      /\ \A x \in Tasks : layout.home[x] \in Pools
  BY LayoutFacts DEF TypeOK
<1> DEFINE p == layout.of[w]
           s == tasks[p]
           h == Head(s)
<1>1. worker[w] = "checking" /\ UNCHANGED stop /\ p \in Pools /\ s \in Seq(Tasks)
  BY <1>a DEF take, TypeOK
<1>2. CASE s = <<>>
  <2>1. /\ worker' = [worker EXCEPT ![w] = IF stop[p] THEN "exited" ELSE "waiting"]
        /\ UNCHANGED <<current, task, tasks>>
    BY <1>2 DEF take
  <2>2. QueueHoldsQueued' /\ QueuedIsInQueue'
    BY <2>1, QueuesStay
  <2>3. ExitedLeaveNothing'
    BY <1>1, <1>2, <2>1 DEF ExitedLeaveNothing, TypeOK
  <2>4. WorkersRunTheirOwn'
    BY <2>1 DEF WorkersRunTheirOwn, TypeOK
  <2>5. QED
    BY <2>2, <2>3, <2>4
<1>3. CASE s # <<>>
  <2>1. /\ worker' = [worker EXCEPT ![w] = "running"]
        /\ current' = [current EXCEPT ![w] = h]
        /\ task' = [task EXCEPT ![h] = "running"]
        /\ tasks' = [tasks EXCEPT ![p] = Tail(s)]
    BY <1>3 DEF take
  <2>2. h = s[1] /\ h \in Tasks /\ task[h] = "queued" /\ layout.home[h] = p
    BY <1>1, <1>3, TailElements DEF QueueHoldsQueued
  <2>3. /\ tasks'[p] = Tail(s)
        /\ \A q \in Pools \ {p} : tasks'[q] = tasks[q]
    BY <1>1, <2>1 DEF TypeOK
  <2>4. task'[h] = "running" /\ \A x \in Tasks \ {h} : task'[x] = task[x]
    BY <2>1, <2>2 DEF TypeOK
  <2>5. \A i \in 1 .. Len(s) : /\ s[i] \in Tasks /\ task[s[i]] = "queued" /\ layout.home[s[i]] = p
                               /\ \A j \in 1 .. Len(s) : s[i] = s[j] => i = j
    BY <1>1 DEF QueueHoldsQueued
  <2>6. \A q \in Pools \ {p} : \A i \in 1 .. Len(tasks[q]) : tasks[q][i] \in Tasks \ {h}
    <3>1. \A q \in Pools : \A i \in 1 .. Len(tasks[q]) :
            tasks[q][i] \in Tasks /\ layout.home[tasks[q][i]] = q
      BY DEF TypeOK, QueueHoldsQueued
    <3> HIDE DEF s, p, h
    <3>2. QED
      BY <2>2, <3>1
  <2>7. \A t \in Tasks : task[t] = "queued" /\ layout.home[t] = p =>
          \E i \in 1 .. Len(s) : s[i] = t
    BY DEF QueuedIsInQueue
  <2>8. ExitedLeaveNothing'
    <3>1. \A v \in Workers : worker'[v] = "exited" => worker[v] = "exited" /\ layout.of[v] # p
      BY <1>3, <2>1 DEF TypeOK, ExitedLeaveNothing
    <3>2. QED
      BY <1>a, <1>1, <2>3, <3>1 DEF ExitedLeaveNothing
  <2>9. WorkersRunTheirOwn'
    <3>1. worker'[w] = "running" /\ current'[w] = h
      BY <2>1 DEF TypeOK
    <3>2. \A v \in Workers \ {w} : worker'[v] = worker[v] /\ current'[v] = current[v]
      BY <2>1 DEF TypeOK
    <3>3. \A v \in Workers : worker[v] = "running" =>
            /\ current[v] \in Tasks \ {h} /\ task[current[v]] = "running"
      BY <2>2 DEF WorkersRunTheirOwn
    <3>4. QED
      BY <2>2, <2>4, <3>1, <3>2, <3>3 DEF WorkersRunTheirOwn
  <2> HIDE DEF s, p, h
  <2>10. \A i \in 1 .. Len(Tail(s)) :
           /\ i + 1 \in 1 .. Len(s) /\ Tail(s)[i] = s[i + 1] /\ s[i + 1] \in Tasks \ {h}
    BY <1>1, <1>3, <2>2, <2>5, TailElements
  <2>11. QueueHoldsQueued'
    <3>1. ASSUME NEW i \in 1 .. Len(Tail(s))
          PROVE  /\ task'[Tail(s)[i]] = "queued" /\ layout.home[Tail(s)[i]] = p
                 /\ \A j \in 1 .. Len(Tail(s)) : Tail(s)[i] = Tail(s)[j] => i = j
      <4>0. PICK x \in Tasks \ {h} : x = Tail(s)[i] /\ task[x] = "queued" /\ layout.home[x] = p
        <5>1. i + 1 \in 1 .. Len(s) /\ Tail(s)[i] = s[i + 1] /\ s[i + 1] \in Tasks \ {h}
          BY <2>10
        <5>2. task[s[i + 1]] = "queued" /\ layout.home[s[i + 1]] = p
          BY <2>5, <5>1
        <5>3. QED
          BY <5>1, <5>2
      <4>1. task'[Tail(s)[i]] = "queued" /\ layout.home[Tail(s)[i]] = p
        <5>1. task'[x] = "queued"
          BY <2>4, <4>0
        <5>2. QED
          BY <4>0, <5>1
      <4>2. ASSUME NEW j \in 1 .. Len(Tail(s)), Tail(s)[i] = Tail(s)[j] PROVE i = j
        <5>1. i + 1 = j + 1
          BY <2>5, <2>10, <4>2
        <5>2. QED
          BY <5>1
      <4>3. QED
        BY <4>1, <4>2
    <3>2. \A q \in Pools \ {p} : \A i \in 1 .. Len(tasks'[q]) :
            /\ task'[tasks'[q][i]] = "queued"
            /\ layout.home[tasks'[q][i]] = q
            /\ \A j \in 1 .. Len(tasks'[q]) : tasks'[q][i] = tasks'[q][j] => i = j
      BY <2>3, <2>4, <2>6 DEF QueueHoldsQueued
    <3>3. ASSUME NEW q \in Pools, NEW i \in 1 .. Len(tasks'[q])
          PROVE  /\ task'[tasks'[q][i]] = "queued"
                 /\ layout.home[tasks'[q][i]] = q
                 /\ \A j \in 1 .. Len(tasks'[q]) : tasks'[q][i] = tasks'[q][j] => i = j
      <4>1. CASE q = p
        <5>1. tasks'[q] = Tail(s)
          BY <2>3, <4>1
        <5>2. QED
          BY <3>1, <4>1, <5>1
      <4>2. CASE q # p
        BY <3>2, <4>2
      <4>3. QED
        BY <4>1, <4>2
    <3>4. QED
      BY <3>3 DEF QueueHoldsQueued
  <2>12. QueuedIsInQueue'
    <3>1. ASSUME NEW t \in Tasks \ {h}, task[t] = "queued", layout.home[t] = p
          PROVE  \E i \in 1 .. Len(Tail(s)) : Tail(s)[i] = t
      <4>1. PICK i \in 1 .. Len(s) : s[i] = t
        BY <2>7, <3>1
      <4>2. i # 1
        BY <2>2, <4>1
      <4>3. i - 1 \in 1 .. Len(Tail(s)) /\ Tail(s)[i - 1] = s[i]
        BY <1>1, <1>3, <4>2, TailElements
      <4>4. QED
        BY <4>1, <4>3
    <3>2. ASSUME NEW t \in Tasks \ {h}, task[t] = "queued", layout.home[t] # p
          PROVE  \E i \in 1 .. Len(tasks'[layout.home[t]]) : tasks'[layout.home[t]][i] = t
      BY <1>a, <2>3, <3>2 DEF QueuedIsInQueue
    <3>3. ASSUME NEW t \in Tasks, task'[t] = "queued"
          PROVE  \E i \in 1 .. Len(tasks'[layout.home[t]]) : tasks'[layout.home[t]][i] = t
      <4>1. t # h /\ task[t] = "queued"
        BY <2>4, <3>3
      <4>2. CASE layout.home[t] = p
        <5>1. \E i \in 1 .. Len(Tail(s)) : Tail(s)[i] = t
          BY <3>1, <4>1, <4>2
        <5>2. tasks'[layout.home[t]] = Tail(s)
          BY <2>3, <4>2
        <5>3. QED
          BY <5>1, <5>2
      <4>3. CASE layout.home[t] # p
        BY <3>2, <4>1, <4>3
      <4>4. QED
        BY <4>2, <4>3
    <3>4. QED
      BY <3>3 DEF QueuedIsInQueue
  <2>13. QED
    BY <2>8, <2>9, <2>11, <2>12
<1>4. QED
  BY <1>2, <1>3

(* The other steps leave the queues alone. *)
LEMMA OthersKeepQueues ==
  ASSUME QueueInv, UNCHANGED layout,
         \/ \E t \in Tasks : notify_one(t)
         \/ \E w \in Workers : wake(w) \/ finish(w)
         \/ destroy \/ DestroyerStep
  PROVE  /\ QueueHoldsQueued' /\ QueuedIsInQueue' /\ ExitedLeaveNothing' /\ WorkersRunTheirOwn'
<1> USE DEF QueueInv, PoolInv
<1>1. ASSUME UNCHANGED <<tasks, task>>, \A p \in Pools : stop[p] => stop'[p],
             \A w \in Workers : /\ worker'[w] = "exited" => worker[w] = "exited"
                                /\ worker'[w] = "running" => worker[w] = "running",
             UNCHANGED current
      PROVE  /\ QueueHoldsQueued' /\ QueuedIsInQueue' /\ ExitedLeaveNothing' /\ WorkersRunTheirOwn'
  <2>1. QueueHoldsQueued' /\ QueuedIsInQueue'
    BY <1>1, QueuesStay
  <2>2. \A w \in Workers : layout.of[w] \in Pools
    BY LayoutFacts DEF TypeOK
  <2>3. ExitedLeaveNothing'
    BY <1>1, <2>2 DEF ExitedLeaveNothing
  <2>4. WorkersRunTheirOwn'
    BY <1>1 DEF WorkersRunTheirOwn
  <2>5. QED
    BY <2>1, <2>3, <2>4
<1>2. ASSUME NEW t \in Tasks, notify_one(t)
      PROVE  /\ QueueHoldsQueued' /\ QueuedIsInQueue' /\ ExitedLeaveNothing' /\ WorkersRunTheirOwn'
  <2>1. /\ UNCHANGED <<tasks, stop, task, current>>
        /\ \A w \in Workers : /\ worker'[w] = "exited" => worker[w] = "exited"
                              /\ worker'[w] = "running" => worker[w] = "running"
    BY <1>2 DEF notify_one, TypeOK, poolVars
  <2>2. QED
    BY <1>1, <2>1
<1>3. ASSUME NEW w \in Workers, wake(w)
      PROVE  /\ QueueHoldsQueued' /\ QueuedIsInQueue' /\ ExitedLeaveNothing' /\ WorkersRunTheirOwn'
  BY <1>1, <1>3 DEF wake, TypeOK, poolVars
<1>4. ASSUME NEW w \in Workers, finish(w)
      PROVE  /\ QueueHoldsQueued' /\ QueuedIsInQueue' /\ ExitedLeaveNothing' /\ WorkersRunTheirOwn'
  <2> DEFINE t == current[w]
  <2>1. /\ worker[w] = "running" /\ UNCHANGED <<tasks, stop>>
        /\ task' = [task EXCEPT ![t] = "done"]
        /\ worker' = [worker EXCEPT ![w] = "checking"]
        /\ current' = [current EXCEPT ![w] = NoTask]
    BY <1>4 DEF finish, poolVars
  <2>2. t \in Tasks /\ task[t] = "running"
    BY <2>1 DEF WorkersRunTheirOwn
  <2>3. \A x \in Tasks : task'[x] = "queued" <=> task[x] = "queued"
    BY <2>1, <2>2 DEF TypeOK
  <2>4. QueueHoldsQueued' /\ QueuedIsInQueue'
    BY <2>1, <2>3, QueuesStay
  <2>5. ExitedLeaveNothing'
    BY <2>1 DEF ExitedLeaveNothing, TypeOK
  <2>6. WorkersRunTheirOwn'
    <3>1. \A v \in Workers : worker'[v] = "running" =>
            v # w /\ worker[v] = "running" /\ current'[v] = current[v] /\ current[v] # t
      BY <2>1 DEF TypeOK, WorkersRunTheirOwn
    <3>2. \A x \in Tasks \ {t} : task'[x] = task[x]
      BY <2>1 DEF TypeOK
    <3> HIDE DEF t
    <3>3. QED
      BY <3>1, <3>2 DEF WorkersRunTheirOwn
  <2>7. QED
    BY <2>4, <2>5, <2>6
<1>5. CASE destroy \/ join \/ delete
  BY <1>1, <1>5 DEF destroy, join, delete, poolVars, workerVars
<1>6. CASE set_stop
  BY <1>1, <1>6 DEF set_stop, TypeOK, workerVars
<1>7. CASE notify_all
  BY <1>1, <1>7 DEF notify_all, poolVars
<1>8. QED
  BY <1>2, <1>3, <1>4, <1>5, <1>6, <1>7 DEF DestroyerStep

(* The inductive invariant of the queues. *)
LEMMA QueueInvariant == Spec => []QueueInv
<1> DEFINE QInv == /\ QueueHoldsQueued /\ QueuedIsInQueue
                   /\ ExitedLeaveNothing /\ WorkersRunTheirOwn
<1>1. Init => QInv
  <2>1. Init => QueueHoldsQueued
    BY DEF Init, QueueHoldsQueued
  <2>2. Init => QueuedIsInQueue /\ ExitedLeaveNothing /\ WorkersRunTheirOwn
    BY DEF Init, QueuedIsInQueue, ExitedLeaveNothing, WorkersRunTheirOwn
  <2>3. QED
    BY <2>1, <2>2
<1>2. PoolInv /\ QInv /\ [Next]_vars => QInv'
  <2> SUFFICES ASSUME QueueInv, [Next]_vars PROVE QInv'
    BY DEF QueueInv
  <2>1. CASE UNCHANGED vars
    BY <2>1 DEF vars, stepVars, poolVars, workerVars, QueueInv, QueueHoldsQueued,
       QueuedIsInQueue, ExitedLeaveNothing, WorkersRunTheirOwn
  <2>2. CASE Next
    BY <2>2, PostKeepsQueues, TakeKeepsQueues, OthersKeepQueues DEF Next
  <2>3. QED
    BY <2>1, <2>2
<1>3. QED
  BY <1>1, <1>2, PoolInvariant, PTL DEF Spec, QueueInv
------------------------------------------------------------------------------
(* What TaskQueue sees of the tasks and of the destructor. *)
StatusOf(t) ==
  CASE task[t] = "queued"  -> "accepted"
    [] task[t] = "running" -> "started"
    [] task[t] = "done"    -> "ended"
    [] task[t] \in {"new", "refused"} -> task[t]
Status == [t \in Tasks |-> StatusOf(t)]
Closed == destroyer.phase \in {"deleting", "gone"}

LEMMA StatusStays ==
  ASSUME UNCHANGED task
  PROVE  Status' = Status
BY DEF Status, StatusOf

(* A task that becomes something else is the one whose status changes.       *)
LEMMA StatusStep ==
  ASSUME TypeOK, NEW t \in Tasks,
         NEW s \in {"new", "queued", "running", "done", "refused"},
         task' = [task EXCEPT ![t] = s]
  PROVE  /\ StatusOf(t)' = CASE s = "queued" -> "accepted" [] s = "running" -> "started"
                             [] s = "done" -> "ended" [] s \in {"new", "refused"} -> s
         /\ Status' = [Status EXCEPT ![t] = StatusOf(t)']
<1>1. task'[t] = s /\ \A x \in Tasks \ {t} : task'[x] = task[x]
  BY DEF TypeOK
<1>2. StatusOf(t)' = CASE s = "queued" -> "accepted" [] s = "running" -> "started"
                       [] s = "done" -> "ended" [] s \in {"new", "refused"} -> s
  BY <1>1 DEF StatusOf
<1>3. \A x \in Tasks \ {t} : StatusOf(x)' = StatusOf(x)
  BY <1>1 DEF StatusOf
<1> HIDE DEF StatusOf
<1>4. QED
  BY <1>2, <1>3 DEF Status

(* Each step of the pools is one of the queue's, or none. *)
LEMMA PostMaps ==
  ASSUME QueueInv, UNCHANGED layout, NEW t \in Tasks, post(t)
  PROVE  (\E p \in Pools : Queue!Accept(t, p)) \/ Queue!Refuse(t)
<1> USE DEF QueueInv, PoolInv
<1>0. PICK p \in Pools : p = layout.home[t]
  BY LayoutFacts DEF TypeOK
<1>1. task[t] = "new" /\ UNCHANGED <<stop, worker, destroyer>>
  BY DEF post, workerVars, endVars
<1>2. Status[t] = "new" /\ Closed' = Closed
  BY <1>1 DEF Status, StatusOf, Closed
<1>3. CASE stop[layout.home[t]]
  <2>1. task' = [task EXCEPT ![t] = "refused"] /\ UNCHANGED tasks
    BY <1>3 DEF post
  <2>2. Status' = [Status EXCEPT ![t] = "refused"]
    BY <2>1, StatusStep
  <2>3. Queue!Refuse(t)
    BY <1>2, <2>1, <2>2 DEF Queue!Refuse, Status, StatusOf, Closed
  <2>4. QED
    BY <2>3
<1>4. CASE ~stop[layout.home[t]]
  <2>1. /\ task' = [task EXCEPT ![t] = "queued"]
        /\ tasks' = [tasks EXCEPT ![layout.home[t]] = Append(@, t)]
    BY <1>4 DEF post
  <2>2. Status' = [Status EXCEPT ![t] = "accepted"]
    BY <2>1, StatusStep
  <2>3. ~Closed
    <3>1. PICK w \in Workers : layout.of[w] = layout.home[t]
      BY HomeHasWorker DEF TypeOK
    <3>2. worker[w] # "exited"
      BY <1>4, <3>1 DEF ExitedLeaveNothing
    <3>3. QED
      BY <3>2 DEF JoinedHaveExited, Ending, Closed
  <2>4. Queue!Accept(t, p)
    BY <1>0, <1>2, <2>1, <2>2, <2>3 DEF Queue!Accept, Status, StatusOf, Closed
  <2>5. QED
    BY <1>0, <2>4
<1>5. QED
  BY <1>3, <1>4

LEMMA WorkerStepMaps ==
  ASSUME QueueInv, UNCHANGED layout, NEW w \in Workers, take(w) \/ wake(w) \/ finish(w)
  PROVE  \/ \E p \in Pools : Queue!Start(p)
         \/ \E t \in Tasks : Queue!End(t)
         \/ UNCHANGED Queue!vars
<1> USE DEF QueueInv, PoolInv
<1>0. Closed' = Closed
  BY DEF take, wake, finish, endVars, Closed
<1>1. CASE take(w) /\ tasks[layout.of[w]] # <<>>
  <2>0. PICK p \in Pools : p = layout.of[w]
    BY LayoutFacts DEF TypeOK
  <2> DEFINE h == Head(tasks[p])
  <2>1. /\ task' = [task EXCEPT ![h] = "running"]
        /\ tasks' = [tasks EXCEPT ![p] = Tail(@)]
    BY <1>1, <2>0 DEF take
  <2>2. tasks[p] # <<>>
    BY <1>1, <2>0
  <2>3. h \in Tasks
    BY <2>2 DEF TypeOK
  <2>4. Status' = [Status EXCEPT ![h] = "started"]
    <3> HIDE DEF h
    <3>1. QED
      BY <2>1, <2>3, StatusStep
  <2>5. Queue!Start(p)
    BY <1>0, <2>1, <2>2, <2>4 DEF Queue!Start, Status, StatusOf, Closed
  <2>6. QED
    BY <2>5
<1>2. CASE wake(w) \/ (take(w) /\ tasks[layout.of[w]] = <<>>)
  <2>1. UNCHANGED <<task, tasks>>
    BY <1>2 DEF wake, take, poolVars
  <2>2. Status' = Status
    BY <2>1, StatusStays
  <2>3. QED
    BY <1>0, <2>1, <2>2 DEF Queue!vars, Status, StatusOf, Closed
<1>3. CASE finish(w)
  <2>1. task' = [task EXCEPT ![current[w]] = "done"] /\ UNCHANGED tasks /\ worker[w] = "running"
    BY <1>3 DEF finish, poolVars
  <2>2. PICK t \in Tasks : t = current[w] /\ task[t] = "running"
    BY <2>1 DEF WorkersRunTheirOwn
  <2>3. Status' = [Status EXCEPT ![t] = "ended"] /\ Status[t] = "started"
    BY <2>1, <2>2, StatusStep DEF Status, StatusOf
  <2>4. Queue!End(t)
    BY <1>0, <2>1, <2>3 DEF Queue!End, Status, StatusOf, Closed
  <2>5. QED
    BY <2>2, <2>4
<1>4. QED
  BY <1>1, <1>2, <1>3

LEMMA DestroyerStepMaps ==
  ASSUME QueueInv, UNCHANGED layout,
         destroy \/ DestroyerStep \/ \E t \in Tasks : notify_one(t)
  PROVE  Queue!Close \/ UNCHANGED Queue!vars
<1> USE DEF QueueInv, PoolInv
<1>1. UNCHANGED <<task, tasks>>
  BY DEF destroy, DestroyerStep, set_stop, notify_all, join, delete, notify_one, poolVars
<1>2. Status' = Status
  BY <1>1, StatusStays
<1>3. CASE Closed' = Closed
  BY <1>1, <1>2, <1>3 DEF Queue!vars, Status, StatusOf, Closed
<1>4. CASE Closed' # Closed
  <2>1. Closed' /\ ~Closed /\ join
    BY <1>4 DEF Closed, TypeOK, destroy, DestroyerStep, set_stop, notify_all, join, delete,
       notify_one, endVars
  <2>2. UNCHANGED <<worker, tasks>> /\ JoinedHaveExited'
    BY <2>1, DestroyerStepsInv DEF join, DestroyerStep, workerVars, poolVars
  <2>3. \A w \in Workers : worker[w] = "exited"
    BY <2>1, <2>2 DEF JoinedHaveExited, Ending, Closed
  <2>4. \A t \in Tasks : task[t] # "running"
    BY <2>3 DEF RunningHaveWorkers
  <2>5. \A t \in Tasks : task[t] # "queued"
    <3>1. \A t \in Tasks : tasks[layout.home[t]] = <<>>
      BY <2>3, HomeHasWorker DEF TypeOK, ExitedLeaveNothing
    <3>2. QED
      BY <3>1 DEF QueuedIsInQueue
  <2>6. \A t \in Tasks : Status[t] \notin {"accepted", "started"}
    BY <2>4, <2>5 DEF Status, StatusOf, TypeOK
  <2>7. Queue!Close
    BY <1>1, <1>2, <2>1, <2>6 DEF Queue!Close, Status, StatusOf, Closed
  <2>8. QED
    BY <2>7
<1>5. QED
  BY <1>3, <1>4

(* Whatever the pools, their tasks start in the order they were accepted in, *)
(* each once, and the destructor gives up the pools only when every accepted *)
(* task has ended (the workers' loop and stop, core/thread_pool.hpp).        *)
THEOREM PoolsImplementTaskQueue == Spec => ImplementsTaskQueue
<1>1. Init => Queue!Init
  BY DEF Init, Queue!Init
<1>2. QueueInv /\ [Next]_vars => [Queue!Next]_(Queue!vars)
  <2> SUFFICES ASSUME QueueInv, [Next]_vars PROVE Queue!Next \/ UNCHANGED Queue!vars
    OBVIOUS
  <2>1. CASE UNCHANGED vars
    <3>1. UNCHANGED <<task, tasks, destroyer>>
      BY <2>1 DEF vars, stepVars, poolVars, endVars
    <3>2. Status' = Status /\ Closed' = Closed
      BY <3>1, StatusStays DEF Closed
    <3>3. QED
      BY <3>1, <3>2 DEF Queue!vars, Status, StatusOf, Closed
  <2>2. ASSUME NEW t \in Tasks, post(t), UNCHANGED layout
        PROVE  Queue!Next
    BY <2>2, PostMaps DEF Queue!Next
  <2>3. ASSUME NEW w \in Workers, take(w) \/ wake(w) \/ finish(w), UNCHANGED layout
        PROVE  Queue!Next \/ UNCHANGED Queue!vars
    BY <2>3, WorkerStepMaps DEF Queue!Next
  <2>4. ASSUME destroy \/ DestroyerStep \/ \E t \in Tasks : notify_one(t), UNCHANGED layout
        PROVE  Queue!Next \/ UNCHANGED Queue!vars
    BY <2>4, DestroyerStepMaps DEF Queue!Next
  <2>5. QED
    BY <2>1, <2>2, <2>3, <2>4 DEF Next
<1>3. QED
  BY <1>1, <1>2, QueueInvariant, PTL DEF Spec, ImplementsTaskQueue, Queue!Spec
=============================================================================
