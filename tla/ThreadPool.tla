------------------------------ MODULE ThreadPool -----------------------------
(***************************************************************************)
(* thread_pool and thread_group (core/thread_pool.hpp): a group is several *)
(* pools of one worker, a pool by itself is one with several.  Tasks may    *)
(* post further tasks, to any pool of theirs, and wait for their futures.   *)
(*                                                                         *)
(* A critical section of a pool's mutex is one step.  The notification that  *)
(* follows it is another.  The application posts and destroys from outside,  *)
(* and posts no more once it destroys (the object's lifetime ends).          *)
(***************************************************************************)
EXTENDS Naturals, Sequences, FiniteSets

CONSTANTS
  Tasks,      (* each posted at most once                                     *)
  NoTask,     (* none of them                                                 *)
  Workers,    (* the threads of all pools                                     *)
  MaxPools,   (* most pools in a group                                        *)
  Layouts     (* who works and posts where: see LayoutOK                      *)

Pools == 1 .. MaxPools

(* count: how many pools, numbered in the order of the group's vector; of:    *)
(* the pool of each worker, each having one; home: where each task is posted; *)
(* by: the task that posts it, or NoTask for the application; waits: the      *)
(* tasks that wait for those they post.                                      *)
LayoutOK(l) ==
  /\ l.count \in Pools
  /\ l.of \in [Workers -> 1 .. l.count]
  /\ \A p \in 1 .. l.count : \E w \in Workers : l.of[w] = p
  /\ l.home \in [Tasks -> 1 .. l.count]
  /\ l.by \in [Tasks -> Tasks \cup {NoTask}]
  /\ l.waits \in SUBSET Tasks

ASSUME PoolAssumption ==
  /\ NoTask \notin Tasks
  /\ MaxPools \in Nat \ {0}
  /\ \A l \in Layouts : LayoutOK(l)

VARIABLES
  layout,     (* one of Layouts, the same throughout                          *)
  tasks,      (* tasks_ of each pool                                          *)
  stop,       (* stop_ of each pool                                           *)
  worker,     (* where each thread is                                         *)
  current,    (* the task it runs                                             *)
  task,       (* what has become of each task                                 *)
  notifying,  (* tasks pushed whose poster has not yet called notify_one      *)
  destroyer,  (* where the destructor is: a phase and a pool                  *)
  deleted     (* the pools whose memory was freed                             *)

poolVars == <<tasks, stop>>
workerVars == <<worker, current>>
endVars == <<destroyer, deleted>>
stepVars == <<poolVars, workerVars, task, notifying, endVars>>
vars == <<layout, stepVars>>

(* checking  holds or waits for the mutex, to evaluate the wait's predicate  *)
(* waiting   blocked on the condition variable                               *)
WorkerStates == {"checking", "waiting", "running", "exited"}
WorkersOf(p) == {w \in Workers : layout.of[w] = p}
PostedBy(t) == {c \in Tasks : layout.by[c] = t}

TypeOK ==
  /\ layout \in Layouts
  /\ tasks \in [Pools -> Seq(Tasks)]
  /\ stop \in [Pools -> BOOLEAN]
  /\ worker \in [Workers -> WorkerStates]
  /\ current \in [Workers -> Tasks \cup {NoTask}]
  /\ task \in [Tasks -> {"new", "queued", "running", "done", "refused"}]
  /\ notifying \in SUBSET Tasks
  /\ destroyer \in [phase : {"idle", "stopping", "notifying", "joining", "deleting", "gone"},
                    pool : Pools]
  /\ deleted \in SUBSET Pools

Init ==
  /\ layout \in Layouts
  /\ tasks = [p \in Pools |-> <<>>]
  /\ stop = [p \in Pools |-> FALSE]
  /\ worker = [w \in Workers |-> "checking"]
  /\ current = [w \in Workers |-> NoTask]
  /\ task = [t \in Tasks |-> "new"]
  /\ notifying = {}
  /\ destroyer = [phase |-> "idle", pool |-> 1]
  /\ deleted = {}
------------------------------------------------------------------------------
(* The thread that posts t is at its post: the application's, or the worker  *)
(* that runs its poster, which posts one task after the other.               *)
AtPost(t) ==
  IF layout.by[t] = NoTask
  THEN destroyer.phase = "idle"
  ELSE task[layout.by[t]] = "running" /\ PostedBy(layout.by[t]) \cap notifying = {}

(* post: refused with an exception once the pool is stopped.                 *)
post(t) ==
  LET p == layout.home[t] IN
  /\ task[t] = "new" /\ AtPost(t)
  /\ \/ /\ stop[p]
        /\ task' = [task EXCEPT ![t] = "refused"]
        /\ UNCHANGED <<tasks, notifying>>
     \/ /\ ~stop[p]
        /\ task' = [task EXCEPT ![t] = "queued"]
        /\ tasks' = [tasks EXCEPT ![p] = Append(@, t)]
        /\ notifying' = notifying \cup {t}
  /\ UNCHANGED <<stop, workerVars, endVars>>

(* notify_one wakes one of the blocked workers, if there are any. *)
notify_one(t) ==
  LET blocked == {w \in WorkersOf(layout.home[t]) : worker[w] = "waiting"} IN
  /\ t \in notifying
  /\ notifying' = notifying \ {t}
  /\ \/ blocked = {} /\ UNCHANGED worker
     \/ \E w \in blocked : worker' = [worker EXCEPT ![w] = "checking"]
  /\ UNCHANGED <<poolVars, current, task, endVars>>

(* Mutant: a stopped worker does not look at the queue. *)
M_take_stops_first(w) ==
  LET p == layout.of[w] IN
  /\ worker[w] = "checking"
  /\ \/ /\ ~stop[p] /\ tasks[p] # <<>>
        /\ worker' = [worker EXCEPT ![w] = "running"]
        /\ current' = [current EXCEPT ![w] = Head(tasks[p])]
        /\ task' = [task EXCEPT ![Head(tasks[p])] = "running"]
        /\ tasks' = [tasks EXCEPT ![p] = Tail(@)]
     \/ /\ stop[p] \/ tasks[p] = <<>>
        /\ worker' = [worker EXCEPT ![w] = IF stop[p] THEN "exited" ELSE "waiting"]
        /\ UNCHANGED <<current, task, tasks>>
  /\ UNCHANGED <<stop, notifying, endVars>>

(* Mutant: the task stays at the front of the queue. *)
M_take_no_pop(w) ==
  LET p == layout.of[w] IN
  /\ worker[w] = "checking"
  /\ \/ /\ tasks[p] # <<>>
        /\ worker' = [worker EXCEPT ![w] = "running"]
        /\ current' = [current EXCEPT ![w] = Head(tasks[p])]
        /\ task' = [task EXCEPT ![Head(tasks[p])] = "running"]
        /\ UNCHANGED tasks
     \/ /\ tasks[p] = <<>>
        /\ worker' = [worker EXCEPT ![w] = IF stop[p] THEN "exited" ELSE "waiting"]
        /\ UNCHANGED <<current, task, tasks>>
  /\ UNCHANGED <<stop, notifying, endVars>>

(* The worker's loop: take the first task, or leave when stopped and there   *)
(* is none, or block.                                                        *)
take(w) ==
  LET p == layout.of[w] IN
  /\ worker[w] = "checking"
  /\ \/ /\ tasks[p] # <<>>
        /\ worker' = [worker EXCEPT ![w] = "running"]
        /\ current' = [current EXCEPT ![w] = Head(tasks[p])]
        /\ task' = [task EXCEPT ![Head(tasks[p])] = "running"]
        /\ tasks' = [tasks EXCEPT ![p] = Tail(@)]
     \/ /\ tasks[p] = <<>>
        /\ worker' = [worker EXCEPT ![w] = IF stop[p] THEN "exited" ELSE "waiting"]
        /\ UNCHANGED <<current, task, tasks>>
  /\ UNCHANGED <<stop, notifying, endVars>>

(* A condition variable may wake for no reason. *)
wake(w) ==
  /\ worker[w] = "waiting"
  /\ worker' = [worker EXCEPT ![w] = "checking"]
  /\ UNCHANGED <<poolVars, current, task, notifying, endVars>>

(* A task ends after its posts (an exception of one ends it too, its future  *)
(* taking the exception) and, if it waits, after the tasks it posted.        *)
finish(w) ==
  LET t == current[w] IN
  /\ worker[w] = "running"
  /\ PostedBy(t) \cap notifying = {}
  /\ \/ \A c \in PostedBy(t) : task[c] # "new"
     \/ \E c \in PostedBy(t) : task[c] = "refused"
  /\ t \in layout.waits => \A c \in PostedBy(t) : task[c] \notin {"queued", "running"}
  /\ task' = [task EXCEPT ![t] = "done"]
  /\ worker' = [worker EXCEPT ![w] = "checking"]
  /\ current' = [current EXCEPT ![w] = NoTask]
  /\ UNCHANGED <<poolVars, notifying, endVars>>
------------------------------------------------------------------------------
(* The destructor starts when the application's posts have returned. *)
destroy ==
  /\ destroyer.phase = "idle"
  /\ \A t \in notifying : layout.by[t] # NoTask
  /\ destroyer' = [destroyer EXCEPT !.phase = "stopping"]
  /\ UNCHANGED <<poolVars, workerVars, task, notifying, deleted>>

(* stop(): the flag, then notify_all, then the joins. *)
set_stop ==
  /\ destroyer.phase = "stopping"
  /\ stop' = [stop EXCEPT ![destroyer.pool] = TRUE]
  /\ destroyer' = [destroyer EXCEPT !.phase = "notifying"]
  /\ UNCHANGED <<tasks, workerVars, task, notifying, deleted>>

(* Mutant: one worker is woken. *)
M_notify_all_one ==
  LET blocked == {w \in WorkersOf(destroyer.pool) : worker[w] = "waiting"} IN
  /\ destroyer.phase = "notifying"
  /\ \/ blocked = {} /\ UNCHANGED worker
     \/ \E w \in blocked : worker' = [worker EXCEPT ![w] = "checking"]
  /\ destroyer' = [destroyer EXCEPT !.phase = "joining"]
  /\ UNCHANGED <<poolVars, current, task, notifying, deleted>>

notify_all ==
  /\ destroyer.phase = "notifying"
  /\ worker' = [w \in Workers |->
                  IF w \in WorkersOf(destroyer.pool) /\ worker[w] = "waiting"
                  THEN "checking" ELSE worker[w]]
  /\ destroyer' = [destroyer EXCEPT !.phase = "joining"]
  /\ UNCHANGED <<poolVars, current, task, notifying, deleted>>

(* Mutant: each pool is deleted as soon as it has stopped. *)
M_join_deletes ==
  /\ destroyer.phase = "joining"
  /\ \A w \in WorkersOf(destroyer.pool) : worker[w] = "exited"
  /\ deleted' = deleted \cup {destroyer.pool}
  /\ destroyer' = IF destroyer.pool < layout.count
                  THEN [phase |-> "stopping", pool |-> destroyer.pool + 1]
                  ELSE [phase |-> "deleting", pool |-> 1]
  /\ UNCHANGED <<poolVars, workerVars, task, notifying>>

(* Mutant: one pool too many. *)
M_join_past_end ==
  /\ destroyer.phase = "joining"
  /\ \A w \in WorkersOf(destroyer.pool) : worker[w] = "exited"
  /\ destroyer' = IF destroyer.pool <= layout.count
                  THEN [phase |-> "stopping", pool |-> destroyer.pool + 1]
                  ELSE [phase |-> "deleting", pool |-> 1]
  /\ UNCHANGED <<poolVars, workerVars, task, notifying, deleted>>

(* The workers of the pool have ended: the next pool is stopped, and after   *)
(* the last one the pools are deleted.                                       *)
join ==
  /\ destroyer.phase = "joining"
  /\ \A w \in WorkersOf(destroyer.pool) : worker[w] = "exited"
  /\ destroyer' = IF destroyer.pool < layout.count
                  THEN [phase |-> "stopping", pool |-> destroyer.pool + 1]
                  ELSE [phase |-> "deleting", pool |-> 1]
  /\ UNCHANGED <<poolVars, workerVars, task, notifying, deleted>>

delete ==
  /\ destroyer.phase = "deleting"
  /\ deleted' = deleted \cup {destroyer.pool}
  /\ destroyer' = IF destroyer.pool < layout.count
                  THEN [destroyer EXCEPT !.pool = @ + 1]
                  ELSE [destroyer EXCEPT !.phase = "gone"]
  /\ UNCHANGED <<poolVars, workerVars, task, notifying>>
------------------------------------------------------------------------------
DestroyerStep == set_stop \/ notify_all \/ join \/ delete

Next ==
  /\ \/ \E t \in Tasks : post(t) \/ notify_one(t)
     \/ \E w \in Workers : take(w) \/ wake(w) \/ finish(w)
     \/ destroy \/ DestroyerStep
  /\ UNCHANGED layout

Spec == Init /\ [][Next]_vars

(* Every thread runs; the application need not post or destroy, and nobody   *)
(* counts on a condition variable waking for no reason.                      *)
FairSpec ==
  /\ Spec
  /\ \A w \in Workers : WF_stepVars(take(w)) /\ WF_stepVars(finish(w))
  /\ \A t \in Tasks : WF_stepVars(layout.by[t] # NoTask /\ post(t)) /\ WF_stepVars(notify_one(t))
  /\ WF_stepVars(DestroyerStep)
------------------------------------------------------------------------------
(* Nothing uses a pool that was deleted: its workers have left their loops,  *)
(* no task of any pool of the group still runs, and no post is inside one    *)
(* (the comment at core/thread_pool.hpp:327-334).                            *)
DeletedIsUnused ==
  deleted # {} =>
    /\ \A w \in Workers : worker[w] = "exited"
    /\ \A t \in Tasks : task[t] # "running"
    /\ notifying = {}

(* Waiting for futures is safe when each pool with tasks that wait has more  *)
(* workers than them.                                                        *)
WaitsLeaveAWorker ==
  \A p \in Pools :
    LET waiting == {t \in layout.waits : layout.home[t] = p} IN
    waiting = {} \/ Cardinality(waiting) < Cardinality(WorkersOf(p))

(* Every accepted task runs to its end, whether the pool is stopped or not. *)
AcceptedTasksEnd ==
  WaitsLeaveAWorker => \A t \in Tasks : task[t] = "queued" ~> task[t] = "done"

(* The destructor returns. *)
DestructorReturns ==
  WaitsLeaveAWorker => (destroyer.phase = "stopping" ~> destroyer.phase = "gone")

(* The abstract queue these pools implement. *)
Queue == INSTANCE TaskQueue WITH
  Lines <- Pools,
  line <- tasks,
  closed <- destroyer.phase \in {"deleting", "gone"},
  status <- [t \in Tasks |->
               CASE task[t] = "queued"  -> "accepted"
                 [] task[t] = "running" -> "started"
                 [] task[t] = "done"    -> "ended"
                 [] task[t] \in {"new", "refused"} -> task[t]]

(* Accepted tasks start in order, each once, and the destructor does not     *)
(* free the pools before all of them have ended.                             *)
ImplementsTaskQueue == Queue!Spec
=============================================================================
