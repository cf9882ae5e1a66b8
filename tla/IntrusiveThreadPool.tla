------------------------- MODULE IntrusiveThreadPool -------------------------
(***************************************************************************)
(* NExecutors::IntrusiveThreadPool (src/executor/pool/intrusive_pool.cpp)  *)
(* and its base class Shutdowner (src/executor/executor.h): Start, Submit, *)
(* the loop of a worker, WaitIdle and the destructor.                      *)
(*                                                                         *)
(* Two kinds of threads: the owner of the pool (`main' in the tests),      *)
(* which starts the pool, submits, waits for idleness and destroys the     *)
(* pool, and the workers.  A running task may submit a new task            *)
(* (NFibers::Go) and may submit itself again before its Run returns        *)
(* (NFibers::Yield).  A fiber may also be parked by a primitive of         *)
(* fiber/sync: its Run returns UNCOMPLETED and the worker removes it from  *)
(* the count all the same (lines 44-46), until somebody schedules it.      *)
(* shutdown_ and count_tasks are atomics: each access is a step.  The list *)
(* of tasks is used under `mutex' only, one access per critical section:   *)
(* each critical section is a step.                                        *)
(*                                                                         *)
(* WaitIdle holds Shutdowner::mutex from its load of count_tasks until     *)
(* wait() gives it up, but nobody else ever takes that mutex, so the load  *)
(* and the falling asleep are two steps.  WaitShutdown looks at            *)
(* count_workers_ under mutex_workers_, which the workers take to change   *)
(* it, so its look and its falling asleep are one step.                    *)
(***************************************************************************)
EXTENDS Integers, Sequences, FiniteSets

CONSTANTS
    Tasks,
    Workers,
    MaxStops,    \* bound: how often a task may yield or be parked
    NULL

ASSUME PoolAssumption ==
    /\ IsFiniteSet(Tasks) /\ IsFiniteSet(Workers) /\ Workers # {}
    /\ MaxStops \in Nat
    /\ NULL \notin Tasks

VARIABLES
    shutdown_,      \* std::atomic<bool> shutdown_
    count_tasks,    \* std::atomic<size_t> count_tasks
    tasks,          \* IntrusiveList<TaskBase> tasks
    count_workers_, \* size_t count_workers_
    mpc,            \* where the owner is
    msub,           \* the task the owner submits
    waited,         \* history: the owner's last call was a WaitIdle that returned
    wpc,            \* wpc[w]: where worker w is
    cur,            \* cur[w]: the task whose Run worker w executes
    wsub,           \* wsub[w]: the task that this Run submits
    status,         \* status[t]: "new", "submitted", "parked", "done" or "dropped"
    stops           \* stops[t]: how often t has yielded or been parked

ownerVars  == <<mpc, msub, waited>>
workerVars == <<wpc, cur, wsub>>
sharedVars == <<shutdown_, count_tasks, tasks, count_workers_>>
taskVars   == <<status, stops>>
vars == <<sharedVars, ownerVars, workerVars, taskVars>>

OwnerPC  == {"idle", "add", "push", "load", "block", "asleep",
             "wait_workers", "workers_asleep", "join", "destroyed"}
WorkerPC == {"unborn", "pop", "run", "add", "push", "remove", "notify",
             "check", "exit", "exit_notify", "stopped"}

Init ==
    /\ shutdown_ = FALSE
    /\ count_tasks = 0
    /\ tasks = <<>>
    /\ count_workers_ = 0
    /\ mpc = "idle"
    /\ msub = NULL
    /\ waited = FALSE
    /\ wpc = [w \in Workers |-> "unborn"]
    /\ cur = [w \in Workers |-> NULL]
    /\ wsub = [w \in Workers |-> NULL]
    /\ status = [t \in Tasks |-> "new"]
    /\ stops = [t \in Tasks |-> 0]

Goto(w, to) == wpc' = [wpc EXCEPT ![w] = to]

Started == \A w \in Workers : wpc[w] # "unborn"

-----------------------------------------------------------------------------
(* Start: one turn of its loop.                                            *)

StartWorker(w) ==
    /\ mpc = "idle"
    /\ wpc[w] = "unborn"
    /\ count_workers_' = count_workers_ + 1
    /\ Goto(w, "pop")
    /\ UNCHANGED <<shutdown_, count_tasks, tasks, ownerVars, cur, wsub, taskVars>>

-----------------------------------------------------------------------------
(* Submit, called by the owner: of a new task, or of a parked fiber that   *)
(* it schedules (AwaiterFiber::Schedule).  It does not destroy the pool    *)
(* meanwhile, so IsShutdown() is false.                                    *)

OwnerSubmit(t) ==
    /\ mpc = "idle"
    /\ ~shutdown_
    /\ status[t] \in {"new", "parked"}
    /\ status' = [status EXCEPT ![t] = "submitted"]
    /\ msub' = t
    /\ waited' = FALSE
    /\ mpc' = "add"
    /\ UNCHANGED <<sharedVars, workerVars, stops>>

OwnerAddTask ==
    /\ mpc = "add"
    /\ count_tasks' = count_tasks + 1
    /\ mpc' = "push"
    /\ UNCHANGED <<shutdown_, tasks, count_workers_, msub, waited, workerVars, taskVars>>

OwnerPush ==
    /\ mpc = "push"
    /\ tasks' = Append(tasks, msub)
    /\ msub' = NULL
    /\ mpc' = "idle"
    /\ UNCHANGED <<shutdown_, count_tasks, count_workers_, waited, workerVars, taskVars>>

-----------------------------------------------------------------------------
(* Shutdowner::WaitIdle.                                                   *)

WaitIdle ==
    /\ mpc = "idle"
    /\ Started
    /\ mpc' = "load"
    /\ UNCHANGED <<sharedVars, msub, waited, workerVars, taskVars>>

WaitIdleLoad ==
    /\ mpc = "load"
    /\ mpc' = IF count_tasks = 0 THEN "idle" ELSE "block"
    /\ waited' = (count_tasks = 0)
    /\ UNCHANGED <<sharedVars, msub, workerVars, taskVars>>

\* empty_tasks_.wait(lock).
WaitIdleBlock ==
    /\ mpc = "block"
    /\ mpc' = "asleep"
    /\ UNCHANGED <<sharedVars, msub, waited, workerVars, taskVars>>

-----------------------------------------------------------------------------
(* ~IntrusiveThreadPool.                                                   *)

StartShutdown ==
    /\ mpc = "idle"
    /\ Started
    /\ shutdown_' = TRUE
    /\ mpc' = "wait_workers"
    /\ UNCHANGED <<count_tasks, tasks, count_workers_, msub, waited, workerVars, taskVars>>

\* WaitShutdown: the look at count_workers_ and, if need be, the wait.
WaitShutdown ==
    /\ mpc = "wait_workers"
    /\ mpc' = IF count_workers_ = 0 THEN "join" ELSE "workers_asleep"
    /\ UNCHANGED <<sharedVars, msub, waited, workerVars, taskVars>>

\* Every thread is joined; then the members are destroyed.
Join ==
    /\ mpc = "join"
    /\ \A w \in Workers : wpc[w] = "stopped"
    /\ mpc' = "destroyed"
    /\ UNCHANGED <<sharedVars, msub, waited, workerVars, taskVars>>

-----------------------------------------------------------------------------
(* The loop of a worker.                                                   *)

Pop(w) ==
    /\ wpc[w] = "pop"
    /\ \/ /\ tasks # <<>>
          /\ cur' = [cur EXCEPT ![w] = Head(tasks)]
          /\ tasks' = Tail(tasks)
          /\ Goto(w, "run")
       \/ /\ tasks = <<>>
          /\ Goto(w, "check")
          /\ UNCHANGED <<tasks, cur>>
    /\ UNCHANGED <<shutdown_, count_tasks, count_workers_, ownerVars, wsub, taskVars>>

\* if (IsShutdown()) break;
CheckShutdown(w) ==
    /\ wpc[w] = "check"
    /\ Goto(w, IF shutdown_ THEN "exit" ELSE "pop")
    /\ UNCHANGED <<sharedVars, ownerVars, cur, wsub, taskVars>>

\* The running task calls Submit: of a new task, of a parked one (Schedule), or
\* of itself (Yield).  The task is dropped if the pool shuts down.
RunSubmit(w) ==
    /\ wpc[w] = "run"
    /\ \E t \in Tasks :
        /\ \/ status[t] \in {"new", "parked"} /\ UNCHANGED stops
           \/ /\ t = cur[w] /\ stops[t] < MaxStops
              /\ stops' = [stops EXCEPT ![t] = @ + 1]
        /\ \/ /\ shutdown_
              /\ status' = [status EXCEPT ![t] = "dropped"]
              /\ Goto(w, IF t = cur[w] THEN "remove" ELSE "run")
              /\ UNCHANGED wsub
           \/ /\ ~shutdown_
              /\ status' = [status EXCEPT ![t] = "submitted"]
              /\ wsub' = [wsub EXCEPT ![w] = t]
              /\ Goto(w, "add")
    /\ UNCHANGED <<sharedVars, ownerVars, cur>>

\* Fault: the task is not counted.
RunAddTaskForgotten(w) ==
    /\ wpc[w] = "add"
    /\ Goto(w, "push")
    /\ UNCHANGED <<sharedVars, ownerVars, cur, wsub, taskVars>>

RunAddTask(w) ==
    /\ wpc[w] = "add"
    /\ count_tasks' = count_tasks + 1
    /\ Goto(w, "push")
    /\ UNCHANGED <<shutdown_, tasks, count_workers_, ownerVars, cur, wsub, taskVars>>

\* Fault: the task is submitted but not put into the list.
RunPushForgotten(w) ==
    /\ wpc[w] = "push"
    /\ Goto(w, IF wsub[w] = cur[w] THEN "remove" ELSE "run")
    /\ wsub' = [wsub EXCEPT ![w] = NULL]
    /\ UNCHANGED <<sharedVars, ownerVars, cur, taskVars>>

\* tasks.Push(task); a task that has submitted itself is suspended and its
\* Run returns, though another worker may already run it again.
RunPush(w) ==
    /\ wpc[w] = "push"
    /\ tasks' = Append(tasks, wsub[w])
    /\ Goto(w, IF wsub[w] = cur[w] THEN "remove" ELSE "run")
    /\ wsub' = [wsub EXCEPT ![w] = NULL]
    /\ UNCHANGED <<shutdown_, count_tasks, count_workers_, ownerVars, cur, taskVars>>

\* Run returns because the task has come to its end (COMPLETE), or because the
\* fiber is parked (UNCOMPLETED) and can be scheduled from now on.  The pool
\* does not look at the result.
RunReturn(w) ==
    /\ wpc[w] = "run"
    /\ LET t == cur[w]
       IN  \/ status' = [status EXCEPT ![t] = "done"] /\ UNCHANGED stops
          \/ /\ stops[t] < MaxStops
             /\ status' = [status EXCEPT ![t] = "parked"]
             /\ stops' = [stops EXCEPT ![t] = @ + 1]
    /\ Goto(w, "remove")
    /\ UNCHANGED <<sharedVars, ownerVars, cur, wsub>>

RemoveTask(w) ==
    /\ wpc[w] = "remove"
    /\ count_tasks' = count_tasks - 1
    /\ cur' = [cur EXCEPT ![w] = NULL]
    /\ Goto(w, "notify")
    /\ UNCHANGED <<shutdown_, tasks, count_workers_, ownerVars, wsub, taskVars>>

\* empty_tasks_.notify_all(): only a sleeper is woken.
NotifyAll(w) ==
    /\ wpc[w] = "notify"
    /\ mpc' = IF mpc = "asleep" THEN "load" ELSE mpc
    /\ Goto(w, "pop")
    /\ UNCHANGED <<sharedVars, msub, waited, cur, wsub, taskVars>>

\* After the loop: count_workers_ is decreased under mutex_workers_ ...
Exit(w) ==
    /\ wpc[w] = "exit"
    /\ count_workers_' = count_workers_ - 1
    /\ Goto(w, "exit_notify")
    /\ UNCHANGED <<shutdown_, count_tasks, tasks, ownerVars, cur, wsub, taskVars>>

\* Fault: the last worker does not tell.
ExitSilently(w) ==
    /\ wpc[w] = "exit_notify"
    /\ Goto(w, "stopped")
    /\ UNCHANGED <<sharedVars, ownerVars, cur, wsub, taskVars>>

\* ... and empty_workers_.notify_one().
ExitNotify(w) ==
    /\ wpc[w] = "exit_notify"
    /\ mpc' = IF mpc = "workers_asleep" THEN "wait_workers" ELSE mpc
    /\ Goto(w, "stopped")
    /\ UNCHANGED <<sharedVars, msub, waited, cur, wsub, taskVars>>

-----------------------------------------------------------------------------

\* What the owner goes on with once it has begun.
OwnerStep ==
    \/ OwnerAddTask \/ OwnerPush
    \/ WaitIdleLoad \/ WaitIdleBlock
    \/ WaitShutdown \/ Join

WorkerStep(w) ==
    \/ Pop(w) \/ CheckShutdown(w)
    \/ RunSubmit(w) \/ RunAddTask(w) \/ RunPush(w) \/ RunReturn(w)
    \/ RemoveTask(w) \/ NotifyAll(w)
    \/ Exit(w) \/ ExitNotify(w)

Next ==
    \/ \E w \in Workers : StartWorker(w) \/ WorkerStep(w)
    \/ \E t \in Tasks : OwnerSubmit(t)
    \/ WaitIdle
    \/ StartShutdown
    \/ OwnerStep

Spec == Init /\ [][Next]_vars

\* Threads keep running; the owner finishes the calls it has made, and Start
\* starts every worker.
Fairness ==
    /\ WF_vars(OwnerStep)
    /\ \A w \in Workers : WF_vars(StartWorker(w)) /\ WF_vars(WorkerStep(w))

FairSpec == Spec /\ Fairness

-----------------------------------------------------------------------------
(* Properties.                                                             *)

\* Every variable has its type; the counters never go below zero.
TypeOK ==
    /\ shutdown_ \in BOOLEAN
    /\ count_tasks \in Nat
    /\ tasks \in Seq(Tasks)
    /\ count_workers_ \in 0..Cardinality(Workers)
    /\ mpc \in OwnerPC
    /\ msub \in Tasks \union {NULL}
    /\ waited \in BOOLEAN
    /\ wpc \in [Workers -> WorkerPC]
    /\ cur \in [Workers -> Tasks \union {NULL}]
    /\ wsub \in [Workers -> Tasks \union {NULL}]
    /\ status \in [Tasks -> {"new", "submitted", "parked", "done", "dropped"}]
    /\ stops \in [Tasks -> 0..MaxStops]

At(places) == {w \in Workers : wpc[w] \in places}

\* The workers that execute Run or have not yet subtracted it.
Busy == At({"run", "add", "push", "remove"})

\* The workers that Start has counted and that have not uncounted themselves.
Counted == At(WorkerPC \ {"unborn", "exit_notify", "stopped"})

\* count_tasks is the number of tasks in the list, in a worker and between
\* AddTask and Push: a task that yields is added again before it is removed, a
\* parked one is not counted (intrusive_pool.cpp:44-45 and 67-70).
CountMatches ==
    /\ count_tasks = Len(tasks) + Cardinality(Busy) + Cardinality(At({"push"}))
                     + (IF mpc = "push" THEN 1 ELSE 0)
    /\ count_workers_ = Cardinality(Counted)

Has(list, t) == \E i \in 1..Len(list) : list[i] = t

\* A task is in the hands of the owner, in the list, or in a worker that runs
\* it or submits it.
Held(t) ==
    \/ t = msub
    \/ Has(tasks, t)
    \/ \E w \in At({"run", "add", "push"}) : cur[w] = t \/ wsub[w] = t

\* A task that was submitted, has not come to its end and is not parked is held
\* by somebody: none is lost.
HeldInv ==
    /\ msub # NULL <=> mpc \in {"add", "push"}
    /\ \A w \in Workers : cur[w] # NULL <=> w \in Busy
    /\ \A w \in Workers : wsub[w] # NULL <=> wpc[w] \in {"add", "push"}
    /\ \A t \in Tasks : status[t] = "submitted" => Held(t)

\* WaitIdle, which returns when it reads 0, returns when no submitted task is
\* left that could run, what tasks submitted themselves included.  It does not
\* wait for parked fibers: with them the count gets to 0 before they end ...
IdleInv == count_tasks = 0 => \A t \in Tasks : status[t] = "submitted" => t = msub

\* ... and the pool stays idle until the owner submits again.
WaitedInv == waited => count_tasks = 0 /\ mpc \notin {"add", "push"}

\* The destructor outlives every thread, so none of them uses a destroyed
\* member.
OutlivesInv == mpc = "destroyed" => \A w \in Workers : wpc[w] = "stopped"

\* What the destructor leaves behind is in the list, and counted; it is nothing
\* when the owner has waited for idleness and submitted nothing since
\* (lines 15-25).
LeftInv ==
    mpc = "destroyed" => count_tasks = Len(tasks) /\ (waited => tasks = <<>>)

\* The counts are exact, no task is lost, WaitIdle is not early but for parked
\* fibers, and the end is clean.
PoolInv ==
    /\ TypeOK /\ CountMatches /\ HeldInv
    /\ IdleInv /\ WaitedInv
    /\ OutlivesInv /\ LeftInv

\* A submitted task is run until it ends or is parked, unless the pool is shut
\* down.
SubmittedIsServed ==
    \A t \in Tasks :
        status[t] = "submitted" /\ Started ~> status[t] \in {"done", "parked"} \/ shutdown_

\* The assertion of line 24, for an owner that has not waited.  It does not hold:
\* a worker that has popped nothing looks at shutdown_ later (line 48), and a
\* task submitted in between stays in the list.  LeftInv is what holds.
ShutdownAssertion == mpc = "destroyed" => count_tasks = 0

\* The destructor comes to its end.
ShutdownEnds == shutdown_ ~> mpc = "destroyed"

\* A call of WaitIdle returns when the tasks are finished, as every test expects
\* that calls it (test/fiber/test_mutex.cpp:54-56).  It does not hold: the last
\* RemoveTask and NotifyAll, which do not take the mutex of WaitIdle, can come
\* between its load of count_tasks and its wait (executor.h:31-32).
WaitIdleReturns == mpc \in {"load", "block", "asleep"} ~> mpc = "idle"

=============================================================================
