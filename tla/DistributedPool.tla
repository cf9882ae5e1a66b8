-------------------------- MODULE DistributedPool --------------------------
(***************************************************************************)
(* NExecutors::DistributedPool (src/executor/pool/distributed_pool.cpp),   *)
(* its workers (src/executor/pool/internal/worker.cpp) and their base      *)
(* class Shutdowner (src/executor/executor.h).                             *)
(*                                                                         *)
(* A task that has not run yet is in global_tasks; a worker moves it to    *)
(* its own local_tasks, runs it, and becomes its home for good: whoever    *)
(* schedules the task again pushes it to that worker.  A worker that finds *)
(* both queues empty suspends the coroutine in which it runs, sleeps on a  *)
(* semaphore for at most 400 ms and looks again.                           *)
(*                                                                         *)
(* Threads: the owner of the pool and the workers.  A running task may     *)
(* submit new tasks, schedule parked ones, submit itself again (Yield),    *)
(* wait for something (it is parked) or return.  The queues are the FIFO   *)
(* queues of module SimpleMSQueue: an operation is a step.                 *)
(*                                                                         *)
(* Left out: suspended_workers, which nobody reads; Worker::shutdown,      *)
(* which is set after the thread was joined.  The semaphore counts, as     *)
(* libstdc++'s does: release() does not look at max().                     *)
(***************************************************************************)
EXTENDS Naturals, Sequences, FiniteSets

CONSTANTS
    Tasks, Workers, Owner,
    Fibers,     \* the tasks that are fibers: they may yield or be parked
    MaxStops,   \* this often; the others are functions
    NULL

ASSUME PoolAssumption ==
    /\ IsFiniteSet(Tasks) /\ IsFiniteSet(Workers) /\ Workers # {}
    /\ Owner \notin Workers
    /\ Fibers \subseteq Tasks /\ MaxStops \in Nat
    /\ NULL \notin Tasks \union Workers

VARIABLES
    shutdown_, count_tasks,   \* Shutdowner
    global_tasks,             \* IExecutor::global_tasks
    local_tasks,              \* local_tasks[w]: Worker::local_tasks
    counter_empty_tasks,      \* counter_empty_tasks[w]: 0 or Wrapped
    smph,                     \* smph[w]: Worker::smph
    mpc,                      \* where the owner is
    to_join,                  \* the workers WaitShutdown has ahead
    wpc,                      \* wpc[w]: where worker w is
    completed,                \* completed[w]: the coroutine of w has returned
    cur,                      \* cur[w]: the task worker w runs or moves
    spc, sub, target,         \* spc[a]: where thread a is in Submit(sub[a]) or
                              \* in Push of worker target[a]
    state, home,              \* TaskBase::state and TaskBase::worker
    status,                   \* status[t]: "new", "submitted", "parked" or "done"
    stops                     \* stops[t]: how often t has yielded or been parked

sharedVars == <<shutdown_, count_tasks, global_tasks, local_tasks,
                counter_empty_tasks, smph>>
ownerVars  == <<mpc, to_join>>
workerVars == <<wpc, completed, cur>>
submitVars == <<spc, sub, target>>
taskVars   == <<state, home, status, stops>>
vars == <<sharedVars, ownerVars, workerVars, submitVars, taskVars>>

Actors == Workers \union {Owner}

MaxEmptyTasksInLoop == 1

\* Stands for the values of a size_t near 2^64: what decreasing 0 gives, and
\* decreasing that further (no execution decreases it 2^64 times).
Wrapped == 2

OwnerPC  == {"idle", "load", "block", "asleep", "wake", "join", "destroyed"}
WorkerPC == {"unborn", "local", "run", "remove", "global", "push", "close", "decrease",
             "compare", "notify", "loop_close", "sleep", "crashed", "stopped"}
SubmitPC == {"no", "add", "route", "reset", "release"}

Init ==
    /\ shutdown_ = FALSE
    /\ count_tasks = 0
    /\ global_tasks = <<>>
    /\ local_tasks = [w \in Workers |-> <<>>]
    /\ counter_empty_tasks = [w \in Workers |-> 0]
    /\ smph = [w \in Workers |-> 0]
    /\ mpc = "idle" /\ to_join = {}
    /\ wpc = [w \in Workers |-> "unborn"]
    /\ completed = [w \in Workers |-> FALSE]
    /\ cur = [w \in Workers |-> NULL]
    /\ spc = [a \in Actors |-> "no"]
    /\ sub = [a \in Actors |-> NULL]
    /\ target = [a \in Actors |-> NULL]
    /\ state = [t \in Tasks |-> "PLANNED"]
    /\ home = [t \in Tasks |-> NULL]
    /\ status = [t \in Tasks |-> "new"]
    /\ stops = [t \in Tasks |-> 0]

Goto(w, to) == wpc' = [wpc EXCEPT ![w] = to]

Started == \A w \in Workers : wpc[w] # "unborn"

\* TaskBase::ProgressState; it throws if the task has finished.
ProgressState(t) ==
    /\ state[t] # "FINISHED"
    /\ state' = [state EXCEPT ![t] = IF @ = "PLANNED" THEN "RUNNING" ELSE "FINISHED"]

\* TaskBase::SetWorker: the first worker stays.
SetWorker(t, w) == home' = [home EXCEPT ![t] = IF @ = NULL THEN w ELSE @]

\* Shutdowner::CanCloseWorker.
CanCloseWorker == shutdown_ /\ count_tasks = 0

-----------------------------------------------------------------------------
(* DistributedPool::Submit and Worker::Push, by the owner or by a worker   *)
(* on behalf of the task it runs.                                          *)

\* Thread a calls Submit(t) for a new or a parked task, or for its own task.
CallSubmit(a, t) ==
    /\ spc' = [spc EXCEPT ![a] = "add"]
    /\ sub' = [sub EXCEPT ![a] = t]
    /\ status' = [status EXCEPT ![t] = "submitted"]
    /\ UNCHANGED <<sharedVars, target, state, home>>

\* Fault: a task is never counted.
SubmitAddNever(a) ==
    /\ spc[a] = "add"
    /\ state' = [state EXCEPT ![sub[a]] = "RUNNING"]
    /\ spc' = [spc EXCEPT ![a] = "route"]
    /\ UNCHANGED <<sharedVars, ownerVars, workerVars, sub, target, home, status, stops>>

\* A task is counted when it is submitted for the first time.
SubmitAdd(a) ==
    /\ spc[a] = "add"
    /\ IF state[sub[a]] = "PLANNED"
       THEN count_tasks' = count_tasks + 1 /\ ProgressState(sub[a])
       ELSE UNCHANGED <<count_tasks, state>>
    /\ spc' = [spc EXCEPT ![a] = "route"]
    /\ UNCHANGED <<shutdown_, global_tasks, local_tasks, counter_empty_tasks, smph,
                   ownerVars, workerVars, sub, target, home, status, stops>>

\* Fault: every task goes to the common queue.
SubmitRouteGlobal(a) ==
    /\ spc[a] = "route"
    /\ global_tasks' = Append(global_tasks, sub[a])
    /\ sub' = [sub EXCEPT ![a] = NULL]
    /\ spc' = [spc EXCEPT ![a] = "no"]
    /\ UNCHANGED <<shutdown_, count_tasks, local_tasks, counter_empty_tasks, smph,
                   ownerVars, workerVars, target, taskVars>>

\* The task goes to its worker, or to global_tasks if it has none.
SubmitRoute(a) ==
    /\ spc[a] = "route"
    /\ LET t == sub[a]
       IN  IF home[t] = NULL
           THEN /\ global_tasks' = Append(global_tasks, t)
                /\ spc' = [spc EXCEPT ![a] = "no"]
                /\ UNCHANGED <<local_tasks, target>>
           ELSE /\ local_tasks' = [local_tasks EXCEPT ![home[t]] = Append(@, t)]
                /\ target' = [target EXCEPT ![a] = home[t]]
                /\ spc' = [spc EXCEPT ![a] = "reset"]
                /\ UNCHANGED global_tasks
    /\ sub' = [sub EXCEPT ![a] = NULL]
    /\ UNCHANGED <<shutdown_, count_tasks, counter_empty_tasks, smph,
                   ownerVars, workerVars, taskVars>>

\* Push goes on: counter_empty_tasks.store(0) ...
PushReset(a) ==
    /\ spc[a] = "reset"
    /\ counter_empty_tasks' = [counter_empty_tasks EXCEPT ![target[a]] = 0]
    /\ spc' = [spc EXCEPT ![a] = "release"]
    /\ UNCHANGED <<shutdown_, count_tasks, global_tasks, local_tasks, smph,
                   ownerVars, workerVars, sub, target, taskVars>>

\* ... and smph.release(1).
PushRelease(a) ==
    /\ spc[a] = "release"
    /\ smph' = [smph EXCEPT ![target[a]] = @ + 1]
    /\ target' = [target EXCEPT ![a] = NULL]
    /\ spc' = [spc EXCEPT ![a] = "no"]
    /\ UNCHANGED <<shutdown_, count_tasks, global_tasks, local_tasks, counter_empty_tasks,
                   ownerVars, workerVars, sub, taskVars>>

SubmitStep(a) == SubmitAdd(a) \/ SubmitRoute(a) \/ PushReset(a) \/ PushRelease(a)

-----------------------------------------------------------------------------
(* The owner: Start, Submit, WaitIdle and ~DistributedPool.                *)

StartWorker(w) ==
    /\ mpc = "idle"
    /\ wpc[w] = "unborn"
    /\ Goto(w, "local")
    /\ UNCHANGED <<sharedVars, ownerVars, completed, cur, submitVars, taskVars>>

OwnerSubmit(t) ==
    /\ mpc = "idle" /\ spc[Owner] = "no"
    /\ status[t] \in {"new", "parked"}
    /\ CallSubmit(Owner, t)
    /\ UNCHANGED <<ownerVars, workerVars, stops>>

WaitIdle ==
    /\ mpc = "idle" /\ spc[Owner] = "no"
    /\ Started
    /\ mpc' = "load"
    /\ UNCHANGED <<sharedVars, to_join, workerVars, submitVars, taskVars>>

WaitIdleLoad ==
    /\ mpc = "load"
    /\ mpc' = IF count_tasks = 0 THEN "idle" ELSE "block"
    /\ UNCHANGED <<sharedVars, to_join, workerVars, submitVars, taskVars>>

WaitIdleBlock ==
    /\ mpc = "block"
    /\ mpc' = "asleep"
    /\ UNCHANGED <<sharedVars, to_join, workerVars, submitVars, taskVars>>

StartShutdown ==
    /\ mpc = "idle" /\ spc[Owner] = "no"
    /\ Started
    /\ shutdown_' = TRUE
    /\ mpc' = "wake"
    /\ to_join' = Workers
    /\ UNCHANGED <<count_tasks, global_tasks, local_tasks, counter_empty_tasks, smph,
                   workerVars, submitVars, taskVars>>

\* WaitShutdown: WakUpForShutdown and Join, one worker after the other.
WakUpForShutdown ==
    /\ mpc = "wake"
    /\ \E w \in to_join :
         /\ smph' = [smph EXCEPT ![w] = @ + 1]
         /\ target' = [target EXCEPT ![Owner] = w]
    /\ mpc' = "join"
    /\ UNCHANGED <<shutdown_, count_tasks, global_tasks, local_tasks, counter_empty_tasks,
                   to_join, workerVars, spc, sub, taskVars>>

Join ==
    /\ mpc = "join"
    /\ wpc[target[Owner]] = "stopped"
    /\ to_join' = to_join \ {target[Owner]}
    /\ target' = [target EXCEPT ![Owner] = NULL]
    /\ mpc' = IF to_join' = {} THEN "destroyed" ELSE "wake"
    /\ UNCHANGED <<sharedVars, workerVars, spc, sub, taskVars>>

-----------------------------------------------------------------------------
(* Worker::Process, in the coroutine of the worker.                        *)

PopLocal(w) ==
    /\ wpc[w] = "local"
    /\ \/ /\ local_tasks[w] # <<>>
          /\ LET t == Head(local_tasks[w])
             IN  /\ cur' = [cur EXCEPT ![w] = t]
                 /\ SetWorker(t, w)
          /\ local_tasks' = [local_tasks EXCEPT ![w] = Tail(@)]
          /\ Goto(w, "run")
       \/ /\ local_tasks[w] = <<>>
          /\ Goto(w, "global")
          /\ UNCHANGED <<local_tasks, cur, home>>
    /\ UNCHANGED <<shutdown_, count_tasks, global_tasks, counter_empty_tasks, smph,
                   ownerVars, completed, submitVars, state, status, stops>>

\* The running task submits a new task or schedules a parked one.
RunSubmit(w, t) ==
    /\ wpc[w] = "run" /\ spc[w] = "no"
    /\ status[t] \in {"new", "parked"}
    /\ CallSubmit(w, t)
    /\ UNCHANGED <<ownerVars, workerVars, stops>>

\* The running task yields: after the switch, Run submits it again ...
RunYield(w) ==
    /\ wpc[w] = "run" /\ spc[w] = "no"
    /\ cur[w] \in Fibers /\ stops[cur[w]] < MaxStops
    /\ stops' = [stops EXCEPT ![cur[w]] = @ + 1]
    /\ CallSubmit(w, cur[w])
    /\ Goto(w, "notify")
    /\ cur' = [cur EXCEPT ![w] = NULL]
    /\ UNCHANGED <<ownerVars, completed>>

\* ... or waits for something, and Run parks it.
RunPark(w) ==
    /\ wpc[w] = "run" /\ spc[w] = "no"
    /\ cur[w] \in Fibers /\ stops[cur[w]] < MaxStops
    /\ stops' = [stops EXCEPT ![cur[w]] = @ + 1]
    /\ status' = [status EXCEPT ![cur[w]] = "parked"]
    /\ Goto(w, "notify")
    /\ cur' = [cur EXCEPT ![w] = NULL]
    /\ UNCHANGED <<sharedVars, ownerVars, completed, submitVars, state, home>>

\* The function of the task returns: Run answers COMPLETE and leaves the state.
RunFunction(w) ==
    /\ wpc[w] = "run" /\ spc[w] = "no"
    /\ cur[w] \notin Fibers
    /\ status' = [status EXCEPT ![cur[w]] = "done"]
    /\ Goto(w, "remove")
    /\ UNCHANGED <<sharedVars, ownerVars, completed, cur, submitVars, state, home, stops>>

\* The fiber comes to its end: Run answers COMPLETE.
RunFiber(w) ==
    /\ wpc[w] = "run" /\ spc[w] = "no"
    /\ cur[w] \in Fibers
    /\ status' = [status EXCEPT ![cur[w]] = "done"]
    /\ ProgressState(cur[w])
    /\ Goto(w, "remove")
    /\ UNCHANGED <<sharedVars, ownerVars, completed, cur, submitVars, home, stops>>

RemoveTask(w) ==
    /\ wpc[w] = "remove"
    /\ count_tasks' = count_tasks - 1
    /\ cur' = [cur EXCEPT ![w] = NULL]
    /\ Goto(w, "notify")
    /\ UNCHANGED <<shutdown_, global_tasks, local_tasks, counter_empty_tasks, smph,
                   ownerVars, completed, submitVars, taskVars>>

PopGlobal(w) ==
    /\ wpc[w] = "global"
    /\ \/ /\ global_tasks # <<>>
          /\ cur' = [cur EXCEPT ![w] = Head(global_tasks)]
          /\ global_tasks' = Tail(global_tasks)
          /\ Goto(w, "push")
       \/ /\ global_tasks = <<>>
          /\ Goto(w, "close")
          /\ UNCHANGED <<global_tasks, cur>>
    /\ UNCHANGED <<shutdown_, count_tasks, local_tasks, counter_empty_tasks, smph,
                   ownerVars, completed, submitVars, taskVars>>

\* Fault: the task popped from global_tasks goes nowhere.
PushOwnForgotten(w) ==
    /\ wpc[w] = "push"
    /\ cur' = [cur EXCEPT ![w] = NULL]
    /\ target' = [target EXCEPT ![w] = w]
    /\ spc' = [spc EXCEPT ![w] = "reset"]
    /\ Goto(w, "notify")
    /\ UNCHANGED <<sharedVars, ownerVars, completed, sub, taskVars>>

\* Push(*global_task), on the worker's own queue.
PushOwn(w) ==
    /\ wpc[w] = "push"
    /\ local_tasks' = [local_tasks EXCEPT ![w] = Append(@, cur[w])]
    /\ cur' = [cur EXCEPT ![w] = NULL]
    /\ target' = [target EXCEPT ![w] = w]
    /\ spc' = [spc EXCEPT ![w] = "reset"]
    /\ Goto(w, "notify")
    /\ UNCHANGED <<shutdown_, count_tasks, global_tasks, counter_empty_tasks, smph,
                   ownerVars, completed, sub, taskVars>>

\* The coroutine of the worker returns; it suspends; it is resumed, which must
\* not happen to a coroutine that has returned.
CoroReturn(w) == completed' = [completed EXCEPT ![w] = TRUE] /\ Goto(w, "loop_close")
CoroSuspend(w) == Goto(w, "loop_close")
CoroResume(w) == Goto(w, IF completed[w] THEN "crashed" ELSE "notify")

\* Fault: a worker leaves at shutdown although there are tasks.
CloseAtOnce(w) ==
    /\ wpc[w] = "close"
    /\ IF shutdown_
       THEN CoroReturn(w)
       ELSE Goto(w, "decrease") /\ UNCHANGED completed
    /\ UNCHANGED <<sharedVars, ownerVars, cur, submitVars, taskVars>>

\* if (ex->CanCloseWorker()) break: the coroutine completes.
Close(w) ==
    /\ wpc[w] = "close"
    /\ IF CanCloseWorker
       THEN CoroReturn(w)
       ELSE Goto(w, "decrease") /\ UNCHANGED completed
    /\ UNCHANGED <<sharedVars, ownerVars, cur, submitVars, taskVars>>

Decrease(w) ==
    /\ wpc[w] = "decrease"
    /\ counter_empty_tasks' = [counter_empty_tasks EXCEPT ![w] = Wrapped]
    /\ Goto(w, "compare")
    /\ UNCHANGED <<shutdown_, count_tasks, global_tasks, local_tasks, smph,
                   ownerVars, completed, cur, submitVars, taskVars>>

\* The coroutine is suspended unless a Push has reset the counter meanwhile.
Compare(w) ==
    /\ wpc[w] = "compare"
    /\ IF counter_empty_tasks[w] >= MaxEmptyTasksInLoop THEN CoroSuspend(w) ELSE Goto(w, "notify")
    /\ UNCHANGED <<sharedVars, ownerVars, completed, cur, submitVars, taskVars>>

\* Fault: nobody is told.
NotifyNobody(w) ==
    /\ wpc[w] = "notify" /\ spc[w] = "no"
    /\ Goto(w, "local")
    /\ UNCHANGED <<sharedVars, ownerVars, completed, cur, submitVars, taskVars>>

\* ex->NotifyAll(), at the end of every turn.
NotifyAll(w) ==
    /\ wpc[w] = "notify" /\ spc[w] = "no"
    /\ mpc' = IF mpc = "asleep" THEN "load" ELSE mpc
    /\ Goto(w, "local")
    /\ UNCHANGED <<sharedVars, to_join, completed, cur, submitVars, taskVars>>

-----------------------------------------------------------------------------
(* Worker::Loop, outside the coroutine.                                    *)

\* After Resume() has returned.
LoopClose(w) ==
    /\ wpc[w] = "loop_close"
    /\ Goto(w, IF CanCloseWorker THEN "stopped" ELSE "sleep")
    /\ UNCHANGED <<sharedVars, ownerVars, completed, cur, submitVars, taskVars>>

\* smph.try_acquire_for(...) succeeds or times out, and Resume() goes on in
\* the coroutine.
Sleep(w) ==
    /\ wpc[w] = "sleep"
    /\ \/ smph[w] > 0 /\ smph' = [smph EXCEPT ![w] = @ - 1]
       \/ smph[w] = 0 /\ UNCHANGED smph
    /\ CoroResume(w)
    /\ UNCHANGED <<shutdown_, count_tasks, global_tasks, local_tasks, counter_empty_tasks,
                   ownerVars, completed, cur, submitVars, taskVars>>

-----------------------------------------------------------------------------

\* What the owner goes on with once it has begun.
OwnerStep ==
    \/ SubmitStep(Owner)
    \/ WaitIdleLoad \/ WaitIdleBlock
    \/ WakUpForShutdown \/ Join

WorkerStep(w) ==
    \/ PopLocal(w) \/ PopGlobal(w) \/ PushOwn(w)
    \/ (\E t \in Tasks : RunSubmit(w, t)) \/ SubmitStep(w)
    \/ RunYield(w) \/ RunPark(w) \/ RunFunction(w) \/ RunFiber(w) \/ RemoveTask(w)
    \/ Close(w) \/ Decrease(w) \/ Compare(w) \/ NotifyAll(w)
    \/ LoopClose(w) \/ Sleep(w)

Terminated == mpc = "destroyed" /\ UNCHANGED vars

Next ==
    \/ \E w \in Workers : StartWorker(w) \/ WorkerStep(w)
    \/ \E t \in Tasks : OwnerSubmit(t)
    \/ WaitIdle \/ StartShutdown
    \/ OwnerStep
    \/ Terminated

Spec == Init /\ [][Next]_vars

\* Threads keep running, a sleep on the semaphore times out, the owner
\* finishes the calls it has made, and Start starts every worker.
Fairness ==
    /\ WF_vars(OwnerStep)
    /\ \A w \in Workers : WF_vars(StartWorker(w)) /\ WF_vars(WorkerStep(w))

FairSpec == Spec /\ Fairness

-----------------------------------------------------------------------------
(* Properties.                                                             *)

\* Every variable has its type.
TypeOK ==
    /\ shutdown_ \in BOOLEAN
    /\ count_tasks \in Nat
    /\ global_tasks \in Seq(Tasks)
    /\ local_tasks \in [Workers -> Seq(Tasks)]
    /\ counter_empty_tasks \in [Workers -> {0, Wrapped}]
    /\ smph \in [Workers -> Nat]
    /\ mpc \in OwnerPC /\ to_join \subseteq Workers
    /\ wpc \in [Workers -> WorkerPC]
    /\ completed \in [Workers -> BOOLEAN]
    /\ cur \in [Workers -> Tasks \union {NULL}]
    /\ spc \in [Actors -> SubmitPC]
    /\ sub \in [Actors -> Tasks \union {NULL}]
    /\ target \in [Actors -> Workers \union {NULL}]
    /\ state \in [Tasks -> {"PLANNED", "RUNNING", "FINISHED"}]
    /\ home \in [Tasks -> Workers \union {NULL}]
    /\ status \in [Tasks -> {"new", "submitted", "parked", "done"}]
    /\ stops \in [Tasks -> 0..MaxStops]

\* Task t is in the list s; the tasks of s are different.
Has(s, t) == \E i \in 1..Len(s) : s[i] = t
Unique(s) == \A i, j \in 1..Len(s) : s[i] = s[j] => i = j

Kinds == {"global", "local", "cur", "sub"}

\* Place k of thread x holds task t: the common queue (of the owner's pool), the
\* worker's queue, the worker itself, or a call of Submit.  A worker that
\* has COMPLETE from its task only counts it off.
Holds(k, x, t) ==
    \/ k = "global" /\ x = Owner /\ Has(global_tasks, t)
    \/ k = "local" /\ x \in Workers /\ Has(local_tasks[x], t)
    \/ k = "cur" /\ x \in Workers /\ cur[x] = t /\ wpc[x] # "remove"
    \/ k = "sub" /\ x \in Actors /\ sub[x] = t

\* A submitted task is in exactly one place, so it is neither lost nor run
\* twice; a task that is parked, done or new is in none.
HeldOnce ==
    /\ Unique(global_tasks)
    /\ \A w \in Workers : Unique(local_tasks[w])
    /\ \A t \in Tasks :
           /\ status[t] = "submitted" <=> \E k \in Kinds, x \in Actors : Holds(k, x, t)
           /\ \A k, l \in Kinds : \A x, y \in Actors :
                  Holds(k, x, t) /\ Holds(l, y, t) => k = l /\ x = y

\* A thread has a task and a worker in hand exactly while it works on them;
\* the owner calls nothing after it has begun to shut down.
InHandInv ==
    /\ \A w \in Workers :
           /\ cur[w] # NULL <=> wpc[w] \in {"run", "remove", "push"}
           /\ target[w] # NULL <=> spc[w] \in {"reset", "release"}
           /\ spc[w] # "no" => wpc[w] \in {"run", "notify"}
    /\ \A a \in Actors : sub[a] # NULL <=> spc[a] \in {"add", "route"}
    /\ target[Owner] # NULL <=> spc[Owner] \in {"reset", "release"} \/ mpc = "join"
    /\ spc[Owner] # "no" => mpc = "idle"
    /\ shutdown_ => mpc \in {"wake", "join", "destroyed"}

\* ProgressState is right: a task in the pool or parked is RUNNING, except a new
\* one whose Submit has not counted it, and Submit never meets a FINISHED one.
StateInv ==
    /\ \A t \in Tasks :
           /\ status[t] = "new" => state[t] = "PLANNED"
           /\ status[t] = "parked" => state[t] = "RUNNING"
           /\ \A k \in Kinds, x \in Actors :
                  Holds(k, x, t) => \/ state[t] = "RUNNING"
                                    \/ k = "sub" /\ spc[x] = "add" /\ state[t] = "PLANNED"
    /\ \A w \in Workers :
           wpc[w] = "notify" /\ spc[w] = "add" => state[sub[w]] = "RUNNING"

\* The tasks to be counted, and the workers at place p.
InPool == {t \in Tasks : state[t] = "RUNNING" /\ status[t] # "done"}
At(p) == {w \in Workers : wpc[w] = p}

\* count_tasks counts every task from its first Submit until its COMPLETE,
\* also while it is parked: 0 means that nothing is left to run or to resume.
CountMatches == count_tasks = Cardinality(InPool) + Cardinality(At("remove"))

\* count_tasks is exact, and so WaitIdle, which returns when it reads 0, returns
\* when no task is in the pool or parked.
IdleInv ==
    count_tasks = 0 =>
        \A t \in Tasks : \/ status[t] \in {"new", "done"}
                         \/ \E a \in Actors : sub[a] = t /\ spc[a] = "add"

\* No task is lost or doubled, and the count agrees with the tasks there are.
PoolInv == TypeOK /\ HeldOnce /\ InHandInv /\ StateInv /\ CountMatches /\ IdleInv

\* A task that has run is only queued at, moved to and run by its worker: the
\* fibers of this pool never change their thread.
RunsAtHome ==
    /\ \A w \in Workers : wpc[w] \in {"run", "remove"} => home[cur[w]] = w
    /\ \A w \in Workers : wpc[w] = "push" => home[cur[w]] = NULL
    /\ \A w \in Workers, t \in Tasks : Has(local_tasks[w], t) => home[t] \in {NULL, w}
    /\ \A t \in Tasks : Has(global_tasks, t) => home[t] = NULL

\* The answer to CanCloseWorker was yes, and still is.
LeavesInv ==
    \A w \in Workers :
        /\ wpc[w] # "crashed"
        /\ completed[w] => wpc[w] \in {"loop_close", "stopped"}
        /\ completed[w] \/ wpc[w] = "stopped" => CanCloseWorker

\* Process and Loop both ask CanCloseWorker (worker.cpp:76 and 102).  Once one
\* of them has been told yes, the answer stays yes: no completed coroutine is
\* resumed, nothing is left in the queues when a worker leaves, and the
\* assertion 0 == GetTasks() of ~Worker (line 28) holds.
ClosedForGood ==
    /\ LeavesInv
    /\ \A w \in Workers :
           completed[w] \/ wpc[w] = "stopped" =>
               global_tasks = <<>> /\ local_tasks[w] = <<>>

\* A submitted task gets to its end, or to a point where it waits.
SubmittedIsServed ==
    \A t \in Tasks : status[t] = "submitted" /\ Started ~> status[t] \in {"done", "parked"}

\* WaitIdle returns unless a task stays parked.  A lost notification does no
\* harm: a sleeping worker looks again and notifies after its timeout.
WaitIdleReturns ==
    mpc \in {"load", "block", "asleep"}
        ~> mpc = "idle" \/ \E t \in Tasks : status[t] = "parked"

\* The destructor comes to its end unless a task stays parked.
ShutdownEnds ==
    shutdown_ ~> mpc = "destroyed" \/ \E t \in Tasks : status[t] = "parked"

\* What the owner waits for comes: idleness, and the end of the workers.
WaitsEnd == WaitIdleReturns /\ ShutdownEnds

=============================================================================
