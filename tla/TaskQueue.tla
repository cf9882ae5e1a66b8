------------------------------ MODULE TaskQueue ------------------------------
(***************************************************************************)
(* The queue, the tasks and the coroutines in the use they were written    *)
(* for: the thread pool of test/executor/test_thread_pool.cpp, whose code  *)
(* is no longer in the repository.  A client submits tasks with Put, waits *)
(* for them, cancels some before it submits them, and closes the queue;    *)
(* worker threads take tasks until Take has none, leave cancelled ones     *)
(* out, run the others and mark them.                                      *)
(*                                                                         *)
(* A task is a function, which may throw, or a FiberTask that resumes a    *)
(* coroutine, as in test/coro/test_coro_threads.cpp: the tasks of one      *)
(* coroutine are run one after another, on any worker ("Threads"), and a   *)
(* coroutine may drive another one ("Pipeline").                           *)
(***************************************************************************)
EXTENDS BlockingQueue, Task, Coroutine

CONSTANTS
    Clients,
    Script,    \* Script[k]: the calls of client k, <<operation, task>>
    Body,      \* Body[t]: the coroutine that task t resumes, or NoCoro
    Inner,     \* Inner[c]: the coroutine that c drives, or NoCoro
    NoTask

ASSUME TaskQueueAssumption ==
    /\ Clients \intersect Threads = {}
    /\ Body \in [Tasks -> Coroutines \union {NoCoro}]
    /\ Inner \in [Coroutines -> Coroutines \union {NoCoro}]
    /\ NoTask \notin Tasks /\ NoCoro \notin Coroutines

\* Client k makes this call as its i-th.
CallAt(k, i, operation, t) == i \in 1..Len(Script[k]) /\ Script[k][i] = <<operation, t>>

\* Clients use a task as the tests do: it is submitted once, and cancelled once
\* at most and not after its submission.
ASSUME ScriptAssumption ==
    /\ \A k \in Clients : Script[k] \in Seq(STRING \X (Tasks \union {NoTask}))
    /\ \A k, l \in Clients, t \in Tasks :
         \A i \in 1..Len(Script[k]), j \in 1..Len(Script[l]) :
            /\ CallAt(k, i, "submit", t) /\ CallAt(l, j, "submit", t) => k = l /\ i = j
            /\ CallAt(k, i, "cancel", t) /\ CallAt(l, j, "cancel", t) => k = l /\ i = j
            /\ CallAt(k, i, "cancel", t) /\ CallAt(l, j, "submit", t) => k = l /\ i < j

\* Client l waits for task t before its j-th call.
WaitsBefore(l, j, t) == \E i \in 1..j - 1 : CallAt(l, i, "wait", t)

\* A coroutine that runs is not resumed: it is driven by one other coroutine or
\* by tasks, and of two such tasks one is submitted after a Wait for the other.
ASSUME CoroutineAssumption ==
    /\ \A c, d \in Coroutines : Inner[c] = Inner[d] => Inner[c] = NoCoro \/ c = d
    /\ \A t \in Tasks, c \in Coroutines : Body[t] = Inner[c] => Body[t] = NoCoro
    /\ \A k, l \in Clients, t, u \in Tasks :
         \A i \in 1..Len(Script[k]), j \in 1..Len(Script[l]) :
            /\ CallAt(k, i, "submit", t) /\ CallAt(l, j, "submit", u)
            /\ t # u /\ Body[t] = Body[u] /\ Body[t] # NoCoro
            => WaitsBefore(l, j, t) \/ WaitsBefore(k, i, u)

VARIABLES
    at, phase,    \* where client k is in its script, and in Put
    wpc, task,    \* where worker a is, and the task it has taken
    drives,       \* drives[c]: c has resumed its inner coroutine and is to suspend
    runs,         \* history: how often each task was run
    late,         \* history: the tasks that Put pushed after Close
    shared        \* history: the tasks on which two clients slept at once

poolVars == <<at, phase, wpc, task, drives, runs, late, shared>>
vars == <<queueVars, taskVars, coroVars, poolVars>>

Init ==
    /\ QueueInit /\ TaskInit /\ CoroInit
    /\ at = [k \in Clients |-> 1]
    /\ phase = [k \in Clients |-> "start"]
    /\ wpc = [a \in Threads |-> "take"]
    /\ task = [a \in Threads |-> NoTask]
    /\ drives = [c \in Coroutines |-> FALSE]
    /\ runs = [t \in Tasks |-> 0]
    /\ late = {}
    /\ shared = {}

-----------------------------------------------------------------------------
(* Clients.                                                                *)

Calls(k, operation, t) == CallAt(k, at[k], operation, t)

Advance(k) == at' = [at EXCEPT ![k] = @ + 1]

ClientCancel(k, t) ==
    /\ Calls(k, "cancel", t)
    /\ Cancel(t)
    /\ Advance(k)
    /\ UNCHANGED <<queueVars, coroVars, phase, wpc, task, drives, runs, late, shared>>

SubmitCheck(k, t) ==
    /\ Calls(k, "submit", t)
    /\ phase[k] = "start"
    /\ phase' = [phase EXCEPT ![k] = IF PutRefused THEN "refused" ELSE "push"]
    /\ UNCHANGED <<queueVars, taskVars, coroVars, at, wpc, task, drives, runs, late, shared>>

SubmitPush(k, t) ==
    /\ Calls(k, "submit", t)
    /\ phase[k] = "push"
    /\ PutPush(t)
    /\ late' = IF close THEN late \union {t} ELSE late
    /\ phase' = [phase EXCEPT ![k] = "start"]
    /\ Advance(k)
    /\ UNCHANGED <<taskVars, coroVars, wpc, task, drives, runs, shared>>

\* Put has returned false: the task will not be run.
SubmitRefused(k, t) ==
    /\ Calls(k, "submit", t)
    /\ phase[k] = "refused"
    /\ IF IsFinished(t) THEN UNCHANGED taskVars ELSE Cancel(t)
    /\ phase' = [phase EXCEPT ![k] = "start"]
    /\ Advance(k)
    /\ UNCHANGED <<queueVars, coroVars, wpc, task, drives, runs, late, shared>>

ClientWaits(k, t) ==
    /\ Calls(k, "wait", t)
    /\ WaitSleeps(k, t)
    /\ shared' = IF task_waits[t] # {} THEN shared \union {t} ELSE shared
    /\ UNCHANGED <<queueVars, coroVars, at, phase, wpc, task, drives, runs, late>>

ClientWaited(k, t) ==
    /\ Calls(k, "wait", t)
    /\ WaitReturns(k, t)
    /\ Advance(k)
    /\ UNCHANGED <<queueVars, coroVars, phase, wpc, task, drives, runs, late, shared>>

ClientClose(k) ==
    /\ Calls(k, "close", NoTask)
    /\ Close
    /\ Advance(k)
    /\ UNCHANGED <<taskVars, coroVars, phase, wpc, task, drives, runs, late, shared>>

-----------------------------------------------------------------------------
(* Workers.                                                                *)

\* The places of a worker that has a task, or has found that there is none.
Working == {"notify", "begin", "inside", "complete", "fail"}

WorkerGoto(a, from, to) == wpc[a] = from /\ wpc' = [wpc EXCEPT ![a] = to]

WorkerSleeps(a) ==
    /\ wpc[a] = "take"
    /\ TakeSleeps(a)
    /\ UNCHANGED <<taskVars, coroVars, poolVars>>

WorkerTakes(a) ==
    /\ WorkerGoto(a, "take", "notify")
    /\ \/ TakeFront(a) /\ task' = [task EXCEPT ![a] = Head(data)]
       \/ TakeNothing(a) /\ task' = [task EXCEPT ![a] = NoTask]
    /\ UNCHANGED <<taskVars, coroVars, at, phase, drives, runs, late, shared>>

WorkerNotifies(a) ==
    /\ WorkerGoto(a, "notify", IF task[a] = NoTask THEN "gone" ELSE "begin")
    /\ TakeNotify
    /\ UNCHANGED <<taskVars, coroVars, at, phase, task, drives, runs, late, shared>>

WorkerSkips(a) ==
    /\ WorkerGoto(a, "begin", "take")
    /\ IsCanceled(task[a])
    /\ UNCHANGED <<queueVars, taskVars, coroVars, at, phase, task, drives, runs, late, shared>>

\* Run of a function, which returns or throws, or of a FiberTask, whose
\* coroutine may have ended already.
WorkerRuns(a) ==
    /\ wpc[a] = "begin"
    /\ ~IsCanceled(task[a])
    /\ runs' = [runs EXCEPT ![task[a]] = @ + 1]
    /\ LET c == Body[task[a]]
       IN  \/ c = NoCoro /\ WorkerGoto(a, "begin", "fail") /\ UNCHANGED coroVars
           \/ /\ IF c = NoCoro THEN TRUE ELSE is_completed[c]
              /\ WorkerGoto(a, "begin", "complete") /\ UNCHANGED coroVars
           \/ /\ IF c = NoCoro THEN FALSE ELSE ~is_completed[c]
              /\ Resume(a, c)
              /\ WorkerGoto(a, "begin", "inside")
    /\ UNCHANGED <<queueVars, taskVars, at, phase, task, drives, late, shared>>

\* A routine that drives another one: while (!inner.IsCompleted()) {
\* inner.Resume(); Suspend(); }.
Drive(a, c) ==
    IF drives[c]
    THEN Suspend(a) /\ drives' = [drives EXCEPT ![c] = FALSE]
    ELSE IF is_completed[Inner[c]]
    THEN RoutineEnds(a) /\ UNCHANGED drives
    ELSE Resume(a, Inner[c]) /\ drives' = [drives EXCEPT ![c] = TRUE]

\* The innermost coroutine goes on.
CoroutineRuns(a) ==
    /\ wpc[a] = "inside"
    /\ LET c == Executing(a)
       IN  /\ c # NoCoro
           /\ IF Inner[c] # NoCoro THEN Drive(a, c)
              ELSE (Suspend(a) \/ RoutineEnds(a)) /\ UNCHANGED drives
    /\ UNCHANGED <<queueVars, taskVars, at, phase, wpc, task, runs, late, shared>>

\* Resume returns, to the coroutine below or to FiberTask::Run.
CoroutineReturns(a) ==
    /\ ResumeReturns(a)
    /\ WorkerGoto(a, "inside", IF Executing(a) = NoCoro THEN "complete" ELSE "inside")
    /\ UNCHANGED <<queueVars, taskVars, at, phase, task, drives, runs, late, shared>>

WorkerMarks(a) ==
    /\ \/ WorkerGoto(a, "complete", "take") /\ MarkCompleted(task[a])
       \/ WorkerGoto(a, "fail", "take") /\ MarFailed(task[a])
    /\ UNCHANGED <<queueVars, coroVars, at, phase, task, drives, runs, late, shared>>

-----------------------------------------------------------------------------

ClientStep(k) ==
    \E t \in Tasks :
        \/ ClientCancel(k, t)
        \/ SubmitCheck(k, t) \/ SubmitPush(k, t) \/ SubmitRefused(k, t)
        \/ ClientWaits(k, t) \/ ClientWaited(k, t)

WorkerStep(a) ==
    \/ WorkerSleeps(a) \/ WorkerTakes(a) \/ WorkerNotifies(a) \/ WorkerSkips(a)
    \/ WorkerRuns(a) \/ CoroutineRuns(a) \/ CoroutineReturns(a) \/ WorkerMarks(a)

Next ==
    \/ \E k \in Clients : ClientStep(k) \/ ClientClose(k)
    \/ \E a \in Threads : WorkerStep(a)

Spec == Init /\ [][Next]_vars

\* Threads keep running; nobody has to close the queue.
FairSpec ==
    /\ Spec
    /\ \A k \in Clients : WF_vars(ClientStep(k))
    /\ \A a \in Threads : WF_vars(WorkerStep(a))

-----------------------------------------------------------------------------
(* Properties.                                                             *)

\* Every variable has its type.
TypeOK ==
    /\ data \in Seq(Tasks) /\ close \in BOOLEAN /\ takers \subseteq Threads
    /\ status \in [Tasks -> {"NotStarted", "Completed", "Cancelled", "Failed"}]
    /\ ex_error \subseteq Tasks /\ task_waits \in [Tasks -> SUBSET Clients]
    /\ current_coro \in [Threads -> Coroutines \union {NoCoro}]
    /\ caller_coro \in [Coroutines -> Coroutines \union {NoCoro}]
    /\ is_completed \in [Coroutines -> BOOLEAN]
    /\ coro_stack \in [Threads -> Seq(Coroutines)]
    /\ back \in [Threads -> Coroutines \union {NoCoro}]
    /\ at \in [Clients -> Nat \ {0}]
    /\ phase \in [Clients -> {"start", "push", "refused"}]
    /\ wpc \in [Threads -> {"take", "gone"} \union Working]
    /\ task \in [Threads -> Tasks \union {NoTask}]
    /\ drives \in [Coroutines -> BOOLEAN]
    /\ runs \in [Tasks -> Nat]
    /\ late \subseteq Tasks /\ shared \subseteq Tasks

\* Client k has returned from this call.
Past(k, operation, t) == \E i \in 1..at[k] - 1 : CallAt(k, i, operation, t)

Submitted(t) == \E k \in Clients : Past(k, "submit", t)

Queued(t) == \E i \in 1..Len(data) : data[i] = t

\* Worker a has taken t and has not finished with it.
Serves(a, t) == task[a] = t /\ wpc[a] \in Working

\* A task is in the queue once or with one worker, and only when a client has
\* submitted it.
PlaceInv ==
    /\ \A i, j \in 1..Len(data) : data[i] = data[j] => i = j
    /\ \A t \in Tasks, a \in Threads :
         /\ Serves(a, t) => Submitted(t) /\ ~Queued(t)
         /\ \A b \in Threads : Serves(a, t) /\ Serves(b, t) => a = b
    /\ \A t \in Tasks : Queued(t) => Submitted(t)
    /\ \A a \in Threads : wpc[a] \in Working \ {"notify"} => task[a] # NoTask

\* Nobody has run task t.
Untouched(t) == runs[t] = 0 /\ status[t] \in {"NotStarted", "Cancelled"}

\* How far the body and the status of a task are, by where the task is; a Wait
\* has returned only when the task is finished.
StatusInv ==
    \A t \in Tasks :
        /\ ~Submitted(t) \/ Queued(t) => Untouched(t)
        /\ \A a \in Threads :
             Serves(a, t) =>
                 IF wpc[a] \in {"notify", "begin"}
                 THEN Untouched(t)
                 ELSE runs[t] = 1 /\ status[t] = "NotStarted"
        /\ IsCanceled(t) => Submitted(t) \/ \E k \in Clients : Past(k, "cancel", t)
        /\ \A k \in Clients : Past(k, "wait", t) => IsFinished(t)

\* A task has one outcome: the asserts of Cancel, MarkCompleted and MarFailed
\* (task.cpp:14, 29, 37) hold, its body is run at most once and never when it
\* was cancelled, and it has an error exactly when it failed.
OneOutcome ==
    /\ TypeOK /\ PlaceInv /\ StatusInv
    /\ ~aborted
    /\ \A t \in Tasks :
         /\ runs[t] <= (IF IsCanceled(t) THEN 0 ELSE 1)
         /\ IsCompleted(t) \/ IsFailed(t) => runs[t] = 1
         /\ GetError(t) <=> IsFailed(t)

\* The coroutines whose Resume has not returned on thread a, innermost last.
Frames(a) == IF back[a] = NoCoro THEN coro_stack[a] ELSE Append(coro_stack[a], back[a])

\* The calls of Resume on a thread are nested as the coroutines drive each
\* other, each has saved the coroutine that it interrupted, and no coroutine is
\* resumed twice at a time.
FramesInv ==
    \A a \in Threads :
        /\ Frames(a) # <<>> <=> wpc[a] = "inside"
        /\ current_coro[a] = IF Frames(a) = <<>> THEN NoCoro ELSE Frames(a)[Len(Frames(a))]
        /\ \A i \in 1..Len(Frames(a)) :
             /\ Frames(a)[i] = IF i = 1 THEN Body[task[a]] ELSE Inner[Frames(a)[i - 1]]
             /\ caller_coro[Frames(a)[i]] = IF i = 1 THEN NoCoro ELSE Frames(a)[i - 1]
             /\ \A b \in Threads : \A j \in 1..Len(Frames(b)) :
                  Frames(a)[i] = Frames(b)[j] => a = b /\ i = j

\* Whenever no switch is in progress on a thread, its current_coro is the
\* coroutine that executes there, or null outside of all of them: through
\* nested Resumes, and when a suspended coroutine goes on on another thread
\* (coro.cpp:33-38).  So Suspend suspends its caller.
CurrentIsExecuting ==
    /\ ~lost /\ FramesInv
    /\ \A a \in Threads : back[a] = NoCoro => current_coro[a] = Executing(a)

Served(t) == ~Queued(t) /\ \A a \in Threads : task[a] # t \/ wpc[a] \in {"take", "gone"}

\* In the end everything that Put has accepted has been taken and served,
\* except what was pushed after Close, because Put looks at close_ before it
\* locks (blocking_queue.h:20): then all workers may be gone already.  And
\* after Close every Take returns, however many threads sleep.
ServedUntilClosed ==
    LET allGone == \A a \in Threads : wpc[a] = "gone"
    IN  <>[](/\ \A t \in Tasks : Served(t) \/ (t \in late /\ allGone)
             /\ close => allGone)

\* A client that waits for a task that has ended goes on, unless another one
\* slept on the same task and took the only notification (task.cpp:32, 41).
WaitReturnsOrShared ==
    <>[](\A k \in Clients, t \in Tasks :
            Calls(k, "wait", t) /\ IsFinished(t) => t \in shared /\ k \in task_waits[t])

=============================================================================
