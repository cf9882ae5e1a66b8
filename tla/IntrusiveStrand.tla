--------------------------- MODULE IntrusiveStrand ---------------------------
(***************************************************************************)
(* NExecutors::IntrusiveStrand (src/executor/strand): an executor that     *)
(* runs the tasks given to it one after another on the threads of an       *)
(* underlying executor.                                                    *)
(*                                                                         *)
(* Submit pushes the task under the spinlock and, if the strand was READY, *)
(* plans a batch: one closure given to the underlying executor.  RunBatch  *)
(* detaches the list, runs it, looks whether the list is empty and either  *)
(* goes back to READY or plans the next batch.  The list is read and       *)
(* written only under the spinlock; `state' is an atomic that RunBatch     *)
(* changes WITHOUT the spinlock, so every access to it is a step of its    *)
(* own.                                                                    *)
(*                                                                         *)
(* A failed assert() in RunBatch is the program counter "abort".           *)
(***************************************************************************)
EXTENDS Naturals, Sequences

CONSTANTS
    Tasks,      \* the tasks that are submitted, each of them once
    Workers,    \* the threads of the underlying executor
    NULL

ASSUME StrandAssumption == NULL \notin Tasks

VARIABLES
    spinlock,   \* the task whose Submit holds the spinlock, or NULL
    tasks,      \* IntrusiveList<TaskBase> tasks
    state,      \* std::atomic<State> state
    batches,    \* RunBatch closures the underlying executor still has to run
    sub,        \* sub[t]: where the thread that submits t is
    pc,         \* pc[w]: where worker w is in RunBatch
    scheduled,  \* scheduled[w]: the local list scheduled_tasks of RunBatch
    pushed,     \* history: the tasks in the order of tasks.Push
    executed    \* history: the tasks whose Run has returned, in that order

vars == <<spinlock, tasks, state, batches, sub, pc, scheduled, pushed, executed>>

SubPC == {"idle", "plan", "internal", "done"}
RunPC == {"idle", "start", "swap", "run", "in_task", "check",
          "to_ready", "replan", "internal", "abort"}

Init ==
    /\ spinlock = NULL
    /\ tasks = <<>>
    /\ state = "READY"
    /\ batches = 0
    /\ sub = [t \in Tasks |-> "idle"]
    /\ pc = [w \in Workers |-> "idle"]
    /\ scheduled = [w \in Workers |-> <<>>]
    /\ pushed = <<>>
    /\ executed = <<>>

SubGoto(t, to) == sub' = [sub EXCEPT ![t] = to]
Goto(w, to)    == pc' = [pc EXCEPT ![w] = to]

-----------------------------------------------------------------------------
(* IntrusiveStrand::Submit and the PlanTask(READY) inside its lock.        *)

\* Fault: the new task is pushed in front of the list.
SubmitPushFront(t) ==
    /\ sub[t] = "idle"
    /\ spinlock = NULL
    /\ spinlock' = t
    /\ tasks' = <<t>> \o tasks
    /\ pushed' = Append(pushed, t)
    /\ SubGoto(t, "plan")
    /\ UNCHANGED <<state, batches, pc, scheduled, executed>>

SubmitPush(t) ==
    /\ sub[t] = "idle"
    /\ spinlock = NULL
    /\ spinlock' = t
    /\ tasks' = Append(tasks, t)
    /\ pushed' = Append(pushed, t)
    /\ SubGoto(t, "plan")
    /\ UNCHANGED <<state, batches, pc, scheduled, executed>>

\* Fault: a batch is planned whatever the state was.
SubmitPlanAlways(t) ==
    /\ sub[t] = "plan"
    /\ state' = "PLAN"
    /\ SubGoto(t, "internal")
    /\ UNCHANGED <<spinlock, tasks, batches, pc, scheduled, pushed, executed>>

\* state.compare_exchange_strong(READY, PLAN); when it fails Submit returns
\* and the lock_guard unlocks.
SubmitPlan(t) ==
    /\ sub[t] = "plan"
    /\ \/ /\ state = "READY"
          /\ state' = "PLAN"
          /\ SubGoto(t, "internal")
          /\ UNCHANGED spinlock
       \/ /\ state # "READY"
          /\ SubGoto(t, "done")
          /\ spinlock' = NULL
          /\ UNCHANGED state
    /\ UNCHANGED <<tasks, batches, pc, scheduled, pushed, executed>>

\* SubmitInternal hands the closure to the underlying executor, then the
\* lock_guard unlocks.
SubmitInternal(t) ==
    /\ sub[t] = "internal"
    /\ batches' = batches + 1
    /\ spinlock' = NULL
    /\ SubGoto(t, "done")
    /\ UNCHANGED <<tasks, state, pc, scheduled, pushed, executed>>

-----------------------------------------------------------------------------
(* RunBatch on a thread of the underlying executor.                        *)

\* The underlying executor starts the closure on one of its idle threads.
TakeBatch(w) ==
    /\ pc[w] = "idle"
    /\ batches > 0
    /\ batches' = batches - 1
    /\ Goto(w, "start")
    /\ UNCHANGED <<spinlock, tasks, state, sub, scheduled, pushed, executed>>

\* ChangeState(PLAN, RUNNING) and assert(result).
RunBatchStart(w) ==
    /\ pc[w] = "start"
    /\ state' = IF state = "PLAN" THEN "RUNNING" ELSE state
    /\ Goto(w, IF state = "PLAN" THEN "swap" ELSE "abort")
    /\ UNCHANGED <<spinlock, tasks, batches, sub, scheduled, pushed, executed>>

\* Under the spinlock: assert(!tasks.IsEmpty()) and std::swap.
RunBatchSwap(w) ==
    /\ pc[w] = "swap"
    /\ spinlock = NULL
    /\ scheduled' = [scheduled EXCEPT ![w] = tasks]
    /\ tasks' = <<>>
    /\ Goto(w, IF tasks # <<>> THEN "run" ELSE "abort")
    /\ UNCHANGED <<spinlock, state, batches, sub, pushed, executed>>

\* The loop over the detached list: its condition, and the call of Run of
\* the head.  A popped task stays the head of `scheduled' until Run returns.
RunTask(w) ==
    /\ pc[w] = "run"
    /\ Goto(w, IF scheduled[w] # <<>> THEN "in_task" ELSE "check")
    /\ UNCHANGED <<spinlock, tasks, state, batches, sub, scheduled, pushed, executed>>

RunTaskReturn(w) ==
    /\ pc[w] = "in_task"
    /\ executed' = Append(executed, Head(scheduled[w]))
    /\ scheduled' = [scheduled EXCEPT ![w] = Tail(@)]
    /\ Goto(w, "run")
    /\ UNCHANGED <<spinlock, tasks, state, batches, sub, pushed>>

\* IsTasksEmpty(): the answer is read under the spinlock and used after it.
RunBatchCheck(w) ==
    /\ pc[w] = "check"
    /\ spinlock = NULL
    /\ Goto(w, IF tasks = <<>> THEN "to_ready" ELSE "replan")
    /\ UNCHANGED <<spinlock, tasks, state, batches, sub, scheduled, pushed, executed>>

\* ChangeState(RUNNING, READY) and assert(result).
RunBatchToReady(w) ==
    /\ pc[w] = "to_ready"
    /\ state' = IF state = "RUNNING" THEN "READY" ELSE state
    /\ Goto(w, IF state = "RUNNING" THEN "idle" ELSE "abort")
    /\ UNCHANGED <<spinlock, tasks, batches, sub, scheduled, pushed, executed>>

\* PlanTask(RUNNING): the compare-exchange ...
RunBatchReplan(w) ==
    /\ pc[w] = "replan"
    /\ state' = IF state = "RUNNING" THEN "PLAN" ELSE state
    /\ Goto(w, IF state = "RUNNING" THEN "internal" ELSE "idle")
    /\ UNCHANGED <<spinlock, tasks, batches, sub, scheduled, pushed, executed>>

\* Fault: the next batch is planned but never handed over.
RunBatchForget(w) ==
    /\ pc[w] = "internal"
    /\ Goto(w, "idle")
    /\ UNCHANGED <<spinlock, tasks, state, batches, sub, scheduled, pushed, executed>>

\* ... and SubmitInternal.
RunBatchSubmitInternal(w) ==
    /\ pc[w] = "internal"
    /\ batches' = batches + 1
    /\ Goto(w, "idle")
    /\ UNCHANGED <<spinlock, tasks, state, sub, scheduled, pushed, executed>>

-----------------------------------------------------------------------------

SubmitStep(t) == SubmitPlan(t) \/ SubmitInternal(t)

WorkerStep(w) ==
    \/ TakeBatch(w)
    \/ RunBatchStart(w)
    \/ RunBatchSwap(w)
    \/ RunTask(w)
    \/ RunTaskReturn(w)
    \/ RunBatchCheck(w)
    \/ RunBatchToReady(w)
    \/ RunBatchReplan(w)
    \/ RunBatchSubmitInternal(w)

Next ==
    \/ \E t \in Tasks : SubmitPush(t) \/ SubmitStep(t)
    \/ \E w \in Workers : WorkerStep(w)

\* A Submit that has begun and every worker keep running; nobody has to call
\* Submit.
Fairness ==
    /\ \A t \in Tasks : WF_vars(SubmitStep(t))
    /\ \A w \in Workers : WF_vars(WorkerStep(w))

Spec == Init /\ [][Next]_vars

FairSpec == Spec /\ Fairness

-----------------------------------------------------------------------------
(* Properties.                                                             *)

\* Every variable has its type; the underlying executor never holds more than
\* one closure of the strand.
TypeOK ==
    /\ spinlock \in Tasks \union {NULL}
    /\ tasks \in Seq(Tasks)
    /\ state \in {"READY", "PLAN", "RUNNING"}
    /\ batches \in 0..1
    /\ sub \in [Tasks -> SubPC]
    /\ pc \in [Workers -> RunPC]
    /\ scheduled \in [Workers -> Seq(Tasks)]
    /\ pushed \in Seq(Tasks)
    /\ executed \in Seq(Tasks)

\* The three assertions of RunBatch (intrusive_strand.cpp:41, 47 and 58)
\* never fail, although `state' is changed outside the spinlock.
AssertionsHold == \A w \in Workers : pc[w] # "abort"

\* Workers between RunBatchStart and the end of the batch.
InBatch(w) == pc[w] \in {"swap", "run", "in_task", "check", "to_ready", "replan"}

\* Two threads never run batches of the same strand at the same time, so two
\* tasks of the strand never overlap.
Serial == \A v, w \in Workers : InBatch(v) /\ InBatch(w) => v = w

\* What was run, what the running batch still holds and what waits in the
\* list is, in this order, exactly what was pushed: no task is lost, run
\* twice or overtaken across the swap of the two lists (lines 16-22, 44-54).
InOrder ==
    /\ \A w \in Workers :
           InBatch(w) => (executed \o scheduled[w]) \o tasks = pushed
    /\ (\A w \in Workers : ~InBatch(w)) => executed \o tasks = pushed

\* No Submit is in progress, the underlying executor has nothing to run and
\* no worker is busy: what WaitIdle of the underlying pool waits for.
Idle ==
    /\ \A t \in Tasks : sub[t] \in {"idle", "done"}
    /\ batches = 0
    /\ \A w \in Workers : pc[w] = "idle"

\* The strand never waits for a batch that nobody will run: while it is PLAN
\* or RUNNING, some thread or the underlying executor is responsible for the
\* batch (lines 28-36 and 60), so a later Submit may rely on it.
NoLostBatch == state # "READY" => ~Idle

\* When nothing is left to run, everything that was pushed has been run, as
\* test_strand.cpp asserts after pool.WaitIdle() (lines 93-95, 115-117).  It is
\* violated: RunBatch reads IsTasksEmpty() (line 56) and then changes RUNNING to
\* READY (line 57); a Submit in between finds RUNNING and plans nothing.
IdleMeansRun == Idle => executed = pushed

\* A batch runs all that was pushed before it starts: a task that is in the
\* list while a batch is planned will be executed, whether its own Submit or
\* an earlier one planned the batch, or RunBatch itself (lines 21 and 60).
PlannedIsRun ==
    \A t \in Tasks :
        (state = "PLAN" /\ \E i \in 1..Len(tasks) : tasks[i] = t)
            ~> (\E i \in 1..Len(executed) : executed[i] = t)

-----------------------------------------------------------------------------
(* The inductive invariant.  One token goes round: it belongs to the       *)
(* Submit that changed READY to PLAN, then to the closure in the           *)
(* underlying executor, then to the worker that runs it, which passes it   *)
(* on or drops it.  `state' says where the token is.                       *)

\* The spinlock is held exactly by a Submit that has pushed its task.
LockInv ==
    \A t \in Tasks : sub[t] \in {"plan", "internal"} <=> spinlock = t

SubmitterPlans == \E t \in Tasks : sub[t] = "internal"
WorkerPlans    == \E w \in Workers : pc[w] \in {"start", "internal"}

TokenInv ==
    /\ state = "READY" => /\ ~SubmitterPlans
                          /\ batches = 0
                          /\ \A w \in Workers : pc[w] = "idle"
    /\ state = "PLAN" => /\ SubmitterPlans \/ batches = 1 \/ WorkerPlans
                         /\ \A w \in Workers : pc[w] \in {"idle", "start", "internal"}
    /\ state = "RUNNING" => /\ ~SubmitterPlans
                            /\ batches = 0
                            /\ \E w \in Workers : InBatch(w)
                            /\ \A w \in Workers : pc[w] = "idle" \/ InBatch(w)
    /\ SubmitterPlans => batches = 0
    /\ SubmitterPlans \/ batches = 1 => \A w \in Workers : pc[w] = "idle"
    /\ \A v, w \in Workers : pc[v] # "idle" /\ pc[w] # "idle" => v = w

\* A planned batch finds a task in the list; only the worker that loops over
\* a detached list has one.
ListInv ==
    /\ state = "PLAN" => tasks # <<>>
    /\ \A t \in Tasks : sub[t] = "plan" => tasks # <<>>
    /\ \A w \in Workers : pc[w] \in {"swap", "replan"} => tasks # <<>>
    /\ \A w \in Workers : pc[w] \notin {"run", "in_task"} => scheduled[w] = <<>>
    /\ \A w \in Workers : pc[w] = "in_task" => scheduled[w] # <<>>

\* The spinlock, the token and the two lists fit together: what makes the
\* properties above inductive.
StrandInv == TypeOK /\ LockInv /\ TokenInv /\ ListInv /\ InOrder

-----------------------------------------------------------------------------
(* The abstract specification.                                             *)

\* The batch being run: what is left of scheduled_tasks, of whichever worker.
BatchOf(lists) ==
    IF \E w \in Workers : lists[w] # <<>>
    THEN lists[CHOOSE w \in Workers : lists[w] # <<>>]
    ELSE <<>>

InTask == \E w \in Workers : pc[w] = "in_task"

Queue == (IF InTask THEN Tail(BatchOf(scheduled)) ELSE BatchOf(scheduled)) \o tasks

Running == IF InTask THEN Head(BatchOf(scheduled)) ELSE NULL

\* The strand seen as a serial executor.
Serially ==
    INSTANCE SerialExecutor WITH queue <- Queue, running <- Running, done <- executed

\* Every step of the strand is a step of the serial executor or changes
\* nothing that its users can see.
ImplementsSerialExecutor == Serially!Spec

=============================================================================
