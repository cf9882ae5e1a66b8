--------------------------- MODULE ManualExecutor ---------------------------
(***************************************************************************)
(* NExecutors::IntrusiveManualExecutor (src/executor/manual): a list of    *)
(* tasks and their number under a spinlock, and no threads of its own.     *)
(* Tasks run inside RunAtMost and Drain, on whatever thread calls these.   *)
(* One step per locked section.                                            *)
(***************************************************************************)
EXTENDS Naturals, Sequences

CONSTANTS
    Runners,   \* the threads that call RunAtMost and Drain
    Limits,    \* the arguments of RunAtMost
    NoLimit    \* stands for the limit that Drain does not have

ASSUME ManualAssumption == Limits \subseteq Nat /\ NoLimit \notin Nat

VARIABLES
    manual_tasks,   \* IntrusiveList<TaskBase> tasks
    count_tasks,
    rpc,            \* rpc[r]: "out", or in the "loop" or in "run" of RunAtMost
    limit, done_tasks

manualVars == <<manual_tasks, count_tasks, rpc, limit, done_tasks>>

ManualInit ==
    /\ manual_tasks = <<>>
    /\ count_tasks = 0
    /\ rpc = [r \in Runners |-> "out"]
    /\ limit = [r \in Runners |-> NoLimit]
    /\ done_tasks = [r \in Runners |-> 0]

ManualSubmit(task) ==
    /\ manual_tasks' = Append(manual_tasks, task)
    /\ count_tasks' = count_tasks + 1
    /\ UNCHANGED <<rpc, limit, done_tasks>>

TaskCount == count_tasks
NonEmpty  == TaskCount # 0

\* RunAtMost(n) is called; RunNext() is RunAtMost(1).
RunAtMost(r, n) ==
    /\ rpc[r] = "out"
    /\ rpc' = [rpc EXCEPT ![r] = "loop"]
    /\ limit' = [limit EXCEPT ![r] = n]
    /\ UNCHANGED <<manual_tasks, count_tasks, done_tasks>>

Drain(r) == RunAtMost(r, NoLimit)

\* The loop pops a task and calls its Run.
ManualPop(r) ==
    /\ rpc[r] = "loop"
    /\ done_tasks[r] # limit[r] /\ NonEmpty
    /\ rpc' = [rpc EXCEPT ![r] = "run"]
    /\ manual_tasks' = Tail(manual_tasks)
    /\ count_tasks' = count_tasks - 1
    /\ UNCHANGED <<limit, done_tasks>>

ManualTaskReturns(r) ==
    /\ rpc[r] = "run"
    /\ rpc' = [rpc EXCEPT ![r] = "loop"]
    /\ done_tasks' = [done_tasks EXCEPT ![r] = @ + 1]
    /\ UNCHANGED <<manual_tasks, count_tasks, limit>>

\* Fault: the loop ends after one task, whatever the limit is.
ManualReturnsAfterOne(r) ==
    /\ rpc[r] = "loop"
    /\ done_tasks[r] \in {1, limit[r]} \/ ~NonEmpty
    /\ rpc' = [rpc EXCEPT ![r] = "out"]
    /\ done_tasks' = [done_tasks EXCEPT ![r] = 0]
    /\ limit' = [limit EXCEPT ![r] = NoLimit]
    /\ UNCHANGED <<manual_tasks, count_tasks>>

\* The loop ends: the limit is reached, or the list is empty.
ManualReturns(r) ==
    /\ rpc[r] = "loop"
    /\ done_tasks[r] = limit[r] \/ ~NonEmpty
    /\ rpc' = [rpc EXCEPT ![r] = "out"]
    /\ done_tasks' = [done_tasks EXCEPT ![r] = 0]
    /\ limit' = [limit EXCEPT ![r] = NoLimit]
    /\ UNCHANGED <<manual_tasks, count_tasks>>

=============================================================================
