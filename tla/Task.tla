-------------------------------- MODULE Task --------------------------------
(***************************************************************************)
(* NExecutors::Task (src/executor/task): a status that changes once, under *)
(* task_mutex_, and a condition variable for those who Wait.  One step per *)
(* locked section.                                                         *)
(***************************************************************************)
EXTENDS Naturals, Sequences

CONSTANT Tasks

VARIABLES
    status,      \* status_ of each task
    ex_error,    \* the tasks with an ex_error_
    task_waits,  \* task_waits[t]: the threads that sleep in Wait of t
    aborted      \* an assert of Task has failed

taskVars == <<status, ex_error, task_waits, aborted>>

TaskInit ==
    /\ status = [t \in Tasks |-> "NotStarted"]
    /\ ex_error = {}
    /\ task_waits = [t \in Tasks |-> {}]
    /\ aborted = FALSE

\* Fault: the status is set and nobody is notified.
FinishSilently(t, to) ==
    /\ status' = [status EXCEPT ![t] = to]
    /\ UNCHANGED <<task_waits, aborted>>

\* assert(NotStarted == status_), the assignment, and notify_one.
Finish(t, to) ==
    IF status[t] = "NotStarted"
    THEN /\ status' = [status EXCEPT ![t] = to]
         /\ \/ task_waits[t] = {} /\ UNCHANGED task_waits
            \/ \E a \in task_waits[t] : task_waits' = [task_waits EXCEPT ![t] = @ \ {a}]
         /\ UNCHANGED aborted
    ELSE aborted' = TRUE /\ UNCHANGED <<status, task_waits>>

Cancel(t) == Finish(t, "Cancelled") /\ UNCHANGED ex_error

MarkCompleted(t) == Finish(t, "Completed") /\ UNCHANGED ex_error

MarFailed(t) == Finish(t, "Failed") /\ ex_error' = ex_error \union {t}

\* Wait: the loop puts the thread to sleep ...
WaitSleeps(a, t) ==
    /\ a \notin task_waits[t]
    /\ status[t] = "NotStarted"
    /\ task_waits' = [task_waits EXCEPT ![t] = @ \union {a}]
    /\ UNCHANGED <<status, ex_error, aborted>>

\* ... or ends.
WaitReturns(a, t) ==
    /\ a \notin task_waits[t]
    /\ status[t] # "NotStarted"
    /\ UNCHANGED taskVars

IsCompleted(t) == status[t] = "Completed"
IsCanceled(t)  == status[t] = "Cancelled"
IsFinished(t)  == status[t] # "NotStarted"
IsFailed(t)    == status[t] = "Failed"
GetError(t)    == t \in ex_error

=============================================================================
