--------------------------- MODULE SerialExecutor ---------------------------
(***************************************************************************)
(* What a strand promises, stated without its lock, its state flag and its *)
(* batches: tasks handed to the strand are run one at a time, in the order *)
(* in which they were submitted, each exactly once.                        *)
(***************************************************************************)
EXTENDS Naturals, Sequences

CONSTANTS Tasks, NULL

VARIABLES queue,    \* tasks submitted and not yet started, oldest first
          running,  \* the task being run, or NULL
          done      \* tasks that have returned, oldest first

vars == <<queue, running, done>>

Init ==
    /\ queue = <<>>
    /\ running = NULL
    /\ done = <<>>

\* The environment hands over a task that it has not handed over before.
Submit(t) ==
    /\ \A i \in 1..Len(queue) : queue[i] # t
    /\ \A i \in 1..Len(done) : done[i] # t
    /\ running # t
    /\ queue' = Append(queue, t)
    /\ UNCHANGED <<running, done>>

Begin ==
    /\ running = NULL
    /\ queue # <<>>
    /\ running' = Head(queue)
    /\ queue' = Tail(queue)
    /\ UNCHANGED done

End ==
    /\ running # NULL
    /\ done' = Append(done, running)
    /\ running' = NULL
    /\ UNCHANGED queue

Next ==
    \/ \E t \in Tasks : Submit(t)
    \/ Begin
    \/ End

Spec == Init /\ [][Next]_vars

=============================================================================
