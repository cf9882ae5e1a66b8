---------------------------- MODULE BlockingQueue ----------------------------
(***************************************************************************)
(* NComponents::UnboundedBlockingQueue (src/components/queue/              *)
(* blocking_queue.h).  What happens under m_ is one step; Put looks at     *)
(* close_ before it takes m_, and Take notifies after it has given it up.  *)
(* A thread that waits in empty_data_ is in `takers'; one that was woken   *)
(* is not, and goes through the loop of Take again.  A spurious wakeup     *)
(* would only send a taker back to sleep.                                  *)
(***************************************************************************)
EXTENDS Naturals, Sequences

VARIABLES
    data,     \* std::queue<T> data_
    close,    \* std::atomic<bool> close_
    takers    \* the threads that sleep in empty_data_.wait

queueVars == <<data, close, takers>>

QueueInit == data = <<>> /\ close = FALSE /\ takers = {}

\* notify_one wakes one of the threads that sleep, if there is one.
WakesOne(sleepers, left) ==
    \/ sleepers = {} /\ left = {}
    \/ \E a \in sleepers : left = sleepers \ {a}

\* Put: the load of close_, and the rest unless the queue was closed.
PutRefused == close
PutPush(v) ==
    /\ data' = Append(data, v)
    /\ \E left \in SUBSET takers : WakesOne(takers, left) /\ takers' = left
    /\ UNCHANGED close

\* Take: the loop puts the thread to sleep, or ends with an element or
\* without one; then notify_one.
TakeSleeps(a) ==
    /\ a \notin takers
    /\ data = <<>> /\ ~close
    /\ takers' = takers \union {a}
    /\ UNCHANGED <<data, close>>
\* Fault: the element is moved out and not popped.
TakeFrontKeeps(a) ==
    /\ a \notin takers
    /\ data # <<>>
    /\ UNCHANGED queueVars
TakeFront(a) ==
    /\ a \notin takers
    /\ data # <<>>
    /\ data' = Tail(data)
    /\ UNCHANGED <<close, takers>>
TakeNothing(a) ==
    /\ a \notin takers
    /\ data = <<>> /\ close
    /\ UNCHANGED queueVars
TakeNotify ==
    /\ \E left \in SUBSET takers : WakesOne(takers, left) /\ takers' = left
    /\ UNCHANGED <<data, close>>

\* Fault: Close stores the flag and tells nobody.
CloseSilent ==
    /\ close' = TRUE
    /\ UNCHANGED <<data, takers>>

Close ==
    /\ close' = TRUE
    /\ takers' = {}
    /\ UNCHANGED data

=============================================================================
