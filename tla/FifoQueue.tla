----------------------------- MODULE FifoQueue -----------------------------
(***************************************************************************)
(* What a concurrent queue promises: elements come out in the order in     *)
(* which they went in, each to one consumer, and TryPop reports an empty   *)
(* queue only when the queue is empty.                                     *)
(***************************************************************************)
EXTENDS Sequences

CONSTANTS Consumers, Values, None

VARIABLES
    items,    \* the elements in the queue
    alive,    \* the queue has not been destroyed
    result    \* result[c]: what the last TryPop of consumer c returned

vars == <<items, alive, result>>

Init ==
    /\ items = <<>>
    /\ alive = TRUE
    /\ result = [c \in Consumers |-> None]

Enqueue(v) ==
    /\ alive
    /\ items' = Append(items, v)
    /\ UNCHANGED <<alive, result>>

Dequeue(c) ==
    /\ alive
    /\ items # <<>>
    /\ items' = Tail(items)
    /\ result' = [result EXCEPT ![c] = Head(items)]
    /\ UNCHANGED alive

DequeueEmpty(c) ==
    /\ alive
    /\ items = <<>>
    /\ result' = [result EXCEPT ![c] = None]
    /\ UNCHANGED <<items, alive>>

Destroy ==
    /\ alive
    /\ alive' = FALSE
    /\ items' = <<>>
    /\ UNCHANGED result

Next ==
    \/ \E v \in Values : Enqueue(v)
    \/ \E c \in Consumers : Dequeue(c) \/ DequeueEmpty(c)
    \/ Destroy

Spec == Init /\ [][Next]_vars

=============================================================================
