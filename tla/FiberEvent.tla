----------------------------- MODULE FiberEvent -----------------------------
(***************************************************************************)
(* NFibers::Event (src/fiber/sync/event.cpp) and its awaiter               *)
(* (src/fiber/awaiter/event_awaiter.h).  Wait always suspends the fiber;   *)
(* Fire schedules all that wait and forgets the event.                     *)
(*                                                                         *)
(* The awaiter of Wait lies on the stack of the fiber and carries a        *)
(* std::unique_lock of the SpinLock, which the worker unlocks in           *)
(* AwaitSuspend: unlock() frees the SpinLock first and clears its flag     *)
(* owns afterwards.  The destructor of the awaiter, run by the resumed     *)
(* fiber, unlocks again if it finds the flag set.                          *)
(*                                                                         *)
(* A call of SpinLock::Lock is a step that is enabled when the lock is     *)
(* free.                                                                   *)
(***************************************************************************)
EXTENDS FiberExecutor

VARIABLES
    lock_,            \* SpinLock::lock_ of spinlock_
    owns,             \* owns[f]: the flag of the unique_lock in f's awaiter
    event_waiters_    \* IntrusiveList<Waiter>, by fiber

eventVars == <<lock_, owns, event_waiters_>>

EventInit ==
    /\ lock_ = FALSE
    /\ owns = [f \in Fibers |-> FALSE]
    /\ event_waiters_ = <<>>

-----------------------------------------------------------------------------

\* SpinLock::Lock returns.
SpinLockLock == ~lock_ /\ lock_' = TRUE

\* Wait: the guard, moved into the awaiter, and Suspend.
EventWait(w, f) ==
    /\ Executes(w, f)
    /\ Calls(f, "Event::Wait")
    /\ SpinLockLock
    /\ owns' = [owns EXCEPT ![f] = TRUE]
    /\ FiberGoto(f, "event_suspending")
    /\ SwitchOut(w)
    /\ UNCHANGED event_waiters_

\* AwaitSuspend on the worker: Park ...
EventPark(w, f) ==
    /\ wpc[w] = "await" /\ run[w] = f
    /\ fpc[f] = "event_suspending"
    /\ event_waiters_' = Append(event_waiters_, f)
    /\ FiberGoto(f, "event_parked")
    /\ AwaitGoto(w, "event_unlock")
    /\ UNCHANGED <<lock_, owns>>

\* ... guard.unlock(), which throws if the flag is not set (and Run is
\* noexcept: the program ends) ...
EventUnlock(w, f) ==
    /\ wpc[w] = "event_unlock" /\ run[w] = f
    /\ owns[f]
    /\ lock_' = FALSE
    /\ AwaitGoto(w, "event_disown")
    /\ UNCHANGED <<owns, event_waiters_, fiberVars>>

\* ... and the clearing of its flag, on the stack of the fiber.
EventDisown(w, f) ==
    /\ wpc[w] = "event_disown" /\ run[w] = f
    /\ owns' = [owns EXCEPT ![f] = FALSE]
    /\ RunReturns(w)
    /\ UNCHANGED <<lock_, event_waiters_, fiberVars>>

\* The executor runs the fiber again: it comes back from Suspend.
EventResume(w, f) ==
    /\ fpc[f] = "event_parked"
    /\ Take(w, f)
    /\ FiberGoto(f, "event_dtor")
    /\ UNCHANGED eventVars

\* The destructor of the awaiter.
EventWaitReturn(w, f) ==
    /\ Executes(w, f)
    /\ fpc[f] = "event_dtor"
    /\ lock_' = IF owns[f] THEN FALSE ELSE lock_
    /\ owns' = [owns EXCEPT ![f] = FALSE]
    /\ Return(f)
    /\ UNCHANGED <<workerVars, event_waiters_>>

Fire(w, f) ==
    /\ Executes(w, f)
    /\ Calls(f, "Fire")
    /\ SpinLockLock
    /\ FiberGoto(f, "fire_loop")
    /\ UNCHANGED <<workerVars, owns, event_waiters_>>

\* One turn of the loop: Pop and Schedule, under the lock.
FirePop(w, f) ==
    /\ Executes(w, f)
    /\ fpc[f] = "fire_loop"
    /\ event_waiters_ # <<>>
    /\ event_waiters_' = Tail(event_waiters_)
    /\ Schedule(Head(event_waiters_))
    /\ UNCHANGED <<lock_, owns, fiberVars>>

FireReturn(w, f) ==
    /\ Executes(w, f)
    /\ fpc[f] = "fire_loop"
    /\ event_waiters_ = <<>>
    /\ lock_' = FALSE
    /\ Return(f)
    /\ UNCHANGED <<workerVars, owns, event_waiters_>>

EventStep(w, f) ==
    \/ EventWait(w, f) \/ EventPark(w, f) \/ EventUnlock(w, f) \/ EventDisown(w, f)
    \/ EventResume(w, f) \/ EventWaitReturn(w, f)
    \/ Fire(w, f) \/ FirePop(w, f) \/ FireReturn(w, f)

-----------------------------------------------------------------------------
(* Properties.                                                             *)

\* Every variable has its type.
EventTypeOK ==
    /\ lock_ \in BOOLEAN
    /\ owns \in [Fibers -> BOOLEAN]
    /\ event_waiters_ \in Seq(Fibers)

\* The threads inside a critical section of spinlock_: firing fibers, and the
\* workers between Wait and guard.unlock().
InsideEvent(w) ==
    \/ wpc[w] = "await" /\ fpc[run[w]] = "event_suspending"
    \/ wpc[w] = "event_unlock"
    \/ wpc[w] = "fiber" /\ fpc[run[w]] = "fire_loop"

\* Worker w has the unique_lock of f before it in AwaitSuspend.
Unlocks(w, f) ==
    /\ run[w] = f
    /\ \/ wpc[w] \in {"event_unlock", "event_disown"}
       \/ wpc[w] = "await" /\ fpc[f] = "event_suspending"

\* The list of waiters is used by one thread at a time, and only with the
\* spinlock held: nobody gives up a lock that is not his, and guard.unlock()
\* does not throw.
SpinlockExclusive ==
    /\ lock_ <=> \E w \in Workers : InsideEvent(w)
    /\ \A v, w \in Workers : InsideEvent(v) /\ InsideEvent(w) => v = w
    /\ \A f \in Fibers : owns[f] <=> \E w \in Workers : Unlocks(w, f)

InEventList(f) == \E i \in 1..Len(event_waiters_) : event_waiters_[i] = f

\* A fiber that waits for the event is in exactly one place, in the list of
\* waiters or in the executor: none is lost and none is scheduled twice.
EventParkedOnce ==
    /\ \A i, j \in 1..Len(event_waiters_) : event_waiters_[i] = event_waiters_[j] => i = j
    /\ \A f \in Fibers : InEventList(f) <=> fpc[f] = "event_parked" /\ f \notin ready

\* Fire wakes every fiber that has waited before it: when it returns, it
\* leaves none of them in the list.
FireWakesAll ==
    [][\A f \in Fibers :
         fpc[f] = "fire_loop" /\ fpc'[f] # "fire_loop"
           => \A g \in Fibers : fpc[g] = "event_parked" => g \in ready]_execVars

\* A fiber that waits while the event fires returns from Wait.
FiredReturns ==
    \A f \in Fibers :
        (fpc[f] = "event_parked" /\ \E g \in Fibers : fpc[g] = "fire_loop") ~> fpc[f] = "start"

=============================================================================
