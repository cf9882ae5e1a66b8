----------------------------- MODULE FiberSync -----------------------------
(***************************************************************************)
(* Fibers on one executor that use an Event and a WaitGroup, in any order: *)
(* the composition of FiberEvent and FiberWaitGroup.  They share the       *)
(* workers: a worker that is inside AwaitSuspend of one primitive does not *)
(* run the fibers of the other.                                            *)
(***************************************************************************)
EXTENDS FiberEvent, FiberWaitGroup

syncVars == <<execVars, eventVars, groupVars>>

SyncInit == ExecInit /\ EventInit /\ GroupInit

WorkerStep(w, f) ==
    \/ (Begin(w, f) \/ End(w, f)) /\ UNCHANGED <<eventVars, groupVars>>
    \/ EventStep(w, f) /\ UNCHANGED groupVars
    \/ GroupStep(w, f) /\ UNCHANGED eventVars

SyncNext == \E w \in Workers, f \in Fibers : WorkerStep(w, f)

SyncSpec == SyncInit /\ [][SyncNext]_syncVars

\* A fiber that waits is in exactly one place: in a list of waiters, ahead of
\* a walk of Done, or in the executor.  So no wakeup is lost, and none is
\* given twice.
ParkedOnce == EventParkedOnce /\ GroupParkedOnce

\* The lists of waiters are changed under their locks only, and every waiter is
\* where it belongs, on an executor that resumes a fiber where it ran before.
WaiterInv ==
    /\ ExecTypeOK /\ EventTypeOK /\ GroupTypeOK
    /\ RunInv /\ CallInv
    /\ SpinlockExclusive /\ GuardExclusive /\ ParkedOnce

\* Who waits for the event when it fires, or for the group when its counter
\* is 0, returns from Wait: it is woken, and it gets out of its guard.  Fire
\* leaves none of them in the list.
WaitersReturn == FireWakesAll /\ FiredReturns /\ GroupWaitReturns

=============================================================================
