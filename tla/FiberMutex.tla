----------------------------- MODULE FiberMutex -----------------------------
(***************************************************************************)
(* NFibers::AsyncMutex (src/fiber/sync/async_mutex.cpp) used by fibers,    *)
(* with all that takes part in a blocked Lock: the guard of the queue      *)
(* spinlock on the fiber's stack, the awaiter (mutex_awaiter.h), the fiber *)
(* that is switched out and rescheduled (awaiter_fiber.cpp,                *)
(* stopped_fiber.cpp) and the workers of the executor that run it.         *)
(*                                                                         *)
(* A fiber that has to wait switches to its worker's context while it      *)
(* still holds the spinlock; the WORKER then calls AwaitSuspend, which     *)
(* parks the fiber and calls guard.Release() on the guard in the fiber's   *)
(* stack.  When the fiber is resumed it runs ~Guard on the same guard.     *)
(*                                                                         *)
(* Sticky tells the executors apart.  DistributedPool pushes a fiber that  *)
(* has run before to the queue of the worker that ran it                   *)
(* (distributed_pool.cpp:32, worker.cpp:65), so Sticky is TRUE;            *)
(* IntrusiveThreadPool has one queue for all workers: Sticky is FALSE.     *)
(* The order of the executor's queues is left open.                        *)
(*                                                                         *)
(* Every fiber locks and unlocks the mutex Sections times and returns.     *)
(***************************************************************************)
EXTENDS Naturals, Sequences

CONSTANTS Fibers, Workers, NULL, Sticky, Sections

ASSUME MutexAssumption ==
    /\ Sticky \in BOOLEAN
    /\ Sections \in Nat \ {0}
    /\ NULL \notin Fibers \union Workers
    /\ Fibers \intersect Workers = {}

VARIABLES
    tail_, next, is_owner,           \* the queue spinlock spinlock_; guard f
    lpc, ancestor, in_dtor, line,    \* lies on the stack of fiber f
    locked_,      \* bool locked_
    waiters_,     \* IntrusiveList<Waiter> waiters_, by fiber
    fpc,          \* fpc[f]: where fiber f is in Lock or Unlock
    next_waiter,  \* next_waiter[f]: the local variable of Unlock
    sections,     \* sections[f]: how often f has passed Unlock
    wpc,          \* wpc[w]: what worker w does
    run,          \* run[w]: the fiber whose Run worker w executes
    home,         \* home[f]: TaskBase::worker
    ready,        \* the fibers in the queues of the executor
    owner         \* history: the fiber to which the mutex was granted

Spinlock == INSTANCE QueueSpinLock
                WITH Guards <- Fibers, Actors <- Fibers \union Workers

lockVars  == <<tail_, next, is_owner, lpc, ancestor, in_dtor, line>>
mutexVars == <<locked_, waiters_, owner>>
fiberVars == <<fpc, next_waiter, sections>>
execVars  == <<wpc, run, home, ready>>
vars == <<lockVars, mutexVars, fiberVars, execVars>>

FiberPC  == {"new", "lock", "lock_guard", "suspending", "parked", "lock_dtor",
             "cs", "unlock_guard", "unlock_dtor", "done"}
WorkerPC == {"idle", "fiber", "await", "release"}

Init ==
    /\ Spinlock!Init
    /\ locked_ = FALSE
    /\ waiters_ = <<>>
    /\ owner = NULL
    /\ fpc = [f \in Fibers |-> "new"]
    /\ next_waiter = [f \in Fibers |-> NULL]
    /\ sections = [f \in Fibers |-> 0]
    /\ wpc = [w \in Workers |-> "idle"]
    /\ run = [w \in Workers |-> NULL]
    /\ home = [f \in Fibers |-> NULL]
    /\ ready = Fibers

FiberGoto(f, to) == fpc' = [fpc EXCEPT ![f] = to]

\* Worker w executes the code of fiber f.
Executes(w, f) == wpc[w] = "fiber" /\ run[w] = f

-----------------------------------------------------------------------------
(* The executor runs a fiber: TaskBase::SetWorker, AwaiterFiber::Run and   *)
(* Switch.  A parked fiber comes back from Suspend into ~Guard of Lock.    *)

Resume(w, f) ==
    /\ wpc[w] = "idle"
    /\ f \in ready
    /\ Sticky => home[f] \in {NULL, w}
    /\ ready' = ready \ {f}
    /\ home' = IF Sticky THEN [home EXCEPT ![f] = w] ELSE home
    /\ run' = [run EXCEPT ![w] = f]
    /\ wpc' = [wpc EXCEPT ![w] = "fiber"]
    /\ FiberGoto(f, IF fpc[f] = "new" THEN "lock" ELSE "lock_dtor")
    /\ UNCHANGED <<lockVars, mutexVars, next_waiter, sections>>

-----------------------------------------------------------------------------
(* AsyncMutex::Lock.                                                       *)

LockGuard(w, f) ==
    /\ Executes(w, f)
    /\ fpc[f] = "lock"
    /\ Spinlock!Exchange(f, f)
    /\ FiberGoto(f, "lock_guard")
    /\ UNCHANGED <<mutexVars, next_waiter, sections, execVars>>

\* The constructor of a guard waits for the spinlock.
GuardAcquire(w, f) ==
    /\ Executes(w, f)
    /\ fpc[f] \in {"lock_guard", "unlock_guard"}
    /\ Spinlock!AcquireStep(f, f)
    /\ UNCHANGED <<mutexVars, fiberVars, execVars>>

\* The destructor of a guard, with its Release if the guard is the owner.
GuardDestroy(w, f) ==
    /\ Executes(w, f)
    /\ fpc[f] \in {"lock_dtor", "unlock_dtor"}
    /\ Spinlock!Destroy(f, f) \/ Spinlock!ReleaseStep(f, f)
    /\ UNCHANGED <<mutexVars, fiberVars, execVars>>

LockFree(w, f) ==
    /\ Executes(w, f)
    /\ fpc[f] = "lock_guard" /\ lpc[f] = "held"
    /\ ~locked_
    /\ locked_' = TRUE
    /\ owner' = f
    /\ FiberGoto(f, "lock_dtor")
    /\ UNCHANGED <<lockVars, waiters_, next_waiter, sections, execVars>>

\* Suspend(&waiter): the fiber switches to the context of its worker.
LockSuspend(w, f) ==
    /\ Executes(w, f)
    /\ fpc[f] = "lock_guard" /\ lpc[f] = "held"
    /\ locked_
    /\ FiberGoto(f, "suspending")
    /\ wpc' = [wpc EXCEPT ![w] = "await"]
    /\ UNCHANGED <<lockVars, mutexVars, next_waiter, sections, run, home, ready>>

\* Fault: the waiter is pushed in front of the list.
ParkFront(w, f) ==
    /\ wpc[w] = "await"
    /\ run[w] = f
    /\ waiters_' = <<f>> \o waiters_
    /\ FiberGoto(f, "parked")
    /\ Spinlock!CallRelease(w, f, "out")
    /\ wpc' = [wpc EXCEPT ![w] = "release"]
    /\ UNCHANGED <<locked_, owner, next_waiter, sections, run, home, ready>>

\* Fault: AwaitSuspend does not release the guard.
ParkNoRelease(w, f) ==
    /\ wpc[w] = "await"
    /\ run[w] = f
    /\ waiters_' = Append(waiters_, f)
    /\ FiberGoto(f, "parked")
    /\ lpc' = [lpc EXCEPT ![w] = "released"]
    /\ wpc' = [wpc EXCEPT ![w] = "release"]
    /\ UNCHANGED <<tail_, next, is_owner, ancestor, in_dtor, line>>
    /\ UNCHANGED <<locked_, owner, next_waiter, sections, run, home, ready>>

\* AwaitSuspend on the worker: Park, and the call of guard.Release().
Park(w, f) ==
    /\ wpc[w] = "await"
    /\ run[w] = f
    /\ waiters_' = Append(waiters_, f)
    /\ FiberGoto(f, "parked")
    /\ Spinlock!CallRelease(w, f, "out")
    /\ wpc' = [wpc EXCEPT ![w] = "release"]
    /\ UNCHANGED <<locked_, owner, next_waiter, sections, run, home, ready>>

\* guard.Release() goes on, on the worker ...
AwaitRelease(w, f) ==
    /\ wpc[w] = "release"
    /\ run[w] = f
    /\ Spinlock!ReleaseStep(w, f)
    /\ UNCHANGED <<mutexVars, fiberVars, execVars>>

\* ... and returns; so do AwaitSuspend and Run.
AwaitReturn(w, f) ==
    /\ wpc[w] = "release"
    /\ run[w] = f
    /\ lpc[w] = "released"
    /\ lpc' = [lpc EXCEPT ![w] = "out"]
    /\ wpc' = [wpc EXCEPT ![w] = "idle"]
    /\ run' = [run EXCEPT ![w] = NULL]
    /\ UNCHANGED <<tail_, next, is_owner, ancestor, in_dtor, line>>
    /\ UNCHANGED <<mutexVars, fiberVars, home, ready>>

LockReturn(w, f) ==
    /\ Executes(w, f)
    /\ fpc[f] = "lock_dtor" /\ lpc[f] = "out"
    /\ FiberGoto(f, "cs")
    /\ UNCHANGED <<lockVars, mutexVars, next_waiter, sections, execVars>>

-----------------------------------------------------------------------------
(* AsyncMutex::Unlock.                                                     *)

UnlockGuard(w, f) ==
    /\ Executes(w, f)
    /\ fpc[f] = "cs"
    /\ Spinlock!Exchange(f, f)
    /\ FiberGoto(f, "unlock_guard")
    /\ UNCHANGED <<mutexVars, next_waiter, sections, execVars>>

\* The mutex passes to the longest waiting fiber; locked_ stays set.
UnlockPop(w, f) ==
    /\ Executes(w, f)
    /\ fpc[f] = "unlock_guard" /\ lpc[f] = "held"
    /\ waiters_ # <<>>
    /\ next_waiter' = [next_waiter EXCEPT ![f] = Head(waiters_)]
    /\ waiters_' = Tail(waiters_)
    /\ owner' = Head(waiters_)
    /\ FiberGoto(f, "unlock_dtor")
    /\ UNCHANGED <<lockVars, locked_, sections, execVars>>

UnlockFree(w, f) ==
    /\ Executes(w, f)
    /\ fpc[f] = "unlock_guard" /\ lpc[f] = "held"
    /\ waiters_ = <<>>
    /\ locked_' = FALSE
    /\ owner' = NULL
    /\ FiberGoto(f, "unlock_dtor")
    /\ UNCHANGED <<lockVars, waiters_, next_waiter, sections, execVars>>

\* Fault: the popped waiter is not scheduled.
UnlockForgets(w, f) ==
    /\ Executes(w, f)
    /\ fpc[f] = "unlock_dtor" /\ lpc[f] = "out"
    /\ next_waiter' = [next_waiter EXCEPT ![f] = NULL]
    /\ sections' = [sections EXCEPT ![f] = @ + 1]
    /\ FiberGoto(f, IF sections[f] + 1 < Sections THEN "lock" ELSE "done")
    /\ wpc' = [wpc EXCEPT ![w] = IF sections[f] + 1 < Sections THEN "fiber" ELSE "idle"]
    /\ run' = [run EXCEPT ![w] = IF sections[f] + 1 < Sections THEN f ELSE NULL]
    /\ UNCHANGED <<lockVars, mutexVars, home, ready>>

\* After the block of the guard: next_waiter->Schedule().  The fiber goes on
\* to its next section or returns, and Run with it.
UnlockReturn(w, f) ==
    /\ Executes(w, f)
    /\ fpc[f] = "unlock_dtor" /\ lpc[f] = "out"
    /\ ready' = ready \union ({next_waiter[f]} \ {NULL})
    /\ next_waiter' = [next_waiter EXCEPT ![f] = NULL]
    /\ sections' = [sections EXCEPT ![f] = @ + 1]
    /\ FiberGoto(f, IF sections[f] + 1 < Sections THEN "lock" ELSE "done")
    /\ wpc' = [wpc EXCEPT ![w] = IF sections[f] + 1 < Sections THEN "fiber" ELSE "idle"]
    /\ run' = [run EXCEPT ![w] = IF sections[f] + 1 < Sections THEN f ELSE NULL]
    /\ UNCHANGED <<lockVars, mutexVars, home>>

-----------------------------------------------------------------------------

WorkerStep(w, f) ==
    \/ Resume(w, f)
    \/ LockGuard(w, f) \/ GuardAcquire(w, f) \/ GuardDestroy(w, f)
    \/ LockFree(w, f) \/ LockSuspend(w, f) \/ LockReturn(w, f)
    \/ Park(w, f) \/ AwaitRelease(w, f) \/ AwaitReturn(w, f)
    \/ UnlockGuard(w, f) \/ UnlockPop(w, f) \/ UnlockFree(w, f) \/ UnlockReturn(w, f)

Next == \E w \in Workers, f \in Fibers : WorkerStep(w, f)

Spec == Init /\ [][Next]_vars

\* The weak compare-exchange of Release on worker w, when it succeeds.
CasSucceeds(w) ==
    \E f \in Fibers :
        \/ GuardDestroy(w, f) /\ Spinlock!CasSucceeds(f, f)
        \/ AwaitRelease(w, f) /\ Spinlock!CasSucceeds(w, f)

\* Worker threads keep running, and a weak compare-exchange does not fail
\* spuriously for ever.
Fairness ==
    \A w \in Workers :
        /\ WF_vars(\E f \in Fibers : WorkerStep(w, f))
        /\ SF_vars(CasSucceeds(w))

FairSpec == Spec /\ Fairness

-----------------------------------------------------------------------------
(* Properties.                                                             *)

\* Every variable has its type.
TypeOK ==
    /\ Spinlock!TypeOK
    /\ locked_ \in BOOLEAN
    /\ waiters_ \in Seq(Fibers)
    /\ owner \in Fibers \union {NULL}
    /\ fpc \in [Fibers -> FiberPC]
    /\ next_waiter \in [Fibers -> Fibers \union {NULL}]
    /\ sections \in [Fibers -> 0..Sections]
    /\ wpc \in [Workers -> WorkerPC]
    /\ run \in [Workers -> Fibers \union {NULL}]
    /\ home \in [Fibers -> Workers \union {NULL}]
    /\ ready \subseteq Fibers

\* A guard is released by its worker or destroyed by its fiber, never both at
\* once: no worker is inside guard.Release() of a fiber that another worker
\* has already resumed (mutex_awaiter.h:31, queue_spinlock.h:16-23).
GuardNotShared ==
    \A w \in Workers : wpc[w] = "release" => fpc[run[w]] = "parked"

\* With a sticky executor a fiber is run by the worker that ran it first.
HomeInv ==
    /\ fpc \in [Fibers -> FiberPC]
    /\ wpc \in [Workers -> WorkerPC]
    /\ run \in [Workers -> Fibers \union {NULL}]
    /\ home \in [Fibers -> Workers \union {NULL}]
    /\ \A w \in Workers : wpc[w] # "idle" => run[w] \in Fibers /\ home[run[w]] = w

\* The worker and the fiber agree on what they are doing: a fiber that executes
\* code or is about to be parked is in the hands of its home, and nobody else's.
InCode == {"lock", "lock_guard", "lock_dtor", "cs", "unlock_guard", "unlock_dtor"}

StageInv ==
    /\ \A w \in Workers :
           /\ wpc[w] # "idle" => run[w] \in Fibers /\ home[run[w]] = w
           /\ wpc[w] = "fiber" => fpc[run[w]] \in InCode
           /\ wpc[w] = "await" => fpc[run[w]] = "suspending"
           /\ wpc[w] = "release" => fpc[run[w]] = "parked"
    /\ \A f \in Fibers :
           /\ fpc[f] = "new" <=> home[f] = NULL
           /\ fpc[f] \in InCode => Executes(home[f], f)
           /\ fpc[f] = "suspending" => wpc[home[f]] = "await" /\ run[home[f]] = f
           /\ fpc[f] # "done" => sections[f] < Sections

ReleasePC == {"release", "cas", "recheck", "handoff", "clear"}

\* Where the fiber and the worker are in the operations of the guard: a parked
\* fiber has stopped with its guard held, and the worker releases it once.
FiberGuard(f) ==
    /\ fpc[f] \in {"new", "lock", "cs", "done"} => lpc[f] = "out"
    /\ fpc[f] \in {"lock_guard", "unlock_guard"} => lpc[f] \in {"own", "link", "spin", "held"}
    /\ fpc[f] \in {"suspending", "parked"} => lpc[f] = "held"
    /\ fpc[f] \in {"lock_dtor", "unlock_dtor"} =>
           lpc[f] \in {"held", "out"} \/ (lpc[f] \in ReleasePC /\ in_dtor[f])

WorkerGuard(w) ==
    IF wpc[w] = "release"
    THEN lpc[w] \in ReleasePC \union {"released"} /\ ~in_dtor[w]
    ELSE lpc[w] = "out"

GuardInv ==
    /\ \A f \in Fibers : FiberGuard(f)
    /\ \A w \in Workers : WorkerGuard(w)

Waits(f)  == \E i \in 1..Len(waiters_) : waiters_[i] = f
Popped(f) == \E g \in Fibers : next_waiter[g] = f

\* A parked fiber is in exactly one place: in the list of waiters, in the
\* hands of the fiber that popped it, or in the queue of the executor; and
\* besides new ones no other fiber is.
ParkedOnce ==
    /\ \A i, j \in 1..Len(waiters_) : waiters_[i] = waiters_[j] => i = j
    /\ \A f, g \in Fibers : next_waiter[f] = next_waiter[g] => next_waiter[f] = NULL \/ f = g
    /\ \A f \in Fibers :
           /\ next_waiter[f] # NULL => fpc[f] = "unlock_dtor"
           /\ fpc[f] = "parked" => Waits(f) \/ Popped(f) \/ f \in ready
           /\ Waits(f) => fpc[f] = "parked" /\ ~Popped(f) /\ f \notin ready
           /\ Popped(f) => fpc[f] = "parked" /\ f \notin ready
           /\ fpc[f] = "new" => f \in ready
           /\ f \in ready => fpc[f] \in {"new", "parked"}

\* The mutex is locked exactly while some fiber has it: the one between the
\* locked_ = true and its Unlock, or the one that Unlock popped and that has not
\* yet come back from Suspend.  Whoever waits or is about to wait can rely on
\* an Unlock to come.
GrantInv ==
    /\ locked_ <=> owner # NULL
    /\ \A f \in Fibers :
           /\ owner = f <=> \/ fpc[f] \in {"lock_dtor", "cs", "unlock_guard"}
                            \/ fpc[f] = "parked" /\ ~Waits(f)
           /\ fpc[f] = "suspending" \/ Waits(f) => locked_

-----------------------------------------------------------------------------
(* The guard of a fiber, seen as one that a single thread uses: where its  *)
(* operations are, whether the fiber or its worker carries them out.       *)

Releases(w, f) == wpc[w] = "release" /\ run[w] = f

\* Fiber f is back from Suspend and has not yet run ~Guard.
Resumed(f) == fpc[f] = "lock_dtor" /\ lpc[f] = "held" /\ ~is_owner[f]

GuardPC ==
    [f \in Fibers |->
        IF fpc[f] = "parked" /\ Releases(home[f], f) THEN lpc[home[f]]
        ELSE IF fpc[f] = "parked" \/ Resumed(f) THEN "released"
        ELSE lpc[f]]

GuardAncestor == [f \in Fibers |-> ancestor[f]]

GuardDtor == [f \in Fibers |-> in_dtor[f] /\ fpc[f] # "parked" /\ ~Resumed(f)]

Guard ==
    INSTANCE QueueSpinLock
        WITH Guards <- Fibers, Actors <- Fibers,
             lpc <- GuardPC, ancestor <- GuardAncestor, in_dtor <- GuardDtor

\* On a sticky executor the guard that a fiber acquires, its worker releases and
\* the fiber destroys is used as one thread would use it.
GuardUsedByOne == Guard!Spec

\* The variables have their types, the parked fibers are accounted for, the mutex
\* is granted to one fiber, and the pointers of the spinlock describe its line.
ParkInv ==
    /\ TypeOK /\ ParkedOnce
    /\ Sticky => StageInv /\ GuardInv /\ GrantInv /\ Guard!LockInv

\* The fiber that has decided to wait and is not yet in the list.
Suspending == {f \in Fibers : fpc[f] = "suspending"}

\* The line at the mutex: the fiber that was granted it, the list of waiters,
\* and the one on its way there.
Granted == IF owner = NULL THEN <<>> ELSE <<owner>>
Coming  == IF Suspending = {} THEN <<>> ELSE <<CHOOSE f \in Suspending : TRUE>>
Line    == (Granted \o waiters_) \o Coming

Inside == {f \in Fibers : fpc[f] \in {"cs", "unlock_guard"}}

\* The mutex as a first-come-first-served lock.
Fifo == INSTANCE FifoLock WITH Guards <- Fibers, line <- Line, inside <- Inside

\* Fibers are in the mutex one at a time and in the order in which Lock found
\* it locked; Unlock never lets a newcomer overtake a waiter.
ImplementsFifoLock == Fifo!Spec

\* Every fiber gets through all its sections: no worker is stuck in the spinlock
\* and no waiter is forgotten.  It holds on a sticky executor (DistributedPool).
\* test_mutex.cpp asserts it on IntrusiveThreadPool (lines 36 and 54-56), where it
\* is violated: a guard is released by the worker that parks its fiber and again
\* by the fiber, which another worker has resumed before the first one has
\* stored is_owner = false (queue_spinlock.h:22).
AllSectionsDone == <>(\A f \in Fibers : fpc[f] = "done")

=============================================================================
