--------------------------- MODULE FiberExecutor ---------------------------
(***************************************************************************)
(* How an executor runs fibers: AwaiterFiber::Run (awaiter_fiber.cpp) on   *)
(* the threads of a pool.  A worker takes a scheduled fiber and switches   *)
(* to it; the fiber runs until it ends or calls Suspend(awaiter), which    *)
(* switches back; then the WORKER calls awaiter->AwaitSuspend, which       *)
(* parks the fiber and gives up the lock the fiber holds.  From the moment *)
(* the fiber is parked another thread may schedule it.                     *)
(*                                                                         *)
(* Sticky is TRUE for DistributedPool, which runs a fiber always on the    *)
(* worker that ran it first (module DistributedPool, RunsAtHome), and      *)
(* FALSE for IntrusiveThreadPool.  The order of the executor's queues is   *)
(* left open.  Code[f] is the sequence of calls that fiber f makes.        *)
(*                                                                         *)
(* FiberEvent and FiberWaitGroup extend this module with the steps of      *)
(* their calls; FiberSync puts them together.                              *)
(***************************************************************************)
EXTENDS Naturals, Sequences, FiniteSets

CONSTANTS Fibers, Workers, nullptr, Sticky, Code

ASSUME ExecutorAssumption ==
    /\ IsFiniteSet(Fibers)
    /\ Sticky \in BOOLEAN
    /\ nullptr \notin Fibers \union Workers
    /\ \A f \in Fibers : Code[f] \in Seq({"Event::Wait", "Fire", "Add", "Done", "WaitGroup::Wait"})

VARIABLES
    wpc,    \* wpc[w]: "idle", "fiber" (in the code of run[w]), "await" (about
            \* to call AwaitSuspend), and the parts of AwaitSuspend
    run,    \* run[w]: the fiber whose Run worker w executes
    home,   \* home[f]: TaskBase::worker
    ready,  \* the fibers in the queues of the executor
    fpc,    \* fpc[f]: where fiber f is in its call; "start" between two calls
    at      \* at[f]: the index of that call, or of the next, in Code[f]

workerVars == <<wpc, run, home, ready>>
fiberVars  == <<fpc, at>>
execVars   == <<workerVars, fiberVars>>

ExecInit ==
    /\ wpc = [w \in Workers |-> "idle"]
    /\ run = [w \in Workers |-> nullptr]
    /\ home = [f \in Fibers |-> nullptr]
    /\ ready = Fibers
    /\ fpc = [f \in Fibers |-> "start"]
    /\ at = [f \in Fibers |-> 1]

\* Worker w executes the code of fiber f.
Executes(w, f) == wpc[w] = "fiber" /\ run[w] = f

FiberGoto(f, to) == fpc' = [fpc EXCEPT ![f] = to] /\ UNCHANGED at

\* Fiber f is about to make this call.
Calls(f, call) == fpc[f] = "start" /\ at[f] <= Len(Code[f]) /\ Code[f][at[f]] = call

\* The call of fiber f returns.
Return(f) ==
    /\ fpc' = [fpc EXCEPT ![f] = "start"]
    /\ at' = [at EXCEPT ![f] = @ + 1]

\* Fault: the executor ignores the worker that ran the fiber before.
TakeAnywhere(w, f) ==
    /\ wpc[w] = "idle"
    /\ f \in ready
    /\ ready' = ready \ {f}
    /\ run' = [run EXCEPT ![w] = f]
    /\ wpc' = [wpc EXCEPT ![w] = "fiber"]
    /\ UNCHANGED home

\* Run, up to the switch to the fiber; SetWorker in a DistributedPool.
Take(w, f) ==
    /\ wpc[w] = "idle"
    /\ f \in ready
    /\ Sticky => home[f] \in {nullptr, w}
    /\ ready' = ready \ {f}
    /\ home' = IF Sticky THEN [home EXCEPT ![f] = w] ELSE home
    /\ run' = [run EXCEPT ![w] = f]
    /\ wpc' = [wpc EXCEPT ![w] = "fiber"]

\* A fiber runs for the first time.
Begin(w, f) ==
    /\ fpc[f] = "start"
    /\ Take(w, f)
    /\ UNCHANGED fiberVars

\* Suspend: back to the worker.
SwitchOut(w) ==
    /\ wpc' = [wpc EXCEPT ![w] = "await"]
    /\ UNCHANGED <<run, home, ready>>

\* AwaitSuspend goes from one of its parts to the next.
AwaitGoto(w, to) ==
    /\ wpc' = [wpc EXCEPT ![w] = to]
    /\ UNCHANGED <<run, home, ready>>

\* Run returns: after AwaitSuspend, or because the fiber has come to its end.
RunReturns(w) ==
    /\ wpc' = [wpc EXCEPT ![w] = "idle"]
    /\ run' = [run EXCEPT ![w] = nullptr]
    /\ UNCHANGED <<home, ready>>

\* The fiber has made all its calls.
End(w, f) ==
    /\ Executes(w, f)
    /\ fpc[f] = "start" /\ at[f] > Len(Code[f])
    /\ FiberGoto(f, "end")
    /\ RunReturns(w)

\* StoppedFiber::Schedule.
Schedule(f) ==
    /\ ready' = ready \union {f}
    /\ UNCHANGED <<wpc, run, home>>

-----------------------------------------------------------------------------
(* Properties.                                                             *)

\* What a fiber that a worker executes may be doing.
FiberRuns == {"start", "event_dtor", "fire_loop", "add", "done", "walk", "wait", "group_dtor"}

\* Every variable has its type.
ExecTypeOK ==
    /\ wpc \in [Workers -> {"idle", "fiber", "await", "event_unlock", "event_disown",
                             "group_release", "group_disown"}]
    /\ run \in [Workers -> Fibers \union {nullptr}]
    /\ home \in [Fibers -> Workers \union {nullptr}]
    /\ ready \subseteq Fibers
    /\ fpc \in [Fibers -> FiberRuns \union {"end", "event_suspending", "event_parked",
                                          "group_suspending", "group_parked"}]
    /\ at \in [Fibers -> Nat \ {0}]

\* On a sticky executor a fiber belongs to one worker, and it is not taken from
\* the queue before that worker has left AwaitSuspend.
RunInv ==
    /\ \A w \in Workers :
         /\ run[w] = nullptr <=> wpc[w] = "idle"
         /\ run[w] # nullptr => home[run[w]] = w
         /\ wpc[w] = "fiber" => fpc[run[w]] \in FiberRuns
         /\ wpc[w] = "await" => fpc[run[w]] \in {"event_suspending", "group_suspending"}
         /\ wpc[w] \in {"event_unlock", "event_disown"} => fpc[run[w]] = "event_parked"
         /\ wpc[w] \in {"group_release", "group_disown"} => fpc[run[w]] = "group_parked"
         /\ wpc[w] \in {"fiber", "await"} => run[w] \notin ready
    /\ \A f \in ready : fpc[f] \in {"start", "event_parked", "group_parked"}

\* Fiber f is inside this call.
Within(f, call) == at[f] <= Len(Code[f]) /\ Code[f][at[f]] = call

\* A fiber is in the call that its code says.
CallInv ==
    \A f \in Fibers :
        /\ fpc[f] \in {"event_suspending", "event_parked", "event_dtor"} => Within(f, "Event::Wait")
        /\ fpc[f] = "fire_loop" => Within(f, "Fire")
        /\ fpc[f] = "add" => Within(f, "Add")
        /\ fpc[f] \in {"done", "walk"} => Within(f, "Done")
        /\ fpc[f] \in {"wait", "group_suspending", "group_parked", "group_dtor"}
             => Within(f, "WaitGroup::Wait")

=============================================================================
