--------------------------- MODULE FiberWaitGroup ---------------------------
(***************************************************************************)
(* NFibers::WaitGroup (src/fiber/sync/wait_group.cpp) and its awaiter      *)
(* (src/fiber/awaiter/wait_group_awaiter.h).                               *)
(*                                                                         *)
(* The Done that brings the counter to 0 takes the first waiter and clears *)
(* the list under the spinlock; without the lock it then walks the links   *)
(* between the awaiters, which lie on the stacks of the fibers that it     *)
(* schedules on its way.  An awaiter is gone when its fiber has returned   *)
(* from Wait.                                                              *)
(*                                                                         *)
(* The spinlock is a QueueSpinLock (module QueueSpinLock shows that it is  *)
(* a lock): holder is the fiber whose guard has it.  Release passes the    *)
(* lock on and resets is_owner afterwards; AwaitSuspend calls it on the    *)
(* worker, and ~Guard, run by the resumed fiber, calls it again if it      *)
(* finds is_owner set (module FiberMutex has the details of that).         *)
(***************************************************************************)
EXTENDS FiberExecutor

\* The indices from i on of the calls of that name in the code of f.
Later(f, i, call) == {k \in i..Len(Code[f]) : Code[f][k] = call}

\* Who adds does so before its Done.
ASSUME WaitGroupAssumption ==
    \A f \in Fibers : \A i \in 1..Len(Code[f]) :
        Cardinality(Later(f, i, "Add")) <= Cardinality(Later(f, i, "Done"))

VARIABLES
    counter_,     \* size_t counter_
    holder,       \* spinlock_: the fiber whose guard holds it
    is_owner,     \* is_owner[f]: Guard::is_owner of the guard of f
    wg_waiters_,  \* IntrusiveList<Waiter>, by fiber
    next_,        \* next_[f]: Node::next_ of the awaiter of f
    alive,        \* the fibers whose awaiter exists
    wg_waiter,    \* wg_waiter[f]: the local variable of Done
    walk,         \* history: walk[f], the fibers that the Done of f has to schedule
    dangling      \* history: a link of an awaiter that is gone was followed

groupVars == <<counter_, holder, is_owner, wg_waiters_, next_, alive, wg_waiter, walk, dangling>>

\* The calls of that name that are to come, of all fibers.
ToCome(call) == UNION {{<<f, i>> : i \in Later(f, at[f], call)} : f \in Fibers}

\* Done of every fiber is counted before anything runs, unless its fiber adds.
GroupInit ==
    /\ counter_ = Cardinality(ToCome("Done")) - Cardinality(ToCome("Add"))
    /\ holder = nullptr
    /\ is_owner = [f \in Fibers |-> FALSE]
    /\ wg_waiters_ = <<>>
    /\ next_ = [f \in Fibers |-> nullptr]
    /\ alive = {}
    /\ wg_waiter = [f \in Fibers |-> nullptr]
    /\ walk = [f \in Fibers |-> <<>>]
    /\ dangling = FALSE

-----------------------------------------------------------------------------

\* IntrusiveList::Push: the awaiter of f is linked behind the last one.
ListPush(f) ==
    /\ wg_waiters_' = Append(wg_waiters_, f)
    /\ next_' = IF wg_waiters_ = <<>> THEN next_
                ELSE [next_ EXCEPT ![wg_waiters_[Len(wg_waiters_)]] = f]

\* What IntrusiveList::Pop returns; the node keeps its link.
Popped == IF wg_waiters_ = <<>> THEN nullptr ELSE Head(wg_waiters_)

\* The constructor of the guard in Add, Done and Wait.
Guard(w, f) ==
    /\ Executes(w, f)
    /\ holder = nullptr
    /\ holder' = f
    /\ is_owner' = [is_owner EXCEPT ![f] = TRUE]
    /\ \/ Calls(f, "Add") /\ FiberGoto(f, "add")
       \/ Calls(f, "Done") /\ FiberGoto(f, "done")
       \/ Calls(f, "WaitGroup::Wait") /\ FiberGoto(f, "wait")
    /\ UNCHANGED <<workerVars, counter_, wg_waiters_, next_, alive, wg_waiter, walk, dangling>>

\* Add(1), with the destructor of its guard.
Add(w, f) ==
    /\ Executes(w, f)
    /\ fpc[f] = "add"
    /\ counter_' = counter_ + 1
    /\ holder' = nullptr
    /\ is_owner' = [is_owner EXCEPT ![f] = FALSE]
    /\ Return(f)
    /\ UNCHANGED <<workerVars, wg_waiters_, next_, alive, wg_waiter, walk, dangling>>

\* Fault: the waiters are taken by every Done.
DoneTakesAlways(w, f) ==
    /\ Executes(w, f)
    /\ fpc[f] = "done"
    /\ counter_' = counter_ - 1
    /\ wg_waiter' = [wg_waiter EXCEPT ![f] = Popped]
    /\ walk' = [walk EXCEPT ![f] = wg_waiters_]
    /\ wg_waiters_' = <<>>
    /\ holder' = nullptr
    /\ is_owner' = [is_owner EXCEPT ![f] = FALSE]
    /\ FiberGoto(f, "walk")
    /\ UNCHANGED <<workerVars, next_, alive, dangling>>

\* Done up to the destructor of its guard: Pop and Clear.
Done(w, f) ==
    /\ Executes(w, f)
    /\ fpc[f] = "done"
    /\ counter_' = counter_ - 1
    /\ IF counter_ = 1
       THEN /\ wg_waiter' = [wg_waiter EXCEPT ![f] = Popped]
            /\ walk' = [walk EXCEPT ![f] = wg_waiters_]
            /\ wg_waiters_' = <<>>
       ELSE UNCHANGED <<wg_waiter, walk, wg_waiters_>>
    /\ holder' = nullptr
    /\ is_owner' = [is_owner EXCEPT ![f] = FALSE]
    /\ FiberGoto(f, "walk")
    /\ UNCHANGED <<workerVars, next_, alive, dangling>>

\* Fault: the waiter is scheduled before its link is read.
DoneSchedulesFirst(w, f) ==
    /\ Executes(w, f)
    /\ fpc[f] = "walk"
    /\ wg_waiter[f] # nullptr
    /\ IF wg_waiter[f] \notin ready /\ fpc[wg_waiter[f]] = "group_parked"
       THEN Schedule(wg_waiter[f]) /\ UNCHANGED <<wg_waiter, walk, dangling>>
       ELSE /\ dangling' = (dangling \/ wg_waiter[f] \notin alive)
            /\ wg_waiter' = [wg_waiter EXCEPT ![f] = next_[wg_waiter[f]]]
            /\ walk' = [walk EXCEPT ![f] = Tail(@)]
            /\ UNCHANGED workerVars
    /\ UNCHANGED <<counter_, holder, is_owner, wg_waiters_, next_, alive, fiberVars>>

\* One turn of the walk: the link is read, then the fiber is scheduled.
DoneSchedule(w, f) ==
    /\ Executes(w, f)
    /\ fpc[f] = "walk"
    /\ wg_waiter[f] # nullptr
    /\ dangling' = (dangling \/ wg_waiter[f] \notin alive)
    /\ wg_waiter' = [wg_waiter EXCEPT ![f] = next_[wg_waiter[f]]]
    /\ walk' = [walk EXCEPT ![f] = Tail(@)]
    /\ Schedule(wg_waiter[f])
    /\ UNCHANGED <<counter_, holder, is_owner, wg_waiters_, next_, alive, fiberVars>>

DoneReturn(w, f) ==
    /\ Executes(w, f)
    /\ fpc[f] = "walk"
    /\ wg_waiter[f] = nullptr
    /\ Return(f)
    /\ UNCHANGED <<workerVars, groupVars>>

\* Wait finds the counter at 0.
GroupWaitNot(w, f) ==
    /\ Executes(w, f)
    /\ fpc[f] = "wait"
    /\ counter_ = 0
    /\ FiberGoto(f, "group_dtor")
    /\ UNCHANGED <<workerVars, groupVars>>

\* Wait creates its awaiter and suspends the fiber.
GroupWait(w, f) ==
    /\ Executes(w, f)
    /\ fpc[f] = "wait"
    /\ counter_ > 0
    /\ alive' = alive \union {f}
    /\ next_' = [next_ EXCEPT ![f] = nullptr]
    /\ FiberGoto(f, "group_suspending")
    /\ SwitchOut(w)
    /\ UNCHANGED <<counter_, holder, is_owner, wg_waiters_, wg_waiter, walk, dangling>>

\* Fault: the guard is released before the fiber is parked.
GroupParkUnlocked(w, f) ==
    /\ wpc[w] = "await" /\ run[w] = f
    /\ fpc[f] = "group_suspending"
    /\ IF holder = f
       THEN holder' = nullptr /\ UNCHANGED <<execVars, wg_waiters_, next_>>
       ELSE /\ ListPush(f)
            /\ FiberGoto(f, "group_parked")
            /\ AwaitGoto(w, "group_disown")
            /\ UNCHANGED holder
    /\ UNCHANGED <<counter_, is_owner, alive, wg_waiter, walk, dangling>>

\* AwaitSuspend on the worker: Park ...
GroupPark(w, f) ==
    /\ wpc[w] = "await" /\ run[w] = f
    /\ fpc[f] = "group_suspending"
    /\ ListPush(f)
    /\ FiberGoto(f, "group_parked")
    /\ AwaitGoto(w, "group_release")
    /\ UNCHANGED <<counter_, holder, is_owner, alive, wg_waiter, walk, dangling>>

\* ... guard.Release() passes the lock on ...
GroupRelease(w, f) ==
    /\ wpc[w] = "group_release" /\ run[w] = f
    /\ holder' = nullptr
    /\ AwaitGoto(w, "group_disown")
    /\ UNCHANGED <<counter_, is_owner, wg_waiters_, next_, alive, wg_waiter, walk, dangling, fiberVars>>

\* ... and resets is_owner.
GroupDisown(w, f) ==
    /\ wpc[w] = "group_disown" /\ run[w] = f
    /\ is_owner' = [is_owner EXCEPT ![f] = FALSE]
    /\ RunReturns(w)
    /\ UNCHANGED <<counter_, holder, wg_waiters_, next_, alive, wg_waiter, walk, dangling, fiberVars>>

\* The executor runs the fiber again: it comes back from Suspend, and its
\* awaiter is destroyed.
GroupResume(w, f) ==
    /\ fpc[f] = "group_parked"
    /\ Take(w, f)
    /\ FiberGoto(f, "group_dtor")
    /\ alive' = alive \ {f}
    /\ UNCHANGED <<counter_, holder, is_owner, wg_waiters_, next_, wg_waiter, walk, dangling>>

\* ~Guard at the end of Wait.  If it finds is_owner set although the lock was
\* passed on already, it releases a second time: Release loops for ever, as
\* tail_ is not this guard and nobody will link himself behind it, or makes a
\* guard owner that may be gone.  "spin" stands for both.
GroupWaitReturn(w, f) ==
    /\ Executes(w, f)
    /\ fpc[f] = "group_dtor"
    /\ IF is_owner[f] /\ holder # f
       THEN FiberGoto(f, "spin") /\ UNCHANGED <<holder, is_owner>>
       ELSE /\ holder' = IF is_owner[f] THEN nullptr ELSE holder
            /\ is_owner' = [is_owner EXCEPT ![f] = FALSE]
            /\ Return(f)
    /\ UNCHANGED <<workerVars, counter_, wg_waiters_, next_, alive, wg_waiter, walk, dangling>>

GroupStep(w, f) ==
    \/ Guard(w, f) \/ Add(w, f)
    \/ Done(w, f) \/ DoneSchedule(w, f) \/ DoneReturn(w, f)
    \/ GroupWaitNot(w, f) \/ GroupWait(w, f)
    \/ GroupPark(w, f) \/ GroupRelease(w, f) \/ GroupDisown(w, f)
    \/ GroupResume(w, f) \/ GroupWaitReturn(w, f)

-----------------------------------------------------------------------------
(* Properties.                                                             *)

\* Every variable has its type; counter_ does not wrap.
GroupTypeOK ==
    /\ counter_ \in Nat
    /\ holder \in Fibers \union {nullptr}
    /\ is_owner \in [Fibers -> BOOLEAN]
    /\ wg_waiters_ \in Seq(Fibers)
    /\ next_ \in [Fibers -> Fibers \union {nullptr}]
    /\ alive \subseteq Fibers
    /\ wg_waiter \in [Fibers -> Fibers \union {nullptr}]
    /\ walk \in [Fibers -> Seq(Fibers)]
    /\ dangling \in BOOLEAN

\* The guard of f holds the spinlock.
Holds(f) ==
    \/ fpc[f] \in {"add", "done", "wait", "group_suspending"}
    \/ \E w \in Workers : run[w] = f /\ wpc[w] = "group_release"
    \/ fpc[f] = "group_dtor" /\ is_owner[f]

\* The spinlock is held by one guard, and a guard that finds is_owner set holds
\* it: ~Guard does not release a second time.
GuardExclusive ==
    \A f \in Fibers :
        /\ Holds(f) <=> holder = f
        /\ is_owner[f] <=> Holds(f) \/ \E w \in Workers : run[w] = f /\ wpc[w] = "group_disown"

\* The calls of Done that have not decreased the counter.
Undone == {fi \in ToCome("Done") : ~(fi[2] = at[fi[1]] /\ fpc[fi[1]] = "walk")}

\* The counter is the number of Done calls that are added and still to come,
\* and while it is 0 nobody waits in the list, or is about to.
CounterMatches ==
    /\ counter_ + Cardinality(ToCome("Add")) = Cardinality(Undone)
    /\ counter_ = 0 => wg_waiters_ = <<>> /\ \A f \in Fibers : fpc[f] # "group_suspending"

\* All those have called Done that were counted from the beginning.
AllDone == \A fi \in Undone : Later(fi[1], 1, "Add") # {}

\* Nobody comes back from Wait, nor is woken, before that.
WaitMeansDone ==
    \A f \in Fibers :
        \/ fpc[f] = "group_dtor"
        \/ fpc[f] = "group_parked" /\ f \in ready
        \/ walk[f] # <<>>
        => AllDone

\* What the counter counts, and what Wait may rely on.
GroupInv == CounterMatches /\ WaitMeansDone

\* The walk of Done only reads links of awaiters that still exist, although
\* the fibers it has scheduled destroy theirs (wait_group.cpp:28-35).
NoDanglingWaiter == ~dangling

\* The awaiters of the fibers in s are linked in this order.
Linked(s) ==
    /\ \A i, j \in 1..Len(s) : s[i] = s[j] => i = j
    /\ \A i \in 1..Len(s) : next_[s[i]] = IF i = Len(s) THEN nullptr ELSE s[i + 1]

InGroupList(f) == \E i \in 1..Len(wg_waiters_) : wg_waiters_[i] = f
Ahead(h, f)    == \E i \in 1..Len(walk[h]) : walk[h][i] = f

\* The links lead through the list of waiters, and from the local variable of
\* a Done through the waiters that it has still to schedule.
LinkInv ==
    /\ Linked(wg_waiters_)
    /\ \A f \in Fibers :
         /\ Linked(walk[f])
         /\ wg_waiter[f] = IF walk[f] = <<>> THEN nullptr ELSE walk[f][1]
         /\ walk[f] # <<>> => fpc[f] = "walk"
         /\ fpc[f] = "group_suspending" => next_[f] = nullptr
         /\ f \in alive <=> fpc[f] \in {"group_suspending", "group_parked"}

\* A fiber parked in the group is in exactly one place: in the list of
\* waiters, ahead of a walk, or in the executor.
GroupParkedOnce ==
    /\ LinkInv
    /\ \A f \in Fibers :
         /\ InGroupList(f) \/ (\E h \in Fibers : Ahead(h, f))
              <=> fpc[f] = "group_parked" /\ f \notin ready
         /\ \A h \in Fibers : ~(InGroupList(f) /\ Ahead(h, f))
         /\ \A g, h \in Fibers : Ahead(g, f) /\ Ahead(h, f) => g = h

\* A fiber that is parked in the group when the counter is 0 returns from
\* Wait: it is woken, and it gets out of its guard.
GroupWaitReturns ==
    \A f \in Fibers : (fpc[f] = "group_parked" /\ counter_ = 0) ~> fpc[f] = "start"

=============================================================================
