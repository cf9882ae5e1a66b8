---------------------------- MODULE QueueSpinLock ----------------------------
(***************************************************************************)
(* NSync::QueueSpinLock (src/components/sync/queue_spinlock.h): a queue    *)
(* spinlock in the manner of MCS.  A Guard lives on the stack of the       *)
(* thread (or fiber) that wants the lock; `tail_' points at the guard that *)
(* came last, `next' links a guard to its successor, and a guard owns the  *)
(* lock once `is_owner' is set, by itself or by its predecessor.           *)
(*                                                                         *)
(* Every atomic access is a step.  A step of operation Op on guard g made  *)
(* by actor a is Op(a, g): a guard is normally used by the thread that     *)
(* constructed it, but the awaiters of the fiber library call              *)
(* guard.Release() from another context than the one that destroys the     *)
(* guard.  In this module thread g constructs, uses and destroys guard g,  *)
(* over and over, at the same address.                                     *)
(***************************************************************************)
EXTENDS Naturals, Sequences

CONSTANTS
    Guards,     \* the addresses of the guards
    Actors,     \* whoever executes the operations
    NULL

ASSUME LockAssumption == Guards \subseteq Actors /\ NULL \notin Guards

VARIABLES
    tail_,      \* std::atomic<Guard*> tail_
    next,       \* next[g]: the field next of guard g
    is_owner,   \* is_owner[g]: the field is_owner of guard g
    lpc,        \* lpc[a]: where actor a is in an operation of the lock
    ancestor,   \* ancestor[a]: the local variable of Acquire
    in_dtor,    \* in_dtor[a]: a's Release was called by ~Guard
    line        \* history: the guards in the order of tail_.exchange

vars == <<tail_, next, is_owner, lpc, ancestor, in_dtor, line>>

PCs == {"out", "own", "link", "spin", "held", "release", "cas", "recheck",
        "handoff", "clear", "released"}

Init ==
    /\ tail_ = NULL
    /\ next = [g \in Guards |-> NULL]
    /\ is_owner = [g \in Guards |-> FALSE]
    /\ lpc = [a \in Actors |-> "out"]
    /\ ancestor = [a \in Actors |-> NULL]
    /\ in_dtor = [a \in Actors |-> FALSE]
    /\ line = <<>>

Goto(a, to) == lpc' = [lpc EXCEPT ![a] = to]

\* Guard g stands aside: it is no longer the first in the line.
Leave(g) == line' = IF line # <<>> /\ Head(line) = g THEN Tail(line) ELSE line

-----------------------------------------------------------------------------
(* Guard::Guard and QueueSpinLock::Acquire.                                *)

\* Fault: the guard keeps the successor of its previous use.
ExchangeUncleared(a, g) ==
    /\ lpc[a] = "out"
    /\ is_owner' = [is_owner EXCEPT ![g] = FALSE]
    /\ ancestor' = [ancestor EXCEPT ![a] = tail_]
    /\ tail_' = g
    /\ line' = Append(line, g)
    /\ Goto(a, IF tail_ = NULL THEN "own" ELSE "link")
    /\ UNCHANGED <<next, in_dtor>>

\* The fresh guard and tail_.exchange(guard).
Exchange(a, g) ==
    /\ lpc[a] = "out"
    /\ next' = [next EXCEPT ![g] = NULL]
    /\ is_owner' = [is_owner EXCEPT ![g] = FALSE]
    /\ ancestor' = [ancestor EXCEPT ![a] = tail_]
    /\ tail_' = g
    /\ line' = Append(line, g)
    /\ Goto(a, IF tail_ = NULL THEN "own" ELSE "link")
    /\ UNCHANGED in_dtor

\* guard->SetOwner() of a guard without ancestor.
SetOwner(a, g) ==
    /\ lpc[a] = "own"
    /\ is_owner' = [is_owner EXCEPT ![g] = TRUE]
    /\ Goto(a, "held")
    /\ UNCHANGED <<tail_, next, ancestor, in_dtor, line>>

\* ancestor->SetNext(guard).
Link(a, g) ==
    /\ lpc[a] = "link"
    /\ next' = [next EXCEPT ![ancestor[a]] = g]
    /\ Goto(a, "spin")
    /\ UNCHANGED <<tail_, is_owner, ancestor, in_dtor, line>>

\* The last turn of while (!guard->IsOwner()).
Spin(a, g) ==
    /\ lpc[a] = "spin"
    /\ is_owner[g]
    /\ Goto(a, "held")
    /\ UNCHANGED <<tail_, next, is_owner, ancestor, in_dtor, line>>

-----------------------------------------------------------------------------
(* Guard::Release, ~Guard and QueueSpinLock::Release.                      *)

\* Guard::Release() called by name.
CallRelease(a, g, from) ==
    /\ lpc[a] = from
    /\ in_dtor' = [in_dtor EXCEPT ![a] = FALSE]
    /\ Goto(a, "release")
    /\ UNCHANGED <<tail_, next, is_owner, ancestor, line>>

\* ~Guard: Release() only if the guard is still the owner.
Destroy(a, g) ==
    /\ lpc[a] \in {"held", "released"}
    /\ in_dtor' = [in_dtor EXCEPT ![a] = TRUE]
    /\ Goto(a, IF is_owner[g] THEN "release" ELSE "out")
    /\ UNCHANGED <<tail_, next, is_owner, ancestor, line>>

\* guard->HasNext(), before the loop or in it.
HasNext(a, g) ==
    /\ lpc[a] \in {"release", "recheck"}
    /\ Goto(a, IF next[g] # NULL THEN "handoff" ELSE "cas")
    /\ UNCHANGED <<tail_, next, is_owner, ancestor, in_dtor, line>>

\* Fault: tail_ is reset without looking who came last.
StoreNull(a, g) ==
    /\ lpc[a] = "cas"
    /\ tail_' = NULL
    /\ Leave(g)
    /\ Goto(a, "clear")
    /\ UNCHANGED <<next, is_owner, ancestor, in_dtor>>

\* tail_.compare_exchange_weak(old_guard, nullptr) succeeds ...
CasSucceeds(a, g) ==
    /\ lpc[a] = "cas"
    /\ tail_ = g
    /\ tail_' = NULL
    /\ Leave(g)
    /\ Goto(a, "clear")
    /\ UNCHANGED <<next, is_owner, ancestor, in_dtor>>

\* Fault: Release gives up after a failed compare-exchange.
CasGivesUp(a, g) ==
    /\ lpc[a] = "cas"
    /\ Leave(g)
    /\ Goto(a, "clear")
    /\ UNCHANGED <<tail_, next, is_owner, ancestor, in_dtor>>

\* ... or fails: another guard came after g, or the weak form failed
\* spuriously.
CasFails(a, g) ==
    /\ lpc[a] = "cas"
    /\ Goto(a, "recheck")
    /\ UNCHANGED <<tail_, next, is_owner, ancestor, in_dtor, line>>

\* guard->SetNextOwner().
SetNextOwner(a, g) ==
    /\ lpc[a] = "handoff"
    /\ is_owner' = [is_owner EXCEPT ![next[g]] = TRUE]
    /\ Leave(g)
    /\ Goto(a, "clear")
    /\ UNCHANGED <<tail_, next, ancestor, in_dtor>>

\* is_owner.store(false), AFTER the lock has been passed on; Release returns.
Clear(a, g) ==
    /\ lpc[a] = "clear"
    /\ is_owner' = [is_owner EXCEPT ![g] = FALSE]
    /\ Goto(a, IF in_dtor[a] THEN "out" ELSE "released")
    /\ UNCHANGED <<tail_, next, ancestor, in_dtor, line>>

-----------------------------------------------------------------------------

AcquireStep(a, g) == SetOwner(a, g) \/ Link(a, g) \/ Spin(a, g)

ReleaseStep(a, g) ==
    \/ HasNext(a, g)
    \/ CasSucceeds(a, g)
    \/ CasFails(a, g)
    \/ SetNextOwner(a, g)
    \/ Clear(a, g)

\* What thread g does after it has asked for the lock.
ThreadStep(g) ==
    \/ AcquireStep(g, g)
    \/ CallRelease(g, g, "held")
    \/ Destroy(g, g)
    \/ ReleaseStep(g, g)

Next == \E g \in Guards : Exchange(g, g) \/ ThreadStep(g)

Spec == Init /\ [][Next]_vars

\* Threads keep running, critical sections end, and a weak compare-exchange
\* does not fail spuriously for ever.  Nobody has to ask for the lock.
Fairness ==
    \A g \in Guards : WF_vars(ThreadStep(g)) /\ SF_vars(CasSucceeds(g, g))

FairSpec == Spec /\ Fairness

-----------------------------------------------------------------------------
(* Properties.                                                             *)

\* Every variable has its type.
TypeOK ==
    /\ tail_ \in Guards \union {NULL}
    /\ next \in [Guards -> Guards \union {NULL}]
    /\ is_owner \in [Guards -> BOOLEAN]
    /\ lpc \in [Actors -> PCs]
    /\ ancestor \in [Actors -> Guards \union {NULL}]
    /\ in_dtor \in [Actors -> BOOLEAN]
    /\ line \in Seq(Guards)

\* Thread g may be in its critical section: it has the lock and has not yet
\* passed it on.
Holds(g) == lpc[g] \in {"held", "release", "cas", "recheck", "handoff"}

\* At most one thread holds the lock (lines 44-71).
MutualExclusion == \A g, h \in Guards : Holds(g) /\ Holds(h) => g = h

\* The lock is granted in the order of tail_.exchange: whoever holds it is
\* the oldest of those that asked and have not released (line 45).
FirstComeFirstServed == \A g \in Guards : Holds(g) => line # <<>> /\ Head(line) = g

\* A guard whose destructor has run is reachable no more: neither tail_, nor
\* an ancestor about to be linked, nor a successor about to be made owner is
\* a destroyed stack object (lines 35, 45, 51).
NoDanglingGuard ==
    \A g \in Guards : lpc[g] = "out" =>
        /\ tail_ # g
        /\ \A h \in Guards : lpc[h] = "link" => ancestor[h] # g
        /\ \A h \in Guards : lpc[h] = "handoff" => next[h] # g

\* Whoever asks for the lock gets it, and whoever releases it returns from
\* Release: the spin loops of lines 52 and 63 end.
NoStarvation ==
    \A g \in Guards :
        /\ lpc[g] \in {"own", "link", "spin"} ~> lpc[g] = "held"
        /\ lpc[g] = "release" ~> lpc[g] \in {"out", "released"}

Inside == {g \in Guards : Holds(g)}

\* The queue spinlock as a first-come-first-served lock.
Fifo == INSTANCE FifoLock WITH inside <- Inside

\* Every step asks, enters, leaves or is invisible.
ImplementsFifoLock == Fifo!Spec

-----------------------------------------------------------------------------
(* The inductive invariant: the pointers agree with the line.              *)

\* The guards in the line are those of the threads in the lock, once each,
\* and tail_ is the last of them.
LineInv ==
    /\ \A i, j \in 1..Len(line) : line[i] = line[j] => i = j
    /\ \A g \in Guards :
           lpc[g] \notin {"out", "clear", "released"}
               <=> \E i \in 1..Len(line) : line[i] = g
    /\ tail_ = IF line = <<>> THEN NULL ELSE line[Len(line)]

\* The first in the line is served; the others wait, not owners, each linked
\* from its predecessor or about to be; nobody is linked from the last.
LinkInv ==
    /\ line # <<>> => /\ lpc[line[1]] # "link"
                      /\ lpc[line[1]] # "own" => is_owner[line[1]]
                      /\ next[line[Len(line)]] = NULL
    /\ \A i \in 2..Len(line) :
           /\ lpc[line[i]] \in {"link", "spin"}
           /\ ~is_owner[line[i]]
           /\ lpc[line[i]] = "link" => /\ ancestor[line[i]] = line[i-1]
                                       /\ next[line[i-1]] = NULL
           /\ lpc[line[i]] = "spin" => next[line[i-1]] = line[i]
    /\ \A g \in Guards : lpc[g] = "handoff" => next[g] # NULL
    /\ \A g \in Guards : lpc[g] = "released" => ~is_owner[g]

\* The pointers of the guards describe the line: what makes the properties
\* above inductive.
LockInv == TypeOK /\ LineInv /\ LinkInv

=============================================================================
