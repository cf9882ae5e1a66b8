--------------------------- MODULE HazardManager ---------------------------
(***************************************************************************)
(* NComponents::NHazard (src/components/lock_free/hazard): the mutators    *)
(* through which threads protect and retire nodes, and the collector       *)
(* thread that deletes what is retired and not protected.  SimpleMSQueue   *)
(* extends this module.                                                    *)
(*                                                                         *)
(* A node is an address.  live is the set of allocated addresses; a deleted *)
(* address may be handed out again.  faults records accesses to deleted    *)
(* nodes and double deletes: from there on the program's behaviour is      *)
(* undefined, and the model stops.                                         *)
(*                                                                         *)
(* The critical sections of thread_lock in MakeMutator and RegisterThread  *)
(* are one step each; the collector holds thread_lock over several steps.  *)
(*                                                                         *)
(* The first MakeMutator starts the collector, by Get(), before it counts  *)
(* the mutator.  CollectorLeft is TRUE for the executions in which the     *)
(* collector has found mutators_count = 0 by then and has left its loop.   *)
(***************************************************************************)
EXTENDS Naturals, Sequences, FiniteSets

CONSTANTS Nodes, Consumers, nullptr, LimitFreeList, CollectorLeft

ASSUME HazardAssumption ==
    /\ nullptr \notin Nodes \union Consumers
    /\ IsFiniteSet(Consumers)
    /\ LimitFreeList \in Nat \ {0}
    /\ CollectorLeft \in BOOLEAN

VARIABLES
    live,             \* the allocated nodes
    faults,           \* kinds of accesses to nodes that are not allocated
    threads,          \* threads that have an entry in the map threads
    protected_ptr,    \* protected_ptr[c]: ThreadState::protected_ptr
    retired_ptrs,     \* retired_ptrs[c]: the list of RetirePtr, latest first
    mutators_count,
    approximate_free_list_size,
    cancel_collect,
    cpc,              \* what the collector thread does
    snapshot,         \* the local set protected_ptrs of Collect
    todo,             \* entries of threads that a loop of Collect has ahead
    current, candidates,  \* the entry in CheckToDelete, and what it detached
    dpc               \* how far ~HazardManager has come

mutatorVars   == <<threads, protected_ptr, mutators_count>>
collectorVars == <<cpc, snapshot, todo, current, candidates>>
hazardVars == <<live, faults, mutatorVars, retired_ptrs, approximate_free_list_size,
                cancel_collect, collectorVars, dpc>>

HazardInit ==
    /\ faults = {}
    /\ threads = {}
    /\ protected_ptr = [c \in Consumers |-> nullptr]
    /\ retired_ptrs = [c \in Consumers |-> <<>>]
    /\ mutators_count = 0
    /\ approximate_free_list_size = 0
    /\ cancel_collect = FALSE
    /\ cpc = IF CollectorLeft THEN "exit" ELSE "test"
    /\ snapshot = {} /\ todo = {} /\ current = nullptr /\ candidates = <<>>
    /\ dpc = "alive"

\* The collector holds thread_lock.
CollectorLocked == cpc \in {"scan", "check", "delete"}

\* Reading or writing through a pointer to n.
Touch(n, kind) == faults' = IF n \in live THEN faults ELSE faults \union {kind}

\* delete of every node of D.
Delete(D) ==
    /\ live' = live \ D
    /\ faults' = IF D \subseteq live THEN faults ELSE faults \union {"delete"}

-----------------------------------------------------------------------------
(* Mutators.                                                               *)

\* HazardManager::MakeMutator: the entry of the thread ...
MakeMutator(c) ==
    /\ ~CollectorLocked
    /\ threads' = threads \union {c}
    /\ UNCHANGED <<live, faults, protected_ptr, mutators_count, retired_ptrs,
                   approximate_free_list_size, cancel_collect, collectorVars, dpc>>

\* ... the count ...
CountMutator(c) ==
    /\ mutators_count' = mutators_count + 1
    /\ UNCHANGED <<live, faults, threads, protected_ptr, retired_ptrs,
                   approximate_free_list_size, cancel_collect, collectorVars, dpc>>

\* ... and the constructor, which looks the entry up again.
RegisterThread(c) ==
    /\ ~CollectorLocked
    /\ UNCHANGED hazardVars

\* protected_ptr.store, in Acquire and in Release.
Protect(c, n) ==
    /\ protected_ptr' = [protected_ptr EXCEPT ![c] = n]
    /\ UNCHANGED <<live, faults, threads, mutators_count, retired_ptrs,
                   approximate_free_list_size, cancel_collect, collectorVars, dpc>>

\* Mutator::Retire pushes in front of the list of its thread ...
Retire(c, n) ==
    /\ retired_ptrs' = [retired_ptrs EXCEPT ![c] = <<n>> \o @]
    /\ UNCHANGED <<live, faults, mutatorVars, approximate_free_list_size,
                   cancel_collect, collectorVars, dpc>>

\* ... and calls IncreaseRetired.
IncreaseRetired ==
    /\ approximate_free_list_size' = approximate_free_list_size + 1
    /\ UNCHANGED <<live, faults, mutatorVars, retired_ptrs, cancel_collect,
                   collectorVars, dpc>>

\* Mutator::~Mutator.  The entry of the thread stays in threads.
DestroyMutator(c) ==
    /\ protected_ptr' = [protected_ptr EXCEPT ![c] = nullptr]
    /\ mutators_count' = mutators_count - 1
    /\ UNCHANGED <<live, faults, threads, retired_ptrs, approximate_free_list_size,
                   cancel_collect, collectorVars, dpc>>

-----------------------------------------------------------------------------
(* The collector thread: HazardManager::Collect and CheckToDelete.         *)

CollectTest ==
    /\ cpc = "test"
    /\ IF cancel_collect \/ mutators_count = 0
       THEN /\ cpc' = "exit"
            /\ UNCHANGED approximate_free_list_size
       ELSE /\ cpc' = "lock"
            /\ approximate_free_list_size' = 0
    /\ UNCHANGED <<live, faults, mutatorVars, retired_ptrs, cancel_collect,
                   snapshot, todo, current, candidates, dpc>>

CollectLock ==
    /\ cpc = "lock"
    /\ cpc' = "scan"
    /\ snapshot' = {}
    /\ todo' = threads
    /\ UNCHANGED <<live, faults, mutatorVars, retired_ptrs, approximate_free_list_size,
                   cancel_collect, current, candidates, dpc>>

\* The snapshot of the protected pointers, one thread at a time.
CollectScan ==
    /\ cpc = "scan"
    /\ IF todo # {}
       THEN \E c \in todo :
              /\ snapshot' = snapshot \union ({protected_ptr[c]} \ {nullptr})
              /\ todo' = todo \ {c}
              /\ UNCHANGED cpc
       ELSE /\ cpc' = "check"
            /\ todo' = threads
            /\ UNCHANGED snapshot
    /\ UNCHANGED <<live, faults, mutatorVars, retired_ptrs, approximate_free_list_size,
                   cancel_collect, current, candidates, dpc>>

\* CheckToDelete detaches the list of the next thread; after the last one
\* thread_lock is released.
CollectCheck ==
    /\ cpc = "check"
    /\ IF todo # {}
       THEN \E c \in todo :
              /\ current' = c
              /\ candidates' = retired_ptrs[c]
              /\ retired_ptrs' = [retired_ptrs EXCEPT ![c] = <<>>]
              /\ todo' = todo \ {c}
              /\ cpc' = "delete"
       ELSE /\ cpc' = "wait"
            /\ UNCHANGED <<retired_ptrs, todo, current, candidates>>
    /\ UNCHANGED <<live, faults, mutatorVars, approximate_free_list_size,
                   cancel_collect, snapshot, dpc>>

\* Fault: a protected candidate is dropped from the lists.
CollectForgets ==
    /\ cpc = "delete"
    /\ candidates # <<>>
    /\ Head(candidates) \in snapshot
    /\ approximate_free_list_size' = approximate_free_list_size + 1
    /\ candidates' = Tail(candidates)
    /\ UNCHANGED <<live, faults, mutatorVars, retired_ptrs, cancel_collect,
                   cpc, snapshot, todo, current, dpc>>

\* A candidate that was protected goes back to the list.
CollectKeep ==
    /\ cpc = "delete"
    /\ candidates # <<>>
    /\ Head(candidates) \in snapshot
    /\ retired_ptrs' = [retired_ptrs EXCEPT ![current] = <<Head(candidates)>> \o @]
    /\ approximate_free_list_size' = approximate_free_list_size + 1
    /\ candidates' = Tail(candidates)
    /\ UNCHANGED <<live, faults, mutatorVars, cancel_collect, cpc, snapshot, todo,
                   current, dpc>>

CollectDelete ==
    /\ cpc = "delete"
    /\ candidates # <<>>
    /\ Head(candidates) \notin snapshot
    /\ Delete({Head(candidates)})
    /\ candidates' = Tail(candidates)
    /\ UNCHANGED <<mutatorVars, retired_ptrs, approximate_free_list_size,
                   cancel_collect, cpc, snapshot, todo, current, dpc>>

CollectNextThread ==
    /\ cpc = "delete"
    /\ candidates = <<>>
    /\ cpc' = "check"
    /\ current' = nullptr
    /\ UNCHANGED <<live, faults, mutatorVars, retired_ptrs, approximate_free_list_size,
                   cancel_collect, snapshot, todo, candidates, dpc>>

\* The loop of sleeps ends when enough is retired.
CollectWakeUp ==
    /\ cpc = "wait"
    /\ approximate_free_list_size >= LimitFreeList \/ cancel_collect
    /\ cpc' = "test"
    /\ UNCHANGED <<live, faults, mutatorVars, retired_ptrs, approximate_free_list_size,
                   cancel_collect, snapshot, todo, current, candidates, dpc>>

CollectorStep ==
    \/ CollectTest \/ CollectLock \/ CollectScan \/ CollectCheck
    \/ CollectKeep \/ CollectDelete \/ CollectNextThread \/ CollectWakeUp

-----------------------------------------------------------------------------
(* HazardManager::~HazardManager.                                          *)

CancelCollect ==
    /\ dpc = "alive"
    /\ dpc' = "join"
    /\ cancel_collect' = TRUE
    /\ UNCHANGED <<live, faults, mutatorVars, retired_ptrs, approximate_free_list_size,
                   collectorVars>>

\* The collector has been joined: everything that is still retired is deleted.
Finish ==
    /\ dpc = "join"
    /\ cpc = "exit"
    /\ dpc' = "destroyed"
    /\ Delete(UNION {{retired_ptrs[c][i] : i \in 1..Len(retired_ptrs[c])} : c \in threads})
    /\ retired_ptrs' = [c \in Consumers |-> IF c \in threads THEN <<>> ELSE retired_ptrs[c]]
    /\ UNCHANGED <<mutatorVars, approximate_free_list_size, cancel_collect, collectorVars>>

-----------------------------------------------------------------------------

Contains(s, n) == \E i \in 1..Len(s) : s[i] = n
NoRepeats(s)   == \A i, j \in 1..Len(s) : s[i] = s[j] => i = j

\* Every variable has its type.
HazardTypeOK ==
    /\ live \subseteq Nodes
    /\ threads \subseteq Consumers
    /\ protected_ptr \in [Consumers -> Nodes \union {nullptr}]
    /\ retired_ptrs \in [Consumers -> Seq(Nodes)]
    /\ mutators_count \in Nat /\ approximate_free_list_size \in Nat
    /\ cancel_collect \in BOOLEAN
    /\ cpc \in {"test", "lock", "scan", "check", "delete", "wait", "exit"}
    /\ snapshot \subseteq Nodes /\ todo \subseteq threads
    /\ current \in Consumers \union {nullptr} /\ candidates \in Seq(Nodes)
    /\ dpc \in {"alive", "join", "destroyed"}

=============================================================================
