--------------------------- MODULE SimpleMSQueue ---------------------------
(***************************************************************************)
(* NComponents::SimpleMSQueue (src/components/lock_free/simple_ms_queue.h), *)
(* the Michael-Scott queue in which the workers of DistributedPool pass    *)
(* tasks, with the hazard pointers that reclaim its nodes.  Producers call *)
(* Push, consumers TryPop(mutator), or TryPop(), which makes a mutator for *)
(* one call.  All atomics are sequentially consistent; compare_exchange_weak *)
(* may fail spuriously, which restarts a loop.                             *)
(***************************************************************************)
EXTENDS HazardManager

CONSTANTS Producers, MaxPushes, None

ASSUME QueueAssumption ==
    /\ Producers \intersect Consumers = {} /\ nullptr \notin Producers
    /\ MaxPushes \in Nat
    /\ None \notin Producers \X Nat

VARIABLES
    head, tail,     \* std::atomic<Node*> head, tail
    next, value,    \* the fields of each node
    gone,           \* ~SimpleMSQueue has begun
    line,           \* history: the nodes from head on, in the order of their links
    pc,             \* pc[t]: where thread t is in Push or TryPop
    ptr,            \* ptr[t]: old_tail of Push, old_head of TryPop
    new_node,       \* new_node[p]: the local variable of Push
    pushes,         \* pushes[p]: how many elements p has pushed
    result          \* result[c]: what the last TryPop of c returned

nodeVars   == <<head, tail, next, value, gone, line>>
threadVars == <<pc, ptr, new_node, pushes, result>>
queueVars == <<hazardVars, nodeVars, threadVars>>

Threads == Producers \union Consumers
Values  == Producers \X (1..MaxPushes)

\* The empty queue: one dummy node.
QueueInit ==
    /\ HazardInit
    /\ \E dummy \in Nodes : live = {dummy} /\ head = dummy /\ tail = dummy /\ line = <<dummy>>
    /\ gone = FALSE
    /\ next = [n \in Nodes |-> nullptr]
    /\ value = [n \in Nodes |-> None]
    /\ pc = [t \in Threads |-> "idle"]
    /\ ptr = [t \in Threads |-> nullptr]
    /\ new_node = [p \in Producers |-> nullptr]
    /\ pushes = [p \in Producers |-> 0]
    /\ result = [c \in Consumers |-> None]

ThreadGoto(t, from, to) == pc[t] = from /\ pc' = [pc EXCEPT ![t] = to]

\* What a step leaves alone that only dereferences a node.
KeepAllButFaults ==
    UNCHANGED <<live, mutatorVars, retired_ptrs, approximate_free_list_size,
                cancel_collect, collectorVars, dpc>>

-----------------------------------------------------------------------------
(* Push.                                                                   *)

PushNew(p) ==
    /\ ~gone /\ pushes[p] < MaxPushes
    /\ ThreadGoto(p, "idle", "load")
    /\ \E n \in Nodes \ live :
         /\ live' = live \union {n}
         /\ new_node' = [new_node EXCEPT ![p] = n]
         /\ next' = [next EXCEPT ![n] = nullptr]
         /\ value' = [value EXCEPT ![n] = <<p, pushes[p] + 1>>]
    /\ UNCHANGED <<faults, mutatorVars, retired_ptrs, approximate_free_list_size,
                   cancel_collect, collectorVars, dpc, head, tail, gone, line, ptr, pushes, result>>

PushLoad(p) ==
    /\ ThreadGoto(p, "load", "next")
    /\ ptr' = [ptr EXCEPT ![p] = tail]
    /\ UNCHANGED <<hazardVars, nodeVars, new_node, pushes, result>>

PushNext(p) ==
    /\ ThreadGoto(p, "next", IF next[ptr[p]] # nullptr THEN "help" ELSE "link")
    /\ Touch(ptr[p], "push")
    /\ KeepAllButFaults
    /\ UNCHANGED <<nodeVars, ptr, new_node, pushes, result>>

\* Another Push has linked its node and not moved tail yet.
PushHelp(p) ==
    /\ ThreadGoto(p, "help", "load")
    /\ Touch(ptr[p], "push")
    /\ \/ tail = ptr[p] /\ tail' = next[ptr[p]]
       \/ UNCHANGED tail
    /\ KeepAllButFaults
    /\ UNCHANGED <<head, next, value, gone, line, ptr, new_node, pushes, result>>

PushLink(p) ==
    /\ pc[p] = "link"
    /\ Touch(ptr[p], "push")
    /\ \/ /\ ThreadGoto(p, "link", "swing")
          /\ next[ptr[p]] = nullptr
          /\ next' = [next EXCEPT ![ptr[p]] = new_node[p]]
          /\ line' = Append(line, new_node[p])
       \/ /\ ThreadGoto(p, "link", "load")
          /\ UNCHANGED <<next, line>>
    /\ KeepAllButFaults
    /\ UNCHANGED <<head, tail, value, gone, ptr, new_node, pushes, result>>

PushSwing(p) ==
    /\ ThreadGoto(p, "swing", "idle")
    /\ tail' = IF tail = ptr[p] THEN new_node[p] ELSE tail
    /\ ptr' = [ptr EXCEPT ![p] = nullptr]
    /\ new_node' = [new_node EXCEPT ![p] = nullptr]
    /\ pushes' = [pushes EXCEPT ![p] = @ + 1]
    /\ UNCHANGED <<hazardVars, head, next, value, gone, line, result>>

-----------------------------------------------------------------------------
(* A consumer makes a mutator, calls TryPop any number of times with it    *)
(* and destroys it.                                                        *)

PopMakeMutator(c) ==
    /\ dpc = "alive" /\ ~gone
    /\ ThreadGoto(c, "idle", "inserted")
    /\ MakeMutator(c)
    /\ UNCHANGED <<nodeVars, ptr, new_node, pushes, result>>

PopCountMutator(c) ==
    /\ ThreadGoto(c, "inserted", "counted")
    /\ CountMutator(c)
    /\ UNCHANGED <<nodeVars, ptr, new_node, pushes, result>>

PopRegisterThread(c) ==
    /\ ThreadGoto(c, "counted", "ready")
    /\ RegisterThread(c)
    /\ UNCHANGED <<nodeVars, ptr, new_node, pushes, result>>

PopDestroyMutator(c) ==
    /\ ThreadGoto(c, "ready", "idle")
    /\ DestroyMutator(c)
    /\ UNCHANGED <<nodeVars, ptr, new_node, pushes, result>>

\* Mutator::Acquire(&head): load, store, and look whether head has moved.
AcquireLoad(c) ==
    /\ ThreadGoto(c, "ready", "store")
    /\ ptr' = [ptr EXCEPT ![c] = head]
    /\ UNCHANGED <<hazardVars, nodeVars, new_node, pushes, result>>

AcquireStore(c) ==
    /\ ThreadGoto(c, "store", "recheck")
    /\ Protect(c, ptr[c])
    /\ UNCHANGED <<nodeVars, ptr, new_node, pushes, result>>

AcquireRecheck(c) ==
    /\ ThreadGoto(c, "recheck", IF head = ptr[c] THEN "next" ELSE "store")
    /\ ptr' = [ptr EXCEPT ![c] = head]
    /\ UNCHANGED <<hazardVars, nodeVars, new_node, pushes, result>>

\* Fault: an empty queue is read off the pointers instead of the link.
PopNextByTail(c) ==
    /\ pc[c] = "next"
    /\ Touch(ptr[c], "head")
    /\ IF ptr[c] = tail
       THEN ThreadGoto(c, "next", "release_empty") /\ result' = [result EXCEPT ![c] = None]
       ELSE ThreadGoto(c, "next", "tail") /\ UNCHANGED result
    /\ KeepAllButFaults
    /\ UNCHANGED <<nodeVars, ptr, new_node, pushes>>

PopNext(c) ==
    /\ pc[c] = "next"
    /\ Touch(ptr[c], "head")
    /\ IF next[ptr[c]] = nullptr
       THEN ThreadGoto(c, "next", "release_empty") /\ result' = [result EXCEPT ![c] = None]
       ELSE ThreadGoto(c, "next", "tail") /\ UNCHANGED result
    /\ KeepAllButFaults
    /\ UNCHANGED <<nodeVars, ptr, new_node, pushes>>

PopReleaseEmpty(c) ==
    /\ ThreadGoto(c, "release_empty", "ready")
    /\ Protect(c, nullptr)
    /\ ptr' = [ptr EXCEPT ![c] = nullptr]
    /\ UNCHANGED <<nodeVars, new_node, pushes, result>>

PopTail(c) ==
    /\ ThreadGoto(c, "tail", IF tail = ptr[c] THEN "help" ELSE "cas")
    /\ UNCHANGED <<hazardVars, nodeVars, ptr, new_node, pushes, result>>

\* tail is behind: move it and start again.
PopHelp(c) ==
    /\ ThreadGoto(c, "help", "ready")
    /\ Touch(ptr[c], "head")
    /\ \/ tail = ptr[c] /\ tail' = next[ptr[c]]
       \/ UNCHANGED tail
    /\ KeepAllButFaults
    /\ UNCHANGED <<head, next, value, gone, line, ptr, new_node, pushes, result>>

PopCas(c) ==
    /\ pc[c] = "cas"
    /\ Touch(ptr[c], "head")
    /\ \/ /\ ThreadGoto(c, "cas", "value")
          /\ head = ptr[c]
          /\ head' = next[ptr[c]]
          /\ line' = Tail(line)
       \/ /\ ThreadGoto(c, "cas", "ready")
          /\ UNCHANGED <<head, line>>
    /\ KeepAllButFaults
    /\ UNCHANGED <<tail, next, value, gone, ptr, new_node, pushes, result>>

\* next = old_head->next and the value of that node, which nobody protects.
PopValue(c) ==
    /\ ThreadGoto(c, "value", "release")
    /\ LET n == next[ptr[c]]
       IN  /\ faults' = faults \union (IF ptr[c] \in live THEN {} ELSE {"head"})
                               \union (IF n \in live THEN {} ELSE {"value"})
           /\ result' = [result EXCEPT ![c] = value[n]]
    /\ KeepAllButFaults
    /\ UNCHANGED <<nodeVars, ptr, new_node, pushes>>

PopRelease(c) ==
    /\ ThreadGoto(c, "release", "retire")
    /\ Protect(c, nullptr)
    /\ UNCHANGED <<nodeVars, ptr, new_node, pushes, result>>

PopRetire(c) ==
    /\ ThreadGoto(c, "retire", "increase")
    /\ Retire(c, ptr[c])
    /\ ptr' = [ptr EXCEPT ![c] = nullptr]
    /\ UNCHANGED <<nodeVars, new_node, pushes, result>>

PopIncreaseRetired(c) ==
    /\ ThreadGoto(c, "increase", "ready")
    /\ IncreaseRetired
    /\ UNCHANGED <<nodeVars, ptr, new_node, pushes, result>>

-----------------------------------------------------------------------------
(* The end of the program: nobody uses the queue any more.                 *)

\* One turn of the loop of ~SimpleMSQueue.
DestroyQueue ==
    /\ \A t \in Threads : pc[t] = "idle"
    /\ head # nullptr
    /\ head' = next[head]
    /\ Delete({head})
    /\ gone' = TRUE
    /\ line' = Tail(line)
    /\ UNCHANGED <<mutatorVars, retired_ptrs, approximate_free_list_size, cancel_collect,
                   collectorVars, dpc, tail, next, value, threadVars>>

DestroyManager ==
    /\ head = nullptr
    /\ CancelCollect \/ Finish
    /\ UNCHANGED <<nodeVars, threadVars>>

\* After the destructors, or after a fault, there is nothing to say.
QueueTerminated ==
    /\ dpc = "destroyed" \/ faults # {}
    /\ UNCHANGED queueVars

-----------------------------------------------------------------------------

PushStep(p) ==
    \/ PushNew(p) \/ PushLoad(p) \/ PushNext(p) \/ PushHelp(p) \/ PushLink(p) \/ PushSwing(p)

PopStep(c) ==
    \/ PopMakeMutator(c) \/ PopCountMutator(c) \/ PopRegisterThread(c) \/ PopDestroyMutator(c)
    \/ AcquireLoad(c) \/ AcquireStore(c) \/ AcquireRecheck(c)
    \/ PopNext(c) \/ PopReleaseEmpty(c) \/ PopTail(c) \/ PopHelp(c) \/ PopCas(c)
    \/ PopValue(c) \/ PopRelease(c) \/ PopRetire(c) \/ PopIncreaseRetired(c)

Collector == CollectorStep /\ UNCHANGED <<nodeVars, threadVars>>

QueueNext ==
    \/ /\ faults = {}
       /\ \/ \E p \in Producers : PushStep(p)
          \/ \E c \in Consumers : PopStep(c)
          \/ Collector
          \/ DestroyQueue \/ DestroyManager
    \/ QueueTerminated

QueueSpec == QueueInit /\ [][QueueNext]_queueVars

-----------------------------------------------------------------------------
(* Properties.                                                             *)

\* No node is read, written or deleted after it was deleted.  It does not hold of
\* several threads while the collector runs: Push follows a tail that it has not
\* protected (simple_ms_queue.h:60), and TryPop reads a value too late (below).
NoUseAfterFree == faults = {}

\* The node whose value TryPop reads after it has moved head is still there
\* (simple_ms_queue.h:94-96): no other TryPop has retired it and no collection
\* has deleted it meanwhile.  It is violated with two consumers.
ValueStillThere == "value" \notin faults

\* Every variable has its type.
QueueTypeOK ==
    /\ head \in Nodes \union {nullptr} /\ tail \in Nodes
    /\ next \in [Nodes -> Nodes \union {nullptr}]
    /\ value \in [Nodes -> Values \union {None}]
    /\ gone \in BOOLEAN /\ line \in Seq(Nodes)
    /\ pc \in [Threads -> {"idle", "load", "next", "help", "link", "swing", "inserted", "counted",
                           "ready", "store", "recheck", "release_empty", "tail", "cas", "value",
                           "release", "retire", "increase"}]
    /\ \A p \in Producers : pc[p] \in {"idle", "load", "next", "help", "link", "swing"}
    /\ \A c \in Consumers : pc[c] \notin {"load", "link", "swing"}
    /\ ptr \in [Threads -> Nodes \union {nullptr}]
    /\ new_node \in [Producers -> Nodes \union {nullptr}]
    /\ pushes \in [Producers -> 0..MaxPushes]
    /\ \A p \in Producers : pc[p] # "idle" => pushes[p] < MaxPushes
    /\ result \in [Consumers -> Values \union {None}]

InLine(n) == Contains(line, n)

\* The list from head to the node without a link.  tail does not leave it, and
\* nobody uses it once its destructor has begun.
LineInv ==
    /\ NoRepeats(line)
    /\ \A i \in 1..Len(line) : next[line[i]] = IF i = Len(line) THEN nullptr ELSE line[i + 1]
    /\ \A i \in 1..Len(line) : i > 1 => value[line[i]] \in Values
    /\ head = IF line = <<>> THEN nullptr ELSE line[1]
    /\ IF gone THEN \A t \in Threads : pc[t] = "idle" ELSE InLine(tail)
    /\ dpc # "alive" => gone /\ head = nullptr

\* Push has a node that it has not linked; TryPop has one that it has unlinked.
HasNew(p) == pc[p] \in {"load", "next", "help", "link"}
HasOld(c) == pc[c] \in {"value", "release", "retire"}

\* Where a node may be: in the list, with the Push that will link it, with the
\* TryPop that has unlinked it, retired by a thread, or detached by the collector.
PlacedAt(n, place, owner) ==
    \/ place = "list" /\ owner = nullptr /\ InLine(n)
    \/ place = "new" /\ owner \in Producers /\ HasNew(owner) /\ new_node[owner] = n
    \/ place = "taken" /\ owner \in Consumers /\ HasOld(owner) /\ ptr[owner] = n
    \/ place = "retired" /\ owner \in Consumers /\ Contains(retired_ptrs[owner], n)
    \/ place = "detached" /\ owner = nullptr /\ Contains(candidates, n)

Places == {"list", "new", "taken", "retired", "detached"}
Owners == Threads \union {nullptr}

\* An allocated node is at one place, and a deleted one is at none.
PlacedOnce ==
    /\ \A n \in Nodes \union {nullptr} : \A a \in Places, x \in Owners : PlacedAt(n, a, x) => n \in live
    /\ \A n \in live : \E a \in Places, x \in Owners : PlacedAt(n, a, x)
    /\ \A n \in live : \A a, b \in Places, x, y \in Owners :
         PlacedAt(n, a, x) /\ PlacedAt(n, b, y) => a = b /\ x = y

\* Every node goes from the queue to a retired list and from there to delete,
\* once.
PlaceInv ==
    /\ PlacedOnce
    /\ \A c \in Consumers : NoRepeats(retired_ptrs[c])
    /\ NoRepeats(candidates)

\* The mutators and the collector keep the books of the threads that use them.
MutatorInv ==
    /\ \A c \in Consumers : pc[c] # "idle" \/ retired_ptrs[c] # <<>> => c \in threads
    /\ \A c \in Consumers : pc[c] = "idle" => protected_ptr[c] = nullptr
    /\ mutators_count = Cardinality({c \in Consumers : pc[c] \notin {"idle", "inserted"}})
    /\ cpc = "delete" => current \in threads
    /\ candidates # <<>> => cpc = "delete"

\* A node that a thread may dereference: when it has left the list it has a link.
Known(n) == n \in live /\ (InLine(n) \/ next[n] # nullptr)

\* What a Push knows of its node and of the node that it took for the last one.
PushKnows(p) ==
    /\ HasNew(p) => next[new_node[p]] = nullptr /\ value[new_node[p]] \in Values
    /\ pc[p] \in {"next", "help", "link"} => Known(ptr[p])
    /\ pc[p] = "help" => next[ptr[p]] # nullptr
    /\ pc[p] = "swing" => ptr[p] \in Nodes /\ new_node[p] \in Nodes /\ next[ptr[p]] = new_node[p]

\* What a TryPop knows of the node that it took for the first one: it is the
\* first one or has left the list, and if it is, then tail is not behind.
PopKnows(c) ==
    /\ pc[c] \in {"next", "tail", "help", "cas"} =>
         Known(ptr[c]) /\ (InLine(ptr[c]) => ptr[c] = head)
    /\ pc[c] \in {"tail", "help", "cas", "value"} => next[ptr[c]] # nullptr
    /\ pc[c] = "cas" => ptr[c] # head \/ tail # head
    /\ pc[c] = "value" => next[ptr[c]] \in live /\ value[next[ptr[c]]] \in Values

\* While the collector deletes, there is one producer and one consumer.  tail is
\* at the last node unless Push is about to move it, and nobody but the consumer
\* moves head.
OneEach == (\A p, q \in Producers : p = q) /\ (\A c, d \in Consumers : c = d)

PushPaired(p) ==
    /\ pc[p] # "help"
    /\ pc[p] # "swing" => tail = line[Len(line)]
    /\ pc[p] \in {"next", "link"} => ptr[p] = tail
    /\ pc[p] = "swing" => new_node[p] = line[Len(line)] /\ tail \in {ptr[p], new_node[p]}

PopPaired(c) ==
    /\ pc[c] \in {"next", "tail", "help", "cas"} => ptr[c] = head
    /\ pc[c] = "value" => next[ptr[c]] = head

PairInv ==
    /\ ~gone => \A p \in Producers : PushPaired(p)
    /\ \A c \in Consumers : PopPaired(c)

\* While the collector does not run, links lead to nodes that are allocated.
KeptInv ==
    /\ cpc = "exit"
    /\ ~gone => /\ \A n \in live : next[n] = nullptr \/ next[n] \in live
                /\ \A p \in Producers : pc[p] = "swing" => ptr[p] \in live

\* The destructors delete every node, and the assertions of ~HazardManager hold:
\* nothing is protected or retired, and no mutator is left.
NothingLeaks ==
    dpc = "destroyed" =>
        /\ cpc = "exit"
        /\ live = {}
        /\ mutators_count = 0
        /\ \A c \in Consumers : protected_ptr[c] = nullptr /\ retired_ptrs[c] = <<>>

\* Nodes are reclaimed once and not too early, and what the threads have loaded
\* is good enough for their next compare-exchange.
ReclaimInv ==
    /\ HazardTypeOK /\ QueueTypeOK
    /\ LineInv /\ PlaceInv /\ MutatorInv /\ NothingLeaks
    /\ \A p \in Producers : PushKnows(p)
    /\ \A c \in Consumers : PopKnows(c)
    /\ IF CollectorLeft THEN KeptInv ELSE PairInv

\* The queue as a sequence.  A TryPop takes effect when it moves head, before
\* it has read the value.
Fifo ==
    INSTANCE FifoQueue
        WITH items <- IF gone THEN <<>> ELSE [i \in 1..Len(line) - 1 |-> value[line[i + 1]]],
             alive <- ~gone,
             result <- [c \in Consumers |->
                          IF pc[c] = "value" THEN value[next[ptr[c]]] ELSE result[c]]

\* Push and TryPop are linearizable: elements leave in the order in which they
\* were linked, each to one consumer, and "empty" is only said of an empty queue.
ImplementsFifoQueue == Fifo!Spec

=============================================================================
