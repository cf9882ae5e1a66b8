--------------------------- MODULE ClassicMSQueue ---------------------------
(***************************************************************************)
(* NComponents::ClassicMSQueue (src/components/lock_free/                  *)
(* classic_ms_queue.h): the Michael-Scott queue with a modification        *)
(* counter beside every pointer.  A NodePointer is <<node_ptr, counter>>,  *)
(* loaded and compared as one; all atomics are sequentially consistent.    *)
(*                                                                         *)
(* The comment of the class leaves the memory to an allocator that never   *)
(* reuses a node as another type, so a deleted node may still be read and  *)
(* keeps its fields until `new' constructs it again.  `new' may return any *)
(* node that is not allocated, also one to which a thread still refers.    *)
(***************************************************************************)
EXTENDS Naturals, Sequences

CONSTANTS Nodes, Producers, Consumers,
          MaxPushes,    \* bound: the number of calls of Push
          NULL, None

\* What the constants stand for: the hypothesis of the theorems.
ClassicSetting ==
    /\ NULL \notin Nodes
    /\ Producers \intersect Consumers = {}
    /\ MaxPushes \in Nat /\ None \notin Nat

VARIABLES
    head, tail,   \* std::atomic<NodePointer>
    next, value,  \* the fields of each node
    live,         \* the nodes that are allocated
    twice,        \* history: the nodes that were deleted when they were not live
    pc,           \* pc[t]: where thread t is in Push or TryPop
    old_head, old_tail, after,  \* the locals of t; after is next_after_old_...
    new_node,     \* new_node[p]
    res,          \* res[c]: the local `result' of TryPop
    pushed,       \* how many calls of Push have begun
    gone,         \* the destructor has begun
    line,         \* history: the nodes from head on, in the order of their links
    answer        \* history: answer[c], what the last TryPop of c answers,
                  \* from the step on at which it takes effect

nodeVars   == <<head, tail, next, value, live, twice>>
localVars  == <<old_head, old_tail, after, new_node, res>>
vars == <<nodeVars, localVars, pc, pushed, gone, line, answer>>

Threads == Producers \union Consumers
Null    == <<NULL, 0>>

\* The values of a NodePointer.
Pointers == (Nodes \union {NULL}) \X Nat

Init ==
    /\ \E dummy \in Nodes :
         /\ head = <<dummy, 0>> /\ tail = <<dummy, 0>>
         /\ live = {dummy} /\ line = <<dummy>>
    /\ next = [n \in Nodes |-> Null]
    /\ value = [n \in Nodes |-> None]
    /\ twice = {}
    /\ pc = [t \in Threads |-> "idle"]
    /\ old_head = [t \in Threads |-> Null]
    /\ old_tail = [t \in Threads |-> Null]
    /\ after = [t \in Threads |-> Null]
    /\ new_node = [p \in Producers |-> NULL]
    /\ res = [c \in Consumers |-> None]
    /\ pushed = 0
    /\ gone = FALSE
    /\ answer = [c \in Consumers |-> None]

Goto(t, from, to) == pc[t] = from /\ pc' = [pc EXCEPT ![t] = to]

\* tail.compare_exchange_strong; a failure changes only a local that is reloaded.
CasTail(old, n) == tail' = IF tail = old THEN <<n, old[2] + 1>> ELSE tail

\* A thread is done with its call.
Forget(t) ==
    /\ old_head' = [old_head EXCEPT ![t] = Null]
    /\ old_tail' = [old_tail EXCEPT ![t] = Null]
    /\ after' = [after EXCEPT ![t] = Null]

-----------------------------------------------------------------------------
(* Push.                                                                   *)

\* new Node(item): constructs node n, counter of `next' and all.
Construct(p, n) ==
    /\ ~gone
    /\ pushed < MaxPushes
    /\ Goto(p, "idle", "load_tail")
    /\ live' = live \union {n}
    /\ next' = [next EXCEPT ![n] = Null]
    /\ value' = [value EXCEPT ![n] = pushed + 1]
    /\ new_node' = [new_node EXCEPT ![p] = n]
    /\ pushed' = pushed + 1
    /\ UNCHANGED <<head, tail, twice, old_head, old_tail, after, res, gone, line, answer>>

PushNew(p) == \E n \in Nodes \ live : Construct(p, n)

PushLoadTail(p) ==
    /\ Goto(p, "load_tail", "load_next")
    /\ old_tail' = [old_tail EXCEPT ![p] = tail]
    /\ UNCHANGED <<nodeVars, old_head, after, new_node, res, pushed, gone, line, answer>>

PushLoadNext(p) ==
    /\ Goto(p, "load_next", "check")
    /\ after' = [after EXCEPT ![p] = next[old_tail[p][1]]]
    /\ UNCHANGED <<nodeVars, old_head, old_tail, new_node, res, pushed, gone, line, answer>>

\* Are tail and next consistent, and was tail pointing to the last node?
PushCheck(p) ==
    /\ Goto(p, "check", IF old_tail[p] # tail THEN "load_tail"
                        ELSE IF after[p][1] = NULL THEN "link" ELSE "help")
    /\ UNCHANGED <<nodeVars, localVars, pushed, gone, line, answer>>

PushLink(p) ==
    /\ pc[p] = "link"
    /\ LET last == old_tail[p][1]
       IN  IF next[last] = after[p]
           THEN /\ Goto(p, "link", "swing")
                /\ next' = [next EXCEPT ![last] = <<new_node[p], after[p][2] + 1>>]
                /\ line' = Append(line, new_node[p])
           ELSE Goto(p, "link", "load_tail") /\ UNCHANGED <<next, line>>
    /\ UNCHANGED <<head, tail, value, live, twice, localVars, pushed, gone, answer>>

PushHelp(p) ==
    /\ Goto(p, "help", "load_tail")
    /\ CasTail(old_tail[p], after[p][1])
    /\ UNCHANGED <<head, next, value, live, twice, localVars, pushed, gone, line, answer>>

PushSwing(p) ==
    /\ Goto(p, "swing", "idle")
    /\ CasTail(old_tail[p], new_node[p])
    /\ new_node' = [new_node EXCEPT ![p] = NULL]
    /\ Forget(p)
    /\ UNCHANGED <<head, next, value, live, twice, res, pushed, gone, line, answer>>

-----------------------------------------------------------------------------
(* TryPop.                                                                 *)

PopLoadHead(c) ==
    /\ ~gone
    /\ Goto(c, "idle", "load_tail") \/ Goto(c, "again", "load_tail")
    /\ old_head' = [old_head EXCEPT ![c] = head]
    /\ UNCHANGED <<nodeVars, old_tail, after, new_node, res, pushed, gone, line, answer>>

PopLoadTail(c) ==
    /\ Goto(c, "load_tail", "load_next")
    /\ old_tail' = [old_tail EXCEPT ![c] = tail]
    /\ UNCHANGED <<nodeVars, old_head, after, new_node, res, pushed, gone, line, answer>>

\* The load at which an empty TryPop takes effect, if the check then passes.
PopLoadNext(c) ==
    /\ Goto(c, "load_next", "check")
    /\ LET link == next[old_head[c][1]]
       IN  /\ after' = [after EXCEPT ![c] = link]
           /\ answer' = IF link[1] = NULL /\ head = old_head[c]
                        THEN [answer EXCEPT ![c] = None] ELSE answer
    /\ UNCHANGED <<nodeVars, old_head, old_tail, new_node, res, pushed, gone, line>>

Behind(c) == old_head[c][1] = old_tail[c][1]

\* Are head, tail and next consistent?  The queue is empty ...
PopEmpty(c) ==
    /\ old_head[c] = head
    /\ Behind(c) /\ after[c][1] = NULL
    /\ Goto(c, "check", "idle")
    /\ answer' = [answer EXCEPT ![c] = None]
    /\ Forget(c)
    /\ UNCHANGED <<nodeVars, new_node, res, pushed, gone, line>>

\* ... or tail is falling behind, or there is a value.
PopCheck(c) ==
    /\ ~(old_head[c] = head /\ Behind(c) /\ after[c][1] = NULL)
    /\ Goto(c, "check", IF old_head[c] # head THEN "again"
                        ELSE IF Behind(c) THEN "help" ELSE "value")
    /\ UNCHANGED <<nodeVars, localVars, pushed, gone, line, answer>>

PopHelp(c) ==
    /\ Goto(c, "help", "again")
    /\ CasTail(old_tail[c], after[c][1])
    /\ UNCHANGED <<head, next, value, live, twice, localVars, pushed, gone, line, answer>>

\* The value is read before the CAS: afterwards another TryPop may delete it.
PopValue(c) ==
    /\ Goto(c, "value", "cas")
    /\ res' = [res EXCEPT ![c] = value[after[c][1]]]
    /\ UNCHANGED <<nodeVars, old_head, old_tail, after, new_node, pushed, gone, line, answer>>

PopCas(c) ==
    /\ IF head = old_head[c]
       THEN /\ Goto(c, "cas", "delete")
            /\ head' = <<after[c][1], head[2] + 1>>
            /\ line' = Tail(line)
            /\ answer' = [answer EXCEPT ![c] = res[c]]
       ELSE Goto(c, "cas", "again") /\ UNCHANGED <<head, line, answer>>
    /\ UNCHANGED <<tail, next, value, live, twice, localVars, pushed, gone>>

\* delete, of a node that is allocated or is not.
Delete(n) == live' = live \ {n} /\ twice' = twice \union ({n} \ live)

PopDelete(c) ==
    /\ Goto(c, "delete", "idle")
    /\ Delete(old_head[c][1])
    /\ res' = [res EXCEPT ![c] = None]
    /\ Forget(c)
    /\ UNCHANGED <<head, tail, next, value, new_node, pushed, gone, line, answer>>

\* One turn of ~ClassicMSQueue, when nobody uses the queue any more.
Destroy ==
    /\ \A t \in Threads : pc[t] = "idle"
    /\ head[1] # NULL
    /\ head' = next[head[1]]
    /\ Delete(head[1])
    /\ gone' = TRUE
    /\ line' = Tail(line)
    /\ UNCHANGED <<tail, next, value, localVars, pc, pushed, answer>>

-----------------------------------------------------------------------------

PushStep(p) ==
    \/ PushNew(p) \/ PushLoadTail(p) \/ PushLoadNext(p) \/ PushCheck(p)
    \/ PushLink(p) \/ PushHelp(p) \/ PushSwing(p)

PopStep(c) ==
    \/ PopLoadHead(c) \/ PopLoadTail(c) \/ PopLoadNext(c)
    \/ PopEmpty(c) \/ PopCheck(c) \/ PopHelp(c)
    \/ PopValue(c) \/ PopCas(c) \/ PopDelete(c)

Terminated == head[1] = NULL /\ UNCHANGED vars

Next ==
    \/ \E p \in Producers : PushStep(p)
    \/ \E c \in Consumers : PopStep(c)
    \/ Destroy
    \/ Terminated

Spec == Init /\ [][Next]_vars

\* A thread has loaded a pointer to node n and may use it again.
Referred(n) == \E t \in Threads : n \in {old_head[t][1], old_tail[t][1], after[t][1]}

\* What the queue needs of its allocator besides: `new' returns no node to which
\* a thread refers, as hazard pointers or epochs, which the comment mentions
\* (lines 27-29), would have it.  Neither the code nor the comment provides it.
FreshOnly == \A n \in live' \ live : ~Referred(n)

-----------------------------------------------------------------------------
(* Properties.                                                             *)

\* Every variable has its type.
TypeOK ==
    /\ head \in Pointers /\ tail \in Nodes \X Nat
    /\ next \in [Nodes -> Pointers]
    /\ value \in [Nodes -> 1..MaxPushes \union {None}]
    /\ live \subseteq Nodes /\ twice \subseteq Nodes /\ line \in Seq(Nodes)
    /\ pc \in [Threads -> {"idle", "again", "load_tail", "load_next", "check", "link",
                           "help", "swing", "value", "cas", "delete"}]
    /\ \A p \in Producers : pc[p] \notin {"again", "value", "cas", "delete"}
    /\ \A c \in Consumers : pc[c] \notin {"link", "swing"}
    /\ old_head \in [Threads -> Pointers]
    /\ old_tail \in [Threads -> Pointers]
    /\ after \in [Threads -> Pointers]
    /\ new_node \in [Producers -> Nodes \union {NULL}]
    /\ pushed \in 0..MaxPushes /\ gone \in BOOLEAN
    /\ res \in [Consumers -> 1..MaxPushes \union {None}]
    /\ answer \in [Consumers -> 1..MaxPushes \union {None}]

InLine(n) == \E i \in 1..Len(line) : line[i] = n

\* "Head always points to a dummy node, which is the first node in the list.
\* Tail points to either the last or second to last node in the list"
\* (classic_ms_queue.h:21-24), and the list ends where a link is null.
LineInv ==
    /\ \A i, j \in 1..Len(line) : line[i] = line[j] => i = j
    /\ \A i \in 1..Len(line) : next[line[i]][1] = IF i = Len(line) THEN NULL ELSE line[i + 1]
    /\ head[1] = IF line = <<>> THEN NULL ELSE line[1]
    /\ IF gone THEN \A t \in Threads : pc[t] = "idle"
       ELSE \E i \in 1..Len(line) : i + 1 >= Len(line) /\ line[i] = tail[1]

\* The counters "avoid the ABA problem" (line 25): a compare-exchange that is
\* about to succeed in Push does "link node at the end of the linked list"
\* (lines 100-101).  It is violated: Node(T) sets the counter of `next' back to 0
\* (line 58), so a late Push takes a node that was deleted and has come back
\* for the one that it loaded, and links behind a node that is not in the list.
LinksAtEnd ==
    \A p \in Producers :
        pc[p] = "link" /\ next[old_tail[p][1]] = after[p]
            => line # <<>> /\ line[Len(line)] = old_tail[p][1]

\* Push has a node that it has not linked; TryPop has one that it has unlinked.
HasNew(p) == pc[p] \in {"load_tail", "load_next", "check", "link", "help"}
HasOld(c) == pc[c] = "delete"

\* Thread t has loaded a pointer to n from head or tail.
Loaded(t, n) == n \in {old_head[t][1], old_tail[t][1]}

\* An allocated node is in the list or belongs to one thread.
OwnerInv ==
    /\ \A p \in Producers : HasNew(p) =>
         /\ new_node[p] \in live /\ ~InLine(new_node[p])
         /\ next[new_node[p]] = Null /\ value[new_node[p]] \in 1..MaxPushes
         /\ \A q \in Producers : HasNew(q) /\ new_node[q] = new_node[p] => q = p
         /\ \A t \in Threads : ~Loaded(t, new_node[p])
    /\ \A c \in Consumers : HasOld(c) =>
         /\ old_head[c][1] \in live /\ ~InLine(old_head[c][1])
         /\ \A d \in Consumers : HasOld(d) /\ old_head[d][1] = old_head[c][1] => d = c
    /\ \A i \in 1..Len(line) : line[i] \in live /\ (i > 1 => value[line[i]] \in 1..MaxPushes)
    /\ \A n \in live : \/ InLine(n)
                       \/ \E p \in Producers : HasNew(p) /\ new_node[p] = n
                       \/ \E c \in Consumers : HasOld(c) /\ old_head[c][1] = n

\* Every node is deleted once: by the TryPop that unlinked it ("it is safe now to
\* free the old dummy node", line 159) or by the destructor.
DeletedOnce == twice = {} /\ (head[1] = NULL => live = {})

\* Pointers that a thread has loaded are stale in one way only: a node that has
\* left the list keeps its link, head is not that node again, and tail has not
\* moved back.
LoadedInv ==
    /\ \A t \in Threads, n \in Nodes : Loaded(t, n) => InLine(n) \/ next[n][1] # NULL
    /\ \A t \in Threads : InLine(old_head[t][1]) => old_head[t] = head
    /\ \A t \in Threads : \A i, j \in 1..Len(line) :
         line[i] = old_tail[t][1] /\ line[j] = tail[1] => i <= j
    /\ \A t \in Threads : pc[t] = "idle" => old_head[t] = Null /\ old_tail[t] = Null

\* What a Push knows of the node that it took for the last one.
PushKnows(p) ==
    /\ pc[p] \in {"load_next", "check", "link", "help", "swing"} => old_tail[p][1] # NULL
    /\ pc[p] \in {"check", "link", "help"} =>
         after[p][1] = NULL \/ after[p] = next[old_tail[p][1]]
    /\ pc[p] = "link" => after[p][1] = NULL
    /\ pc[p] = "help" => after[p][1] # NULL
    /\ pc[p] = "swing" => new_node[p] # NULL /\ next[old_tail[p][1]][1] = new_node[p]

\* What a TryPop knows, and what it knows only if head has not moved: that tail
\* is not behind, and whether the queue was empty.
PopKnows(c) ==
    /\ pc[c] \notin {"idle", "again"} => old_head[c][1] # NULL
    /\ pc[c] \in {"load_next", "check", "help"} => old_tail[c][1] # NULL
    /\ pc[c] \in {"check", "help", "value", "cas"} =>
         after[c][1] = NULL \/ after[c] = next[old_head[c][1]]
    /\ pc[c] \in {"help", "value", "cas"} => after[c][1] # NULL
    /\ pc[c] = "help" => Behind(c)
    /\ pc[c] \in {"value", "cas"} => ~Behind(c)
    /\ pc[c] = "cas" => res[c] = value[after[c][1]]
    /\ head = old_head[c] =>
         /\ pc[c] \in {"load_next", "check", "value", "cas"} /\ ~Behind(c) => tail[1] # head[1]
         /\ pc[c] = "check" /\ ~Behind(c) => after[c][1] # NULL
         /\ pc[c] = "check" /\ after[c][1] = NULL => answer[c] = None

\* The list has the shape that the comment of the class promises, its nodes
\* are allocated exactly as long as they are needed, and what the threads have
\* loaded is good enough for their next compare-exchange.
QueueShape ==
    /\ TypeOK /\ LineInv /\ OwnerInv /\ DeletedOnce /\ LoadedInv
    /\ \A p \in Producers : PushKnows(p)
    /\ \A c \in Consumers : PopKnows(c)

\* The list behind the dummy node, seen as a sequence.
Fifo ==
    INSTANCE FifoQueue
        WITH Values <- 1..MaxPushes,
             items <- IF gone THEN <<>> ELSE [i \in 1..Len(line) - 1 |-> value[line[i + 1]]],
             alive <- ~gone,
             result <- answer

\* Push and TryPop are linearizable: a Push takes effect when it links its
\* node, a TryPop when it moves head, or, when it returns nothing, at its load
\* of next, at which the queue was empty.
ImplementsFifoQueue == Fifo!Spec

=============================================================================
