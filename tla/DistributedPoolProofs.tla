------------------------- MODULE DistributedPoolProofs -------------------------
(***************************************************************************)
(* For any number of workers, tasks and stops: a submitted task is in      *)
(* exactly one place, count_tasks counts the tasks exactly, a task that    *)
(* has run stays with its worker, and a worker that has been told that it  *)
(* may leave is told so for ever.                                          *)
(*                                                                         *)
(* And for the queue in which the workers pass tasks, with its hazard      *)
(* pointers, when the collector has left or there is one producer and one  *)
(* consumer: each node is reclaimed once, and Push and TryPop implement a  *)
(* FIFO queue.                                                             *)
(***************************************************************************)
EXTENDS DistributedPool, SimpleMSQueue, SequenceTheorems, FiniteSetTheorems, TLAPS

\* A queue after a push of a task that is not in it.
LEMMA AppendHas ==
    ASSUME NEW S, NEW s \in Seq(S), NEW e \in S, ~Has(s, e), Unique(s)
    PROVE  /\ Append(s, e) \in Seq(S) /\ Unique(Append(s, e))
           /\ \A x : Has(Append(s, e), x) <=> (Has(s, x) \/ x = e)
<1>1. /\ Append(s, e) \in Seq(S) /\ Len(s) \in Nat /\ Len(Append(s, e)) = Len(s) + 1
      /\ Append(s, e)[Len(s) + 1] = e
      /\ \A i \in 1..Len(s) : Append(s, e)[i] = s[i]
  BY AppendProperties, LenProperties
<1>2. \A i \in 1..Len(s) + 1 : i # Len(s) + 1 => i \in 1..Len(s)
  BY <1>1
<1>3. /\ \A i \in 1..Len(s) : i \in 1..Len(s) + 1
      /\ Len(s) + 1 \in 1..Len(s) + 1
  BY <1>1
<1>4. ASSUME NEW x
      PROVE  Has(Append(s, e), x) <=> (Has(s, x) \/ x = e)
  <2>1. ASSUME NEW i \in 1..Len(s) + 1, Append(s, e)[i] = x
        PROVE  Has(s, x) \/ x = e
    BY <1>1, <1>2, <2>1 DEF Has
  <2>2. ASSUME NEW i \in 1..Len(s), s[i] = x
        PROVE  Has(Append(s, e), x)
    BY <1>1, <1>3, <2>2 DEF Has
  <2>3. ASSUME x = e
        PROVE  Has(Append(s, e), x)
    BY <1>1, <1>3, <2>3 DEF Has
  <2> QED BY <2>1, <2>2, <2>3, <1>1 DEF Has
<1>5. ASSUME NEW i \in 1..Len(s) + 1, NEW j \in 1..Len(s) + 1, Append(s, e)[i] = Append(s, e)[j]
      PROVE  i = j
  <2>1. CASE i # Len(s) + 1 /\ j # Len(s) + 1
    BY <2>1, <1>1, <1>2, <1>5 DEF Unique
  <2>2. CASE i = Len(s) + 1 /\ j # Len(s) + 1
    BY <2>2, <1>1, <1>2, <1>5 DEF Has
  <2>3. CASE i # Len(s) + 1 /\ j = Len(s) + 1
    BY <2>3, <1>1, <1>2, <1>5 DEF Has
  <2> QED BY <2>1, <2>2, <2>3
<1> QED BY <1>1, <1>4, <1>5 DEF Unique

\* A queue before and after a pop.
LEMMA TailHas ==
    ASSUME NEW S, NEW s \in Seq(S), s # <<>>, Unique(s)
    PROVE  /\ Tail(s) \in Seq(S) /\ Head(s) \in S /\ Has(s, Head(s)) /\ Unique(Tail(s))
           /\ \A x : Has(Tail(s), x) <=> (Has(s, x) /\ x # Head(s))
<1>1. /\ Tail(s) \in Seq(S) /\ Head(s) \in S
      /\ Len(s) \in Nat \ {0} /\ Len(Tail(s)) = Len(s) - 1 /\ Head(s) = s[1]
      /\ \A i \in 1..Len(s) - 1 : Tail(s)[i] = s[i + 1]
  BY EmptySeq, HeadTailProperties
<1>2. /\ 1 \in 1..Len(s)
      /\ \A i \in 1..Len(s) - 1 : i + 1 \in 1..Len(s) /\ i + 1 # 1
      /\ \A i \in 1..Len(s) : i # 1 => i - 1 \in 1..Len(s) - 1 /\ (i - 1) + 1 = i
      /\ \A i, j \in 1..Len(s) - 1 : i + 1 = j + 1 => i = j
  BY <1>1
<1>3. ASSUME NEW x
      PROVE  Has(Tail(s), x) <=> (Has(s, x) /\ x # Head(s))
  <2>1. ASSUME NEW i \in 1..Len(s) - 1, Tail(s)[i] = x
        PROVE  Has(s, x) /\ x # Head(s)
    <3>1. i + 1 \in 1..Len(s) /\ i + 1 # 1 /\ s[i + 1] = x
      BY <2>1, <1>1, <1>2
    <3> QED BY <3>1, <1>1, <1>2 DEF Has, Unique
  <2>2. ASSUME NEW i \in 1..Len(s), s[i] = x, x # Head(s)
        PROVE  Has(Tail(s), x)
    <3>1. i - 1 \in 1..Len(s) - 1 /\ (i - 1) + 1 = i
      BY <2>2, <1>1, <1>2
    <3> QED BY <3>1, <1>1, <2>2 DEF Has
  <2> QED BY <2>1, <2>2, <1>1 DEF Has
<1>4. Has(s, Head(s))
  BY <1>1, <1>2 DEF Has
<1>5. ASSUME NEW i \in 1..Len(s) - 1, NEW j \in 1..Len(s) - 1, Tail(s)[i] = Tail(s)[j]
      PROVE  i = j
  <2>1. i + 1 \in 1..Len(s) /\ j + 1 \in 1..Len(s) /\ s[i + 1] = s[j + 1]
    BY <1>1, <1>2, <1>5
  <2>2. i + 1 = j + 1
    BY <2>1 DEF Unique
  <2> QED BY <2>2, <1>2
<1> QED BY <1>1, <1>3, <1>4, <1>5 DEF Unique

\* The empty queue has no task ...
LEMMA EmptyHas == (\A x : ~Has(<<>>, x)) /\ Unique(<<>>)
<1>1. Len(<<>>) = 0 /\ 1..0 = {}
  BY EmptySeq
<1> QED BY <1>1 DEF Has, Unique

\* ... and every other one has.
LEMMA NonEmptyHas ==
    ASSUME NEW S, NEW s \in Seq(S), \A x \in S : ~Has(s, x)
    PROVE  s = <<>>
<1>1. ASSUME s # <<>> PROVE FALSE
  <2>1. Len(s) \in Nat \ {0}
    BY <1>1, EmptySeq, LenProperties
  <2>2. 1 \in 1..Len(s) /\ s[1] \in S
    BY <2>1, ElementOfSeq
  <2> QED BY <2>2 DEF Has
<1> QED BY <1>1

\* The inductive invariant.
PoolIInv ==
    TypeOK /\ HeldOnce /\ InHandInv /\ StateInv /\ CountMatches /\ RunsAtHome /\ LeavesInv

\* The tasks and the workers to be counted are finitely many.
LEMMA CountFacts ==
    /\ IsFiniteSet(InPool) /\ Cardinality(InPool) \in Nat
    /\ \A p : IsFiniteSet(At(p)) /\ Cardinality(At(p)) \in Nat
<1>1. InPool \subseteq Tasks /\ \A p : At(p) \subseteq Workers
  BY DEF InPool, At
<1> QED BY <1>1, FS_Subset, FS_CardinalityType, PoolAssumption

\* The program counters after Goto.
LEMMA GotoFacts ==
    ASSUME TypeOK, NEW w \in Workers, NEW to \in WorkerPC, Goto(w, to)
    PROVE  /\ wpc'[w] = to /\ \A v \in Workers : v # w => wpc'[v] = wpc[v]
           /\ wpc' \in [Workers -> WorkerPC]
BY DEF TypeOK, Goto

\* A task or a worker that has to be counted: it holds count_tasks above 0.
LEMMA ZeroIsIdle ==
    ASSUME PoolIInv, count_tasks = 0
    PROVE  InPool = {} /\ At("remove") = {}
<1>1. Cardinality(InPool) = 0 /\ Cardinality(At("remove")) = 0
  BY CountFacts DEF PoolIInv, CountMatches
<1> QED BY <1>1, CountFacts, FS_EmptySet

\* Once CanCloseWorker holds, nobody has anything to do.
LEMMA QuietWhenClosed ==
    ASSUME PoolIInv, CanCloseWorker
    PROVE  /\ \A t \in Tasks : status[t] \in {"new", "done"}
           /\ \A t \in Tasks, k \in Kinds, x \in Actors : ~Holds(k, x, t)
           /\ \A w \in Workers : wpc[w] \notin {"run", "remove", "push"}
           /\ \A a \in Actors : spc[a] \notin {"add", "route"}
           /\ mpc # "idle"
           /\ global_tasks = <<>> /\ \A w \in Workers : local_tasks[w] = <<>>
<1>1. InPool = {} /\ At("remove") = {}
  BY ZeroIsIdle DEF CanCloseWorker
<1>2. spc[Owner] = "no" /\ mpc # "idle"
  BY DEF PoolIInv, InHandInv, CanCloseWorker
<1>3. ASSUME NEW t \in Tasks, NEW k \in Kinds, NEW x \in Actors, Holds(k, x, t), state[t] = "RUNNING"
      PROVE  FALSE
  <2>1. status[t] = "submitted"
    BY <1>3 DEF PoolIInv, HeldOnce
  <2>2. t \in InPool
    BY <1>3, <2>1 DEF InPool
  <2> QED BY <2>2, <1>1
<1>4. ASSUME NEW w \in Workers
      PROVE  wpc[w] \notin {"run", "remove", "push"}
  <2>1. wpc[w] # "remove"
    BY <1>1 DEF At
  <2>2. ASSUME wpc[w] \in {"run", "push"}
        PROVE  FALSE
    <3>1. cur[w] \in Tasks
      BY <2>2 DEF PoolIInv, InHandInv, TypeOK
    <3>2. PICK t \in Tasks : t = cur[w]
      BY <3>1
    <3>3. Holds("cur", w, t) /\ "cur" \in Kinds /\ w \in Actors
      BY <2>2, <3>2 DEF Holds, Kinds, Actors
    <3>4. state[t] = "RUNNING"
      BY <3>3 DEF PoolIInv, StateInv
    <3> QED BY <3>3, <3>4, <1>3
  <2> QED BY <2>1, <2>2
<1>5. ASSUME NEW t \in Tasks, NEW k \in Kinds, NEW x \in Actors, Holds(k, x, t)
      PROVE  FALSE
  <2>1. k = "sub" /\ spc[x] = "add" /\ state[t] = "PLANNED"
    BY <1>3, <1>5 DEF PoolIInv, StateInv
  <2>2. x \in Workers
    BY <1>2, <2>1 DEF Actors
  <2>3. wpc[x] = "notify" /\ sub[x] = t
    BY <1>4, <1>5, <2>1, <2>2 DEF PoolIInv, InHandInv, Holds
  <2> QED BY <2>1, <2>2, <2>3 DEF PoolIInv, StateInv
<1>6. ASSUME NEW t \in Tasks
      PROVE  status[t] \in {"new", "done"}
  <2>1. status[t] # "submitted"
    BY <1>5 DEF PoolIInv, HeldOnce
  <2>2. status[t] # "parked"
    <3>1. status[t] = "parked" => t \in InPool
      BY DEF PoolIInv, StateInv, InPool
    <3> QED BY <3>1, <1>1
  <2> QED BY <2>1, <2>2 DEF PoolIInv, TypeOK
<1>7. ASSUME NEW a \in Actors
      PROVE  spc[a] \notin {"add", "route"}
  <2>1. ASSUME spc[a] \in {"add", "route"}
        PROVE  FALSE
    <3>1. sub[a] \in Tasks
      BY <2>1 DEF PoolIInv, InHandInv, TypeOK
    <3>2. PICK t \in Tasks : t = sub[a]
      BY <3>1
    <3>3. Holds("sub", a, t) /\ "sub" \in Kinds
      BY <3>2 DEF Holds, Kinds
    <3> QED BY <3>3, <1>5
  <2> QED BY <2>1
<1>8. global_tasks = <<>>
  <2>1. ASSUME NEW t \in Tasks PROVE ~Has(global_tasks, t)
    <3>1. Has(global_tasks, t) => Holds("global", Owner, t) /\ "global" \in Kinds /\ Owner \in Actors
      BY DEF Holds, Kinds, Actors
    <3> QED BY <3>1, <1>5
  <2> QED BY <2>1, NonEmptyHas DEF PoolIInv, TypeOK
<1>9. ASSUME NEW w \in Workers
      PROVE  local_tasks[w] = <<>>
  <2>1. ASSUME NEW t \in Tasks PROVE ~Has(local_tasks[w], t)
    <3>1. Has(local_tasks[w], t) => Holds("local", w, t) /\ "local" \in Kinds /\ w \in Actors
      BY DEF Holds, Kinds, Actors
    <3> QED BY <3>1, <1>5
  <2>2. local_tasks[w] \in Seq(Tasks)
    BY DEF PoolIInv, TypeOK
  <2> QED BY <2>1, <2>2, NonEmptyHas
<1> QED BY <1>2, <1>4, <1>5, <1>6, <1>7, <1>8, <1>9

\* What the runs check follows.
LEMMA PoolIInvSuffices == PoolIInv => PoolInv /\ RunsAtHome /\ ClosedForGood
<1> SUFFICES ASSUME PoolIInv PROVE PoolInv /\ RunsAtHome /\ ClosedForGood
  OBVIOUS
<1>1. IdleInv
  <2> SUFFICES ASSUME count_tasks = 0, NEW t \in Tasks, status[t] \notin {"new", "done"}
               PROVE  \E a \in Actors : sub[a] = t /\ spc[a] = "add"
    BY DEF IdleInv
  <2>1. state[t] # "RUNNING"
    <3>1. t \notin InPool
      BY ZeroIsIdle
    <3> QED BY <3>1 DEF InPool
  <2>2. status[t] = "submitted"
    BY <2>1 DEF PoolIInv, StateInv, TypeOK
  <2>3. PICK k \in Kinds, x \in Actors : Holds(k, x, t)
    BY <2>2 DEF PoolIInv, HeldOnce
  <2>4. k = "sub" /\ spc[x] = "add"
    BY <2>1, <2>3 DEF PoolIInv, StateInv
  <2> QED BY <2>3, <2>4 DEF Holds
<1>2. ClosedForGood
  BY QuietWhenClosed DEF ClosedForGood, PoolIInv, LeavesInv
<1> QED BY <1>1, <1>2 DEF PoolInv, PoolIInv

\* The initial state.
LEMMA PoolIInvInit == Init => PoolIInv
<1> SUFFICES ASSUME Init PROVE PoolIInv
  OBVIOUS
<1>1. /\ shutdown_ = FALSE /\ count_tasks = 0 /\ global_tasks = <<>> /\ mpc = "idle" /\ to_join = {}
      /\ \A w \in Workers : /\ local_tasks[w] = <<>> /\ wpc[w] = "unborn" /\ cur[w] = NULL
                            /\ completed[w] = FALSE
      /\ \A a \in Actors : spc[a] = "no" /\ sub[a] = NULL /\ target[a] = NULL
      /\ \A t \in Tasks : state[t] = "PLANNED" /\ home[t] = NULL /\ status[t] = "new"
      /\ Owner \in Actors /\ \A w \in Workers : w \in Actors
  BY DEF Init, Actors
<1>2. TypeOK
  <2>1. <<>> \in Seq(Tasks) /\ 0 \in 0..MaxStops
    BY EmptySeq, PoolAssumption
  <2> QED BY <2>1 DEF Init, TypeOK, OwnerPC, WorkerPC, SubmitPC
<1>3. ASSUME NEW t \in Tasks, NEW k \in Kinds, NEW x \in Actors
      PROVE  ~Holds(k, x, t)
  BY <1>1, EmptyHas, PoolAssumption DEF Holds
<1>4. HeldOnce
  BY <1>1, <1>3, EmptyHas DEF HeldOnce
<1>5. InHandInv
  BY <1>1 DEF InHandInv
<1>6. StateInv
  BY <1>1, <1>3 DEF StateInv
<1>7. CountMatches
  <2>1. InPool = {} /\ At("remove") = {}
    BY <1>1 DEF InPool, At
  <2>2. Cardinality(InPool) = 0 /\ Cardinality(At("remove")) = 0
    BY <2>1, FS_EmptySet
  <2> QED BY <1>1, <2>2 DEF CountMatches
<1>8. RunsAtHome
  BY <1>1, EmptyHas DEF RunsAtHome
<1>9. LeavesInv
  BY <1>1 DEF LeavesInv
<1> QED BY <1>2, <1>4, <1>5, <1>6, <1>7, <1>8, <1>9 DEF PoolIInv

\* A task goes from one place to another ...
LEMMA TaskMoves ==
    ASSUME HeldOnce, NEW t \in Tasks, NEW k1 \in Kinds, NEW x1 \in Actors,
           Unique(global_tasks)', \A w \in Workers : Unique(local_tasks[w])',
           \A u \in Tasks : u # t => status'[u] = status[u],
           \A u \in Tasks, k \in Kinds, x \in Actors : u # t => (Holds(k, x, u)' <=> Holds(k, x, u)),
           status'[t] = "submitted",
           \A k \in Kinds, x \in Actors : Holds(k, x, t)' <=> (k = k1 /\ x = x1)
    PROVE  HeldOnce'
<1>1. ASSUME NEW u \in Tasks
      PROVE  (status'[u] = "submitted" <=> \E k \in Kinds, x \in Actors : Holds(k, x, u)')
  <2>1. CASE u = t
    BY <2>1
  <2>2. CASE u # t
    BY <2>2 DEF HeldOnce
  <2> QED BY <2>1, <2>2
<1>2. ASSUME NEW u \in Tasks, NEW k \in Kinds, NEW l \in Kinds, NEW x \in Actors, NEW y \in Actors,
             Holds(k, x, u)', Holds(l, y, u)'
      PROVE  k = l /\ x = y
  <2>1. CASE u = t
    BY <2>1, <1>2
  <2>2. CASE u # t
    BY <2>2, <1>2 DEF HeldOnce
  <2> QED BY <2>1, <2>2
<1> QED BY <1>1, <1>2 DEF HeldOnce

\* ... or leaves the pool, to be parked or for good.
LEMMA TaskLeaves ==
    ASSUME HeldOnce, NEW t \in Tasks,
           Unique(global_tasks)', \A w \in Workers : Unique(local_tasks[w])',
           \A u \in Tasks : u # t => status'[u] = status[u],
           \A u \in Tasks, k \in Kinds, x \in Actors : u # t => (Holds(k, x, u)' <=> Holds(k, x, u)),
           status'[t] # "submitted",
           \A k \in Kinds, x \in Actors : ~Holds(k, x, t)'
    PROVE  HeldOnce'
<1>1. ASSUME NEW u \in Tasks
      PROVE  (status'[u] = "submitted" <=> \E k \in Kinds, x \in Actors : Holds(k, x, u)')
  <2>1. CASE u = t
    BY <2>1
  <2>2. CASE u # t
    BY <2>2 DEF HeldOnce
  <2> QED BY <2>1, <2>2
<1>2. ASSUME NEW u \in Tasks, NEW k \in Kinds, NEW l \in Kinds, NEW x \in Actors, NEW y \in Actors,
             Holds(k, x, u)', Holds(l, y, u)'
      PROVE  k = l /\ x = y
  <2>1. CASE u = t
    BY <2>1, <1>2
  <2>2. CASE u # t
    BY <2>2, <1>2 DEF HeldOnce
  <2> QED BY <2>1, <2>2
<1> QED BY <1>1, <1>2 DEF HeldOnce

\* The owner or a worker moves and no task does.
LEMMA NoTaskMoves ==
    ASSUME PoolIInv,
           UNCHANGED <<count_tasks, global_tasks, local_tasks, cur, sub, state, home, status>>,
           \A v \in Workers :
               \/ wpc'[v] = wpc[v]
               \/ wpc[v] \notin {"run", "remove", "push"} /\ wpc'[v] \notin {"run", "remove", "push"},
           \A v \in Workers :
               wpc'[v] = "notify" /\ spc'[v] = "add" => wpc[v] = "notify" /\ spc[v] = "add",
           \A a \in Actors : spc[a] = "add" => spc'[a] = "add"
    PROVE  HeldOnce' /\ StateInv' /\ CountMatches' /\ RunsAtHome'
<1>1. ASSUME NEW t \in Tasks, NEW k \in Kinds, NEW x \in Actors
      PROVE  Holds(k, x, t)' <=> Holds(k, x, t)
  <2>1. ASSUME NEW v \in Workers
        PROVE  (cur'[v] = t /\ wpc'[v] # "remove") <=> (cur[v] = t /\ wpc[v] # "remove")
    OBVIOUS
  <2> QED BY <2>1 DEF Holds
<1>2. HeldOnce'
  BY <1>1 DEF PoolIInv, HeldOnce
<1>3. StateInv'
  BY <1>1 DEF PoolIInv, StateInv
<1>4. InPool' = InPool /\ At("remove")' = At("remove")
  BY DEF InPool, At
<1>5. CountMatches'
  BY <1>4 DEF PoolIInv, CountMatches
<1>6. RunsAtHome'
  BY DEF PoolIInv, RunsAtHome
<1> QED BY <1>2, <1>3, <1>5, <1>6

\* Steps of the owner that only move the owner.
LEMMA OwnerMoves ==
    ASSUME PoolIInv, spc[Owner] = "no",
           UNCHANGED <<count_tasks, global_tasks, local_tasks, counter_empty_tasks,
                       workerVars, spc, sub, taskVars>>,
           shutdown_' = TRUE \/ shutdown_' = shutdown_,
           smph' \in [Workers -> Nat], mpc' \in OwnerPC, to_join' \subseteq Workers,
           target' \in [Actors -> Workers \union {NULL}],
           \A w \in Workers : target'[w] = target[w],
           target'[Owner] # NULL <=> mpc' = "join",
           shutdown_' = TRUE => mpc' \in {"wake", "join", "destroyed"}
    PROVE  PoolIInv'
<1>1. UNCHANGED <<wpc, completed, cur, state, home, status, stops>>
  BY DEF workerVars, taskVars
<1>2. HeldOnce' /\ StateInv' /\ CountMatches' /\ RunsAtHome'
  BY <1>1, NoTaskMoves
<1>3. shutdown_' \in BOOLEAN
  BY DEF PoolIInv, TypeOK
<1>4. TypeOK'
  BY <1>1, <1>3 DEF PoolIInv, TypeOK
<1>5. InHandInv'
  BY <1>1, <1>3 DEF PoolIInv, InHandInv
<1>6. LeavesInv'
  BY <1>1 DEF PoolIInv, LeavesInv, CanCloseWorker
<1> QED BY <1>2, <1>4, <1>5, <1>6 DEF PoolIInv

\* WaitIdle, and ~DistributedPool with its calls of WakUpForShutdown and Join.
LEMMA PoolIInvOwnerMoves ==
    ASSUME PoolIInv,
           WaitIdle \/ WaitIdleLoad \/ WaitIdleBlock \/ StartShutdown \/ WakUpForShutdown \/ Join
    PROVE  PoolIInv'
<1>0. /\ shutdown_ \in BOOLEAN /\ smph \in [Workers -> Nat] /\ to_join \subseteq Workers
      /\ target \in [Actors -> Workers \union {NULL}] /\ mpc \in OwnerPC
      /\ Owner \in Actors /\ Owner \notin Workers /\ NULL \notin Workers
      /\ \A w \in Workers : w \in Actors /\ w # Owner
      /\ mpc # "idle" => spc[Owner] = "no"
      /\ spc[Owner] = "no" => (target[Owner] # NULL <=> mpc = "join")
      /\ shutdown_ => mpc \in {"wake", "join", "destroyed"}
  BY PoolAssumption DEF PoolIInv, TypeOK, InHandInv, Actors
<1>1. CASE WaitIdle
  BY <1>0, <1>1, OwnerMoves DEF WaitIdle, OwnerPC, sharedVars, submitVars
<1>2. CASE WaitIdleLoad
  BY <1>0, <1>2, OwnerMoves DEF WaitIdleLoad, OwnerPC, sharedVars, submitVars
<1>3. CASE WaitIdleBlock
  BY <1>0, <1>3, OwnerMoves DEF WaitIdleBlock, OwnerPC, sharedVars, submitVars
<1>4. CASE StartShutdown
  BY <1>0, <1>4, OwnerMoves DEF StartShutdown, OwnerPC, submitVars
<1>5. CASE WakUpForShutdown
  <2>1. PICK w \in to_join : /\ smph' = [smph EXCEPT ![w] = @ + 1]
                             /\ target' = [target EXCEPT ![Owner] = w]
    BY <1>5 DEF WakUpForShutdown
  <2>2. /\ smph' \in [Workers -> Nat] /\ target' \in [Actors -> Workers \union {NULL}]
        /\ target'[Owner] = w /\ w # NULL /\ \A v \in Workers : target'[v] = target[v]
    BY <1>0, <2>1
  <2>3. mpc = "wake" /\ mpc' = "join" /\ UNCHANGED <<shutdown_, to_join>>
    BY <1>5 DEF WakUpForShutdown
  <2>4. UNCHANGED <<count_tasks, global_tasks, local_tasks, counter_empty_tasks,
                    workerVars, spc, sub, taskVars>>
    BY <1>5 DEF WakUpForShutdown
  <2> QED BY <1>0, <2>2, <2>3, <2>4, OwnerMoves DEF OwnerPC
<1>6. CASE Join
  <2>1. /\ mpc = "join" /\ mpc' \in {"destroyed", "wake"} /\ to_join' \subseteq Workers
        /\ target' = [target EXCEPT ![Owner] = NULL]
    BY <1>0, <1>6 DEF Join
  <2>2. /\ target' \in [Actors -> Workers \union {NULL}]
        /\ target'[Owner] = NULL /\ \A v \in Workers : target'[v] = target[v]
    BY <1>0, <2>1
  <2>3. UNCHANGED <<shutdown_, count_tasks, global_tasks, local_tasks, counter_empty_tasks, smph,
                    workerVars, spc, sub, taskVars>>
    BY <1>6 DEF Join, sharedVars
  <2> QED BY <1>0, <2>1, <2>2, <2>3, OwnerMoves DEF OwnerPC
<1> QED BY <1>1, <1>2, <1>3, <1>4, <1>5, <1>6

\* Steps of a worker that has no task and calls nothing.
LEMMA WorkerMoves ==
    ASSUME PoolIInv, NEW w \in Workers, NEW to \in WorkerPC, Goto(w, to), spc[w] = "no",
           wpc[w] \notin {"run", "remove", "push", "stopped"},
           to \notin {"run", "remove", "push", "crashed"},
           UNCHANGED <<shutdown_, count_tasks, global_tasks, local_tasks, cur, to_join,
                       submitVars, taskVars>>,
           mpc' = mpc \/ (mpc = "asleep" /\ mpc' = "load"),
           counter_empty_tasks' \in [Workers -> {0, Wrapped}], smph' \in [Workers -> Nat],
           completed' \in [Workers -> BOOLEAN],
           \A v \in Workers : v # w => completed'[v] = completed[v],
           completed'[w] => to \in {"loop_close", "stopped"},
           completed'[w] \/ to = "stopped" => CanCloseWorker
    PROVE  PoolIInv'
<1>1. UNCHANGED <<spc, sub, target, state, home, status, stops>>
  BY DEF submitVars, taskVars
<1>2. wpc'[w] = to /\ (\A v \in Workers : v # w => wpc'[v] = wpc[v]) /\ wpc' \in [Workers -> WorkerPC]
  BY GotoFacts DEF PoolIInv
<1>3. HeldOnce' /\ StateInv' /\ CountMatches' /\ RunsAtHome'
  BY <1>1, <1>2, NoTaskMoves
<1>4. TypeOK'
  BY <1>1, <1>2 DEF PoolIInv, TypeOK, OwnerPC
<1>5. InHandInv'
  <2>1. ASSUME NEW v \in Workers
        PROVE  /\ cur'[v] # NULL <=> wpc'[v] \in {"run", "remove", "push"}
               /\ target'[v] # NULL <=> spc'[v] \in {"reset", "release"}
               /\ spc'[v] # "no" => wpc'[v] \in {"run", "notify"}
    BY <1>1, <1>2 DEF PoolIInv, InHandInv
  <2>2. /\ mpc' = "join" <=> mpc = "join"
        /\ mpc' = "idle" <=> mpc = "idle"
        /\ mpc' \in {"wake", "join", "destroyed"} <=> mpc \in {"wake", "join", "destroyed"}
    OBVIOUS
  <2> QED BY <2>1, <2>2, <1>1 DEF PoolIInv, InHandInv
<1>6. LeavesInv'
  <2>1. CanCloseWorker' <=> CanCloseWorker
    BY DEF CanCloseWorker
  <2>2. ASSUME NEW v \in Workers
        PROVE  /\ wpc'[v] # "crashed"
               /\ completed'[v] => wpc'[v] \in {"loop_close", "stopped"}
               /\ completed'[v] \/ wpc'[v] = "stopped" => CanCloseWorker
    <3>1. CASE v = w
      BY <3>1, <1>2
    <3>2. CASE v # w
      BY <3>2, <1>2 DEF PoolIInv, LeavesInv
    <3> QED BY <3>1, <3>2
  <2> QED BY <2>1, <2>2 DEF LeavesInv
<1> QED BY <1>3, <1>4, <1>5, <1>6 DEF PoolIInv

\* A worker starts, finds its queues empty, suspends, sleeps or leaves.
LEMMA PoolIInvWorkerMoves ==
    ASSUME PoolIInv, NEW w \in Workers,
           \/ StartWorker(w) \/ Close(w) \/ Decrease(w) \/ Compare(w) \/ NotifyAll(w)
           \/ LoopClose(w) \/ Sleep(w)
           \/ PopLocal(w) /\ local_tasks[w] = <<>>
           \/ PopGlobal(w) /\ global_tasks = <<>>
    PROVE  PoolIInv'
<1>0. /\ counter_empty_tasks \in [Workers -> {0, Wrapped}] /\ smph \in [Workers -> Nat]
      /\ completed \in [Workers -> BOOLEAN] /\ smph[w] \in Nat
      /\ completed[w] => wpc[w] \in {"loop_close", "stopped"}
      /\ completed[w] => CanCloseWorker
      /\ spc[w] # "no" => wpc[w] \in {"run", "notify"}
  BY DEF PoolIInv, TypeOK, InHandInv, LeavesInv
<1>1. CASE StartWorker(w)
  <2>1. /\ Goto(w, "local") /\ "local" \in WorkerPC /\ wpc[w] = "unborn"
        /\ UNCHANGED <<shutdown_, count_tasks, global_tasks, local_tasks, cur, to_join, mpc,
                       counter_empty_tasks, smph, completed, submitVars, taskVars>>
    BY <1>1 DEF StartWorker, sharedVars, ownerVars, WorkerPC
  <2> QED BY <1>0, <2>1, WorkerMoves
<1>2. CASE Close(w)
  <2>1. /\ wpc[w] = "close"
        /\ UNCHANGED <<shutdown_, count_tasks, global_tasks, local_tasks, cur, to_join, mpc,
                       counter_empty_tasks, smph, submitVars, taskVars>>
    BY <1>2 DEF Close, sharedVars, ownerVars
  <2>2. CASE CanCloseWorker
    <3>1. Goto(w, "loop_close") /\ completed' = [completed EXCEPT ![w] = TRUE] /\ "loop_close" \in WorkerPC
      BY <1>2, <2>2 DEF Close, CoroReturn, WorkerPC
    <3>2. completed' \in [Workers -> BOOLEAN] /\ \A v \in Workers : v # w => completed'[v] = completed[v]
      BY <1>0, <3>1
    <3> QED BY <1>0, <2>1, <2>2, <3>1, <3>2, WorkerMoves
  <2>3. CASE ~CanCloseWorker
    <3>1. Goto(w, "decrease") /\ completed' = completed /\ "decrease" \in WorkerPC
      BY <1>2, <2>3 DEF Close, WorkerPC
    <3>2. ~completed[w]
      BY <1>0, <2>1
    <3> QED BY <1>0, <2>1, <2>3, <3>1, <3>2, WorkerMoves
  <2> QED BY <2>2, <2>3
<1>3. CASE Decrease(w)
  <2>1. /\ Goto(w, "compare") /\ "compare" \in WorkerPC /\ wpc[w] = "decrease"
        /\ UNCHANGED <<shutdown_, count_tasks, global_tasks, local_tasks, cur, to_join, mpc,
                       smph, completed, submitVars, taskVars>>
        /\ counter_empty_tasks' \in [Workers -> {0, Wrapped}]
    BY <1>0, <1>3 DEF Decrease, ownerVars, WorkerPC
  <2> QED BY <1>0, <2>1, WorkerMoves
<1>4. CASE Compare(w)
  <2>1. /\ wpc[w] = "compare"
        /\ UNCHANGED <<shutdown_, count_tasks, global_tasks, local_tasks, cur, to_join, mpc,
                       counter_empty_tasks, smph, completed, submitVars, taskVars>>
    BY <1>4 DEF Compare, sharedVars, ownerVars
  <2>2. PICK to \in {"loop_close", "notify"} : Goto(w, to)
    BY <1>4 DEF Compare, CoroSuspend
  <2>3. to \in WorkerPC
    BY DEF WorkerPC
  <2> QED BY <1>0, <2>1, <2>2, <2>3, WorkerMoves
<1>5. CASE NotifyAll(w)
  <2>1. /\ Goto(w, "local") /\ "local" \in WorkerPC /\ wpc[w] = "notify" /\ spc[w] = "no"
        /\ UNCHANGED <<shutdown_, count_tasks, global_tasks, local_tasks, cur, to_join,
                       counter_empty_tasks, smph, completed, submitVars, taskVars>>
        /\ mpc' = mpc \/ (mpc = "asleep" /\ mpc' = "load")
    BY <1>5 DEF NotifyAll, sharedVars, WorkerPC
  <2> QED BY <1>0, <2>1, WorkerMoves
<1>6. CASE LoopClose(w)
  <2>1. /\ wpc[w] = "loop_close"
        /\ UNCHANGED <<shutdown_, count_tasks, global_tasks, local_tasks, cur, to_join, mpc,
                       counter_empty_tasks, smph, completed, submitVars, taskVars>>
    BY <1>6 DEF LoopClose, sharedVars, ownerVars
  <2>2. CASE CanCloseWorker
    <3>1. Goto(w, "stopped") /\ "stopped" \in WorkerPC
      BY <1>6, <2>2 DEF LoopClose, WorkerPC
    <3> QED BY <1>0, <2>1, <2>2, <3>1, WorkerMoves
  <2>3. CASE ~CanCloseWorker
    <3>1. Goto(w, "sleep") /\ "sleep" \in WorkerPC /\ ~completed[w]
      BY <1>0, <1>6, <2>3 DEF LoopClose, WorkerPC
    <3> QED BY <1>0, <2>1, <2>3, <3>1, WorkerMoves
  <2> QED BY <2>2, <2>3
<1>7. CASE Sleep(w)
  <2>1. /\ wpc[w] = "sleep"
        /\ UNCHANGED <<shutdown_, count_tasks, global_tasks, local_tasks, cur, to_join, mpc,
                       counter_empty_tasks, completed, submitVars, taskVars>>
    BY <1>7 DEF Sleep, ownerVars
  <2>2. ~completed[w]
    BY <1>0, <2>1
  <2>3. Goto(w, "notify") /\ "notify" \in WorkerPC
    BY <1>7, <2>2 DEF Sleep, CoroResume, WorkerPC
  <2>4. smph' \in [Workers -> Nat]
    BY <1>0, <1>7 DEF Sleep
  <2> QED BY <1>0, <2>1, <2>2, <2>3, <2>4, WorkerMoves
<1>8. CASE PopLocal(w) /\ local_tasks[w] = <<>>
  <2>1. /\ Goto(w, "global") /\ "global" \in WorkerPC /\ wpc[w] = "local"
        /\ UNCHANGED <<shutdown_, count_tasks, global_tasks, local_tasks, cur, to_join, mpc,
                       counter_empty_tasks, smph, completed, submitVars, taskVars>>
    BY <1>8 DEF PopLocal, ownerVars, taskVars, WorkerPC
  <2> QED BY <1>0, <2>1, WorkerMoves
<1>9. CASE PopGlobal(w) /\ global_tasks = <<>>
  <2>1. /\ Goto(w, "close") /\ "close" \in WorkerPC /\ wpc[w] = "global"
        /\ UNCHANGED <<shutdown_, count_tasks, global_tasks, local_tasks, cur, to_join, mpc,
                       counter_empty_tasks, smph, completed, submitVars, taskVars>>
    BY <1>9 DEF PopGlobal, ownerVars, WorkerPC
  <2> QED BY <1>0, <2>1, WorkerMoves
<1> QED BY <1>1, <1>2, <1>3, <1>4, <1>5, <1>6, <1>7, <1>8, <1>9

\* What a step on task t does to the states of the tasks.
LEMMA StateMoves ==
    ASSUME PoolIInv, NEW t \in Tasks,
           \A u \in Tasks : u # t => status'[u] = status[u] /\ state'[u] = state[u],
           \A u \in Tasks, k \in Kinds, x \in Actors : u # t => (Holds(k, x, u)' <=> Holds(k, x, u)),
           \A x \in Actors : spc[x] = "add" /\ sub[x] # t => spc'[x] = "add",
           status'[t] # "new", status'[t] = "parked" => state'[t] = "RUNNING",
           \A k \in Kinds, x \in Actors :
               Holds(k, x, t)' => \/ state'[t] = "RUNNING"
                                  \/ (k = "sub" /\ spc'[x] = "add" /\ state'[t] = "PLANNED"),
           \A v \in Workers : wpc'[v] = "notify" /\ spc'[v] = "add" => state'[sub'[v]] = "RUNNING"
    PROVE  StateInv'
<1>1. ASSUME NEW u \in Tasks, NEW k \in Kinds, NEW x \in Actors, Holds(k, x, u)'
      PROVE  \/ state'[u] = "RUNNING"
             \/ (k = "sub" /\ spc'[x] = "add" /\ state'[u] = "PLANNED")
  <2>1. CASE u = t
    BY <2>1, <1>1
  <2>2. CASE u # t
    <3>1. Holds(k, x, u)
      BY <2>2, <1>1
    <3>2. state[u] = "RUNNING" \/ (k = "sub" /\ spc[x] = "add" /\ state[u] = "PLANNED")
      BY <3>1 DEF PoolIInv, StateInv
    <3>3. k = "sub" => sub[x] = u
      BY <3>1 DEF Holds
    <3> QED BY <2>2, <3>2, <3>3
  <2> QED BY <2>1, <2>2
<1>2. ASSUME NEW u \in Tasks
      PROVE  /\ status'[u] = "new" => state'[u] = "PLANNED"
             /\ status'[u] = "parked" => state'[u] = "RUNNING"
  <2>1. CASE u = t
    BY <2>1
  <2>2. CASE u # t
    BY <2>2 DEF PoolIInv, StateInv
  <2> QED BY <2>1, <2>2
<1> QED BY <1>1, <1>2 DEF StateInv

\* A step that nobody could take after CanCloseWorker has held, and others.
LEMMA LeavesKept ==
    ASSUME PoolIInv, CanCloseWorker => CanCloseWorker', UNCHANGED completed,
           \A v \in Workers : \/ wpc'[v] = wpc[v]
                              \/ (~CanCloseWorker /\ wpc'[v] \notin {"crashed", "stopped"})
    PROVE  LeavesInv'
<1>1. ASSUME NEW v \in Workers
      PROVE  /\ wpc'[v] # "crashed"
             /\ completed'[v] => wpc'[v] \in {"loop_close", "stopped"}
             /\ completed'[v] \/ wpc'[v] = "stopped" => CanCloseWorker'
  <2>1. CASE wpc'[v] = wpc[v]
    BY <2>1 DEF PoolIInv, LeavesInv
  <2>2. CASE ~CanCloseWorker /\ wpc'[v] \notin {"crashed", "stopped"}
    BY <2>2 DEF PoolIInv, LeavesInv
  <2> QED BY <2>1, <2>2
<1> QED BY <1>1 DEF LeavesInv

\* A new or a parked task is submitted, by the owner or by a task that runs.
LEMMA PoolIInvCallSubmit ==
    ASSUME PoolIInv, NEW a \in Actors, NEW t \in Tasks, spc[a] = "no",
           status[t] \in {"new", "parked"}, CallSubmit(a, t),
           UNCHANGED <<ownerVars, workerVars, stops>>,
           a = Owner => mpc = "idle", a \in Workers => wpc[a] = "run"
    PROVE  PoolIInv'
<1>1. /\ spc' = [spc EXCEPT ![a] = "add"] /\ sub' = [sub EXCEPT ![a] = t]
      /\ status' = [status EXCEPT ![t] = "submitted"]
      /\ UNCHANGED <<shutdown_, count_tasks, global_tasks, local_tasks, counter_empty_tasks, smph,
                     mpc, to_join, wpc, completed, cur, target, state, home, stops>>
  BY DEF CallSubmit, ownerVars, workerVars, sharedVars
<1>2. TypeOK'
  BY <1>1 DEF PoolIInv, TypeOK, SubmitPC
<1>3. /\ spc'[a] = "add" /\ sub'[a] = t /\ status'[t] = "submitted"
      /\ \A x \in Actors : x # a => spc'[x] = spc[x] /\ sub'[x] = sub[x]
      /\ \A u \in Tasks : u # t => status'[u] = status[u]
      /\ sub[a] = NULL /\ t # NULL /\ \A u \in Tasks : u # NULL
      /\ Owner \in Actors /\ Owner \notin Workers /\ \A w \in Workers : w \in Actors
  BY <1>1, PoolAssumption DEF PoolIInv, TypeOK, InHandInv, Actors
<1>4. ASSUME NEW k \in Kinds, NEW x \in Actors
      PROVE  ~Holds(k, x, t)
  BY DEF PoolIInv, HeldOnce
<1>5. ASSUME NEW u \in Tasks, NEW k \in Kinds, NEW x \in Actors, u # t
      PROVE  Holds(k, x, u)' <=> Holds(k, x, u)
  BY <1>1, <1>3, <1>5 DEF Holds
<1>6. ASSUME NEW k \in Kinds, NEW x \in Actors
      PROVE  Holds(k, x, t)' <=> (k = "sub" /\ x = a)
  BY <1>1, <1>3, <1>4 DEF Holds
<1>7. HeldOnce'
  <2>1. Unique(global_tasks)' /\ \A w \in Workers : Unique(local_tasks[w])'
    BY <1>1 DEF PoolIInv, HeldOnce, Unique
  <2>2. "sub" \in Kinds
    BY DEF Kinds
  <2> QED BY <1>3, <1>5, <1>6, <2>1, <2>2, TaskMoves DEF PoolIInv
<1>8. InHandInv'
  BY <1>1, <1>3 DEF PoolIInv, InHandInv
<1>9. StateInv'
  <2>1. state[t] = "PLANNED" \/ state[t] = "RUNNING"
    BY DEF PoolIInv, StateInv
  <2>2. ASSUME NEW v \in Workers, wpc'[v] = "notify", spc'[v] = "add"
        PROVE  state'[sub'[v]] = "RUNNING"
    BY <2>2, <1>1, <1>3 DEF PoolIInv, StateInv
  <2> QED BY <1>1, <1>3, <1>5, <1>6, <2>1, <2>2, StateMoves
<1>10. CountMatches'
  <2>1. InPool' = InPool
    BY <1>1, <1>3 DEF InPool
  <2>2. At("remove")' = At("remove")
    BY <1>1 DEF At
  <2> QED BY <1>1, <2>1, <2>2 DEF PoolIInv, CountMatches
<1>11. RunsAtHome'
  BY <1>1 DEF PoolIInv, RunsAtHome
<1>12. LeavesInv'
  BY <1>1, LeavesKept DEF CanCloseWorker
<1> QED BY <1>2, <1>7, <1>8, <1>9, <1>10, <1>11, <1>12 DEF PoolIInv

\* A call of Submit begins, in the owner or in a running task.
LEMMA PoolIInvSubmit ==
    ASSUME PoolIInv, NEW t \in Tasks, OwnerSubmit(t) \/ \E w \in Workers : RunSubmit(w, t)
    PROVE  PoolIInv'
<1>1. CASE OwnerSubmit(t)
  BY <1>1, PoolIInvCallSubmit, PoolAssumption DEF OwnerSubmit, Actors
<1>2. ASSUME NEW w \in Workers, RunSubmit(w, t)
      PROVE  PoolIInv'
  <2>1. w \in Actors /\ w # Owner
    BY PoolAssumption DEF Actors
  <2> QED BY <1>2, <2>1, PoolIInvCallSubmit DEF RunSubmit
<1> QED BY <1>1, <1>2

\* Submit counts the task if it is new.
LEMMA PoolIInvSubmitAdd ==
    ASSUME PoolIInv, NEW a \in Actors, SubmitAdd(a)
    PROVE  PoolIInv'
<1>1. /\ spc[a] = "add" /\ spc' = [spc EXCEPT ![a] = "route"]
      /\ UNCHANGED <<shutdown_, global_tasks, local_tasks, counter_empty_tasks, smph, mpc, to_join,
                     wpc, completed, cur, sub, target, home, status, stops>>
      /\ \/ /\ state[sub[a]] = "PLANNED" /\ count_tasks' = count_tasks + 1
            /\ state' = [state EXCEPT ![sub[a]] = "RUNNING"]
         \/ state[sub[a]] # "PLANNED" /\ UNCHANGED <<count_tasks, state>>
  BY DEF SubmitAdd, ProgressState, ownerVars, workerVars
<1>2. sub[a] \in Tasks
  BY <1>1 DEF PoolIInv, TypeOK, InHandInv
<1>3. PICK t \in Tasks : t = sub[a]
  BY <1>2
<1>4. Holds("sub", a, t) /\ "sub" \in Kinds
  BY <1>3 DEF Holds, Kinds
<1>5. status[t] = "submitted" /\ (state[t] = "RUNNING" \/ state[t] = "PLANNED")
  BY <1>4 DEF PoolIInv, HeldOnce, StateInv
<1>6. /\ spc'[a] = "route" /\ \A x \in Actors : x # a => spc'[x] = spc[x]
      /\ state'[t] = "RUNNING" /\ \A u \in Tasks : u # t => state'[u] = state[u]
      /\ Owner \in Actors /\ \A w \in Workers : w \in Actors
  BY <1>1, <1>3, <1>5 DEF PoolIInv, TypeOK, Actors
<1>7. TypeOK'
  <2>1. count_tasks \in Nat /\ state \in [Tasks -> {"PLANNED", "RUNNING", "FINISHED"}]
    BY DEF PoolIInv, TypeOK
  <2>2. count_tasks' \in Nat
    BY <1>1, <2>1
  <2>3. state' \in [Tasks -> {"PLANNED", "RUNNING", "FINISHED"}]
    BY <1>1, <1>2, <2>1
  <2>4. spc' \in [Actors -> SubmitPC]
    BY <1>1 DEF PoolIInv, TypeOK, SubmitPC
  <2> QED BY <1>1, <2>2, <2>3, <2>4 DEF PoolIInv, TypeOK
<1>8. ASSUME NEW u \in Tasks, NEW k \in Kinds, NEW x \in Actors
      PROVE  Holds(k, x, u)' <=> Holds(k, x, u)
  BY <1>1 DEF Holds
<1>9. HeldOnce'
  BY <1>1, <1>8 DEF PoolIInv, HeldOnce
<1>10. InHandInv'
  BY <1>1, <1>6 DEF PoolIInv, InHandInv
<1>11. StateInv'
  <2>1. ASSUME NEW v \in Workers, wpc'[v] = "notify", spc'[v] = "add"
        PROVE  state'[sub'[v]] = "RUNNING"
    <3>1. wpc[v] = "notify" /\ spc[v] = "add" /\ sub'[v] = sub[v]
      BY <2>1, <1>1, <1>6
    <3>2. sub[v] \in Tasks /\ state[sub[v]] = "RUNNING"
      BY <3>1, <1>6 DEF PoolIInv, StateInv, InHandInv, TypeOK
    <3> QED BY <3>1, <3>2, <1>6
  <2>2. \A x \in Actors : spc[x] = "add" /\ sub[x] # t => spc'[x] = "add"
    BY <1>3, <1>6
  <2> QED BY <1>1, <1>5, <1>6, <1>8, <2>1, <2>2, StateMoves
<1>12. CountMatches'
  <2>1. At("remove")' = At("remove")
    BY <1>1 DEF At
  <2>2. CASE state[t] = "PLANNED"
    <3>1. InPool' = InPool \union {t} /\ t \notin InPool
      BY <2>2, <1>1, <1>5, <1>6 DEF InPool
    <3>2. Cardinality(InPool') = Cardinality(InPool) + 1
      BY <3>1, CountFacts, FS_AddElement
    <3>3. count_tasks' = count_tasks + 1
      BY <2>2, <1>1, <1>3
    <3> QED BY <2>1, <3>2, <3>3, CountFacts DEF PoolIInv, CountMatches
  <2>3. CASE state[t] # "PLANNED"
    <3>1. InPool' = InPool
      BY <2>3, <1>1, <1>3 DEF InPool
    <3> QED BY <2>1, <2>3, <3>1, <1>1, <1>3 DEF PoolIInv, CountMatches
  <2> QED BY <2>2, <2>3
<1>13. RunsAtHome'
  BY <1>1 DEF PoolIInv, RunsAtHome
<1>14. LeavesInv'
  BY <1>1, QuietWhenClosed, LeavesKept DEF CanCloseWorker
<1> QED BY <1>7, <1>9, <1>10, <1>11, <1>12, <1>13, <1>14 DEF PoolIInv

\* Push goes on after the task is in the queue.
LEMMA PoolIInvPush ==
    ASSUME PoolIInv, NEW a \in Actors, PushReset(a) \/ PushRelease(a)
    PROVE  PoolIInv'
<1>1. /\ UNCHANGED <<shutdown_, count_tasks, global_tasks, local_tasks, mpc, to_join,
                     wpc, completed, cur, sub, state, home, status, stops>>
      /\ spc[a] \in {"reset", "release"} /\ UNCHANGED <<ownerVars, workerVars, taskVars>>
  BY DEF PushReset, PushRelease, ownerVars, workerVars, taskVars
<1>2. target[a] \in Workers
  <2>1. a \in Workers \/ a = Owner
    BY DEF Actors
  <2> QED BY <1>1, <2>1 DEF PoolIInv, InHandInv, TypeOK
<1>3. \A x \in Actors : x # a => spc'[x] = spc[x] /\ target'[x] = target[x]
  BY DEF PushReset, PushRelease, PoolIInv, TypeOK
<1>4. \/ spc'[a] = "release" /\ target'[a] = target[a]
      \/ spc'[a] = "no" /\ target'[a] = NULL
  BY DEF PushReset, PushRelease, PoolIInv, TypeOK
<1>5. HeldOnce' /\ StateInv' /\ CountMatches' /\ RunsAtHome'
  <2>1. \A x \in Actors : spc[x] = "add" <=> spc'[x] = "add"
    BY <1>1, <1>3, <1>4
  <2>2. \A v \in Workers : v \in Actors
    BY DEF Actors
  <2> QED BY <1>1, <2>1, <2>2, NoTaskMoves
<1>6. TypeOK'
  <2>1. counter_empty_tasks' \in [Workers -> {0, Wrapped}] /\ smph' \in [Workers -> Nat]
    <3>1. CASE PushReset(a)
      BY <3>1, <1>2 DEF PushReset, PoolIInv, TypeOK
    <3>2. CASE PushRelease(a)
      BY <3>2, <1>2 DEF PushRelease, PoolIInv, TypeOK
    <3> QED BY <3>1, <3>2
  <2>2. spc' \in [Actors -> SubmitPC] /\ target' \in [Actors -> Workers \union {NULL}]
    BY DEF PushReset, PushRelease, PoolIInv, TypeOK, SubmitPC
  <2> QED BY <1>1, <2>1, <2>2 DEF PoolIInv, TypeOK
<1>7. InHandInv'
  <2>1. Owner \in Actors /\ \A v \in Workers : v \in Actors /\ v # Owner
    BY PoolAssumption DEF Actors
  <2>2. a = Owner => mpc = "idle"
    BY <1>1 DEF PoolIInv, InHandInv
  <2>3. ASSUME NEW v \in Workers
        PROVE  /\ cur'[v] # NULL <=> wpc'[v] \in {"run", "remove", "push"}
               /\ target'[v] # NULL <=> spc'[v] \in {"reset", "release"}
               /\ spc'[v] # "no" => wpc'[v] \in {"run", "notify"}
    BY <1>1, <1>3, <1>4, <2>1 DEF PoolIInv, InHandInv
  <2>4. ASSUME NEW x \in Actors
        PROVE  sub'[x] # NULL <=> spc'[x] \in {"add", "route"}
    BY <1>1, <1>3, <1>4 DEF PoolIInv, InHandInv
  <2>5. /\ target'[Owner] # NULL <=> spc'[Owner] \in {"reset", "release"} \/ mpc' = "join"
        /\ spc'[Owner] # "no" => mpc' = "idle"
        /\ shutdown_' => mpc' \in {"wake", "join", "destroyed"}
    BY <1>1, <1>3, <1>4, <2>1, <2>2 DEF PoolIInv, InHandInv
  <2> QED BY <2>3, <2>4, <2>5 DEF InHandInv
<1>8. LeavesInv'
  BY <1>1, LeavesKept DEF CanCloseWorker
<1> QED BY <1>5, <1>6, <1>7, <1>8 DEF PoolIInv

\* A task goes to the common queue, or to its worker.
LEMMA PoolIInvSubmitRoute ==
    ASSUME PoolIInv, NEW a \in Actors, SubmitRoute(a)
    PROVE  PoolIInv'
<1>1. /\ spc[a] = "route" /\ sub' = [sub EXCEPT ![a] = NULL]
      /\ UNCHANGED <<shutdown_, count_tasks, counter_empty_tasks, smph, mpc, to_join,
                     wpc, completed, cur, state, home, status, stops>>
  BY DEF SubmitRoute, ownerVars, workerVars, taskVars
<1>2. sub[a] \in Tasks
  BY <1>1 DEF PoolIInv, TypeOK, InHandInv
<1>3. PICK t \in Tasks : t = sub[a]
  BY <1>2
<1>4. \/ /\ home[t] = NULL /\ global_tasks' = Append(global_tasks, t)
         /\ spc' = [spc EXCEPT ![a] = "no"] /\ UNCHANGED <<local_tasks, target>>
      \/ /\ home[t] # NULL
         /\ local_tasks' = [local_tasks EXCEPT ![home[t]] = Append(local_tasks[home[t]], t)]
         /\ target' = [target EXCEPT ![a] = home[t]] /\ spc' = [spc EXCEPT ![a] = "reset"]
         /\ UNCHANGED global_tasks
  BY <1>3 DEF SubmitRoute, PoolIInv, TypeOK
<1>5. Holds("sub", a, t) /\ "sub" \in Kinds /\ "local" \in Kinds /\ "global" \in Kinds
  BY <1>3 DEF Holds, Kinds
<1>6. /\ status[t] = "submitted" /\ state[t] = "RUNNING"
      /\ \A k \in Kinds, x \in Actors : Holds(k, x, t) <=> (k = "sub" /\ x = a)
  BY <1>1, <1>5 DEF PoolIInv, HeldOnce, StateInv
<1>7. /\ sub'[a] = NULL /\ \A x \in Actors : x # a => spc'[x] = spc[x] /\ sub'[x] = sub[x] /\ target'[x] = target[x]
      /\ \A u \in Tasks : u # NULL
      /\ Owner \in Actors /\ \A w \in Workers : w \in Actors /\ w # Owner
  BY <1>1, <1>4, PoolAssumption DEF PoolIInv, TypeOK, Actors
<1>8. /\ global_tasks \in Seq(Tasks) /\ Unique(global_tasks) /\ ~Has(global_tasks, t)
      /\ \A w \in Workers : local_tasks[w] \in Seq(Tasks) /\ Unique(local_tasks[w]) /\ ~Has(local_tasks[w], t)
  BY <1>5, <1>6, <1>7 DEF PoolIInv, TypeOK, HeldOnce, Holds
<1>9. At("remove")' = At("remove") /\ InPool' = InPool
  BY <1>1 DEF At, InPool
<1>10. CountMatches'
  BY <1>1, <1>9 DEF PoolIInv, CountMatches
<1>11. LeavesInv'
  BY <1>1, LeavesKept DEF CanCloseWorker
<1>12. ASSUME NEW v \in Workers, wpc'[v] = "notify", spc'[v] = "add"
       PROVE  state'[sub'[v]] = "RUNNING"
  <2>1. v # a
    BY <1>4, <1>12 DEF PoolIInv, TypeOK
  <2> QED BY <1>1, <1>7, <1>12, <2>1 DEF PoolIInv, StateInv
<1>13. CASE home[t] = NULL
  <2>1. /\ global_tasks' = Append(global_tasks, t)
        /\ spc' = [spc EXCEPT ![a] = "no"] /\ UNCHANGED <<local_tasks, target>>
    BY <1>4, <1>13
  <2>2. /\ global_tasks' \in Seq(Tasks) /\ Unique(global_tasks')
        /\ \A x : Has(global_tasks', x) <=> (Has(global_tasks, x) \/ x = t)
    BY <1>8, <2>1, AppendHas
  <2>3. spc'[a] = "no" /\ spc' \in [Actors -> SubmitPC]
    BY <2>1 DEF PoolIInv, TypeOK, SubmitPC
  <2>4. TypeOK'
    BY <1>1, <2>1, <2>2, <2>3 DEF PoolIInv, TypeOK
  <2>5. ASSUME NEW u \in Tasks, NEW k \in Kinds, NEW x \in Actors, u # t
        PROVE  Holds(k, x, u)' <=> Holds(k, x, u)
    BY <1>1, <1>3, <1>7, <2>1, <2>2, <2>5 DEF Holds
  <2>6. ASSUME NEW k \in Kinds, NEW x \in Actors
        PROVE  Holds(k, x, t)' <=> (k = "global" /\ x = Owner)
    BY <1>1, <1>6, <1>7, <2>1, <2>2 DEF Holds
  <2>7. HeldOnce'
    BY <1>1, <1>5, <1>6, <1>7, <1>8, <2>1, <2>2, <2>5, <2>6, TaskMoves DEF PoolIInv
  <2>8. InHandInv'
    <3>1. target[a] = NULL \/ (a = Owner /\ mpc = "join")
      BY <1>1 DEF PoolIInv, InHandInv, Actors
    <3>2. a = Owner => mpc = "idle"
      BY <1>1 DEF PoolIInv, InHandInv
    <3> QED BY <1>1, <1>7, <2>1, <2>3, <3>1, <3>2 DEF PoolIInv, InHandInv
  <2>9. StateInv'
    BY <1>1, <1>3, <1>6, <1>7, <1>12, <2>5, <2>6, StateMoves
  <2>10. RunsAtHome'
    BY <1>1, <1>13, <2>1, <2>2 DEF PoolIInv, RunsAtHome
  <2> QED BY <1>10, <1>11, <2>4, <2>7, <2>8, <2>9, <2>10 DEF PoolIInv
<1>14. CASE home[t] # NULL
  <2>0. PICK h \in Workers : h = home[t]
    BY <1>14 DEF PoolIInv, TypeOK
  <2>1. /\ local_tasks' = [local_tasks EXCEPT ![h] = Append(local_tasks[h], t)]
        /\ target' = [target EXCEPT ![a] = h] /\ spc' = [spc EXCEPT ![a] = "reset"]
        /\ UNCHANGED global_tasks
    BY <1>4, <1>14, <2>0
  <2>2. /\ local_tasks'[h] = Append(local_tasks[h], t)
        /\ \A w \in Workers : w # h => local_tasks'[w] = local_tasks[w]
    BY <2>1 DEF PoolIInv, TypeOK
  <2>3. /\ local_tasks'[h] \in Seq(Tasks) /\ Unique(local_tasks'[h])
        /\ \A x : Has(local_tasks'[h], x) <=> (Has(local_tasks[h], x) \/ x = t)
    BY <1>8, <2>2, AppendHas
  <2>4. spc'[a] = "reset" /\ target'[a] = h /\ h # NULL
    BY <2>1, PoolAssumption DEF PoolIInv, TypeOK
  <2>5. TypeOK'
    <3>1. local_tasks' \in [Workers -> Seq(Tasks)]
      BY <2>1, <2>2, <2>3 DEF PoolIInv, TypeOK
    <3>2. spc' \in [Actors -> SubmitPC] /\ target' \in [Actors -> Workers \union {NULL}]
          /\ sub' \in [Actors -> Tasks \union {NULL}]
      BY <1>1, <2>1 DEF PoolIInv, TypeOK, SubmitPC
    <3> QED BY <1>1, <2>1, <3>1, <3>2 DEF PoolIInv, TypeOK
  <2>6. ASSUME NEW u \in Tasks, NEW k \in Kinds, NEW x \in Actors, u # t
        PROVE  Holds(k, x, u)' <=> Holds(k, x, u)
    <3>1. ASSUME x \in Workers PROVE Has(local_tasks'[x], u) <=> Has(local_tasks[x], u)
      BY <2>2, <2>3, <2>6, <3>1
    <3>2. sub'[x] = u <=> sub[x] = u
      BY <1>3, <1>7, <2>6
    <3> QED BY <1>1, <2>1, <3>1, <3>2 DEF Holds
  <2>7. ASSUME NEW k \in Kinds, NEW x \in Actors
        PROVE  Holds(k, x, t)' <=> (k = "local" /\ x = h)
    <3>1. ASSUME x \in Workers PROVE Has(local_tasks'[x], t) <=> (Has(local_tasks[x], t) \/ x = h)
      BY <2>2, <2>3, <3>1
    <3>2. sub'[x] # t
      <4>1. CASE x = a
        BY <4>1, <1>7
      <4>2. CASE x # a
        BY <4>2, <1>5, <1>6, <1>7 DEF Holds
      <4> QED BY <4>1, <4>2
    <3> QED BY <1>1, <1>6, <2>1, <3>1, <3>2 DEF Holds
  <2>8. HeldOnce'
    <3>1. Unique(global_tasks)' /\ \A w \in Workers : Unique(local_tasks'[w])
      BY <1>8, <2>1, <2>2, <2>3
    <3> QED BY <1>1, <1>5, <1>6, <1>7, <2>6, <2>7, <3>1, TaskMoves DEF PoolIInv
  <2>9. InHandInv'
    <3>1. a = Owner => mpc = "idle"
      BY <1>1 DEF PoolIInv, InHandInv
    <3> QED BY <1>1, <1>7, <2>4, <3>1 DEF PoolIInv, InHandInv
  <2>10. StateInv'
    BY <1>1, <1>3, <1>6, <1>7, <1>12, <2>6, <2>7, StateMoves
  <2>11. RunsAtHome'
    <3>1. ASSUME NEW w \in Workers, NEW u \in Tasks, Has(local_tasks'[w], u)
          PROVE  home[u] \in {NULL, w}
      BY <2>0, <2>2, <2>3, <3>1 DEF PoolIInv, RunsAtHome
    <3> QED BY <1>1, <2>1, <3>1 DEF PoolIInv, RunsAtHome
  <2> QED BY <1>10, <1>11, <2>5, <2>8, <2>9, <2>10, <2>11 DEF PoolIInv
<1> QED BY <1>13, <1>14

\* The set of workers at a place after Goto, and what is counted of it.
LEMMA GotoAt ==
    ASSUME TypeOK, NEW w \in Workers, NEW to, Goto(w, to), NEW p
    PROVE  /\ to # p /\ wpc[w] # p => At(p)' = At(p)
           /\ to = p /\ wpc[w] # p => Cardinality(At(p)') = Cardinality(At(p)) + 1
           /\ to # p /\ wpc[w] = p =>
                  Cardinality(At(p)') = Cardinality(At(p)) - 1 /\ Cardinality(At(p)') \in Nat
<1>1. wpc'[w] = to /\ \A v \in Workers : v # w => wpc'[v] = wpc[v]
  BY DEF TypeOK, Goto
<1>2. w \in At(p) <=> wpc[w] = p
  BY DEF At
<1>3. CASE to # p /\ wpc[w] # p
  BY <1>1, <1>3 DEF At
<1>4. CASE to = p /\ wpc[w] # p
  <2>1. At(p)' = At(p) \union {w}
    BY <1>1, <1>4 DEF At
  <2> QED BY <2>1, <1>2, <1>4, CountFacts, FS_AddElement
<1>5. CASE to # p /\ wpc[w] = p
  <2>1. At(p)' = At(p) \ {w}
    BY <1>1, <1>5 DEF At
  <2>2. Cardinality(At(p)') = Cardinality(At(p)) - 1 /\ IsFiniteSet(At(p)')
    BY <2>1, <1>2, <1>5, CountFacts, FS_RemoveElement
  <2> QED BY <1>5, <2>2, FS_CardinalityType
<1> QED BY <1>3, <1>4, <1>5

\* A worker takes a task from its queue and is its worker from now on.
LEMMA PoolIInvPopLocal ==
    ASSUME PoolIInv, NEW w \in Workers, PopLocal(w), local_tasks[w] # <<>>
    PROVE  PoolIInv'
<1>1. PICK t : t = Head(local_tasks[w])
  OBVIOUS
<1>2. /\ wpc[w] = "local" /\ Goto(w, "run") /\ cur' = [cur EXCEPT ![w] = t]
      /\ SetWorker(t, w)
      /\ local_tasks' = [local_tasks EXCEPT ![w] = Tail(local_tasks[w])]
      /\ UNCHANGED <<shutdown_, count_tasks, global_tasks, counter_empty_tasks, smph,
                     mpc, to_join, completed, spc, sub, target, state, status, stops>>
  BY <1>1 DEF PopLocal, ownerVars, submitVars, PoolIInv, TypeOK
<1>3. local_tasks[w] \in Seq(Tasks) /\ Unique(local_tasks[w])
  BY DEF PoolIInv, TypeOK, HeldOnce
<1>4. /\ Tail(local_tasks[w]) \in Seq(Tasks) /\ t \in Tasks /\ Has(local_tasks[w], t)
      /\ Unique(Tail(local_tasks[w]))
      /\ \A x : Has(Tail(local_tasks[w]), x) <=> (Has(local_tasks[w], x) /\ x # t)
  BY <1>1, <1>3, TailHas
<1>5. /\ local_tasks'[w] = Tail(local_tasks[w])
      /\ \A v \in Workers : v # w => local_tasks'[v] = local_tasks[v]
      /\ cur'[w] = t /\ \A v \in Workers : v # w => cur'[v] = cur[v]
      /\ wpc'[w] = "run" /\ \A v \in Workers : v # w => wpc'[v] = wpc[v]
      /\ wpc' \in [Workers -> WorkerPC] /\ cur' \in [Workers -> Tasks \union {NULL}]
  BY <1>2, <1>4 DEF PoolIInv, TypeOK, Goto, WorkerPC
<1>6. /\ Owner \in Actors /\ \A v \in Workers : v \in Actors /\ v # Owner /\ v # NULL
      /\ "local" \in Kinds /\ "cur" \in Kinds /\ \A u \in Tasks : u # NULL
  BY PoolAssumption DEF Actors, Kinds
<1>7. Holds("local", w, t)
  BY <1>4 DEF Holds
<1>8. /\ status[t] = "submitted" /\ state[t] = "RUNNING"
      /\ \A k \in Kinds, x \in Actors : Holds(k, x, t) <=> (k = "local" /\ x = w)
  BY <1>4, <1>6, <1>7 DEF PoolIInv, HeldOnce, StateInv
<1>9. cur[w] = NULL
  BY <1>2 DEF PoolIInv, InHandInv
<1>10. home[t] \in {NULL, w}
  BY <1>4 DEF PoolIInv, RunsAtHome
<1>11. home'[t] = w /\ (\A u \in Tasks : u # t => home'[u] = home[u]) /\ home' \in [Tasks -> Workers \union {NULL}]
  BY <1>2, <1>4, <1>10 DEF SetWorker, PoolIInv, TypeOK
<1>12. TypeOK'
  <2>1. local_tasks' \in [Workers -> Seq(Tasks)]
    BY <1>2, <1>4 DEF PoolIInv, TypeOK
  <2> QED BY <1>2, <1>5, <1>11, <2>1 DEF PoolIInv, TypeOK
<1>13. ASSUME NEW u \in Tasks, NEW k \in Kinds, NEW x \in Actors, u # t
       PROVE  Holds(k, x, u)' <=> Holds(k, x, u)
  <2>1. ASSUME x \in Workers PROVE Has(local_tasks'[x], u) <=> Has(local_tasks[x], u)
    BY <1>4, <1>5, <1>13, <2>1
  <2>2. ASSUME x \in Workers PROVE (cur'[x] = u /\ wpc'[x] # "remove") <=> (cur[x] = u /\ wpc[x] # "remove")
    BY <1>5, <1>6, <1>9, <1>13, <2>2
  <2> QED BY <1>2, <2>1, <2>2 DEF Holds
<1>14. ASSUME NEW k \in Kinds, NEW x \in Actors
       PROVE  Holds(k, x, t)' <=> (k = "cur" /\ x = w)
  <2>1. ASSUME x \in Workers PROVE ~Has(local_tasks'[x], t)
    <3>1. CASE x = w
      BY <1>4, <1>5, <3>1
    <3>2. CASE x # w
      BY <1>5, <1>6, <1>8, <2>1, <3>2 DEF Holds
    <3> QED BY <3>1, <3>2
  <2>2. ASSUME x \in Workers PROVE (cur'[x] = t /\ wpc'[x] # "remove") <=> x = w
    <3>1. CASE x = w
      BY <1>5, <3>1
    <3>2. CASE x # w
      BY <1>5, <1>6, <1>8, <2>2, <3>2 DEF Holds
    <3> QED BY <3>1, <3>2
  <2> QED BY <1>2, <1>6, <1>8, <2>1, <2>2 DEF Holds
<1>15. HeldOnce'
  <2>1. Unique(global_tasks)' /\ \A v \in Workers : Unique(local_tasks'[v])
    BY <1>2, <1>4, <1>5 DEF PoolIInv, HeldOnce
  <2> QED BY <1>2, <1>4, <1>6, <1>8, <1>13, <1>14, <2>1, TaskMoves DEF PoolIInv
<1>16. InHandInv'
  <2>1. spc[w] = "no"
    BY <1>2 DEF PoolIInv, InHandInv
  <2>2. ASSUME NEW v \in Workers
        PROVE  /\ cur'[v] # NULL <=> wpc'[v] \in {"run", "remove", "push"}
               /\ spc'[v] # "no" => wpc'[v] \in {"run", "notify"}
    BY <1>2, <1>4, <1>5, <1>6, <2>1 DEF PoolIInv, InHandInv
  <2> QED BY <1>2, <2>2 DEF PoolIInv, InHandInv
<1>17. StateInv'
  <2>1. ASSUME NEW v \in Workers, wpc'[v] = "notify", spc'[v] = "add"
        PROVE  state'[sub'[v]] = "RUNNING"
    BY <2>1, <1>2, <1>5 DEF PoolIInv, StateInv
  <2> QED BY <1>2, <1>4, <1>8, <1>13, <1>14, <2>1, StateMoves
<1>18. CountMatches'
  <2>1. InPool' = InPool /\ At("remove")' = At("remove")
    BY <1>2, GotoAt DEF PoolIInv, InPool
  <2> QED BY <1>2, <2>1 DEF PoolIInv, CountMatches
<1>19. RunsAtHome'
  <2>1. ASSUME NEW v \in Workers, NEW u \in Tasks, Has(local_tasks'[v], u)
        PROVE  home'[u] \in {NULL, v}
    <3>1. u # t
      BY <1>6, <1>14, <2>1 DEF Holds
    <3> QED BY <2>1, <3>1, <1>4, <1>5, <1>11 DEF PoolIInv, RunsAtHome
  <2>2. ASSUME NEW u \in Tasks, Has(global_tasks', u)
        PROVE  home'[u] = NULL
    <3>1. u # t
      BY <1>2, <1>6, <1>8, <2>2 DEF Holds, Kinds
    <3> QED BY <1>2, <1>11, <2>2, <3>1 DEF PoolIInv, RunsAtHome
  <2>3. ASSUME NEW v \in Workers
        PROVE  /\ wpc'[v] \in {"run", "remove"} => home'[cur'[v]] = v
               /\ wpc'[v] = "push" => home'[cur'[v]] = NULL
    <3>1. CASE v = w
      BY <3>1, <1>5, <1>11
    <3>2. CASE v # w
      <4>1. ASSUME wpc[v] \in {"run", "remove", "push"}
            PROVE  cur[v] \in Tasks /\ cur[v] # t
        <5>1. cur[v] \in Tasks
          BY <4>1 DEF PoolIInv, InHandInv, TypeOK
        <5>2. wpc[v] \in {"run", "push"} => cur[v] # t
          BY <1>6, <1>8, <3>2 DEF Holds
        <5>3. wpc[v] = "remove" => home[cur[v]] = v
          BY DEF PoolIInv, RunsAtHome
        <5> QED BY <4>1, <5>1, <5>2, <5>3, <3>2, <1>6, <1>10
      <4> QED BY <3>2, <4>1, <1>5, <1>11 DEF PoolIInv, RunsAtHome
    <3> QED BY <3>1, <3>2
  <2> QED BY <2>1, <2>2, <2>3 DEF RunsAtHome
<1>20. LeavesInv'
  BY <1>2, <1>5, QuietWhenClosed, LeavesKept DEF CanCloseWorker
<1> QED BY <1>12, <1>15, <1>16, <1>17, <1>18, <1>19, <1>20 DEF PoolIInv

\* A worker takes a task from the common queue ...
LEMMA PoolIInvPopGlobal ==
    ASSUME PoolIInv, NEW w \in Workers, PopGlobal(w), global_tasks # <<>>
    PROVE  PoolIInv'
<1>1. PICK t : t = Head(global_tasks)
  OBVIOUS
<1>2. /\ wpc[w] = "global" /\ Goto(w, "push") /\ cur' = [cur EXCEPT ![w] = t]
      /\ global_tasks' = Tail(global_tasks)
      /\ UNCHANGED <<shutdown_, count_tasks, local_tasks, counter_empty_tasks, smph,
                     mpc, to_join, completed, spc, sub, target, state, home, status, stops>>
  BY <1>1 DEF PopGlobal, ownerVars, submitVars, taskVars
<1>3. global_tasks \in Seq(Tasks) /\ Unique(global_tasks)
  BY DEF PoolIInv, TypeOK, HeldOnce
<1>4. /\ global_tasks' \in Seq(Tasks) /\ t \in Tasks /\ Has(global_tasks, t)
      /\ Unique(global_tasks')
      /\ \A x : Has(global_tasks', x) <=> (Has(global_tasks, x) /\ x # t)
  BY <1>1, <1>2, <1>3, TailHas
<1>5. /\ cur'[w] = t /\ \A v \in Workers : v # w => cur'[v] = cur[v]
      /\ wpc'[w] = "push" /\ \A v \in Workers : v # w => wpc'[v] = wpc[v]
      /\ wpc' \in [Workers -> WorkerPC] /\ cur' \in [Workers -> Tasks \union {NULL}]
  BY <1>2, <1>4 DEF PoolIInv, TypeOK, Goto, WorkerPC
<1>6. /\ Owner \in Actors /\ \A v \in Workers : v \in Actors /\ v # Owner /\ v # NULL
      /\ "global" \in Kinds /\ "cur" \in Kinds /\ \A u \in Tasks : u # NULL
  BY PoolAssumption DEF Actors, Kinds
<1>7. Holds("global", Owner, t)
  BY <1>4 DEF Holds
<1>8. /\ status[t] = "submitted" /\ state[t] = "RUNNING"
      /\ \A k \in Kinds, x \in Actors : Holds(k, x, t) <=> (k = "global" /\ x = Owner)
  BY <1>4, <1>6, <1>7 DEF PoolIInv, HeldOnce, StateInv
<1>9. cur[w] = NULL
  BY <1>2 DEF PoolIInv, InHandInv
<1>10. TypeOK'
  BY <1>2, <1>4, <1>5 DEF PoolIInv, TypeOK
<1>11. ASSUME NEW u \in Tasks, NEW k \in Kinds, NEW x \in Actors, u # t
       PROVE  Holds(k, x, u)' <=> Holds(k, x, u)
  <2>1. ASSUME x \in Workers PROVE (cur'[x] = u /\ wpc'[x] # "remove") <=> (cur[x] = u /\ wpc[x] # "remove")
    BY <1>5, <1>6, <1>9, <1>11, <2>1
  <2> QED BY <1>2, <1>4, <1>11, <2>1 DEF Holds
<1>12. ASSUME NEW k \in Kinds, NEW x \in Actors
       PROVE  Holds(k, x, t)' <=> (k = "cur" /\ x = w)
  <2>1. ASSUME x \in Workers PROVE (cur'[x] = t /\ wpc'[x] # "remove") <=> x = w
    <3>1. CASE x = w
      BY <1>5, <3>1
    <3>2. CASE x # w
      BY <1>5, <1>6, <1>8, <2>1, <3>2 DEF Holds
    <3> QED BY <3>1, <3>2
  <2> QED BY <1>2, <1>4, <1>6, <1>8, <2>1 DEF Holds
<1>13. HeldOnce'
  <2>1. Unique(global_tasks)' /\ \A v \in Workers : Unique(local_tasks'[v])
    BY <1>2, <1>4 DEF PoolIInv, HeldOnce
  <2> QED BY <1>2, <1>4, <1>6, <1>8, <1>11, <1>12, <2>1, TaskMoves DEF PoolIInv
<1>14. InHandInv'
  <2>1. spc[w] = "no"
    BY <1>2 DEF PoolIInv, InHandInv
  <2>2. ASSUME NEW v \in Workers
        PROVE  /\ cur'[v] # NULL <=> wpc'[v] \in {"run", "remove", "push"}
               /\ spc'[v] # "no" => wpc'[v] \in {"run", "notify"}
    BY <1>2, <1>4, <1>5, <1>6, <2>1 DEF PoolIInv, InHandInv
  <2> QED BY <1>2, <2>2 DEF PoolIInv, InHandInv
<1>15. StateInv'
  <2>1. ASSUME NEW v \in Workers, wpc'[v] = "notify", spc'[v] = "add"
        PROVE  state'[sub'[v]] = "RUNNING"
    BY <2>1, <1>2, <1>5 DEF PoolIInv, StateInv
  <2> QED BY <1>2, <1>4, <1>8, <1>11, <1>12, <2>1, StateMoves
<1>16. CountMatches'
  <2>1. InPool' = InPool /\ At("remove")' = At("remove")
    BY <1>2, GotoAt DEF PoolIInv, InPool
  <2> QED BY <1>2, <2>1 DEF PoolIInv, CountMatches
<1>17. RunsAtHome'
  <2>1. home[t] = NULL
    BY <1>4 DEF PoolIInv, RunsAtHome
  <2> QED BY <1>2, <1>4, <1>5, <2>1 DEF PoolIInv, RunsAtHome
<1>18. LeavesInv'
  BY <1>2, <1>5, QuietWhenClosed, LeavesKept DEF CanCloseWorker
<1> QED BY <1>10, <1>13, <1>14, <1>15, <1>16, <1>17, <1>18 DEF PoolIInv

\* The task a worker runs or moves is there and nowhere else.
LEMMA Carried ==
    ASSUME PoolIInv, NEW w \in Workers, wpc[w] \in {"run", "push"}, NEW t, t = cur[w]
    PROVE  /\ t \in Tasks /\ status[t] = "submitted" /\ state[t] = "RUNNING"
           /\ \A k \in Kinds, x \in Actors : Holds(k, x, t) <=> (k = "cur" /\ x = w)
           /\ ~CanCloseWorker
<1>1. t \in Tasks
  BY DEF PoolIInv, InHandInv, TypeOK
<1>2. Holds("cur", w, t) /\ "cur" \in Kinds /\ w \in Actors
  BY DEF Holds, Kinds, Actors
<1> QED BY <1>1, <1>2, QuietWhenClosed DEF PoolIInv, HeldOnce, StateInv

\* ... and puts it into its own.
LEMMA PoolIInvPushOwn ==
    ASSUME PoolIInv, NEW w \in Workers, PushOwn(w)
    PROVE  PoolIInv'
<1>1. PICK t : t = cur[w]
  OBVIOUS
<1>2. /\ wpc[w] = "push" /\ Goto(w, "notify") /\ cur' = [cur EXCEPT ![w] = NULL]
      /\ local_tasks' = [local_tasks EXCEPT ![w] = Append(local_tasks[w], t)]
      /\ target' = [target EXCEPT ![w] = w] /\ spc' = [spc EXCEPT ![w] = "reset"]
      /\ UNCHANGED <<shutdown_, count_tasks, global_tasks, counter_empty_tasks, smph,
                     mpc, to_join, completed, sub, state, home, status, stops>>
  BY <1>1 DEF PushOwn, ownerVars, taskVars, PoolIInv, TypeOK
<1>3. /\ t \in Tasks /\ status[t] = "submitted" /\ state[t] = "RUNNING"
      /\ \A k \in Kinds, x \in Actors : Holds(k, x, t) <=> (k = "cur" /\ x = w)
      /\ ~CanCloseWorker
  BY <1>1, <1>2, Carried
<1>4. /\ Owner \in Actors /\ \A v \in Workers : v \in Actors /\ v # Owner /\ v # NULL
      /\ "local" \in Kinds /\ \A u \in Tasks : u # NULL
  BY PoolAssumption DEF Actors, Kinds
<1>5. \A v \in Workers : local_tasks[v] \in Seq(Tasks) /\ Unique(local_tasks[v]) /\ ~Has(local_tasks[v], t)
  <2>1. ASSUME NEW v \in Workers PROVE ~Has(local_tasks[v], t)
    <3>1. Has(local_tasks[v], t) => Holds("local", v, t)
      BY DEF Holds
    <3> QED BY <3>1, <1>3, <1>4
  <2> QED BY <2>1 DEF PoolIInv, TypeOK, HeldOnce
<1>6. /\ local_tasks'[w] = Append(local_tasks[w], t)
      /\ \A v \in Workers : v # w => local_tasks'[v] = local_tasks[v]
      /\ cur'[w] = NULL /\ \A v \in Workers : v # w => cur'[v] = cur[v]
      /\ wpc'[w] = "notify" /\ \A v \in Workers : v # w => wpc'[v] = wpc[v]
      /\ spc'[w] = "reset" /\ \A x \in Actors : x # w => spc'[x] = spc[x]
      /\ target'[w] = w /\ \A x \in Actors : x # w => target'[x] = target[x]
  BY <1>2, <1>4 DEF PoolIInv, TypeOK, Goto
<1>7. /\ local_tasks'[w] \in Seq(Tasks) /\ Unique(local_tasks'[w])
      /\ \A x : Has(local_tasks'[w], x) <=> (Has(local_tasks[w], x) \/ x = t)
  BY <1>3, <1>5, <1>6, AppendHas
<1>8. TypeOK'
  <2>1. local_tasks' \in [Workers -> Seq(Tasks)]
    BY <1>2, <1>6, <1>7 DEF PoolIInv, TypeOK
  <2>2. /\ wpc' \in [Workers -> WorkerPC] /\ cur' \in [Workers -> Tasks \union {NULL}]
        /\ spc' \in [Actors -> SubmitPC] /\ target' \in [Actors -> Workers \union {NULL}]
    BY <1>2 DEF PoolIInv, TypeOK, Goto, WorkerPC, SubmitPC
  <2> QED BY <1>2, <2>1, <2>2 DEF PoolIInv, TypeOK
<1>9. ASSUME NEW u \in Tasks, NEW k \in Kinds, NEW x \in Actors, u # t
      PROVE  Holds(k, x, u)' <=> Holds(k, x, u)
  <2>1. ASSUME x \in Workers PROVE Has(local_tasks'[x], u) <=> Has(local_tasks[x], u)
    BY <1>6, <1>7, <1>9, <2>1
  <2>2. ASSUME x \in Workers PROVE (cur'[x] = u /\ wpc'[x] # "remove") <=> (cur[x] = u /\ wpc[x] # "remove")
    BY <1>1, <1>4, <1>6, <1>9, <2>2
  <2> QED BY <1>2, <2>1, <2>2 DEF Holds
<1>10. ASSUME NEW k \in Kinds, NEW x \in Actors
       PROVE  Holds(k, x, t)' <=> (k = "local" /\ x = w)
  <2>1. ASSUME x \in Workers PROVE Has(local_tasks'[x], t) <=> x = w
    BY <1>5, <1>6, <1>7, <2>1
  <2>2. ASSUME x \in Workers PROVE ~(cur'[x] = t /\ wpc'[x] # "remove")
    <3>1. CASE x = w
      BY <1>3, <1>4, <1>6, <3>1
    <3>2. CASE x # w
      BY <1>3, <1>4, <1>6, <2>2, <3>2 DEF Holds, Kinds
    <3> QED BY <3>1, <3>2
  <2> QED BY <1>2, <1>3, <1>4, <2>1, <2>2 DEF Holds
<1>11. HeldOnce'
  <2>1. Unique(global_tasks)' /\ \A v \in Workers : Unique(local_tasks'[v])
    BY <1>2, <1>6, <1>7 DEF PoolIInv, HeldOnce
  <2> QED BY <1>2, <1>3, <1>4, <1>9, <1>10, <2>1, TaskMoves DEF PoolIInv
<1>12. InHandInv'
  <2>1. spc[w] = "no"
    BY <1>2 DEF PoolIInv, InHandInv
  <2>2. ASSUME NEW v \in Workers
        PROVE  /\ cur'[v] # NULL <=> wpc'[v] \in {"run", "remove", "push"}
               /\ target'[v] # NULL <=> spc'[v] \in {"reset", "release"}
               /\ spc'[v] # "no" => wpc'[v] \in {"run", "notify"}
    BY <1>2, <1>4, <1>6, <2>1 DEF PoolIInv, InHandInv
  <2>3. ASSUME NEW x \in Actors
        PROVE  sub'[x] # NULL <=> spc'[x] \in {"add", "route"}
    BY <1>2, <1>6, <2>1 DEF PoolIInv, InHandInv
  <2> QED BY <1>2, <1>4, <1>6, <2>2, <2>3 DEF PoolIInv, InHandInv
<1>13. StateInv'
  <2>1. ASSUME NEW v \in Workers, wpc'[v] = "notify", spc'[v] = "add"
        PROVE  state'[sub'[v]] = "RUNNING"
    BY <2>1, <1>2, <1>4, <1>6 DEF PoolIInv, StateInv
  <2>2. ASSUME NEW x \in Actors, spc[x] = "add" PROVE spc'[x] = "add"
    BY <1>2, <1>6, <2>2 DEF PoolIInv, InHandInv
  <2> QED BY <1>2, <1>3, <1>9, <1>10, <2>1, <2>2, StateMoves
<1>14. CountMatches'
  <2>1. InPool' = InPool /\ At("remove")' = At("remove")
    BY <1>2, GotoAt DEF PoolIInv, InPool
  <2> QED BY <1>2, <2>1 DEF PoolIInv, CountMatches
<1>15. RunsAtHome'
  <2>1. home[t] = NULL
    BY <1>1, <1>2 DEF PoolIInv, RunsAtHome
  <2>2. ASSUME NEW v \in Workers, NEW u \in Tasks, Has(local_tasks'[v], u)
        PROVE  home'[u] \in {NULL, v}
    BY <1>2, <1>6, <1>7, <2>1, <2>2 DEF PoolIInv, RunsAtHome
  <2>3. ASSUME NEW v \in Workers
        PROVE  /\ wpc'[v] \in {"run", "remove"} => home'[cur'[v]] = v
               /\ wpc'[v] = "push" => home'[cur'[v]] = NULL
    BY <1>2, <1>6 DEF PoolIInv, RunsAtHome
  <2>4. ASSUME NEW u \in Tasks, Has(global_tasks', u)
        PROVE  home'[u] = NULL
    BY <1>2, <2>4 DEF PoolIInv, RunsAtHome
  <2> QED BY <2>2, <2>3, <2>4 DEF RunsAtHome
<1>16. LeavesInv'
  BY <1>2, <1>3, <1>6, LeavesKept
<1> QED BY <1>8, <1>11, <1>12, <1>13, <1>14, <1>15, <1>16 DEF PoolIInv

\* The running fiber yields: its worker submits it again.
LEMMA PoolIInvRunYield ==
    ASSUME PoolIInv, NEW w \in Workers, RunYield(w)
    PROVE  PoolIInv'
<1>1. PICK t : t = cur[w]
  OBVIOUS
<1>2. /\ wpc[w] = "run" /\ spc[w] = "no" /\ Goto(w, "notify") /\ cur' = [cur EXCEPT ![w] = NULL]
      /\ stops[t] < MaxStops /\ stops' = [stops EXCEPT ![t] = stops[t] + 1]
      /\ spc' = [spc EXCEPT ![w] = "add"] /\ sub' = [sub EXCEPT ![w] = t]
      /\ status' = [status EXCEPT ![t] = "submitted"]
      /\ UNCHANGED <<shutdown_, count_tasks, global_tasks, local_tasks, counter_empty_tasks, smph,
                     mpc, to_join, completed, target, state, home>>
  BY <1>1 DEF RunYield, CallSubmit, ownerVars, sharedVars
<1>3. /\ t \in Tasks /\ status[t] = "submitted" /\ state[t] = "RUNNING"
      /\ \A k \in Kinds, x \in Actors : Holds(k, x, t) <=> (k = "cur" /\ x = w)
      /\ ~CanCloseWorker
  BY <1>1, <1>2, Carried
<1>4. /\ Owner \in Actors /\ \A v \in Workers : v \in Actors /\ v # Owner /\ v # NULL
      /\ "sub" \in Kinds /\ "cur" \in Kinds /\ \A u \in Tasks : u # NULL
  BY PoolAssumption DEF Actors, Kinds
<1>5. /\ cur'[w] = NULL /\ \A v \in Workers : v # w => cur'[v] = cur[v]
      /\ wpc'[w] = "notify" /\ \A v \in Workers : v # w => wpc'[v] = wpc[v]
      /\ spc'[w] = "add" /\ \A x \in Actors : x # w => spc'[x] = spc[x]
      /\ sub'[w] = t /\ \A x \in Actors : x # w => sub'[x] = sub[x]
      /\ status' = status /\ sub[w] = NULL
  BY <1>2, <1>3, <1>4, ZenonT(60) DEF PoolIInv, TypeOK, Goto, InHandInv
<1>6. TypeOK'
  <2>1. stops' \in [Tasks -> 0..MaxStops]
    BY <1>2, <1>3, PoolAssumption DEF PoolIInv, TypeOK
  <2>2. /\ wpc' \in [Workers -> WorkerPC] /\ cur' \in [Workers -> Tasks \union {NULL}]
        /\ spc' \in [Actors -> SubmitPC] /\ sub' \in [Actors -> Tasks \union {NULL}]
    BY <1>2, <1>3 DEF PoolIInv, TypeOK, Goto, WorkerPC, SubmitPC
  <2> QED BY <1>2, <1>5, <2>1, <2>2 DEF PoolIInv, TypeOK
<1>7. ASSUME NEW u \in Tasks, NEW k \in Kinds, NEW x \in Actors, u # t
      PROVE  Holds(k, x, u)' <=> Holds(k, x, u)
  <2>1. ASSUME x \in Workers PROVE (cur'[x] = u /\ wpc'[x] # "remove") <=> (cur[x] = u /\ wpc[x] # "remove")
    BY <1>1, <1>4, <1>5, <1>7, <2>1
  <2>2. sub'[x] = u <=> sub[x] = u
    BY <1>4, <1>5, <1>7
  <2> QED BY <1>2, <2>1, <2>2 DEF Holds
<1>8. ASSUME NEW k \in Kinds, NEW x \in Actors
      PROVE  Holds(k, x, t)' <=> (k = "sub" /\ x = w)
  <2>1. ASSUME x \in Workers PROVE ~(cur'[x] = t /\ wpc'[x] # "remove")
    <3>1. CASE x = w
      BY <1>3, <1>4, <1>5, <3>1
    <3>2. CASE x # w
      BY <1>3, <1>4, <1>5, <2>1, <3>2 DEF Holds
    <3> QED BY <3>1, <3>2
  <2>2. sub'[x] = t <=> x = w
    <3>1. CASE x = w
      BY <1>5, <3>1
    <3>2. CASE x # w
      BY <1>3, <1>4, <1>5, <3>2 DEF Holds
    <3> QED BY <3>1, <3>2
  <2> QED BY <1>2, <1>3, <1>4, <2>1, <2>2 DEF Holds
<1>9. HeldOnce'
  <2>1. Unique(global_tasks)' /\ \A v \in Workers : Unique(local_tasks[v])'
    BY <1>2 DEF PoolIInv, HeldOnce
  <2> QED BY <1>3, <1>4, <1>5, <1>7, <1>8, <2>1, TaskMoves DEF PoolIInv
<1>10. InHandInv'
  <2>1. ASSUME NEW v \in Workers
        PROVE  /\ cur'[v] # NULL <=> wpc'[v] \in {"run", "remove", "push"}
               /\ target'[v] # NULL <=> spc'[v] \in {"reset", "release"}
               /\ spc'[v] # "no" => wpc'[v] \in {"run", "notify"}
    BY <1>2, <1>4, <1>5 DEF PoolIInv, InHandInv
  <2>2. ASSUME NEW x \in Actors
        PROVE  sub'[x] # NULL <=> spc'[x] \in {"add", "route"}
    BY <1>3, <1>4, <1>5 DEF PoolIInv, InHandInv
  <2> QED BY <1>2, <1>4, <1>5, <2>1, <2>2 DEF PoolIInv, InHandInv
<1>11. StateInv'
  <2>1. ASSUME NEW v \in Workers, wpc'[v] = "notify", spc'[v] = "add"
        PROVE  state'[sub'[v]] = "RUNNING"
    BY <2>1, <1>2, <1>3, <1>4, <1>5 DEF PoolIInv, StateInv
  <2>2. ASSUME NEW x \in Actors, spc[x] = "add" PROVE spc'[x] = "add"
    BY <1>5, <2>2
  <2> QED BY <1>2, <1>3, <1>5, <1>7, <1>8, <2>1, <2>2, StateMoves
<1>12. CountMatches'
  <2>1. InPool' = InPool /\ At("remove")' = At("remove")
    BY <1>2, <1>5, GotoAt DEF PoolIInv, InPool
  <2> QED BY <1>2, <2>1 DEF PoolIInv, CountMatches
<1>13. RunsAtHome'
  BY <1>2, <1>5 DEF PoolIInv, RunsAtHome
<1>14. LeavesInv'
  BY <1>2, <1>3, <1>5, LeavesKept
<1> QED BY <1>6, <1>9, <1>10, <1>11, <1>12, <1>13, <1>14 DEF PoolIInv

\* The running task is parked ...
LEMMA PoolIInvRunPark ==
    ASSUME PoolIInv, NEW w \in Workers, RunPark(w)
    PROVE  PoolIInv'
<1>1. PICK t : t = cur[w]
  OBVIOUS
<1>2. /\ wpc[w] = "run" /\ spc[w] = "no" /\ Goto(w, "notify") /\ cur' = [cur EXCEPT ![w] = NULL]
      /\ stops[t] < MaxStops /\ stops' = [stops EXCEPT ![t] = stops[t] + 1]
      /\ status' = [status EXCEPT ![t] = "parked"]
      /\ UNCHANGED <<shutdown_, count_tasks, global_tasks, local_tasks, counter_empty_tasks, smph,
                     mpc, to_join, completed, spc, sub, target, state, home>>
  BY <1>1 DEF RunPark, ownerVars, sharedVars, submitVars
<1>3. /\ t \in Tasks /\ status[t] = "submitted" /\ state[t] = "RUNNING"
      /\ \A k \in Kinds, x \in Actors : Holds(k, x, t) <=> (k = "cur" /\ x = w)
      /\ ~CanCloseWorker
  BY <1>1, <1>2, Carried
<1>4. /\ Owner \in Actors /\ \A v \in Workers : v \in Actors /\ v # Owner /\ v # NULL
      /\ "cur" \in Kinds /\ \A u \in Tasks : u # NULL
  BY PoolAssumption DEF Actors, Kinds
<1>5. /\ cur'[w] = NULL /\ \A v \in Workers : v # w => cur'[v] = cur[v]
      /\ wpc'[w] = "notify" /\ \A v \in Workers : v # w => wpc'[v] = wpc[v]
      /\ status'[t] = "parked" /\ \A u \in Tasks : u # t => status'[u] = status[u]
  BY <1>2, <1>3 DEF PoolIInv, TypeOK, Goto
<1>6. TypeOK'
  <2>1. stops' \in [Tasks -> 0..MaxStops]
    BY <1>2, <1>3, PoolAssumption DEF PoolIInv, TypeOK
  <2>2. /\ wpc' \in [Workers -> WorkerPC] /\ cur' \in [Workers -> Tasks \union {NULL}]
        /\ status' \in [Tasks -> {"new", "submitted", "parked", "done"}]
    BY <1>2, <1>3 DEF PoolIInv, TypeOK, Goto, WorkerPC
  <2> QED BY <1>2, <2>1, <2>2 DEF PoolIInv, TypeOK
<1>7. ASSUME NEW u \in Tasks, NEW k \in Kinds, NEW x \in Actors, u # t
      PROVE  Holds(k, x, u)' <=> Holds(k, x, u)
  <2>1. ASSUME x \in Workers PROVE (cur'[x] = u /\ wpc'[x] # "remove") <=> (cur[x] = u /\ wpc[x] # "remove")
    BY <1>1, <1>4, <1>5, <1>7, <2>1
  <2> QED BY <1>2, <2>1 DEF Holds
<1>8. ASSUME NEW k \in Kinds, NEW x \in Actors
      PROVE  ~Holds(k, x, t)'
  <2>1. ASSUME x \in Workers PROVE ~(cur'[x] = t /\ wpc'[x] # "remove")
    <3>1. CASE x = w
      BY <1>3, <1>4, <1>5, <3>1
    <3>2. CASE x # w
      BY <1>3, <1>4, <1>5, <2>1, <3>2 DEF Holds
    <3> QED BY <3>1, <3>2
  <2> QED BY <1>2, <1>3, <1>4, <2>1 DEF Holds
<1>9. HeldOnce'
  <2>1. Unique(global_tasks)' /\ \A v \in Workers : Unique(local_tasks[v])'
    BY <1>2 DEF PoolIInv, HeldOnce
  <2> QED BY <1>3, <1>5, <1>7, <1>8, <2>1, TaskLeaves DEF PoolIInv
<1>10. InHandInv'
  BY <1>2, <1>5 DEF PoolIInv, InHandInv
<1>11. StateInv'
  <2>1. ASSUME NEW v \in Workers, wpc'[v] = "notify", spc'[v] = "add"
        PROVE  state'[sub'[v]] = "RUNNING"
    BY <2>1, <1>2, <1>5 DEF PoolIInv, StateInv
  <2> QED BY <1>2, <1>3, <1>5, <1>7, <1>8, <2>1, StateMoves
<1>12. CountMatches'
  <2>1. InPool' = InPool /\ At("remove")' = At("remove")
    BY <1>2, <1>3, <1>5, GotoAt DEF PoolIInv, InPool
  <2> QED BY <1>2, <2>1 DEF PoolIInv, CountMatches
<1>13. RunsAtHome'
  BY <1>2, <1>5 DEF PoolIInv, RunsAtHome
<1>14. LeavesInv'
  BY <1>2, <1>3, <1>5, LeavesKept
<1> QED BY <1>6, <1>9, <1>10, <1>11, <1>12, <1>13, <1>14 DEF PoolIInv

\* ... or comes to its end: from now on the worker is counted for it.
LEMMA PoolIInvRunReturn ==
    ASSUME PoolIInv, NEW w \in Workers, RunFunction(w) \/ RunFiber(w)
    PROVE  PoolIInv'
<1>1. PICK t : t = cur[w]
  OBVIOUS
<1>2. /\ wpc[w] = "run" /\ spc[w] = "no" /\ Goto(w, "remove")
      /\ status' = [status EXCEPT ![t] = "done"]
      /\ UNCHANGED <<shutdown_, count_tasks, global_tasks, local_tasks, counter_empty_tasks, smph,
                     mpc, to_join, completed, cur, spc, sub, target, home, stops>>
  BY <1>1 DEF RunFunction, RunFiber, ownerVars, sharedVars, submitVars
<1>3. /\ t \in Tasks /\ status[t] = "submitted" /\ state[t] = "RUNNING"
      /\ \A k \in Kinds, x \in Actors : Holds(k, x, t) <=> (k = "cur" /\ x = w)
      /\ ~CanCloseWorker
  BY <1>1, <1>2, Carried
<1>4. state' = state \/ state' = [state EXCEPT ![t] = "FINISHED"]
  BY <1>1, <1>3 DEF RunFunction, RunFiber, ProgressState
<1>5. /\ Owner \in Actors /\ \A v \in Workers : v \in Actors /\ v # Owner /\ v # NULL
      /\ "cur" \in Kinds /\ "sub" \in Kinds /\ \A u \in Tasks : u # NULL
  BY PoolAssumption DEF Actors, Kinds
<1>6. /\ wpc'[w] = "remove" /\ \A v \in Workers : v # w => wpc'[v] = wpc[v]
      /\ status'[t] = "done" /\ \A u \in Tasks : u # t => status'[u] = status[u] /\ state'[u] = state[u]
  BY <1>2, <1>3, <1>4 DEF PoolIInv, TypeOK, Goto
<1>7. TypeOK'
  <2>1. state' \in [Tasks -> {"PLANNED", "RUNNING", "FINISHED"}]
    BY <1>4 DEF PoolIInv, TypeOK
  <2>2. /\ wpc' \in [Workers -> WorkerPC]
        /\ status' \in [Tasks -> {"new", "submitted", "parked", "done"}]
    BY <1>2, <1>3 DEF PoolIInv, TypeOK, Goto, WorkerPC
  <2> QED BY <1>2, <2>1, <2>2 DEF PoolIInv, TypeOK
<1>8. ASSUME NEW u \in Tasks, NEW k \in Kinds, NEW x \in Actors, u # t
      PROVE  Holds(k, x, u)' <=> Holds(k, x, u)
  <2>1. ASSUME x \in Workers PROVE (cur'[x] = u /\ wpc'[x] # "remove") <=> (cur[x] = u /\ wpc[x] # "remove")
    BY <1>1, <1>2, <1>6, <1>8, <2>1
  <2> QED BY <1>2, <2>1 DEF Holds
<1>9. ASSUME NEW k \in Kinds, NEW x \in Actors
      PROVE  ~Holds(k, x, t)'
  <2>1. ASSUME x \in Workers PROVE ~(cur'[x] = t /\ wpc'[x] # "remove")
    <3>1. CASE x = w
      BY <1>6, <3>1
    <3>2. CASE x # w
      BY <1>2, <1>3, <1>5, <1>6, <2>1, <3>2 DEF Holds
    <3> QED BY <3>1, <3>2
  <2> QED BY <1>2, <1>3, <1>5, <2>1 DEF Holds
<1>10. HeldOnce'
  <2>1. Unique(global_tasks)' /\ \A v \in Workers : Unique(local_tasks[v])'
    BY <1>2 DEF PoolIInv, HeldOnce
  <2> QED BY <1>3, <1>6, <1>8, <1>9, <2>1, TaskLeaves DEF PoolIInv
<1>11. InHandInv'
  BY <1>2, <1>6 DEF PoolIInv, InHandInv
<1>12. StateInv'
  <2>1. ASSUME NEW v \in Workers, wpc'[v] = "notify", spc'[v] = "add"
        PROVE  state'[sub'[v]] = "RUNNING"
    <3>1. wpc[v] = "notify" /\ spc[v] = "add" /\ sub'[v] = sub[v] /\ v # w
      BY <1>2, <1>6, <2>1
    <3>2. sub[v] \in Tasks /\ state[sub[v]] = "RUNNING"
      BY <3>1, <1>5 DEF PoolIInv, StateInv, InHandInv, TypeOK
    <3>3. sub[v] # t
      BY <3>1, <1>3, <1>5 DEF Holds
    <3> QED BY <3>1, <3>2, <3>3, <1>6
  <2> QED BY <1>2, <1>3, <1>6, <1>8, <1>9, <2>1, StateMoves
<1>13. CountMatches'
  <2>1. InPool' = InPool \ {t} /\ t \in InPool
    BY <1>3, <1>6 DEF InPool
  <2>2. Cardinality(InPool') = Cardinality(InPool) - 1
    BY <2>1, CountFacts, FS_RemoveElement
  <2>3. Cardinality(At("remove")') = Cardinality(At("remove")) + 1
    BY <1>2, GotoAt DEF PoolIInv
  <2>4. Cardinality(InPool) \in Nat /\ Cardinality(At("remove")) \in Nat
    BY CountFacts
  <2> QED BY <1>2, <2>2, <2>3, <2>4 DEF PoolIInv, CountMatches
<1>14. RunsAtHome'
  BY <1>2, <1>6 DEF PoolIInv, RunsAtHome
<1>15. LeavesInv'
  BY <1>2, <1>3, <1>6, LeavesKept
<1> QED BY <1>7, <1>10, <1>11, <1>12, <1>13, <1>14, <1>15 DEF PoolIInv

\* count_tasks goes down by one, and not below zero.
LEMMA PoolIInvRemoveTask ==
    ASSUME PoolIInv, NEW w \in Workers, RemoveTask(w)
    PROVE  PoolIInv'
<1>1. /\ wpc[w] = "remove" /\ Goto(w, "notify") /\ cur' = [cur EXCEPT ![w] = NULL]
      /\ count_tasks' = count_tasks - 1
      /\ UNCHANGED <<shutdown_, global_tasks, local_tasks, counter_empty_tasks, smph,
                     mpc, to_join, completed, spc, sub, target, state, home, status, stops>>
  BY DEF RemoveTask, ownerVars, submitVars, taskVars
<1>2. /\ cur'[w] = NULL /\ \A v \in Workers : v # w => cur'[v] = cur[v]
      /\ wpc'[w] = "notify" /\ \A v \in Workers : v # w => wpc'[v] = wpc[v]
      /\ spc[w] = "no" /\ \A u \in Tasks : u # NULL
  BY <1>1, PoolAssumption DEF PoolIInv, TypeOK, Goto, InHandInv
<1>3. CountMatches' /\ count_tasks' \in Nat
  <2>1. /\ Cardinality(At("remove")') = Cardinality(At("remove")) - 1
        /\ Cardinality(At("remove")') \in Nat
    BY <1>1, GotoAt DEF PoolIInv
  <2>2. Cardinality(InPool) \in Nat /\ Cardinality(At("remove")) \in Nat
    BY CountFacts
  <2>3. InPool' = InPool
    BY <1>1 DEF InPool
  <2> QED BY <1>1, <2>1, <2>2, <2>3 DEF PoolIInv, CountMatches
<1>4. TypeOK'
  <2>1. wpc' \in [Workers -> WorkerPC] /\ cur' \in [Workers -> Tasks \union {NULL}]
    BY <1>1 DEF PoolIInv, TypeOK, Goto, WorkerPC
  <2> QED BY <1>1, <1>3, <2>1 DEF PoolIInv, TypeOK
<1>5. ASSUME NEW u \in Tasks, NEW k \in Kinds, NEW x \in Actors
      PROVE  Holds(k, x, u)' <=> Holds(k, x, u)
  <2>1. ASSUME x \in Workers PROVE (cur'[x] = u /\ wpc'[x] # "remove") <=> (cur[x] = u /\ wpc[x] # "remove")
    BY <1>1, <1>2, <2>1
  <2> QED BY <1>1, <2>1 DEF Holds
<1>6. HeldOnce'
  BY <1>1, <1>5 DEF PoolIInv, HeldOnce
<1>7. InHandInv'
  BY <1>1, <1>2 DEF PoolIInv, InHandInv
<1>8. StateInv'
  <2>1. ASSUME NEW v \in Workers, wpc'[v] = "notify", spc'[v] = "add"
        PROVE  state'[sub'[v]] = "RUNNING"
    BY <2>1, <1>1, <1>2 DEF PoolIInv, StateInv
  <2> QED BY <1>1, <1>5, <2>1 DEF PoolIInv, StateInv
<1>9. RunsAtHome'
  BY <1>1, <1>2 DEF PoolIInv, RunsAtHome
<1>10. LeavesInv'
  BY <1>1, <1>2, QuietWhenClosed, LeavesKept
<1> QED BY <1>3, <1>4, <1>6, <1>7, <1>8, <1>9, <1>10 DEF PoolIInv

\* The invariant is inductive.
LEMMA PoolIInvStep == PoolIInv /\ [Next]_vars => PoolIInv'
<1> SUFFICES ASSUME PoolIInv, [Next]_vars PROVE PoolIInv'
  OBVIOUS
<1>1. CASE UNCHANGED vars
  <2>1. UNCHANGED <<shutdown_, count_tasks, global_tasks, local_tasks, counter_empty_tasks, smph, mpc,
                    to_join, wpc, completed, cur, spc, sub, target, state, home, status, stops>>
    BY <1>1 DEF vars, sharedVars, ownerVars, workerVars, submitVars, taskVars
  <2>2. TypeOK' /\ InHandInv' /\ LeavesInv'
    BY <2>1 DEF PoolIInv, TypeOK, InHandInv, LeavesInv, CanCloseWorker
  <2>3. HeldOnce' /\ StateInv' /\ CountMatches' /\ RunsAtHome'
    BY <2>1, NoTaskMoves
  <2> QED BY <2>2, <2>3 DEF PoolIInv
<1>2. ASSUME NEW a \in Actors, SubmitStep(a)
      PROVE  PoolIInv'
  BY <1>2, PoolIInvSubmitAdd, PoolIInvSubmitRoute, PoolIInvPush DEF SubmitStep
<1>3. ASSUME NEW w \in Workers, StartWorker(w) \/ WorkerStep(w)
      PROVE  PoolIInv'
  <2>1. w \in Actors
    BY DEF Actors
  <2>2. CASE PopLocal(w)
    BY <2>2, PoolIInvPopLocal, PoolIInvWorkerMoves
  <2>3. CASE PopGlobal(w)
    BY <2>3, PoolIInvPopGlobal, PoolIInvWorkerMoves
  <2>4. CASE \E t \in Tasks : RunSubmit(w, t)
    BY <2>4, PoolIInvSubmit
  <2>5. CASE StartWorker(w) \/ Close(w) \/ Decrease(w) \/ Compare(w) \/ NotifyAll(w) \/ LoopClose(w) \/ Sleep(w)
    BY <2>5, PoolIInvWorkerMoves
  <2>6. CASE SubmitStep(w)
    BY <2>1, <2>6, <1>2
  <2> QED BY <1>3, <2>2, <2>3, <2>4, <2>5, <2>6, PoolIInvPushOwn, PoolIInvRunYield, PoolIInvRunPark,
            PoolIInvRunReturn, PoolIInvRemoveTask DEF WorkerStep
<1>4. ASSUME NEW t \in Tasks, OwnerSubmit(t)
      PROVE  PoolIInv'
  BY <1>4, PoolIInvSubmit
<1>5. CASE WaitIdle \/ StartShutdown \/ OwnerStep
  <2>1. Owner \in Actors
    BY DEF Actors
  <2> QED BY <1>2, <1>5, <2>1, PoolIInvOwnerMoves DEF OwnerStep
<1>6. CASE Terminated
  BY <1>1, <1>6 DEF Terminated
<1> QED BY <1>1, <1>3, <1>4, <1>5, <1>6 DEF Next

\* A submitted task is in exactly one place, count_tasks counts the tasks from
\* their first Submit to their COMPLETE, and WaitIdle sees 0 only when all
\* that were counted are done.
THEOREM PoolInvariance == Spec => []PoolInv
BY PoolIInvInit, PoolIInvStep, PoolIInvSuffices, PTL DEF Spec

\* Push, Process and SetWorker keep a task that has run with its worker.
THEOREM RunsAtHomeInvariance == Spec => []RunsAtHome
BY PoolIInvInit, PoolIInvStep, PoolIInvSuffices, PTL DEF Spec

\* A worker that Process or Loop let go was right to go: CanCloseWorker still
\* holds, its queue and the common queue are empty, no completed coroutine is resumed.
THEOREM ClosedForGoodInvariance == Spec => []ClosedForGood
BY PoolIInvInit, PoolIInvStep, PoolIInvSuffices, PTL DEF Spec

-----------------------------------------------------------------------------
(* SimpleMSQueue.  The invariant needs one of two conditions: the collector *)
(* has left its loop, and then any number of producers and consumers may   *)
(* use the queue; or it runs, and there is one producer and one consumer.  *)
(* With two consumers TryPop may read the value of a node that was deleted. *)

-----------------------------------------------------------------------------
(* Sequences as lists of nodes.                                            *)

\* A sequence with an element behind it.
LEMMA QueueAppend ==
    ASSUME NEW S, NEW s \in Seq(S), NEW e \in S
    PROVE  /\ Append(s, e) \in Seq(S)
           /\ Len(s) \in Nat /\ Len(Append(s, e)) = Len(s) + 1
           /\ \A i \in 1..Len(s) : Append(s, e)[i] = s[i]
           /\ Append(s, e)[Len(s) + 1] = e
           /\ Append(s, e) # <<>>
BY AppendProperties, LenProperties

\* A sequence without its first element.
LEMMA QueueTail ==
    ASSUME NEW S, NEW s \in Seq(S), s # <<>>
    PROVE  /\ Tail(s) \in Seq(S)
           /\ Len(s) \in Nat \ {0} /\ Len(Tail(s)) = Len(s) - 1
           /\ \A i \in 1..Len(s) - 1 : Tail(s)[i] = s[i + 1]
           /\ 1 \in 1..Len(s) /\ s[1] \in S /\ Head(s) = s[1]
<1>1. Len(s) \in Nat \ {0}
  BY EmptySeq, LenProperties
<1>2. 1 \in 1..Len(s)
  BY <1>1
<1>3. s[1] \in S
  BY <1>2, ElementOfSeq
<1> QED BY <1>1, <1>2, <1>3, HeadTailProperties

\* A sequence with an element in front of it.
LEMMA QueueCons ==
    ASSUME NEW S, NEW s \in Seq(S), NEW e \in S
    PROVE  /\ <<e>> \o s \in Seq(S)
           /\ Len(s) \in Nat /\ Len(<<e>> \o s) = Len(s) + 1
           /\ (<<e>> \o s)[1] = e
           /\ \A i \in 1..Len(s) : (<<e>> \o s)[i + 1] = s[i]
           /\ <<e>> \o s # <<>>
<1>1. <<e>> \in Seq(S) /\ Len(<<e>>) = 1 /\ <<e>>[1] = e /\ Len(s) \in Nat
  OBVIOUS
<1>2. <<e>> \o s \in Seq(S) /\ Len(<<e>> \o s) = 1 + Len(s)
  BY <1>1, ConcatProperties
<1>3. \A i \in 1..1 + Len(s) : (<<e>> \o s)[i] = IF i <= 1 THEN <<e>>[i] ELSE s[i - 1]
  BY <1>1, ConcatProperties
<1>4. 1 \in 1..1 + Len(s)
  BY <1>1
<1>5. (<<e>> \o s)[1] = e
  BY <1>1, <1>3, <1>4
<1>6. ASSUME NEW i \in 1..Len(s) PROVE (<<e>> \o s)[i + 1] = s[i]
  <2>1. i + 1 \in 1..1 + Len(s) /\ ~(i + 1 <= 1) /\ (i + 1) - 1 = i
    BY <1>1
  <2> QED BY <1>3, <2>1
<1>7. <<e>> \o s # <<>>
  BY <1>1, <1>2, EmptySeq
<1> QED BY <1>1, <1>2, <1>5, <1>6, <1>7

\* With an element behind it a list contains that one, too.
LEMMA AppendContains ==
    ASSUME NEW S, NEW s \in Seq(S), NEW e \in S
    PROVE  /\ \A n : Contains(Append(s, e), n) <=> n = e \/ Contains(s, n)
           /\ NoRepeats(s) /\ ~Contains(s, e) => NoRepeats(Append(s, e))
<1> DEFINE t == Append(s, e)
           k == Len(s)
<1>1. /\ k \in Nat /\ Len(t) = k + 1 /\ t[k + 1] = e
      /\ \A i \in 1..k : t[i] = s[i]
  BY QueueAppend
<1> HIDE DEF t, k
<1>2. \A i \in 1..k + 1 : i \in 1..k \/ i = k + 1
  BY <1>1
<1>3. \A i \in 1..k : i \in 1..k + 1
  BY <1>1
<1>4. k + 1 \in 1..k + 1
  BY <1>1
<1>5. \A n : Contains(t, n) <=> n = e \/ Contains(s, n)
  BY <1>1, <1>2, <1>3, <1>4 DEF Contains, k
<1>6. ASSUME NoRepeats(s), ~Contains(s, e) PROVE NoRepeats(t)
  <2> SUFFICES ASSUME NEW i \in 1..k + 1, NEW j \in 1..k + 1, t[i] = t[j] PROVE i = j
    BY <1>1 DEF NoRepeats
  <2> QED BY <1>1, <1>2, <1>6 DEF Contains, NoRepeats, k
<1> QED BY <1>5, <1>6 DEF t

\* Without its first element a list contains all others.
LEMMA TailContains ==
    ASSUME NEW S, NEW s \in Seq(S), s # <<>>, NoRepeats(s)
    PROVE  /\ \A n : Contains(Tail(s), n) <=> Contains(s, n) /\ n # s[1]
           /\ NoRepeats(Tail(s))
<1> DEFINE t == Tail(s)
           k == Len(s)
<1>1. /\ k \in Nat \ {0} /\ Len(t) = k - 1
      /\ \A i \in 1..k - 1 : t[i] = s[i + 1]
  BY QueueTail
<1> HIDE DEF t, k
<1>2. \A i \in 1..k - 1 : i + 1 \in 1..k /\ i + 1 # 1
  BY <1>1
<1>3. \A i \in 1..k : i = 1 \/ (i - 1 \in 1..k - 1 /\ (i - 1) + 1 = i)
  BY <1>1
<1>4. \A i, j \in 1..k : s[i] = s[j] => i = j
  BY DEF NoRepeats, k
<1>5. 1 \in 1..k
  BY <1>1
<1>6. ASSUME NEW n, Contains(t, n) PROVE Contains(s, n) /\ n # s[1]
  <2>1. PICK i \in 1..k - 1 : t[i] = n
    BY <1>1, <1>6 DEF Contains
  <2>2. i + 1 \in 1..k /\ i + 1 # 1 /\ s[i + 1] = n
    BY <1>1, <1>2, <2>1
  <2> QED BY <1>4, <1>5, <2>2 DEF Contains, k
<1>7. ASSUME NEW n, Contains(s, n), n # s[1] PROVE Contains(t, n)
  <2>1. PICK i \in 1..k : s[i] = n
    BY <1>7 DEF Contains, k
  <2>2. i - 1 \in 1..k - 1 /\ (i - 1) + 1 = i
    BY <1>3, <1>7, <2>1
  <2>3. t[i - 1] = n
    BY <1>1, <2>1, <2>2
  <2> QED BY <1>1, <2>2, <2>3 DEF Contains
<1>8. NoRepeats(t)
  <2> SUFFICES ASSUME NEW i \in 1..k - 1, NEW j \in 1..k - 1, t[i] = t[j] PROVE i = j
    BY <1>1 DEF NoRepeats
  <2>1. s[i + 1] = s[j + 1]
    BY <1>1
  <2>2. i + 1 = j + 1
    BY <1>2, <1>4, <2>1
  <2> QED BY <2>2
<1> QED BY <1>6, <1>7, <1>8 DEF t

\* The collector takes the candidates from the front.
LEMMA HeadContains ==
    ASSUME NEW S, NEW s \in Seq(S), s # <<>>, NoRepeats(s)
    PROVE  /\ Head(s) = s[1] /\ Head(s) \in S /\ Contains(s, Head(s))
           /\ Tail(s) \in Seq(S) /\ NoRepeats(Tail(s))
           /\ \A m : Contains(Tail(s), m) <=> Contains(s, m) /\ m # Head(s)
<1>1. Tail(s) \in Seq(S) /\ 1 \in 1..Len(s) /\ s[1] \in S /\ Head(s) = s[1]
  BY QueueTail
<1>2. NoRepeats(Tail(s)) /\ \A m : Contains(Tail(s), m) <=> Contains(s, m) /\ m # s[1]
  BY TailContains
<1>3. Contains(s, s[1])
  BY <1>1 DEF Contains
<1> QED BY <1>1, <1>2, <1>3

\* With an element in front of it a list contains that one, too.
LEMMA ConsContains ==
    ASSUME NEW S, NEW s \in Seq(S), NEW e \in S
    PROVE  /\ \A n : Contains(<<e>> \o s, n) <=> n = e \/ Contains(s, n)
           /\ NoRepeats(s) /\ ~Contains(s, e) => NoRepeats(<<e>> \o s)
<1> DEFINE t == <<e>> \o s
           k == Len(s)
<1>1. /\ k \in Nat /\ Len(t) = k + 1 /\ t[1] = e
      /\ \A i \in 1..k : t[i + 1] = s[i]
  BY QueueCons
<1> HIDE DEF t, k
<1>2. \A i \in 1..k + 1 : i = 1 \/ (i - 1 \in 1..k /\ (i - 1) + 1 = i)
  BY <1>1
<1>3. \A i \in 1..k : i + 1 \in 1..k + 1
  BY <1>1
<1>4. 1 \in 1..k + 1
  BY <1>1
<1>5. \A i \in 1..k + 1 : t[i] = e \/ (i - 1 \in 1..k /\ t[i] = s[i - 1])
  BY <1>1, <1>2
<1>6. \A n : Contains(t, n) <=> n = e \/ Contains(s, n)
  BY <1>1, <1>3, <1>4, <1>5 DEF Contains, k
<1>7. ASSUME NoRepeats(s), ~Contains(s, e) PROVE NoRepeats(t)
  <2> SUFFICES ASSUME NEW i \in 1..k + 1, NEW j \in 1..k + 1, t[i] = t[j] PROVE i = j
    BY <1>1 DEF NoRepeats
  <2>1. \A l \in 1..k : s[l] # e
    BY <1>7 DEF Contains, k
  <2>2. CASE i = 1
    BY <1>1, <1>2, <2>1, <2>2
  <2>3. CASE j = 1
    BY <1>1, <1>2, <2>1, <2>3
  <2>4. CASE i # 1 /\ j # 1
    <3>1. i - 1 \in 1..k /\ j - 1 \in 1..k /\ (i - 1) + 1 = i /\ (j - 1) + 1 = j
      BY <1>2, <2>4
    <3>2. s[i - 1] = s[j - 1]
      BY <1>1, <3>1
    <3>3. i - 1 = j - 1
      BY <1>7, <3>1, <3>2 DEF NoRepeats, k
    <3> QED BY <3>1, <3>3
  <2> QED BY <2>2, <2>3, <2>4
<1> QED BY <1>6, <1>7 DEF t

-----------------------------------------------------------------------------
(* Places of nodes.                                                        *)

\* The invariant that both theorems about the memory of the queue rest on.
MemoryInv == NoUseAfterFree /\ ReclaimInv

\* A thread either pushes or pops, and nullptr is neither a thread nor a node.
LEMMA QueueThreads ==
    /\ \A p \in Producers : p \in Threads /\ p \notin Consumers
    /\ \A c \in Consumers : c \in Threads /\ c \notin Producers
    /\ \A t \in Threads : t \in Producers \/ t \in Consumers
    /\ nullptr \notin Nodes /\ nullptr \notin Threads
    /\ Threads \subseteq Owners /\ nullptr \in Owners
    /\ {"list", "new", "taken", "retired", "detached"} = Places
    /\ CollectorLeft \in BOOLEAN
BY HazardAssumption, QueueAssumption DEF Threads, Owners, Places

\* Places have owners of their kind.
LEMMA PlaceOwners ==
    ASSUME NEW n, NEW a, NEW x, PlacedAt(n, a, x)
    PROVE  a \in Places /\ x \in Owners
BY QueueThreads DEF PlacedAt

\* The types of what the threads and the lists hold.
LEMMA QueueTypes ==
    ASSUME HazardTypeOK, QueueTypeOK
    PROVE  /\ Len(line) \in Nat
           /\ \A i \in 1..Len(line) : line[i] \in Nodes
           /\ \A n : InLine(n) => n \in Nodes
           /\ \A n \in Nodes : next[n] \in Nodes \union {nullptr}
           /\ \A t \in Threads : ptr[t] \in Nodes \union {nullptr}
           /\ \A p \in Producers : new_node[p] \in Nodes \union {nullptr}
           /\ \A c \in Consumers : /\ retired_ptrs[c] \in Seq(Nodes)
                                   /\ \A n : Contains(retired_ptrs[c], n) => n \in Nodes
           /\ candidates \in Seq(Nodes) /\ \A n : Contains(candidates, n) => n \in Nodes
<1>1. ASSUME NEW s \in Seq(Nodes) PROVE Len(s) \in Nat /\ \A i \in 1..Len(s) : s[i] \in Nodes
  BY <1>1, LenProperties, ElementOfSeq
<1>2. ASSUME NEW s \in Seq(Nodes), NEW n, Contains(s, n) PROVE n \in Nodes
  BY <1>1, <1>2 DEF Contains
<1>3. line \in Seq(Nodes) /\ candidates \in Seq(Nodes)
  BY DEF HazardTypeOK, QueueTypeOK
<1>4. \A c \in Consumers : retired_ptrs[c] \in Seq(Nodes)
  BY DEF HazardTypeOK
<1>5. \A n : (InLine(n) => n \in Nodes) /\ (Contains(candidates, n) => n \in Nodes)
  BY <1>2, <1>3 DEF InLine
<1>6. \A c \in Consumers : \A n : Contains(retired_ptrs[c], n) => n \in Nodes
  BY <1>2, <1>4
<1>7. Len(line) \in Nat /\ \A i \in 1..Len(line) : line[i] \in Nodes
  BY <1>1, <1>3
<1>8. /\ \A n \in Nodes : next[n] \in Nodes \union {nullptr}
      /\ \A t \in Threads : ptr[t] \in Nodes \union {nullptr}
      /\ \A p \in Producers : new_node[p] \in Nodes \union {nullptr}
  BY DEF QueueTypeOK
<1> QED BY <1>3, <1>4, <1>5, <1>6, <1>7, <1>8

\* What is at a place is a node or null.
LEMMA PlaceTypes ==
    ASSUME HazardTypeOK, QueueTypeOK, NEW n, NEW a, NEW x, PlacedAt(n, a, x)
    PROVE  n \in Nodes \union {nullptr}
BY QueueTypes, QueueThreads DEF PlacedAt

\* Whatever is at a place is allocated, and is at no other place.
LEMMA AtLive ==
    ASSUME ReclaimInv, NEW n, NEW a, NEW x, PlacedAt(n, a, x)
    PROVE  n \in live /\ n \in Nodes
BY PlaceTypes, PlaceOwners DEF ReclaimInv, PlaceInv, PlacedOnce, HazardTypeOK

\* A node has one place.
LEMMA AtOnce ==
    ASSUME ReclaimInv, NEW n, NEW a, NEW x, PlacedAt(n, a, x), NEW b, NEW y, PlacedAt(n, b, y)
    PROVE  a = b /\ x = y
BY AtLive, PlaceOwners DEF ReclaimInv, PlaceInv, PlacedOnce

\* The places, one by one.
LEMMA AtIntro ==
    /\ \A n : PlacedAt(n, "list", nullptr) <=> InLine(n)
    /\ \A p \in Producers : \A n : PlacedAt(n, "new", p) <=> HasNew(p) /\ new_node[p] = n
    /\ \A c \in Consumers : \A n : PlacedAt(n, "taken", c) <=> HasOld(c) /\ ptr[c] = n
    /\ \A c \in Consumers : \A n : PlacedAt(n, "retired", c) <=> Contains(retired_ptrs[c], n)
    /\ \A n : PlacedAt(n, "detached", nullptr) <=> Contains(candidates, n)
BY DEF PlacedAt

\* Each place has its kind of owner.
LEMMA AtElim ==
    ASSUME NEW n, NEW a, NEW x
    PROVE  PlacedAt(n, a, x) => \/ a = "list" /\ x = nullptr
                                \/ a = "new" /\ x \in Producers
                                \/ a \in {"taken", "retired"} /\ x \in Consumers
                                \/ a = "detached" /\ x = nullptr
BY DEF PlacedAt

\* Nodes of the list are allocated and with nobody.
LEMMA ListNodes ==
    ASSUME ReclaimInv, NEW n, InLine(n)
    PROVE  /\ n \in live /\ n \in Nodes /\ n # nullptr
           /\ \A p \in Producers : HasNew(p) => new_node[p] # n
           /\ \A c \in Consumers : HasOld(c) => ptr[c] # n
           /\ \A c \in Consumers : ~Contains(retired_ptrs[c], n)
           /\ ~Contains(candidates, n)
<1>1. PlacedAt(n, "list", nullptr)
  BY AtIntro
<1>2. n \in live /\ n \in Nodes
  BY <1>1, AtLive
<1>3. ASSUME NEW b, NEW y, PlacedAt(n, b, y) PROVE b = "list"
  BY <1>1, <1>3, AtOnce
<1>4. \A p \in Producers : ~PlacedAt(n, "new", p)
  BY <1>3
<1>5. \A c \in Consumers : ~PlacedAt(n, "taken", c) /\ ~PlacedAt(n, "retired", c)
  BY <1>3
<1>6. ~PlacedAt(n, "detached", nullptr)
  BY <1>3
<1> QED BY <1>2, <1>4, <1>5, <1>6, AtIntro, QueueThreads

\* Nodes outside the list are allocated, too.
LEMMA OwnedNodes ==
    ASSUME ReclaimInv
    PROVE  /\ \A p \in Producers : HasNew(p) => new_node[p] \in live
           /\ \A c \in Consumers : HasOld(c) => ptr[c] \in live
           /\ \A c \in Consumers : \A n : Contains(retired_ptrs[c], n) => n \in live
           /\ \A n : Contains(candidates, n) => n \in live
<1>1. \A n, a, x : PlacedAt(n, a, x) => n \in live
  BY AtLive
<1> QED BY <1>1, AtIntro

\* A step that moves no node keeps every node at its place.
LEMMA PlacesSame ==
    ASSUME PlacedOnce, live' = live, \A n, a, x : PlacedAt(n, a, x)' <=> PlacedAt(n, a, x)
    PROVE  PlacedOnce'
BY DEF PlacedOnce, Places, Owners, Threads

\* Node m moves from one place to another.
LEMMA PlaceMoves ==
    ASSUME PlacedOnce, live' = live,
           NEW m \in live, NEW b \in Places, NEW y \in Owners,
           \A n, a, x : n # m => (PlacedAt(n, a, x)' <=> PlacedAt(n, a, x)),
           \A a, x : PlacedAt(m, a, x)' <=> a = b /\ x = y
    PROVE  PlacedOnce'
<1>1. ASSUME NEW n \in Nodes \union {nullptr}, NEW a \in Places, NEW x \in Owners, PlacedAt(n, a, x)'
      PROVE  n \in live'
  BY <1>1 DEF PlacedOnce
<1>2. ASSUME NEW n \in live' PROVE \E a \in Places, x \in Owners : PlacedAt(n, a, x)'
  BY <1>2 DEF PlacedOnce
<1>3. ASSUME NEW n \in live', NEW a \in Places, NEW c \in Places, NEW x \in Owners, NEW z \in Owners,
             PlacedAt(n, a, x)', PlacedAt(n, c, z)'
      PROVE  a = c /\ x = z
  BY <1>3 DEF PlacedOnce
<1> QED BY <1>1, <1>2, <1>3 DEF PlacedOnce, Places, Owners, Threads

\* A new node m comes to a place.
LEMMA PlaceComes ==
    ASSUME PlacedOnce, NEW m \in Nodes \ live, NEW b \in Places, NEW y \in Owners,
           live' = live \union {m},
           \A n, a, x : n # m => (PlacedAt(n, a, x)' <=> PlacedAt(n, a, x)),
           \A a, x : PlacedAt(m, a, x)' <=> a = b /\ x = y
    PROVE  PlacedOnce'
<1>1. ASSUME NEW n \in Nodes \union {nullptr}, NEW a \in Places, NEW x \in Owners, PlacedAt(n, a, x)'
      PROVE  n \in live'
  BY <1>1 DEF PlacedOnce
<1>2. ASSUME NEW n \in live' PROVE \E a \in Places, x \in Owners : PlacedAt(n, a, x)'
  BY <1>2 DEF PlacedOnce
<1>3. ASSUME NEW n \in live', NEW a \in Places, NEW c \in Places, NEW x \in Owners, NEW z \in Owners,
             PlacedAt(n, a, x)', PlacedAt(n, c, z)'
      PROVE  a = c /\ x = z
  BY <1>3 DEF PlacedOnce
<1> QED BY <1>1, <1>2, <1>3 DEF PlacedOnce, Places, Owners, Threads

\* Node m is deleted.
LEMMA PlaceGoes ==
    ASSUME PlacedOnce, NEW m, live' = live \ {m},
           \A n, a, x : PlacedAt(n, a, x)' <=> PlacedAt(n, a, x) /\ n # m
    PROVE  PlacedOnce'
<1>1. ASSUME NEW n \in Nodes \union {nullptr}, NEW a \in Places, NEW x \in Owners, PlacedAt(n, a, x)'
      PROVE  n \in live'
  BY <1>1 DEF PlacedOnce
<1>2. ASSUME NEW n \in live' PROVE \E a \in Places, x \in Owners : PlacedAt(n, a, x)'
  BY <1>2 DEF PlacedOnce
<1>3. ASSUME NEW n \in live', NEW a \in Places, NEW c \in Places, NEW x \in Owners, NEW z \in Owners,
             PlacedAt(n, a, x)', PlacedAt(n, c, z)'
      PROVE  a = c /\ x = z
  BY <1>3 DEF PlacedOnce
<1> QED BY <1>1, <1>2, <1>3 DEF PlacedOnce, Places, Owners, Threads

\* All nodes at one place move to another, which is empty.
LEMMA PlaceEmpties ==
    ASSUME PlacedOnce, live' = live,
           NEW b \in Places, NEW y \in Owners, NEW c \in Places, NEW z \in Owners,
           <<b, y>> # <<c, z>>,
           \A n : ~PlacedAt(n, c, z),
           \A n, a, x : PlacedAt(n, a, x)' <=> IF a = c /\ x = z THEN PlacedAt(n, b, y)
                                               ELSE PlacedAt(n, a, x) /\ ~(a = b /\ x = y)
    PROVE  PlacedOnce'
<1>1. ASSUME NEW n \in Nodes \union {nullptr}, NEW a \in Places, NEW x \in Owners, PlacedAt(n, a, x)'
      PROVE  n \in live'
  BY <1>1 DEF PlacedOnce
<1>2. ASSUME NEW n \in live' PROVE \E a \in Places, x \in Owners : PlacedAt(n, a, x)'
  <2>1. PICK a \in Places, x \in Owners : PlacedAt(n, a, x)
    BY <1>2 DEF PlacedOnce
  <2>2. CASE a = b /\ x = y
    BY <2>1, <2>2
  <2>3. CASE ~(a = b /\ x = y)
    BY <2>1, <2>3
  <2> QED BY <2>2, <2>3
<1>3. ASSUME NEW n \in live', NEW a \in Places, NEW d \in Places, NEW x \in Owners, NEW w \in Owners,
             PlacedAt(n, a, x)', PlacedAt(n, d, w)'
      PROVE  a = d /\ x = w
  BY <1>3 DEF PlacedOnce
<1> QED BY <1>1, <1>2, <1>3 DEF PlacedOnce, Places, Owners, Threads

-----------------------------------------------------------------------------
(* Steps that change no node.                                              *)

\* A queue that is not being destroyed has a first node.
LEMMA QueueNotEmpty ==
    ASSUME ReclaimInv, ~gone
    PROVE  /\ line \in Seq(Nodes) /\ line # <<>>
           /\ Len(line) \in Nat \ {0} /\ 1 \in 1..Len(line) /\ Len(line) \in 1..Len(line)
           /\ head = line[1] /\ head \in Nodes /\ InLine(head) /\ InLine(tail)
           /\ dpc = "alive"
<1>1. InLine(tail) /\ dpc = "alive"
  BY DEF ReclaimInv, LineInv, HazardTypeOK
<1>2. PICK i \in 1..Len(line) : line[i] = tail
  BY <1>1 DEF InLine, Contains
<1>3. line \in Seq(Nodes) /\ Len(line) \in Nat
  BY QueueTypes DEF ReclaimInv, QueueTypeOK
<1>4. Len(line) \in Nat \ {0} /\ 1 \in 1..Len(line) /\ Len(line) \in 1..Len(line)
  BY <1>2, <1>3
<1>5. line # <<>>
  BY <1>3, <1>4, EmptySeq
<1>6. head = line[1]
  BY <1>5 DEF ReclaimInv, LineInv
<1>7. InLine(head) /\ head \in Nodes
  BY <1>3, <1>4, <1>6, ElementOfSeq DEF InLine, Contains
<1> QED BY <1>1, <1>3, <1>4, <1>5, <1>6, <1>7

\* The link of a node of the list leads to the node behind it.
LEMMA LinkInList ==
    ASSUME ReclaimInv, NEW n, InLine(n)
    PROVE  \/ n = line[Len(line)] /\ next[n] = nullptr
           \/ \E i \in 1..Len(line) - 1 : n = line[i] /\ next[n] = line[i + 1] /\ next[n] \in Nodes
<1>1. PICK i \in 1..Len(line) : line[i] = n
  BY DEF InLine, Contains
<1>2. Len(line) \in Nat /\ \A j \in 1..Len(line) : line[j] \in Nodes
  BY QueueTypes DEF ReclaimInv
<1>3. next[n] = IF i = Len(line) THEN nullptr ELSE line[i + 1]
  BY <1>1 DEF ReclaimInv, LineInv
<1>4. CASE i = Len(line)
  BY <1>1, <1>3, <1>4
<1>5. CASE i # Len(line)
  <2>1. i \in 1..Len(line) - 1 /\ i + 1 \in 1..Len(line)
    BY <1>2, <1>5
  <2> QED BY <1>1, <1>2, <1>3, <1>5, <2>1
<1> QED BY <1>4, <1>5

\* A step of thread t leaves the locals of the other threads alone ...
LocalsSame(t) ==
    /\ \A u \in Threads : u # t => pc'[u] = pc[u] /\ ptr'[u] = ptr[u]
    /\ \A p \in Producers : p # t => new_node'[p] = new_node[p]

\* ... and moves tail to the next node if at all.
TailMoves ==
    \/ tail' = tail
    \/ \E i \in 1..Len(line) - 1 : tail = line[i] /\ tail' = line[i + 1]

\* What a step that changes no node has to show.
CalmStep(t) ==
    /\ ~gone /\ NoUseAfterFree' /\ HazardTypeOK' /\ QueueTypeOK' /\ MutatorInv'
    /\ LocalsSame(t) /\ TailMoves
    /\ UNCHANGED <<head, next, value, gone, line, live, retired_ptrs, candidates, cpc, dpc>>
    /\ t \in Producers => /\ HasNew(t)' <=> HasNew(t)
                          /\ HasNew(t) => new_node'[t] = new_node[t]
                          /\ pc'[t] # "swing"
                          /\ PushKnows(t)'
    /\ t \in Consumers => /\ HasOld(t)' <=> HasOld(t)
                          /\ HasOld(t) => ptr'[t] = ptr[t]
                          /\ PopKnows(t)'
    /\ CollectorLeft \/ PairInv'

\* Such a step keeps the list as it is.
LEMMA CalmStepLine ==
    ASSUME ReclaimInv, NEW t \in Threads, CalmStep(t)
    PROVE  LineInv'
<1>1. /\ gone' = gone /\ ~gone /\ line' = line /\ next' = next /\ head' = head /\ dpc' = dpc
      /\ value' = value
  BY DEF CalmStep
<1>2. dpc = "alive" /\ InLine(tail) /\ Len(line) \in Nat
  BY <1>1, QueueNotEmpty
<1>3. InLine(tail)'
  <2>1. CASE tail' = tail
    BY <1>1, <1>2, <2>1 DEF InLine
  <2>2. CASE \E i \in 1..Len(line) - 1 : tail = line[i] /\ tail' = line[i + 1]
    <3>1. PICK i \in 1..Len(line) - 1 : tail = line[i] /\ tail' = line[i + 1]
      BY <2>2
    <3>2. i + 1 \in 1..Len(line)
      BY <1>2
    <3> QED BY <1>1, <3>1, <3>2 DEF InLine, Contains
  <2> QED BY <2>1, <2>2 DEF CalmStep, TailMoves
<1> QED BY <1>1, <1>2, <1>3 DEF ReclaimInv, LineInv, NoRepeats

\* It moves no node.
LEMMA CalmStepPlaces ==
    ASSUME ReclaimInv, NEW t \in Threads, CalmStep(t)
    PROVE  PlaceInv'
<1>1. live' = live /\ line' = line /\ retired_ptrs' = retired_ptrs /\ candidates' = candidates
  BY DEF CalmStep
<1>2. \A p \in Producers : (HasNew(p)' <=> HasNew(p)) /\ (HasNew(p) => new_node'[p] = new_node[p])
  BY QueueThreads DEF CalmStep, LocalsSame, HasNew
<1>3. \A c \in Consumers : (HasOld(c)' <=> HasOld(c)) /\ (HasOld(c) => ptr'[c] = ptr[c])
  BY QueueThreads DEF CalmStep, LocalsSame, HasOld
<1>4. ASSUME NEW n, NEW a, NEW x PROVE PlacedAt(n, a, x)' <=> PlacedAt(n, a, x)
  <2>1. CASE a = "list"
    BY <1>1, <2>1 DEF PlacedAt, InLine
  <2>2. CASE a = "new"
    BY <1>2, <2>2 DEF PlacedAt
  <2>3. CASE a = "taken"
    BY <1>3, <2>3 DEF PlacedAt
  <2>4. CASE a = "retired" \/ a = "detached"
    BY <1>1, <2>4 DEF PlacedAt
  <2> QED BY <2>1, <2>2, <2>3, <2>4 DEF PlacedAt
<1>5. PlacedOnce'
  BY <1>1, <1>4, PlacesSame DEF ReclaimInv, PlaceInv
<1> QED BY <1>1, <1>5 DEF ReclaimInv, PlaceInv

\* The other threads know what they knew.
LEMMA CalmStepKnows ==
    ASSUME ReclaimInv, NEW t \in Threads, CalmStep(t)
    PROVE  /\ \A p \in Producers : PushKnows(p)'
           /\ \A c \in Consumers : PopKnows(c)'
<1>1. next' = next /\ head' = head /\ value' = value /\ ~gone /\ line' = line /\ live' = live
  BY DEF CalmStep
<1>2. \A n : Known(n)' <=> Known(n)
  BY <1>1 DEF Known, InLine
<1>3. \A n : InLine(n)' <=> InLine(n)
  BY <1>1 DEF InLine
<1>4. tail # head => tail' # head
  <2>1. Len(line) \in Nat \ {0} /\ 1 \in 1..Len(line) /\ head = line[1]
    BY <1>1, QueueNotEmpty
  <2>2. \A k, l \in 1..Len(line) : line[k] = line[l] => k = l
    BY DEF ReclaimInv, LineInv, NoRepeats
  <2>3. \A i \in 1..Len(line) - 1 : line[i + 1] # line[1]
    BY <2>1, <2>2
  <2> QED BY <2>1, <2>3 DEF CalmStep, TailMoves
<1>5. ASSUME NEW p \in Producers, p # t
      PROVE  PushKnows(p)'
  <2>1. PushKnows(p) /\ pc'[p] = pc[p] /\ ptr'[p] = ptr[p] /\ new_node'[p] = new_node[p]
    BY <1>5, QueueThreads DEF CalmStep, LocalsSame, ReclaimInv
  <2>2. HasNew(p)' <=> HasNew(p)
    BY <2>1 DEF HasNew
  <2>3. Known(ptr[p])' <=> Known(ptr[p])
    BY <1>1, <2>1 DEF Known, InLine
  <2> QED BY <1>1, <2>1, <2>2, <2>3 DEF PushKnows
<1>6. ASSUME NEW c \in Consumers, c # t
      PROVE  PopKnows(c)'
  <2>1. PopKnows(c) /\ pc'[c] = pc[c] /\ ptr'[c] = ptr[c]
    BY <1>6, QueueThreads DEF CalmStep, LocalsSame, ReclaimInv
  <2>2. Known(ptr[c])' <=> Known(ptr[c])
    BY <1>1, <2>1 DEF Known, InLine
  <2>3. InLine(ptr[c])' <=> InLine(ptr[c])
    BY <1>1, <2>1 DEF InLine
  <2> QED BY <1>1, <1>4, <2>1, <2>2, <2>3 DEF PopKnows
<1> QED BY <1>5, <1>6 DEF CalmStep

\* Altogether: a step that changes no node keeps the invariant.
LEMMA CalmStepKeeps ==
    ASSUME ReclaimInv, NEW t \in Threads, CalmStep(t)
    PROVE  MemoryInv'
<1>1. HazardTypeOK' /\ QueueTypeOK' /\ MutatorInv' /\ NoUseAfterFree'
  BY DEF CalmStep
<1>2. LineInv' /\ PlaceInv'
  BY CalmStepLine, CalmStepPlaces
<1>3. NothingLeaks'
  <2>1. dpc = "alive" /\ dpc' = dpc
    BY QueueNotEmpty DEF CalmStep
  <2> QED BY <2>1 DEF NothingLeaks
<1>4. CollectorLeft => KeptInv'
  <2> SUFFICES ASSUME CollectorLeft PROVE KeptInv'
    OBVIOUS
  <2>1. KeptInv
    BY DEF ReclaimInv
  <2>2. cpc' = cpc /\ live' = live /\ next' = next /\ gone' = gone
    BY DEF CalmStep
  <2>3. \A p \in Producers : pc'[p] = "swing" => pc[p] = "swing" /\ ptr'[p] = ptr[p]
    BY QueueThreads DEF CalmStep, LocalsSame
  <2> QED BY <2>1, <2>2, <2>3 DEF KeptInv
<1>5. IF CollectorLeft THEN KeptInv' ELSE PairInv'
  BY <1>4 DEF CalmStep
<1> QED BY <1>1, <1>2, <1>3, <1>5, CalmStepKnows DEF MemoryInv, ReclaimInv

\* A step of a producer leaves the books of the mutators alone.
LEMMA PushMutators ==
    ASSUME ReclaimInv, NEW p \in Producers, LocalsSame(p),
           UNCHANGED <<mutatorVars, retired_ptrs, approximate_free_list_size, cancel_collect,
                       collectorVars, dpc>>,
           live' \subseteq Nodes
    PROVE  MutatorInv' /\ HazardTypeOK'
<1>1. \A c \in Consumers : pc'[c] = pc[c]
  BY QueueThreads DEF LocalsSame
<1>2. {c \in Consumers : pc[c] \notin {"idle", "inserted"}}'
        = {c \in Consumers : pc[c] \notin {"idle", "inserted"}}
  BY <1>1
<1>3. MutatorInv'
  BY <1>1, <1>2 DEF ReclaimInv, MutatorInv, mutatorVars, collectorVars
<1>4. HazardTypeOK'
  BY DEF ReclaimInv, HazardTypeOK, mutatorVars, collectorVars
<1> QED BY <1>3, <1>4

\* A step of a consumer that has a mutator and keeps it.
LEMMA PopMutators ==
    ASSUME ReclaimInv, NEW c \in Consumers, LocalsSame(c),
           pc[c] \notin {"idle", "inserted"}, pc'[c] \notin {"idle", "inserted"},
           UNCHANGED <<threads, mutators_count, collectorVars>>,
           \A d \in Consumers : d # c => /\ protected_ptr'[d] = protected_ptr[d]
                                       /\ retired_ptrs'[d] = retired_ptrs[d]
    PROVE  MutatorInv'
<1>1. \A d \in Consumers : d # c => pc'[d] = pc[d]
  BY QueueThreads DEF LocalsSame
<1>2. {d \in Consumers : pc[d] \notin {"idle", "inserted"}}'
        = {d \in Consumers : pc[d] \notin {"idle", "inserted"}}
  BY <1>1
<1>3. MutatorInv
  BY DEF ReclaimInv
<1>4. ASSUME NEW d \in Consumers
      PROVE  /\ pc'[d] # "idle" \/ retired_ptrs'[d] # <<>> => d \in threads'
             /\ pc'[d] = "idle" => protected_ptr'[d] = nullptr
  BY <1>1, <1>3 DEF MutatorInv
<1> QED BY <1>2, <1>3, <1>4 DEF MutatorInv, collectorVars

\* A compare-exchange of tail moves it to the node behind.
LEMMA SwingMoves ==
    ASSUME ReclaimInv, ~gone, NEW n \in Nodes, next[tail] = n, tail' = n
    PROVE  TailMoves
<1>1. InLine(tail) /\ n # nullptr
  BY QueueNotEmpty, QueueThreads
<1> QED BY <1>1, LinkInList DEF TailMoves

\* What a step of Push that changes no node has to show.
PushCalm(p) ==
    /\ pc[p] # "idle" /\ pc'[p] # "swing" /\ faults' = {} /\ QueueTypeOK' /\ LocalsSame(p) /\ TailMoves
    /\ UNCHANGED <<live, mutatorVars, retired_ptrs, approximate_free_list_size, cancel_collect,
                   collectorVars, dpc>>
    /\ UNCHANGED <<head, next, value, gone, line>>
    /\ HasNew(p)' <=> HasNew(p)
    /\ HasNew(p) => new_node'[p] = new_node[p]
    /\ PushKnows(p)'
    /\ CollectorLeft \/ PushPaired(p)'

\* Such a step keeps the invariant.
LEMMA PushCalmKeeps ==
    ASSUME MemoryInv, CollectorLeft \/ OneEach, NEW p \in Producers, PushCalm(p)
    PROVE  MemoryInv'
<1>1. ReclaimInv /\ p \in Threads /\ p \notin Consumers
  BY QueueThreads DEF MemoryInv
<1>2. ~gone
  BY <1>1 DEF ReclaimInv, LineInv, PushCalm
<1>3. MutatorInv' /\ HazardTypeOK'
  BY <1>1, PushMutators DEF PushCalm, ReclaimInv, HazardTypeOK
<1>4. CollectorLeft \/ PairInv'
  <2> SUFFICES ASSUME ~CollectorLeft PROVE PairInv'
    OBVIOUS
  <2>1. PairInv
    BY <1>1 DEF ReclaimInv
  <2>2. \A q \in Producers : q = p
    BY DEF OneEach
  <2>3. PushPaired(p)'
    BY DEF PushCalm
  <2>4. ASSUME NEW c \in Consumers PROVE PopPaired(c)'
    BY <2>1, QueueThreads DEF PairInv, PopPaired, LocalsSame, PushCalm
  <2> QED BY <2>2, <2>3, <2>4 DEF PairInv
<1>5. CalmStep(p)
  BY <1>1, <1>2, <1>3, <1>4 DEF PushCalm, CalmStep, NoUseAfterFree, collectorVars
<1> QED BY <1>1, <1>5, CalmStepKeeps

\* Push loads tail, and the link of the node it points to.
LEMMA PushReads ==
    ASSUME MemoryInv, CollectorLeft \/ OneEach, NEW p \in Producers, PushLoad(p) \/ PushNext(p)
    PROVE  MemoryInv'
<1> USE QueueThreads DEF nodeVars, ThreadGoto
<1>0. ReclaimInv /\ HazardTypeOK /\ QueueTypeOK /\ PushKnows(p) /\ p \in Threads /\ faults = {}
  BY DEF MemoryInv, ReclaimInv, NoUseAfterFree
<1>1. ~gone
  BY <1>0 DEF ReclaimInv, LineInv, PushLoad, PushNext
<1>2. InLine(tail) /\ tail \in live
  BY <1>0, <1>1, QueueNotEmpty, ListNodes
<1>3. ~CollectorLeft => PushPaired(p)
  BY <1>0, <1>1 DEF ReclaimInv, PairInv
<1>4. CASE PushLoad(p)
  <2>1. /\ pc[p] = "load" /\ pc' = [pc EXCEPT ![p] = "next"] /\ ptr' = [ptr EXCEPT ![p] = tail]
        /\ UNCHANGED <<hazardVars, head, tail, next, value, gone, line, new_node, pushes, result>>
    BY <1>4 DEF PushLoad
  <2>2. UNCHANGED <<live, faults, mutatorVars, retired_ptrs, approximate_free_list_size,
                    cancel_collect, collectorVars, dpc>>
    BY <2>1 DEF hazardVars
  <2>3. QueueTypeOK' /\ LocalsSame(p) /\ pc'[p] = "next" /\ ptr'[p] = tail
    BY <1>0, <2>1 DEF QueueTypeOK, LocalsSame
  <2>4. Known(ptr[p])'
    BY <1>2, <2>1, <2>2, <2>3 DEF Known, InLine
  <2>5. PushKnows(p)'
    BY <1>0, <2>1, <2>3, <2>4 DEF PushKnows, HasNew
  <2>6. CollectorLeft \/ PushPaired(p)'
    BY <1>3, <2>1, <2>3 DEF PushPaired
  <2>7. PushCalm(p)
    BY <1>0, <2>1, <2>2, <2>3, <2>5, <2>6 DEF PushCalm, TailMoves, HasNew
  <2> QED BY <2>7, PushCalmKeeps
<1>5. CASE PushNext(p)
  <2>1. /\ pc[p] = "next" /\ UNCHANGED <<head, tail, next, value, gone, line, ptr, new_node, pushes, result>>
        /\ pc' = [pc EXCEPT ![p] = IF next[ptr[p]] # nullptr THEN "help" ELSE "link"]
    BY <1>5 DEF PushNext
  <2>2. /\ UNCHANGED <<live, mutatorVars, retired_ptrs, approximate_free_list_size,
                       cancel_collect, collectorVars, dpc>>
        /\ Known(ptr[p])
    BY <1>0, <1>5, <2>1 DEF PushNext, KeepAllButFaults, PushKnows
  <2>3. /\ QueueTypeOK' /\ LocalsSame(p)
        /\ pc'[p] = IF next[ptr[p]] # nullptr THEN "help" ELSE "link"
    BY <1>0, <2>1 DEF QueueTypeOK, LocalsSame
  <2>4. Known(ptr[p])'
    BY <2>1, <2>2 DEF Known, InLine
  <2>5. PushKnows(p)'
    BY <1>0, <2>1, <2>3, <2>4 DEF PushKnows, HasNew
  <2>6. CollectorLeft \/ PushPaired(p)'
    <3> SUFFICES ASSUME ~CollectorLeft PROVE PushPaired(p)'
      OBVIOUS
    <3>1. ptr[p] = tail /\ tail = line[Len(line)]
      BY <1>3, <2>1 DEF PushPaired
    <3>2. Len(line) \in 1..Len(line)
      BY <1>0, <1>1, QueueNotEmpty
    <3>3. next[ptr[p]] = nullptr
      BY <1>0, <3>1, <3>2 DEF ReclaimInv, LineInv
    <3> QED BY <2>1, <2>3, <3>1, <3>3 DEF PushPaired
  <2>7. faults' = {}
    BY <1>0, <1>5, <2>2 DEF PushNext, Touch, Known
  <2>8. PushCalm(p)
    BY <2>1, <2>2, <2>3, <2>5, <2>6, <2>7 DEF PushCalm, TailMoves, HasNew
  <2> QED BY <2>8, PushCalmKeeps
<1> QED BY <1>4, <1>5

\* Push helps another Push, fails to link its node, or swings tail to it.
LEMMA PushMovesTail ==
    ASSUME MemoryInv, CollectorLeft \/ OneEach, NEW p \in Producers,
           PushHelp(p) \/ (PushLink(p) /\ UNCHANGED <<next, line>> /\ pc'[p] = "load") \/ PushSwing(p)
    PROVE  MemoryInv'
<1> USE QueueThreads DEF ThreadGoto
<1>0. ReclaimInv /\ HazardTypeOK /\ QueueTypeOK /\ PushKnows(p) /\ p \in Threads /\ faults = {}
  BY DEF MemoryInv, ReclaimInv, NoUseAfterFree
<1>1. ~gone
  BY <1>0 DEF ReclaimInv, LineInv, PushHelp, PushLink, PushSwing
<1>2. tail \in Nodes
  BY <1>0 DEF QueueTypeOK
<1>3. ~CollectorLeft => PushPaired(p)
  BY <1>0, <1>1 DEF ReclaimInv, PairInv
<1>4. CASE PushHelp(p)
  <2>1. /\ pc[p] = "help" /\ pc' = [pc EXCEPT ![p] = "load"]
        /\ UNCHANGED <<head, next, value, gone, line, ptr, new_node, pushes, result>>
        /\ tail' = tail \/ (tail = ptr[p] /\ tail' = next[ptr[p]])
    BY <1>4 DEF PushHelp
  <2>2. /\ UNCHANGED <<live, mutatorVars, retired_ptrs, approximate_free_list_size,
                       cancel_collect, collectorVars, dpc>>
        /\ Known(ptr[p]) /\ next[ptr[p]] # nullptr /\ CollectorLeft
    BY <1>0, <1>3, <1>4, <2>1 DEF PushHelp, KeepAllButFaults, PushKnows, PushPaired
  <2>3. tail = ptr[p] => next[ptr[p]] \in Nodes
    BY <1>0, <1>2, <2>2, QueueTypes
  <2>4. TailMoves /\ tail' \in Nodes
    BY <1>0, <1>1, <1>2, <2>1, <2>3, SwingMoves DEF TailMoves
  <2>5. QueueTypeOK' /\ LocalsSame(p) /\ pc'[p] = "load"
    BY <1>0, <2>1, <2>4 DEF QueueTypeOK, LocalsSame
  <2>6. PushKnows(p)'
    BY <1>0, <2>1, <2>5 DEF PushKnows, HasNew
  <2>7. faults' = {}
    BY <1>0, <1>4, <2>2 DEF PushHelp, Touch, Known
  <2>8. PushCalm(p)
    BY <2>1, <2>2, <2>4, <2>5, <2>6, <2>7 DEF PushCalm, HasNew
  <2> QED BY <2>8, PushCalmKeeps
<1>5. CASE PushLink(p) /\ UNCHANGED <<next, line>> /\ pc'[p] = "load"
  <2>1. /\ pc[p] = "link" /\ pc' = [pc EXCEPT ![p] = "load"]
        /\ UNCHANGED <<head, tail, next, value, gone, line, ptr, new_node, pushes, result>>
    BY <1>0, <1>5 DEF PushLink, QueueTypeOK
  <2>2. /\ UNCHANGED <<live, mutatorVars, retired_ptrs, approximate_free_list_size,
                       cancel_collect, collectorVars, dpc>>
        /\ Known(ptr[p])
    BY <1>0, <1>5, <2>1 DEF PushLink, KeepAllButFaults, PushKnows
  <2>3. QueueTypeOK' /\ LocalsSame(p) /\ pc'[p] = "load"
    BY <1>0, <2>1 DEF QueueTypeOK, LocalsSame
  <2>4. PushKnows(p)'
    BY <1>0, <2>1, <2>3 DEF PushKnows, HasNew
  <2>5. CollectorLeft \/ PushPaired(p)'
    BY <1>3, <2>1, <2>3 DEF PushPaired
  <2>6. faults' = {}
    BY <1>0, <1>5, <2>2 DEF PushLink, Touch, Known
  <2>7. PushCalm(p)
    BY <2>1, <2>2, <2>3, <2>4, <2>5, <2>6 DEF PushCalm, HasNew, TailMoves
  <2> QED BY <2>7, PushCalmKeeps
<1>6. CASE PushSwing(p)
  <2>1. /\ pc[p] = "swing" /\ pc' = [pc EXCEPT ![p] = "idle"]
        /\ tail' = IF tail = ptr[p] THEN new_node[p] ELSE tail
        /\ ptr' = [ptr EXCEPT ![p] = nullptr] /\ new_node' = [new_node EXCEPT ![p] = nullptr]
        /\ pushes' = [pushes EXCEPT ![p] = @ + 1]
        /\ UNCHANGED <<hazardVars, head, next, value, gone, line, result>>
    BY <1>6 DEF PushSwing
  <2>2. UNCHANGED <<live, faults, mutatorVars, retired_ptrs, approximate_free_list_size,
                    cancel_collect, collectorVars, dpc>>
    BY <2>1 DEF hazardVars
  <2>3. new_node[p] \in Nodes /\ next[ptr[p]] = new_node[p]
    BY <1>0, <2>1 DEF PushKnows
  <2>4. TailMoves /\ tail' \in Nodes
    BY <1>0, <1>1, <1>2, <2>1, <2>3, SwingMoves DEF TailMoves
  <2>5. pushes' \in [Producers -> 0..MaxPushes] /\ \A q \in Producers : q # p => pushes'[q] = pushes[q]
    <3>1. pushes[p] + 1 \in 0..MaxPushes
      <4>1. pushes[p] \in 0..MaxPushes /\ pushes[p] < MaxPushes
        BY <1>0, <2>1 DEF QueueTypeOK
      <4>2. MaxPushes \in Nat
        BY QueueAssumption
      <4> QED BY <4>1, <4>2
    <3> QED BY <1>0, <2>1, <3>1 DEF QueueTypeOK
  <2>6. QueueTypeOK' /\ LocalsSame(p) /\ pc'[p] = "idle"
    BY <1>0, <2>1, <2>4, <2>5 DEF QueueTypeOK, LocalsSame
  <2>7. PushKnows(p)'
    BY <2>6 DEF PushKnows, HasNew
  <2>8. CollectorLeft \/ PushPaired(p)'
    BY <1>3, <2>1, <2>6 DEF PushPaired
  <2>9. PushCalm(p)
    BY <1>0, <2>1, <2>2, <2>4, <2>6, <2>7, <2>8 DEF PushCalm, HasNew
  <2> QED BY <2>9, PushCalmKeeps
<1> QED BY <1>4, <1>5, <1>6

\* What a step of a consumer that changes no node has to show.
PopCalm(c) ==
    /\ ~gone /\ faults' = {} /\ HazardTypeOK' /\ QueueTypeOK' /\ MutatorInv'
    /\ LocalsSame(c) /\ TailMoves
    /\ UNCHANGED <<head, next, value, gone, line, live, retired_ptrs, collectorVars, dpc>>
    /\ HasOld(c)' <=> HasOld(c)
    /\ HasOld(c) => ptr'[c] = ptr[c]
    /\ PopKnows(c)'
    /\ CollectorLeft \/ PopPaired(c)'
    /\ CollectorLeft \/ tail' = tail \/ \A p \in Producers : PushPaired(p)'

\* Such a step keeps the invariant.
LEMMA PopCalmKeeps ==
    ASSUME MemoryInv, CollectorLeft \/ OneEach, NEW c \in Consumers, PopCalm(c)
    PROVE  MemoryInv'
<1>1. ReclaimInv /\ c \in Threads /\ c \notin Producers /\ ~gone
  BY QueueThreads DEF MemoryInv, PopCalm
<1>2. CollectorLeft \/ PairInv'
  <2> SUFFICES ASSUME ~CollectorLeft PROVE PairInv'
    OBVIOUS
  <2>1. PairInv
    BY <1>1 DEF ReclaimInv
  <2>2. \A d \in Consumers : d = c
    BY DEF OneEach
  <2>3. PopPaired(c)'
    BY DEF PopCalm
  <2>4. ASSUME NEW p \in Producers PROVE PushPaired(p)'
    <3>1. CASE tail' = tail
      <4>1. PushPaired(p) /\ pc'[p] = pc[p] /\ ptr'[p] = ptr[p] /\ new_node'[p] = new_node[p]
        BY <1>1, <2>1, QueueThreads DEF PairInv, LocalsSame, PopCalm
      <4> QED BY <3>1, <4>1 DEF PushPaired, PopCalm
    <3> QED BY <3>1 DEF PopCalm
  <2> QED BY <2>2, <2>3, <2>4 DEF PairInv
<1>3. CalmStep(c)
  BY <1>1, <1>2 DEF PopCalm, CalmStep, NoUseAfterFree, collectorVars
<1> QED BY <1>1, <1>3, CalmStepKeeps

\* A consumer makes a mutator, and destroys it.
LEMMA PopMutatorSteps ==
    ASSUME MemoryInv, CollectorLeft \/ OneEach, NEW c \in Consumers,
           PopMakeMutator(c) \/ PopCountMutator(c) \/ PopRegisterThread(c) \/ PopDestroyMutator(c)
    PROVE  MemoryInv'
<1> USE QueueThreads DEF nodeVars, mutatorVars, collectorVars, ThreadGoto
<1> DEFINE users == {d \in Consumers : pc[d] \notin {"idle", "inserted"}}
<1>0. /\ ReclaimInv /\ HazardTypeOK /\ QueueTypeOK /\ MutatorInv /\ c \in Threads /\ c \notin Producers
      /\ faults = {}
  BY DEF MemoryInv, ReclaimInv, NoUseAfterFree
<1>1. ~gone
  BY <1>0 DEF ReclaimInv, LineInv, PopMakeMutator, PopCountMutator, PopRegisterThread, PopDestroyMutator
<1>2. /\ UNCHANGED <<head, tail, next, value, gone, line, ptr, new_node, pushes, result>>
      /\ UNCHANGED <<live, faults, retired_ptrs, approximate_free_list_size, cancel_collect,
                     cpc, snapshot, todo, current, candidates, dpc>>
  BY DEF PopMakeMutator, MakeMutator, PopCountMutator, CountMutator, PopRegisterThread,
         RegisterThread, hazardVars, PopDestroyMutator, DestroyMutator
<1>3. users \subseteq Consumers /\ IsFiniteSet(users) /\ mutators_count = Cardinality(users)
  BY <1>0, HazardAssumption, FS_Subset DEF MutatorInv
<1>4. ASSUME NEW from, NEW to, pc[c] = from, pc' = [pc EXCEPT ![c] = to],
             from \in {"idle", "inserted", "counted", "ready"},
             to \in {"idle", "inserted", "counted", "ready"}
      PROVE  /\ QueueTypeOK' /\ LocalsSame(c) /\ TailMoves /\ pc'[c] = to
             /\ ~HasOld(c) /\ ~HasOld(c)' /\ PopKnows(c)' /\ PopPaired(c)'
             /\ \A d \in Consumers : d # c => pc'[d] = pc[d]
  <2>1. pc'[c] = to /\ \A u \in Threads : u # c => pc'[u] = pc[u]
    BY <1>0, <1>4 DEF QueueTypeOK
  <2>2. QueueTypeOK'
    BY <1>0, <1>2, <1>4 DEF QueueTypeOK
  <2>3. LocalsSame(c) /\ TailMoves
    BY <1>2, <2>1 DEF LocalsSame, TailMoves
  <2> QED BY <1>4, <2>1, <2>2, <2>3 DEF HasOld, PopKnows, PopPaired
<1>5. ASSUME NEW from, NEW to, pc[c] = from, pc' = [pc EXCEPT ![c] = to],
             from \in {"idle", "inserted", "counted", "ready"},
             to \in {"idle", "inserted", "counted", "ready"},
             MutatorInv', HazardTypeOK'
      PROVE  MemoryInv'
  <2>1. PopCalm(c)
    BY <1>0, <1>1, <1>2, <1>4, <1>5 DEF PopCalm
  <2> QED BY <2>1, PopCalmKeeps
<1>6. CASE PopMakeMutator(c)
  <2>1. /\ pc[c] = "idle" /\ pc' = [pc EXCEPT ![c] = "inserted"] /\ threads' = threads \union {c}
        /\ UNCHANGED <<protected_ptr, mutators_count>>
    BY <1>6 DEF PopMakeMutator, MakeMutator
  <2>2. pc'[c] = "inserted" /\ \A d \in Consumers : d # c => pc'[d] = pc[d]
    BY <1>4, <2>1
  <2>3. users' = users
    BY <2>1, <2>2
  <2>4. MutatorInv'
    <3>1. \A d \in Consumers : pc'[d] # "idle" \/ retired_ptrs'[d] # <<>> => d \in threads'
      BY <1>0, <1>2, <2>1, <2>2 DEF MutatorInv
    <3>2. \A d \in Consumers : pc'[d] = "idle" => protected_ptr'[d] = nullptr
      BY <1>0, <2>1, <2>2 DEF MutatorInv
    <3> QED BY <1>0, <1>2, <2>1, <2>3, <3>1, <3>2 DEF MutatorInv
  <2>5. HazardTypeOK'
    BY <1>0, <1>2, <2>1 DEF HazardTypeOK
  <2> QED BY <1>5, <2>1, <2>4, <2>5
<1>7. CASE PopCountMutator(c)
  <2>1. /\ pc[c] = "inserted" /\ pc' = [pc EXCEPT ![c] = "counted"] /\ mutators_count' = mutators_count + 1
        /\ UNCHANGED <<protected_ptr, threads>>
    BY <1>7 DEF PopCountMutator, CountMutator
  <2>2. pc'[c] = "counted" /\ \A d \in Consumers : d # c => pc'[d] = pc[d]
    BY <1>4, <2>1
  <2>3. users' = users \union {c} /\ c \notin users
    BY <2>1, <2>2
  <2>4. Cardinality(users') = Cardinality(users) + 1 /\ Cardinality(users) \in Nat
    BY <1>3, <2>3, FS_AddElement, FS_CardinalityType
  <2>5. mutators_count' = Cardinality(users') /\ mutators_count' \in Nat
    BY <1>3, <2>1, <2>4
  <2>6. MutatorInv'
    <3>1. \A d \in Consumers : pc'[d] # "idle" \/ retired_ptrs'[d] # <<>> => d \in threads'
      BY <1>0, <1>2, <2>1, <2>2 DEF MutatorInv
    <3>2. \A d \in Consumers : pc'[d] = "idle" => protected_ptr'[d] = nullptr
      BY <1>0, <2>1, <2>2 DEF MutatorInv
    <3> QED BY <1>0, <1>2, <2>1, <2>5, <3>1, <3>2 DEF MutatorInv
  <2>7. HazardTypeOK'
    BY <1>0, <1>2, <2>1, <2>5 DEF HazardTypeOK
  <2> QED BY <1>5, <2>1, <2>6, <2>7
<1>8. CASE PopRegisterThread(c)
  <2>1. /\ pc[c] = "counted" /\ pc' = [pc EXCEPT ![c] = "ready"]
        /\ UNCHANGED <<threads, protected_ptr, mutators_count>>
    BY <1>8 DEF PopRegisterThread, RegisterThread, hazardVars
  <2>2. pc'[c] = "ready" /\ LocalsSame(c)
    BY <1>4, <2>1
  <2>3. MutatorInv'
    BY <1>0, <1>2, <2>1, <2>2, PopMutators
  <2>4. HazardTypeOK'
    BY <1>0, <1>2, <2>1 DEF HazardTypeOK
  <2> QED BY <1>5, <2>1, <2>3, <2>4
<1>9. CASE PopDestroyMutator(c)
  <2>1. /\ pc[c] = "ready" /\ pc' = [pc EXCEPT ![c] = "idle"] /\ mutators_count' = mutators_count - 1
        /\ protected_ptr' = [protected_ptr EXCEPT ![c] = nullptr] /\ UNCHANGED threads
    BY <1>9 DEF PopDestroyMutator, DestroyMutator
  <2>2. pc'[c] = "idle" /\ \A d \in Consumers : d # c => pc'[d] = pc[d]
    BY <1>4, <2>1
  <2>3. users' = users \ {c} /\ c \in users
    BY <2>1, <2>2
  <2>4. Cardinality(users') = Cardinality(users) - 1 /\ Cardinality(users') \in Nat
    <3>1. Cardinality(users \ {c}) = Cardinality(users) - 1
      BY <1>3, <2>3, FS_RemoveElement
    <3>2. IsFiniteSet(users \ {c})
      BY <1>3, FS_RemoveElement, FS_Subset
    <3> QED BY <2>3, <3>1, <3>2, FS_CardinalityType
  <2>5. mutators_count' = Cardinality(users') /\ mutators_count' \in Nat
    BY <1>3, <2>1, <2>4
  <2>6. /\ protected_ptr' \in [Consumers -> Nodes \union {nullptr}] /\ protected_ptr'[c] = nullptr
        /\ \A d \in Consumers : d # c => protected_ptr'[d] = protected_ptr[d]
    BY <1>0, <2>1 DEF HazardTypeOK
  <2>7. MutatorInv'
    <3>1. \A d \in Consumers : pc'[d] # "idle" \/ retired_ptrs'[d] # <<>> => d \in threads'
      BY <1>0, <1>2, <2>1, <2>2 DEF MutatorInv
    <3>2. \A d \in Consumers : pc'[d] = "idle" => protected_ptr'[d] = nullptr
      BY <1>0, <2>2, <2>6 DEF MutatorInv
    <3> QED BY <1>0, <1>2, <2>1, <2>5, <3>1, <3>2 DEF MutatorInv
  <2>8. HazardTypeOK'
    BY <1>0, <1>2, <2>1, <2>5, <2>6 DEF HazardTypeOK
  <2> QED BY <1>5, <2>1, <2>7, <2>8
<1> QED BY <1>6, <1>7, <1>8, <1>9

\* The same for a consumer that has a mutator and keeps it.
PopRuns(c) ==
    /\ pc[c] \notin {"idle", "inserted"} /\ pc'[c] \notin {"idle", "inserted"}
    /\ faults' = {} /\ QueueTypeOK' /\ LocalsSame(c) /\ TailMoves
    /\ UNCHANGED <<head, next, value, gone, line>>
    /\ UNCHANGED <<live, threads, mutators_count, retired_ptrs, cancel_collect, collectorVars, dpc>>
    /\ approximate_free_list_size' \in Nat
    /\ protected_ptr' \in [Consumers -> Nodes \union {nullptr}]
    /\ \A d \in Consumers : d # c => protected_ptr'[d] = protected_ptr[d]
    /\ HasOld(c)' <=> HasOld(c)
    /\ HasOld(c) => ptr'[c] = ptr[c]
    /\ PopKnows(c)'
    /\ CollectorLeft \/ PopPaired(c)'
    /\ CollectorLeft \/ tail' = tail \/ \A p \in Producers : PushPaired(p)'

\* Such a step keeps the invariant.
LEMMA PopRunsKeeps ==
    ASSUME MemoryInv, CollectorLeft \/ OneEach, NEW c \in Consumers, PopRuns(c)
    PROVE  MemoryInv'
<1>1. ReclaimInv /\ c \in Threads /\ HazardTypeOK
  BY QueueThreads DEF MemoryInv, ReclaimInv
<1>2. ~gone
  BY <1>1 DEF ReclaimInv, LineInv, PopRuns
<1>3. MutatorInv'
  BY <1>1, PopMutators DEF PopRuns
<1>4. HazardTypeOK'
  BY <1>1 DEF PopRuns, HazardTypeOK, collectorVars
<1>5. PopCalm(c)
  BY <1>2, <1>3, <1>4 DEF PopCalm, PopRuns
<1> QED BY <1>5, PopCalmKeeps

\* Mutator::Acquire.
LEMMA AcquireSteps ==
    ASSUME MemoryInv, CollectorLeft \/ OneEach, NEW c \in Consumers,
           AcquireLoad(c) \/ AcquireStore(c) \/ AcquireRecheck(c)
    PROVE  MemoryInv'
<1> USE QueueThreads DEF nodeVars, ThreadGoto
<1>0. /\ ReclaimInv /\ HazardTypeOK /\ QueueTypeOK /\ c \in Threads /\ c \notin Producers /\ faults = {}
  BY DEF MemoryInv, ReclaimInv, NoUseAfterFree
<1>1. ~gone
  BY <1>0 DEF ReclaimInv, LineInv, AcquireLoad, AcquireStore, AcquireRecheck
<1>2. head \in Nodes /\ InLine(head) /\ head \in live
  BY <1>0, <1>1, QueueNotEmpty, ListNodes
<1>3. CASE AcquireLoad(c)
  <2>1. /\ pc[c] = "ready" /\ pc' = [pc EXCEPT ![c] = "store"] /\ ptr' = [ptr EXCEPT ![c] = head]
        /\ UNCHANGED <<hazardVars, head, tail, next, value, gone, line, new_node, pushes, result>>
    BY <1>3 DEF AcquireLoad
  <2>2. UNCHANGED <<live, faults, threads, protected_ptr, mutators_count, retired_ptrs,
                    approximate_free_list_size, cancel_collect, collectorVars, dpc>>
    BY <2>1 DEF hazardVars, mutatorVars
  <2>3. QueueTypeOK' /\ LocalsSame(c) /\ pc'[c] = "store"
    BY <1>0, <1>2, <2>1 DEF QueueTypeOK, LocalsSame
  <2>4. PopKnows(c)' /\ PopPaired(c)' /\ ~HasOld(c) /\ ~HasOld(c)'
    BY <2>1, <2>3 DEF PopKnows, PopPaired, HasOld
  <2>5. PopRuns(c)
    BY <1>0, <2>1, <2>2, <2>3, <2>4 DEF PopRuns, TailMoves, HazardTypeOK
  <2> QED BY <2>5, PopRunsKeeps
<1>4. CASE AcquireStore(c)
  <2>1. /\ pc[c] = "store" /\ pc' = [pc EXCEPT ![c] = "recheck"]
        /\ protected_ptr' = [protected_ptr EXCEPT ![c] = ptr[c]]
        /\ UNCHANGED <<head, tail, next, value, gone, line, ptr, new_node, pushes, result>>
        /\ UNCHANGED <<live, faults, threads, mutators_count, retired_ptrs,
                       approximate_free_list_size, cancel_collect, collectorVars, dpc>>
    BY <1>4 DEF AcquireStore, Protect
  <2>2. QueueTypeOK' /\ LocalsSame(c) /\ pc'[c] = "recheck"
    BY <1>0, <2>1 DEF QueueTypeOK, LocalsSame
  <2>3. /\ protected_ptr' \in [Consumers -> Nodes \union {nullptr}]
        /\ \A d \in Consumers : d # c => protected_ptr'[d] = protected_ptr[d]
    BY <1>0, <2>1 DEF HazardTypeOK, QueueTypeOK
  <2>4. PopKnows(c)' /\ PopPaired(c)' /\ ~HasOld(c) /\ ~HasOld(c)'
    BY <2>1, <2>2 DEF PopKnows, PopPaired, HasOld
  <2>5. PopRuns(c)
    BY <1>0, <2>1, <2>2, <2>3, <2>4 DEF PopRuns, TailMoves, HazardTypeOK
  <2> QED BY <2>5, PopRunsKeeps
<1>5. CASE AcquireRecheck(c)
  <2>1. /\ pc[c] = "recheck" /\ pc' = [pc EXCEPT ![c] = IF head = ptr[c] THEN "next" ELSE "store"]
        /\ ptr' = [ptr EXCEPT ![c] = head]
        /\ UNCHANGED <<hazardVars, head, tail, next, value, gone, line, new_node, pushes, result>>
    BY <1>5 DEF AcquireRecheck
  <2>2. UNCHANGED <<live, faults, threads, protected_ptr, mutators_count, retired_ptrs,
                    approximate_free_list_size, cancel_collect, collectorVars, dpc>>
    BY <2>1 DEF hazardVars, mutatorVars
  <2>3. QueueTypeOK' /\ LocalsSame(c) /\ pc'[c] \in {"next", "store"} /\ ptr'[c] = head
    BY <1>0, <1>2, <2>1 DEF QueueTypeOK, LocalsSame
  <2>4. Known(ptr[c])'
    BY <1>2, <2>1, <2>2, <2>3 DEF Known, InLine
  <2>5. PopKnows(c)' /\ PopPaired(c)' /\ ~HasOld(c) /\ ~HasOld(c)'
    BY <2>1, <2>3, <2>4 DEF PopKnows, PopPaired, HasOld
  <2>6. PopRuns(c)
    BY <1>0, <2>1, <2>2, <2>3, <2>5 DEF PopRuns, TailMoves, HazardTypeOK
  <2> QED BY <2>6, PopRunsKeeps
<1> QED BY <1>3, <1>4, <1>5

\* TryPop reads the link of the first node and compares tail.
LEMMA PopReads ==
    ASSUME MemoryInv, CollectorLeft \/ OneEach, NEW c \in Consumers,
           PopNext(c) \/ PopTail(c) \/ (PopCas(c) /\ UNCHANGED <<head, line>> /\ pc'[c] = "ready")
    PROVE  MemoryInv'
<1> USE QueueThreads DEF nodeVars, ThreadGoto
<1>0. /\ ReclaimInv /\ HazardTypeOK /\ QueueTypeOK /\ PopKnows(c) /\ c \in Threads /\ c \notin Producers
      /\ faults = {}
  BY DEF MemoryInv, ReclaimInv, NoUseAfterFree
<1>1. pc[c] \in {"next", "tail", "cas"} /\ Known(ptr[c]) /\ (InLine(ptr[c]) => ptr[c] = head)
  BY <1>0 DEF PopNext, PopTail, PopCas, PopKnows
<1>2. CollectorLeft \/ PopPaired(c)
  BY <1>0 DEF ReclaimInv, PairInv
<1>3. CASE PopNext(c)
  <2>1. /\ pc[c] = "next"
        /\ pc' = [pc EXCEPT ![c] = IF next[ptr[c]] = nullptr THEN "release_empty" ELSE "tail"]
        /\ result' = IF next[ptr[c]] = nullptr THEN [result EXCEPT ![c] = None] ELSE result
        /\ UNCHANGED <<head, tail, next, value, gone, line, ptr, new_node, pushes>>
    BY <1>3 DEF PopNext
  <2>2. UNCHANGED <<live, threads, protected_ptr, mutators_count, retired_ptrs,
                    approximate_free_list_size, cancel_collect, collectorVars, dpc>>
    BY <1>3 DEF PopNext, KeepAllButFaults, mutatorVars
  <2>3. result' \in [Consumers -> Values \union {None}]
    BY <1>0, <2>1 DEF QueueTypeOK
  <2>4. QueueTypeOK' /\ LocalsSame(c) /\ pc'[c] = IF next[ptr[c]] = nullptr THEN "release_empty" ELSE "tail"
    BY <1>0, <2>1, <2>3 DEF QueueTypeOK, LocalsSame
  <2>5. Known(ptr[c])' /\ (InLine(ptr[c])' <=> InLine(ptr[c]))
    BY <1>1, <2>1, <2>2 DEF Known, InLine
  <2>6. PopKnows(c)' /\ ~HasOld(c) /\ ~HasOld(c)'
    BY <1>0, <1>1, <2>1, <2>4, <2>5 DEF PopKnows, HasOld
  <2>7. CollectorLeft \/ PopPaired(c)'
    BY <1>2, <2>1, <2>4 DEF PopPaired
  <2>8. faults' = {}
    BY <1>0, <1>1, <1>3 DEF PopNext, Touch, Known
  <2>9. PopRuns(c)
    BY <1>0, <2>1, <2>2, <2>4, <2>6, <2>7, <2>8 DEF PopRuns, TailMoves, HazardTypeOK
  <2> QED BY <2>9, PopRunsKeeps
<1>4. CASE PopTail(c)
  <2>1. /\ pc[c] = "tail" /\ pc' = [pc EXCEPT ![c] = IF tail = ptr[c] THEN "help" ELSE "cas"]
        /\ UNCHANGED <<hazardVars, head, tail, next, value, gone, line, ptr, new_node, pushes, result>>
    BY <1>4 DEF PopTail
  <2>2. UNCHANGED <<live, faults, threads, protected_ptr, mutators_count, retired_ptrs,
                    approximate_free_list_size, cancel_collect, collectorVars, dpc>>
    BY <2>1 DEF hazardVars, mutatorVars
  <2>3. QueueTypeOK' /\ LocalsSame(c) /\ pc'[c] = IF tail = ptr[c] THEN "help" ELSE "cas"
    BY <1>0, <2>1 DEF QueueTypeOK, LocalsSame
  <2>4. Known(ptr[c])' /\ (InLine(ptr[c])' <=> InLine(ptr[c]))
    BY <1>1, <2>1, <2>2 DEF Known, InLine
  <2>5. PopKnows(c)' /\ ~HasOld(c) /\ ~HasOld(c)'
    BY <1>0, <1>1, <2>1, <2>3, <2>4 DEF PopKnows, HasOld
  <2>6. CollectorLeft \/ PopPaired(c)'
    BY <1>2, <2>1, <2>3 DEF PopPaired
  <2>7. PopRuns(c)
    BY <1>0, <2>1, <2>2, <2>3, <2>5, <2>6 DEF PopRuns, TailMoves, HazardTypeOK
  <2> QED BY <2>7, PopRunsKeeps
<1>5. CASE PopCas(c) /\ UNCHANGED <<head, line>> /\ pc'[c] = "ready"
  <2>1. /\ pc[c] = "cas" /\ pc' = [pc EXCEPT ![c] = "ready"]
        /\ UNCHANGED <<head, tail, next, value, gone, line, ptr, new_node, pushes, result>>
    BY <1>0, <1>5 DEF PopCas, QueueTypeOK
  <2>2. UNCHANGED <<live, threads, protected_ptr, mutators_count, retired_ptrs,
                    approximate_free_list_size, cancel_collect, collectorVars, dpc>>
    BY <1>5 DEF PopCas, KeepAllButFaults, mutatorVars
  <2>3. QueueTypeOK' /\ LocalsSame(c) /\ pc'[c] = "ready"
    BY <1>0, <2>1 DEF QueueTypeOK, LocalsSame
  <2>4. PopKnows(c)' /\ ~HasOld(c) /\ ~HasOld(c)' /\ PopPaired(c)'
    BY <2>1, <2>3 DEF PopKnows, HasOld, PopPaired
  <2>5. faults' = {}
    BY <1>0, <1>1, <1>5 DEF PopCas, Touch, Known
  <2>6. PopRuns(c)
    BY <1>0, <2>1, <2>2, <2>3, <2>4, <2>5 DEF PopRuns, TailMoves, HazardTypeOK
  <2> QED BY <2>6, PopRunsKeeps
<1> QED BY <1>3, <1>4, <1>5

\* TryPop finds tail behind and moves it.
LEMMA PopMovesTail ==
    ASSUME MemoryInv, CollectorLeft \/ OneEach, NEW c \in Consumers, PopHelp(c)
    PROVE  MemoryInv'
<1> USE QueueThreads DEF ThreadGoto
<1>0. /\ ReclaimInv /\ HazardTypeOK /\ QueueTypeOK /\ PopKnows(c) /\ c \in Threads /\ c \notin Producers
      /\ faults = {}
  BY DEF MemoryInv, ReclaimInv, NoUseAfterFree
<1>1. /\ pc[c] = "help" /\ pc' = [pc EXCEPT ![c] = "ready"]
      /\ UNCHANGED <<head, next, value, gone, line, ptr, new_node, pushes, result>>
      /\ tail' = tail \/ (tail = ptr[c] /\ tail' = next[ptr[c]])
  BY DEF PopHelp
<1>2. UNCHANGED <<live, threads, protected_ptr, mutators_count, retired_ptrs,
                  approximate_free_list_size, cancel_collect, collectorVars, dpc>>
  BY DEF PopHelp, KeepAllButFaults, mutatorVars
<1>3. Known(ptr[c]) /\ next[ptr[c]] # nullptr
  BY <1>0, <1>1 DEF PopKnows
<1>4. ~gone /\ tail \in Nodes
  BY <1>0, <1>1 DEF ReclaimInv, LineInv, QueueTypeOK
<1>5. tail = ptr[c] => next[tail] \in Nodes
  BY <1>0, <1>3, <1>4, QueueTypes
<1>6. TailMoves /\ tail' \in Nodes
  BY <1>0, <1>1, <1>4, <1>5, SwingMoves DEF TailMoves
<1>7. QueueTypeOK' /\ LocalsSame(c) /\ pc'[c] = "ready"
  BY <1>0, <1>1, <1>6 DEF QueueTypeOK, LocalsSame
<1>8. PopKnows(c)' /\ ~HasOld(c) /\ ~HasOld(c)' /\ PopPaired(c)'
  BY <1>1, <1>7 DEF PopKnows, HasOld, PopPaired
<1>9. faults' = {}
  BY <1>0, <1>3 DEF PopHelp, Touch, Known
<1>10. CollectorLeft \/ tail' = tail \/ \A p \in Producers : PushPaired(p)'
  <2> SUFFICES ASSUME ~CollectorLeft, tail' # tail, NEW p \in Producers PROVE PushPaired(p)'
    OBVIOUS
  <2>1. tail = ptr[c] /\ tail' = next[tail] /\ next[tail] # nullptr
    BY <1>1, <1>3
  <2>2. PushPaired(p) /\ PushKnows(p)
    BY <1>0, <1>4 DEF ReclaimInv, PairInv
  <2>3. pc'[p] = pc[p] /\ ptr'[p] = ptr[p] /\ new_node'[p] = new_node[p]
    BY <1>7 DEF LocalsSame
  <2>4. Len(line) \in 1..Len(line)
    BY <1>0, <1>4, QueueNotEmpty
  <2>5. next[line[Len(line)]] = nullptr
    BY <1>0, <2>4 DEF ReclaimInv, LineInv
  <2>6. tail # line[Len(line)]
    BY <2>1, <2>5
  <2>7. pc[p] = "swing" /\ tail = ptr[p] /\ new_node[p] = line[Len(line)]
    BY <2>2, <2>6 DEF PushPaired
  <2>8. next[ptr[p]] = new_node[p]
    BY <2>2, <2>7 DEF PushKnows
  <2> QED BY <1>1, <2>1, <2>3, <2>7, <2>8 DEF PushPaired
<1>11. PopRuns(c)
  BY <1>0, <1>1, <1>2, <1>6, <1>7, <1>8, <1>9, <1>10 DEF PopRuns, HazardTypeOK
<1> QED BY <1>11, PopRunsKeeps

\* TryPop reads the value that it has taken, releases its pointer, and counts.
LEMMA PopReturns ==
    ASSUME MemoryInv, CollectorLeft \/ OneEach, NEW c \in Consumers,
           PopValue(c) \/ PopRelease(c) \/ PopReleaseEmpty(c) \/ PopIncreaseRetired(c)
    PROVE  MemoryInv'
<1> USE QueueThreads DEF nodeVars, ThreadGoto
<1>0. /\ ReclaimInv /\ HazardTypeOK /\ QueueTypeOK /\ PopKnows(c) /\ c \in Threads /\ c \notin Producers
      /\ faults = {}
  BY DEF MemoryInv, ReclaimInv, NoUseAfterFree
<1>1. CASE PopValue(c)
  <2>1. /\ pc[c] = "value" /\ pc' = [pc EXCEPT ![c] = "release"]
        /\ result' = [result EXCEPT ![c] = value[next[ptr[c]]]]
        /\ UNCHANGED <<head, tail, next, value, gone, line, ptr, new_node, pushes>>
        /\ faults' = faults \union (IF ptr[c] \in live THEN {} ELSE {"head"})
                            \union (IF next[ptr[c]] \in live THEN {} ELSE {"value"})
    BY <1>1 DEF PopValue
  <2>2. UNCHANGED <<live, threads, protected_ptr, mutators_count, retired_ptrs,
                    approximate_free_list_size, cancel_collect, collectorVars, dpc>>
    BY <1>1 DEF PopValue, KeepAllButFaults, mutatorVars
  <2>3. ptr[c] \in live /\ next[ptr[c]] \in live /\ value[next[ptr[c]]] \in Values
    BY <1>0, <2>1, OwnedNodes DEF PopKnows, HasOld
  <2>4. faults' = {}
    BY <1>0, <2>1, <2>3
  <2>5. QueueTypeOK' /\ LocalsSame(c) /\ pc'[c] = "release"
    BY <1>0, <2>1, <2>3 DEF QueueTypeOK, LocalsSame
  <2>6. PopKnows(c)' /\ HasOld(c) /\ HasOld(c)' /\ PopPaired(c)'
    BY <2>1, <2>5 DEF PopKnows, HasOld, PopPaired
  <2>7. PopRuns(c)
    BY <1>0, <2>1, <2>2, <2>4, <2>5, <2>6 DEF PopRuns, TailMoves, HazardTypeOK
  <2> QED BY <2>7, PopRunsKeeps
<1>2. CASE PopRelease(c)
  <2>1. /\ pc[c] = "release" /\ pc' = [pc EXCEPT ![c] = "retire"]
        /\ protected_ptr' = [protected_ptr EXCEPT ![c] = nullptr]
        /\ UNCHANGED <<head, tail, next, value, gone, line, ptr, new_node, pushes, result>>
        /\ UNCHANGED <<live, faults, threads, mutators_count, retired_ptrs,
                       approximate_free_list_size, cancel_collect, collectorVars, dpc>>
    BY <1>2 DEF PopRelease, Protect
  <2>2. QueueTypeOK' /\ LocalsSame(c) /\ pc'[c] = "retire"
    BY <1>0, <2>1 DEF QueueTypeOK, LocalsSame
  <2>3. /\ protected_ptr' \in [Consumers -> Nodes \union {nullptr}]
        /\ \A d \in Consumers : d # c => protected_ptr'[d] = protected_ptr[d]
    BY <1>0, <2>1 DEF HazardTypeOK
  <2>4. PopKnows(c)' /\ HasOld(c) /\ HasOld(c)' /\ PopPaired(c)'
    BY <2>1, <2>2 DEF PopKnows, HasOld, PopPaired
  <2>5. PopRuns(c)
    BY <1>0, <2>1, <2>2, <2>3, <2>4 DEF PopRuns, TailMoves, HazardTypeOK
  <2> QED BY <2>5, PopRunsKeeps
<1>3. CASE PopReleaseEmpty(c)
  <2>1. /\ pc[c] = "release_empty" /\ pc' = [pc EXCEPT ![c] = "ready"]
        /\ protected_ptr' = [protected_ptr EXCEPT ![c] = nullptr] /\ ptr' = [ptr EXCEPT ![c] = nullptr]
        /\ UNCHANGED <<head, tail, next, value, gone, line, new_node, pushes, result>>
        /\ UNCHANGED <<live, faults, threads, mutators_count, retired_ptrs,
                       approximate_free_list_size, cancel_collect, collectorVars, dpc>>
    BY <1>3 DEF PopReleaseEmpty, Protect
  <2>2. QueueTypeOK' /\ LocalsSame(c) /\ pc'[c] = "ready"
    BY <1>0, <2>1 DEF QueueTypeOK, LocalsSame
  <2>3. /\ protected_ptr' \in [Consumers -> Nodes \union {nullptr}]
        /\ \A d \in Consumers : d # c => protected_ptr'[d] = protected_ptr[d]
    BY <1>0, <2>1 DEF HazardTypeOK
  <2>4. PopKnows(c)' /\ ~HasOld(c) /\ ~HasOld(c)' /\ PopPaired(c)'
    BY <2>1, <2>2 DEF PopKnows, HasOld, PopPaired
  <2>5. PopRuns(c)
    BY <1>0, <2>1, <2>2, <2>3, <2>4 DEF PopRuns, TailMoves, HazardTypeOK
  <2> QED BY <2>5, PopRunsKeeps
<1>4. CASE PopIncreaseRetired(c)
  <2>1. /\ pc[c] = "increase" /\ pc' = [pc EXCEPT ![c] = "ready"]
        /\ approximate_free_list_size' = approximate_free_list_size + 1
        /\ UNCHANGED <<head, tail, next, value, gone, line, ptr, new_node, pushes, result>>
        /\ UNCHANGED <<live, faults, threads, protected_ptr, mutators_count, retired_ptrs,
                       cancel_collect, collectorVars, dpc>>
    BY <1>4 DEF PopIncreaseRetired, IncreaseRetired, mutatorVars
  <2>2. QueueTypeOK' /\ LocalsSame(c) /\ pc'[c] = "ready"
    BY <1>0, <2>1 DEF QueueTypeOK, LocalsSame
  <2>3. approximate_free_list_size' \in Nat
    BY <1>0, <2>1 DEF HazardTypeOK
  <2>4. PopKnows(c)' /\ ~HasOld(c) /\ ~HasOld(c)' /\ PopPaired(c)'
    BY <2>1, <2>2 DEF PopKnows, HasOld, PopPaired
  <2>5. PopRuns(c)
    BY <1>0, <2>1, <2>2, <2>3, <2>4 DEF PopRuns, TailMoves, HazardTypeOK
  <2> QED BY <2>5, PopRunsKeeps
<1> QED BY <1>1, <1>2, <1>3, <1>4

-----------------------------------------------------------------------------
(* Steps that change a node.                                               *)

\* The queue is not being destroyed after a step of a thread.
LEMMA NothingLeaksYet ==
    ASSUME ReclaimInv, ~gone, dpc' = dpc
    PROVE  NothingLeaks'
BY QueueNotEmpty DEF NothingLeaks

\* Push makes a node.
LEMMA PushNewKeeps ==
    ASSUME MemoryInv, CollectorLeft \/ OneEach, NEW p \in Producers, PushNew(p)
    PROVE  MemoryInv'
<1> USE QueueThreads
<1>0. /\ ReclaimInv /\ HazardTypeOK /\ QueueTypeOK /\ p \in Threads /\ p \notin Consumers
      /\ faults = {}
  BY DEF MemoryInv, ReclaimInv, NoUseAfterFree
<1>1. PICK n \in Nodes \ live :
        /\ live' = live \union {n} /\ new_node' = [new_node EXCEPT ![p] = n]
        /\ next' = [next EXCEPT ![n] = nullptr] /\ value' = [value EXCEPT ![n] = <<p, pushes[p] + 1>>]
  BY DEF PushNew
<1>2. /\ ~gone /\ pushes[p] < MaxPushes /\ pc[p] = "idle" /\ pc' = [pc EXCEPT ![p] = "load"]
      /\ UNCHANGED <<faults, mutatorVars, retired_ptrs, approximate_free_list_size, cancel_collect,
                     collectorVars, dpc, head, tail, gone, line, ptr, pushes, result>>
  BY DEF PushNew, ThreadGoto
<1>3. <<p, pushes[p] + 1>> \in Values
  <2>1. pushes[p] \in 0..MaxPushes /\ MaxPushes \in Nat
    BY <1>0, QueueAssumption DEF QueueTypeOK
  <2>2. pushes[p] + 1 \in 1..MaxPushes
    BY <1>2, <2>1
  <2> QED BY <2>2 DEF Values
<1>4. /\ pc'[p] = "load" /\ new_node'[p] = n /\ next'[n] = nullptr /\ value'[n] \in Values
      /\ \A u \in Threads : u # p => pc'[u] = pc[u]
      /\ \A q \in Producers : q # p => new_node'[q] = new_node[q]
      /\ \A m \in live : next'[m] = next[m] /\ value'[m] = value[m] /\ m \in live' /\ m # n
  BY <1>0, <1>1, <1>2, <1>3 DEF QueueTypeOK, HazardTypeOK
<1>5. LocalsSame(p)
  BY <1>2, <1>4 DEF LocalsSame
<1>6. QueueTypeOK'
  <2>1. /\ next' \in [Nodes -> Nodes \union {nullptr}]
        /\ value' \in [Nodes -> Values \union {None}]
        /\ new_node' \in [Producers -> Nodes \union {nullptr}]
    BY <1>0, <1>1, <1>3 DEF QueueTypeOK
  <2>2. \A q \in Producers : pc'[q] # "idle" => pushes'[q] < MaxPushes
    BY <1>0, <1>2, <1>4 DEF QueueTypeOK
  <2> QED BY <1>0, <1>2, <2>1, <2>2 DEF QueueTypeOK
<1>7. MutatorInv' /\ HazardTypeOK'
  BY <1>0, <1>1, <1>2, <1>5, PushMutators DEF HazardTypeOK
<1>8. \A m : InLine(m)' <=> InLine(m)
  BY <1>2 DEF InLine
<1>9. \A m : InLine(m) => m \in live
  BY <1>0, ListNodes
<1>10. LineInv'
  <2>1. ASSUME NEW i \in 1..Len(line) PROVE next'[line[i]] = next[line[i]] /\ value'[line[i]] = value[line[i]]
    <3>1. InLine(line[i])
      BY DEF InLine, Contains
    <3> QED BY <1>4, <1>9, <3>1
  <2>2. InLine(tail)' /\ dpc' = "alive"
    BY <1>0, <1>2, <1>8, QueueNotEmpty
  <2> QED BY <1>0, <1>2, <2>1, <2>2 DEF ReclaimInv, LineInv
<1>11. PlaceInv'
  <2>1. ASSUME NEW m, NEW a, NEW x
        PROVE  PlacedAt(m, a, x)' <=> PlacedAt(m, a, x) \/ (m = n /\ a = "new" /\ x = p)
    <3>1. CASE a = "list"
      BY <1>2, <3>1 DEF PlacedAt, InLine
    <3>2. CASE a = "new"
      <4>1. CASE x = p
        BY <1>2, <1>4, <3>2, <4>1 DEF PlacedAt, HasNew
      <4>2. CASE x # p
        BY <1>4, <3>2, <4>2 DEF PlacedAt, HasNew
      <4> QED BY <4>1, <4>2
    <3>3. CASE a = "taken"
      BY <1>2, <1>4, <3>3 DEF PlacedAt, HasOld
    <3>4. CASE a = "retired" \/ a = "detached"
      BY <1>2, <3>4 DEF PlacedAt, collectorVars
    <3> QED BY <3>1, <3>2, <3>3, <3>4 DEF PlacedAt
  <2>2. \A a, x : ~PlacedAt(n, a, x)
    BY <1>0, AtLive
  <2>3. \A a, x : PlacedAt(n, a, x)' <=> a = "new" /\ x = p
    BY <2>1, <2>2
  <2>4. \A m, a, x : m # n => (PlacedAt(m, a, x)' <=> PlacedAt(m, a, x))
    BY <2>1
  <2>5. PlacedOnce /\ "new" \in Places /\ p \in Owners
    BY <1>0 DEF ReclaimInv, PlaceInv
  <2>6. PlacedOnce'
    BY <1>1, <2>3, <2>4, <2>5, PlaceComes
  <2> QED BY <1>0, <1>2, <2>6 DEF ReclaimInv, PlaceInv, collectorVars
<1>12. \A m \in live : Known(m) => Known(m)'
  BY <1>4, <1>8 DEF Known
<1>13. ASSUME NEW q \in Producers PROVE PushKnows(q)'
  <2>1. CASE q = p
    BY <1>4, <2>1 DEF PushKnows, HasNew
  <2>2. CASE q # p
    <3>1. PushKnows(q) /\ pc'[q] = pc[q] /\ ptr'[q] = ptr[q] /\ new_node'[q] = new_node[q]
      BY <1>0, <1>2, <1>4, <2>2 DEF ReclaimInv
    <3>2. HasNew(q)' <=> HasNew(q)
      BY <3>1 DEF HasNew
    <3>3. HasNew(q) => new_node[q] \in live
      BY <1>0, OwnedNodes
    <3>4. pc[q] \in {"next", "help", "link"} => ptr[q] \in live /\ Known(ptr[q])'
      <4>1. Known(ptr[q]) => ptr[q] \in live
        BY DEF Known
      <4>2. ptr[q] \in live /\ Known(ptr[q]) => Known(ptr[q])'
        BY <1>4, <1>8, <3>1 DEF Known, InLine
      <4> QED BY <3>1, <4>1, <4>2 DEF PushKnows
    <3>5. pc[q] = "swing" => ptr[q] \in live
      <4>1. CollectorLeft
        BY <2>2 DEF OneEach
      <4> QED BY <1>0, <1>2, <4>1 DEF ReclaimInv, KeptInv
    <3> QED BY <1>4, <3>1, <3>2, <3>3, <3>4, <3>5 DEF PushKnows
  <2> QED BY <2>1, <2>2
<1>14. ASSUME NEW c \in Consumers PROVE PopKnows(c)'
  <2>1. PopKnows(c) /\ pc'[c] = pc[c] /\ ptr'[c] = ptr[c]
    BY <1>0, <1>2, <1>4 DEF ReclaimInv
  <2>2. pc[c] \in {"next", "tail", "help", "cas"} => ptr[c] \in live /\ Known(ptr[c])'
    <3>1. Known(ptr[c]) => ptr[c] \in live
      BY DEF Known
    <3>2. ptr[c] \in live /\ Known(ptr[c]) => Known(ptr[c])'
      BY <1>4, <1>8, <2>1 DEF Known, InLine
    <3> QED BY <2>1, <3>1, <3>2 DEF PopKnows
  <2>3. pc[c] = "value" => ptr[c] \in live
    BY <1>0, OwnedNodes DEF HasOld
  <2>4. InLine(ptr[c])' <=> InLine(ptr[c])
    BY <1>2, <2>1 DEF InLine
  <2> QED BY <1>2, <1>4, <2>1, <2>2, <2>3, <2>4 DEF PopKnows
<1>15. NothingLeaks'
  BY <1>0, <1>2, NothingLeaksYet
<1>16. CollectorLeft => KeptInv'
  <2> SUFFICES ASSUME CollectorLeft PROVE KeptInv'
    OBVIOUS
  <2>1. KeptInv
    BY <1>0 DEF ReclaimInv
  <2>2. \A m \in live' : next'[m] = nullptr \/ next'[m] \in live'
    BY <1>1, <1>2, <1>4, <2>1 DEF KeptInv
  <2>3. \A q \in Producers : pc'[q] = "swing" => ptr'[q] \in live'
    BY <1>2, <1>4, <2>1 DEF KeptInv
  <2> QED BY <1>2, <2>1, <2>2, <2>3 DEF KeptInv, collectorVars
<1>17. ~CollectorLeft => PairInv'
  <2> SUFFICES ASSUME ~CollectorLeft PROVE PairInv'
    OBVIOUS
  <2>1. PairInv /\ PushPaired(p)
    BY <1>0, <1>2 DEF ReclaimInv, PairInv
  <2>2. PushPaired(p)'
    BY <1>2, <1>4, <2>1 DEF PushPaired
  <2>3. \A q \in Producers : q = p
    BY DEF OneEach
  <2>4. ASSUME NEW c \in Consumers PROVE PopPaired(c)'
    <3>1. PopPaired(c) /\ pc'[c] = pc[c] /\ ptr'[c] = ptr[c]
      BY <1>2, <1>4, <2>1 DEF PairInv
    <3>2. pc[c] = "value" => ptr[c] \in live
      BY <1>0, OwnedNodes DEF HasOld
    <3> QED BY <1>2, <1>4, <3>1, <3>2 DEF PopPaired
  <2> QED BY <2>2, <2>3, <2>4 DEF PairInv
<1>18. NoUseAfterFree'
  BY <1>0, <1>2 DEF NoUseAfterFree
<1>19. IF CollectorLeft THEN KeptInv' ELSE PairInv'
  BY <1>16, <1>17
<1> QED BY <1>6, <1>7, <1>10, <1>11, <1>13, <1>14, <1>15, <1>18, <1>19 DEF MemoryInv, ReclaimInv

\* A node without a link that Push may dereference is the last one.
LEMMA LinkAtEnd ==
    ASSUME ReclaimInv, ~gone, NEW n, Known(n), next[n] = nullptr
    PROVE  n = line[Len(line)] /\ InLine(n) /\ n \in live
<1>1. InLine(n) /\ n \in live
  BY DEF Known
<1> QED BY <1>1, LinkInList, QueueThreads

\* The list after the node has been linked.
LEMMA LinkedLine ==
    ASSUME ReclaimInv, ~gone, NEW n \in Nodes, ~InLine(n), next[n] = nullptr, value[n] \in Values,
           NEW l, l = line[Len(line)], line' = Append(line, n), next' = [next EXCEPT ![l] = n],
           UNCHANGED <<head, tail, value, gone, dpc>>
    PROVE  LineInv' /\ \A m : InLine(m)' <=> m = n \/ InLine(m)
<1> DEFINE k == Len(line)
<1>1. /\ line \in Seq(Nodes) /\ k \in Nat \ {0} /\ 1 \in 1..k /\ k \in 1..k
      /\ head = line[1] /\ InLine(tail) /\ dpc = "alive"
  BY QueueNotEmpty
<1>2. /\ line' \in Seq(Nodes) /\ Len(line') = k + 1 /\ line'[k + 1] = n /\ line' # <<>>
      /\ \A i \in 1..k : line'[i] = line[i]
  BY <1>1, QueueAppend
<1>3. \A m : InLine(m)' <=> m = n \/ InLine(m)
  BY <1>1, AppendContains DEF InLine
<1>4. NoRepeats(line')
  BY <1>1, AppendContains DEF ReclaimInv, LineInv, InLine
<1>5. l \in Nodes /\ l # n /\ next'[l] = n /\ \A m \in Nodes : m # l => next'[m] = next[m]
  <2>1. l \in Nodes /\ InLine(l)
    BY <1>1, ElementOfSeq DEF InLine, Contains
  <2>2. next \in [Nodes -> Nodes \union {nullptr}]
    BY DEF ReclaimInv, QueueTypeOK
  <2> QED BY <2>1, <2>2
<1> HIDE DEF k
<1>6. ASSUME NEW i \in 1..k + 1
      PROVE  /\ next'[line'[i]] = IF i = k + 1 THEN nullptr ELSE line'[i + 1]
             /\ i > 1 => value[line'[i]] \in Values
  <2>1. CASE i = k + 1
    BY <1>2, <1>5, <2>1
  <2>2. CASE i # k + 1
    <3>1. i \in 1..k
      BY <1>1, <2>2
    <3>2. line'[i] = line[i] /\ line[i] \in Nodes
      BY <1>1, <1>2, <3>1, ElementOfSeq DEF k
    <3>3. next[line[i]] = IF i = k THEN nullptr ELSE line[i + 1]
      BY <3>1 DEF ReclaimInv, LineInv, k
    <3>4. i > 1 => value[line[i]] \in Values
      BY <3>1 DEF ReclaimInv, LineInv, k
    <3>5. CASE i = k
      BY <1>2, <1>5, <2>2, <3>2, <3>4, <3>5 DEF k
    <3>6. CASE i # k
      <4>1. i + 1 \in 1..k
        BY <1>1, <3>1, <3>6
      <4>2. line[i] # line[k]
        BY <1>1, <3>1, <3>6 DEF ReclaimInv, LineInv, NoRepeats, k
      <4> QED BY <1>2, <1>5, <2>2, <3>2, <3>3, <3>4, <3>6, <4>1, <4>2 DEF k
    <3> QED BY <3>5, <3>6
  <2> QED BY <2>1, <2>2
<1>7. line'[1] = line[1]
  BY <1>1, <1>2
<1>8. InLine(tail)'
  BY <1>1, <1>3 DEF InLine
<1> QED BY <1>1, <1>2, <1>3, <1>4, <1>6, <1>7, <1>8 DEF LineInv

\* Push links its node.
LEMMA PushLinkKeeps ==
    ASSUME MemoryInv, CollectorLeft \/ OneEach, NEW p \in Producers, PushLink(p),
           next[ptr[p]] = nullptr, next' = [next EXCEPT ![ptr[p]] = new_node[p]],
           line' = Append(line, new_node[p]), pc' = [pc EXCEPT ![p] = "swing"]
    PROVE  MemoryInv'
<1> USE QueueThreads
<1> DEFINE n == new_node[p]
           l == ptr[p]
<1>0. /\ ReclaimInv /\ HazardTypeOK /\ QueueTypeOK /\ PushKnows(p) /\ p \in Threads /\ p \notin Consumers
      /\ faults = {}
  BY DEF MemoryInv, ReclaimInv, NoUseAfterFree
<1>1. /\ pc[p] = "link" /\ UNCHANGED <<head, tail, value, gone, ptr, new_node, pushes, result>>
      /\ UNCHANGED <<live, mutatorVars, retired_ptrs, approximate_free_list_size, cancel_collect,
                     collectorVars, dpc>>
  BY DEF PushLink, KeepAllButFaults
<1>2. ~gone /\ HasNew(p) /\ Known(l)
  BY <1>0, <1>1 DEF ReclaimInv, LineInv, HasNew, PushKnows
<1>3. l = line[Len(line)] /\ InLine(l) /\ l \in live /\ l \in Nodes
  BY <1>0, <1>2, LinkAtEnd DEF HazardTypeOK
<1>4. n \in live /\ n \in Nodes /\ next[n] = nullptr /\ value[n] \in Values
  BY <1>0, <1>2, OwnedNodes DEF PushKnows, HazardTypeOK
<1>5. ~InLine(n)
  BY <1>0, <1>2, ListNodes
<1>6. LineInv' /\ \A m : InLine(m)' <=> m = n \/ InLine(m)
  BY <1>0, <1>1, <1>2, <1>3, <1>4, <1>5, LinkedLine
<1>7. /\ pc'[p] = "swing" /\ \A u \in Threads : u # p => pc'[u] = pc[u]
      /\ next'[l] = n /\ \A m \in Nodes : m # l => next'[m] = next[m]
  BY <1>0, <1>3 DEF QueueTypeOK
<1>8. LocalsSame(p)
  BY <1>1, <1>7 DEF LocalsSame
<1>9. MutatorInv' /\ HazardTypeOK'
  BY <1>0, <1>1, <1>8, PushMutators DEF HazardTypeOK
<1>10. QueueTypeOK'
  <2>1. line' \in Seq(Nodes)
    BY <1>0, <1>4, QueueAppend DEF QueueTypeOK
  <2>2. next' \in [Nodes -> Nodes \union {nullptr}]
    BY <1>0, <1>3, <1>4 DEF QueueTypeOK
  <2>3. \A q \in Producers : pc'[q] # "idle" => pushes'[q] < MaxPushes
    BY <1>0, <1>1, <1>7 DEF QueueTypeOK
  <2> QED BY <1>0, <1>1, <2>1, <2>2, <2>3 DEF QueueTypeOK
<1>11. \A m \in Nodes : next[m] # nullptr => m # l /\ next'[m] = next[m]
  BY <1>7
<1>12. \A m \in Nodes : next'[m] # nullptr \/ (next[m] = nullptr /\ m # l)
  BY <1>4, <1>7
<1>13. ASSUME NEW u \in Threads, Known(ptr[u]) PROVE Known(ptr[u])' /\ ptr[u] # n /\ ptr[u] \in Nodes
  <2>1. ptr'[u] = ptr[u] /\ ptr[u] \in live /\ ptr[u] \in Nodes
    BY <1>0, <1>1, <1>13 DEF Known, HazardTypeOK
  <2>2. InLine(ptr[u])' \/ next'[ptr[u]] # nullptr
    <3>1. CASE InLine(ptr[u])
      BY <1>1, <1>6, <2>1, <3>1 DEF InLine
    <3>2. CASE next[ptr[u]] # nullptr
      BY <1>11, <2>1, <3>2
    <3> QED BY <1>13, <3>1, <3>2 DEF Known
  <2>3. ptr[u] # n
    BY <1>4, <1>5, <1>13 DEF Known
  <2> QED BY <1>1, <2>1, <2>2, <2>3 DEF Known
<1>14. PlaceInv'
  <2>0. PICK e : e = n
    OBVIOUS
  <2>1. PlacedAt(e, "new", p) /\ PlacedOnce
    BY <1>0, <1>2, <2>0, AtIntro DEF ReclaimInv, PlaceInv
  <2>2. ASSUME NEW m, NEW a, NEW x
        PROVE  PlacedAt(m, a, x)' <=> \/ a = "list" /\ x = nullptr /\ m = e
                                      \/ PlacedAt(m, a, x) /\ ~(a = "new" /\ x = p)
    <3>1. CASE a = "list"
      <4>1. InLine(m)' <=> m = e \/ InLine(m)
        BY <1>6, <2>0
      <4> QED BY <3>1, <4>1 DEF PlacedAt
    <3>2. CASE a = "new"
      <4>1. CASE x = p
        BY <1>7, <3>2, <4>1 DEF PlacedAt, HasNew
      <4>2. CASE x # p
        BY <1>1, <1>7, <3>2, <4>2 DEF PlacedAt, HasNew
      <4> QED BY <4>1, <4>2
    <3>3. CASE a = "taken"
      BY <1>1, <1>7, <3>3 DEF PlacedAt, HasOld
    <3>4. CASE a = "retired" \/ a = "detached"
      BY <1>1, <3>4 DEF PlacedAt, collectorVars
    <3> QED BY <3>1, <3>2, <3>3, <3>4 DEF PlacedAt
  <2>3. \A a, x : PlacedAt(e, a, x) => a = "new" /\ x = p
    BY <1>0, <2>1, AtOnce
  <2>4. \A a, x : PlacedAt(e, a, x)' <=> a = "list" /\ x = nullptr
    BY <2>2, <2>3
  <2>5. \A m, a, x : m # e => (PlacedAt(m, a, x)' <=> PlacedAt(m, a, x))
    <3>1. \A m : PlacedAt(m, "new", p) => m = e
      BY <2>0, AtIntro
    <3> QED BY <2>2, <3>1
  <2>6. "list" \in Places /\ nullptr \in Owners /\ e \in live
    BY <1>4, <2>0
  <2>7. PlacedOnce'
    BY <1>1, <2>1, <2>4, <2>5, <2>6, PlaceMoves
  <2> QED BY <1>0, <1>1, <2>7 DEF ReclaimInv, PlaceInv, collectorVars
<1>15. ASSUME NEW q \in Producers PROVE PushKnows(q)'
  <2>1. CASE q = p
    BY <1>1, <1>3, <1>4, <1>7, <2>1 DEF PushKnows, HasNew
  <2>2. CASE q # p
    <3>1. PushKnows(q) /\ pc'[q] = pc[q] /\ ptr'[q] = ptr[q] /\ new_node'[q] = new_node[q]
      BY <1>0, <1>1, <1>7, <2>2 DEF ReclaimInv
    <3>2. HasNew(q)' <=> HasNew(q)
      BY <3>1 DEF HasNew
    <3>3. HasNew(q) => new_node[q] \in Nodes /\ new_node[q] # l
      BY <1>0, <1>3, ListNodes, OwnedNodes DEF HazardTypeOK
    <3>4. pc[q] \in {"next", "help", "link"} => Known(ptr[q])' /\ ptr[q] \in Nodes
      BY <1>13, <3>1 DEF PushKnows
    <3> QED BY <1>1, <1>7, <1>11, <3>1, <3>2, <3>3, <3>4 DEF PushKnows
  <2> QED BY <2>1, <2>2
<1>16. ASSUME NEW c \in Consumers PROVE PopKnows(c)'
  <2>1. PopKnows(c) /\ pc'[c] = pc[c] /\ ptr'[c] = ptr[c]
    BY <1>0, <1>1, <1>7 DEF ReclaimInv
  <2>2. pc[c] \in {"next", "tail", "help", "cas"} =>
          /\ Known(ptr[c])' /\ ptr[c] \in Nodes
          /\ InLine(ptr[c])' => InLine(ptr[c])
    <3>1. Known(ptr[c]) => Known(ptr[c])' /\ ptr[c] # n /\ ptr[c] \in Nodes
      BY <1>13
    <3>2. InLine(ptr[c])' => ptr[c] = n \/ InLine(ptr[c])
      BY <1>6, <2>1 DEF InLine
    <3> QED BY <2>1, <3>1, <3>2 DEF PopKnows
  <2>3. pc[c] = "value" => ptr[c] \in Nodes
    BY <1>0, OwnedNodes DEF HasOld, HazardTypeOK
  <2> QED BY <1>1, <1>11, <2>1, <2>2, <2>3 DEF PopKnows
<1>17. NothingLeaks'
  BY <1>0, <1>1, <1>2, NothingLeaksYet
<1>18. CollectorLeft => KeptInv'
  <2> SUFFICES ASSUME CollectorLeft PROVE KeptInv'
    OBVIOUS
  <2>1. KeptInv
    BY <1>0 DEF ReclaimInv
  <2>2. \A m \in live' : next'[m] = nullptr \/ next'[m] \in live'
    BY <1>0, <1>1, <1>2, <1>4, <1>7, <2>1 DEF KeptInv, HazardTypeOK
  <2>3. \A q \in Producers : pc'[q] = "swing" => ptr'[q] \in live'
    BY <1>1, <1>2, <1>3, <1>7, <2>1 DEF KeptInv
  <2> QED BY <1>1, <2>1, <2>2, <2>3 DEF KeptInv, collectorVars
<1>19. ~CollectorLeft => PairInv'
  <2> SUFFICES ASSUME ~CollectorLeft PROVE PairInv'
    OBVIOUS
  <2>1. PairInv /\ PushPaired(p)
    BY <1>0, <1>2 DEF ReclaimInv, PairInv
  <2>2. line'[Len(line')] = n
    <3>1. Len(line') = Len(line) + 1 /\ line'[Len(line) + 1] = n
      BY <1>0, <1>4, QueueAppend DEF QueueTypeOK
    <3> QED BY <3>1
  <2>3. PushPaired(p)'
    BY <1>1, <1>7, <2>1, <2>2 DEF PushPaired
  <2>4. \A q \in Producers : q = p
    BY DEF OneEach
  <2>5. ASSUME NEW c \in Consumers PROVE PopPaired(c)'
    <3>1. PopPaired(c) /\ pc'[c] = pc[c] /\ ptr'[c] = ptr[c]
      BY <1>1, <1>7, <2>1 DEF PairInv
    <3>2. pc[c] = "value" => ptr[c] \in Nodes /\ ptr[c] # l
      BY <1>0, <1>3, OwnedNodes, ListNodes DEF HasOld, HazardTypeOK
    <3> QED BY <1>1, <1>7, <3>1, <3>2 DEF PopPaired
  <2> QED BY <2>3, <2>4, <2>5 DEF PairInv
<1>20. NoUseAfterFree'
  BY <1>0, <1>3 DEF NoUseAfterFree, PushLink, Touch
<1>21. IF CollectorLeft THEN KeptInv' ELSE PairInv'
  BY <1>18, <1>19
<1> QED BY <1>6, <1>9, <1>10, <1>14, <1>15, <1>16, <1>17, <1>20, <1>21 DEF MemoryInv, ReclaimInv

\* The list without its first node.
LEMMA FirstOut ==
    ASSUME ReclaimInv, line # <<>>, line' = Tail(line), head' = next[head], UNCHANGED <<next, value>>
    PROVE  /\ line' \in Seq(Nodes) /\ NoRepeats(line')
           /\ \A i \in 1..Len(line') : next'[line'[i]] = IF i = Len(line') THEN nullptr ELSE line'[i + 1]
           /\ \A i \in 1..Len(line') : value'[line'[i]] \in Values
           /\ head' = IF line' = <<>> THEN nullptr ELSE line'[1]
           /\ head = line[1] /\ InLine(head)
           /\ \A m : InLine(m)' <=> InLine(m) /\ m # head
           /\ line' # <<>> => line'[Len(line')] = line[Len(line)]
<1> DEFINE k == Len(line)
<1>1. line \in Seq(Nodes) /\ NoRepeats(line) /\ head = line[1]
  BY DEF ReclaimInv, LineInv, QueueTypeOK
<1>2. /\ line' \in Seq(Nodes) /\ k \in Nat \ {0} /\ Len(line') = k - 1 /\ 1 \in 1..k
      /\ \A i \in 1..k - 1 : line'[i] = line[i + 1]
  BY <1>1, QueueTail
<1>3. NoRepeats(line')
  BY <1>1, TailContains
<1>4. \A m : InLine(m)' <=> InLine(m) /\ m # head
  BY <1>1, TailContains DEF InLine
<1>5. InLine(head)
  BY <1>1, <1>2 DEF InLine, Contains
<1>6. \A i \in 1..k : next[line[i]] = IF i = k THEN nullptr ELSE line[i + 1]
  BY DEF ReclaimInv, LineInv
<1>7. \A i \in 1..k : i > 1 => value[line[i]] \in Values
  BY DEF ReclaimInv, LineInv
<1> HIDE DEF k
<1>8. ASSUME NEW i \in 1..k - 1
      PROVE  /\ next[line'[i]] = IF i = k - 1 THEN nullptr ELSE line'[i + 1]
             /\ value[line'[i]] \in Values
  <2>1. i + 1 \in 1..k /\ i + 1 > 1 /\ (i = k - 1 <=> i + 1 = k)
    BY <1>2
  <2>2. next[line'[i]] = IF i + 1 = k THEN nullptr ELSE line[(i + 1) + 1]
    BY <1>2, <1>6, <2>1
  <2>3. i # k - 1 => i + 1 \in 1..k - 1
    BY <1>2
  <2>4. i # k - 1 => line'[i + 1] = line[(i + 1) + 1]
    BY <1>2, <2>3
  <2> QED BY <1>2, <1>7, <2>1, <2>2, <2>4
<1>9. head' = IF line' = <<>> THEN nullptr ELSE line'[1]
  <2>1. head' = IF 1 = k THEN nullptr ELSE line[1 + 1]
    BY <1>1, <1>2, <1>6
  <2>2. line' = <<>> <=> k = 1
    <3>1. line' = <<>> <=> Len(line') = 0
      BY <1>2, EmptySeq
    <3> QED BY <1>2, <3>1
  <2>3. k # 1 => line'[1] = line[1 + 1]
    <3>1. k # 1 => 1 \in 1..k - 1
      BY <1>2
    <3> QED BY <1>2, <3>1
  <2> QED BY <2>1, <2>2, <2>3
<1>10. line' # <<>> => line'[Len(line')] = line[k]
  <2> SUFFICES ASSUME line' # <<>> PROVE line'[Len(line')] = line[k]
    OBVIOUS
  <2>1. Len(line') # 0
    BY <1>2, EmptySeq
  <2>2. k - 1 \in 1..k - 1 /\ (k - 1) + 1 = k
    BY <1>2, <2>1
  <2>3. line'[k - 1] = line[(k - 1) + 1]
    BY <1>2, <2>2
  <2> QED BY <1>2, <2>2, <2>3
<1> QED BY <1>1, <1>2, <1>3, <1>4, <1>5, <1>8, <1>9, <1>10 DEF k

\* TryPop moves head.
LEMMA PopCasKeeps ==
    ASSUME MemoryInv, CollectorLeft \/ OneEach, NEW c \in Consumers, PopCas(c),
           head = ptr[c], head' = next[ptr[c]], line' = Tail(line), pc' = [pc EXCEPT ![c] = "value"]
    PROVE  MemoryInv'
<1> USE QueueThreads
<1>0. /\ ReclaimInv /\ HazardTypeOK /\ QueueTypeOK /\ PopKnows(c) /\ c \in Threads /\ c \notin Producers
      /\ faults = {}
  BY DEF MemoryInv, ReclaimInv, NoUseAfterFree
<1>1. /\ pc[c] = "cas" /\ UNCHANGED <<tail, next, value, gone, ptr, new_node, pushes, result>>
      /\ UNCHANGED <<live, threads, protected_ptr, mutators_count, retired_ptrs,
                     approximate_free_list_size, cancel_collect, collectorVars, dpc>>
  BY DEF PopCas, KeepAllButFaults, mutatorVars
<1>2. ~gone
  BY <1>0, <1>1 DEF ReclaimInv, LineInv
<1>3. /\ line # <<>> /\ head \in Nodes /\ InLine(head) /\ InLine(tail) /\ head \in live /\ dpc = "alive"
  BY <1>0, <1>2, QueueNotEmpty, ListNodes
<1>4. next[head] # nullptr /\ tail # head
  BY <1>0, <1>1 DEF PopKnows
<1>5. /\ line' \in Seq(Nodes) /\ NoRepeats(line')
      /\ \A i \in 1..Len(line') : next'[line'[i]] = IF i = Len(line') THEN nullptr ELSE line'[i + 1]
      /\ \A i \in 1..Len(line') : value'[line'[i]] \in Values
      /\ head' = IF line' = <<>> THEN nullptr ELSE line'[1]
      /\ \A m : InLine(m)' <=> InLine(m) /\ m # head
      /\ line' # <<>> => line'[Len(line')] = line[Len(line)]
  BY <1>0, <1>1, <1>3, FirstOut
<1>6. InLine(tail)'
  <2>1. PICK m : m = tail
    OBVIOUS
  <2>2. InLine(m)'
    BY <1>3, <1>4, <1>5, <2>1
  <2> QED BY <1>1, <2>1, <2>2 DEF InLine
<1>7. LineInv'
  BY <1>1, <1>2, <1>3, <1>5, <1>6 DEF LineInv
<1>8. line' # <<>> /\ head' = line'[1] /\ head' \in live /\ value[head'] \in Values /\ head' \in Nodes
  <2>1. line' # <<>> /\ head' = line'[1]
    BY <1>4, <1>5
  <2>2. 1 \in 1..Len(line') /\ line'[1] \in Nodes
    BY <1>5, <2>1, QueueTail
  <2>3. PICK m : m = line'[1]
    OBVIOUS
  <2>4. InLine(m)'
    BY <2>2, <2>3 DEF InLine, Contains
  <2>5. m \in live
    BY <1>0, <1>5, <2>4, ListNodes
  <2> QED BY <1>1, <1>5, <2>1, <2>2, <2>3, <2>5
<1>9. /\ pc'[c] = "value" /\ \A u \in Threads : u # c => pc'[u] = pc[u]
  BY <1>0 DEF QueueTypeOK
<1>10. LocalsSame(c)
  BY <1>1, <1>9 DEF LocalsSame
<1>11. MutatorInv' /\ HazardTypeOK'
  <2>1. MutatorInv'
    BY <1>0, <1>1, <1>9, <1>10, PopMutators
  <2>2. HazardTypeOK'
    BY <1>0, <1>1 DEF HazardTypeOK, collectorVars
  <2> QED BY <2>1, <2>2
<1>12. QueueTypeOK'
  <2>1. \A q \in Producers : pc'[q] # "idle" => pushes'[q] < MaxPushes
    BY <1>0, <1>1, <1>9 DEF QueueTypeOK
  <2> QED BY <1>0, <1>1, <1>5, <1>8, <2>1 DEF QueueTypeOK
<1>13. ASSUME NEW u \in Threads, Known(ptr[u]) PROVE Known(ptr[u])'
  <2>1. CASE InLine(ptr[u]) /\ ptr[u] # head
    <3>1. PICK m : m = ptr[u]
      OBVIOUS
    <3>2. InLine(m)'
      BY <1>5, <2>1, <3>1
    <3>3. InLine(ptr[u])'
      BY <1>1, <3>1, <3>2 DEF InLine
    <3> QED BY <1>1, <1>13, <3>3 DEF Known
  <2>2. CASE next[ptr[u]] # nullptr
    BY <1>1, <1>13, <2>2 DEF Known
  <2> QED BY <1>4, <1>13, <2>1, <2>2 DEF Known
<1>14. PlaceInv'
  <2>0. PICK h : h = head
    OBVIOUS
  <2>1. PlacedAt(h, "list", nullptr) /\ PlacedOnce /\ h \in live
    BY <1>0, <1>3, <2>0, AtIntro DEF ReclaimInv, PlaceInv
  <2>2. ASSUME NEW m, NEW a, NEW x
        PROVE  PlacedAt(m, a, x)' <=> \/ a = "taken" /\ x = c /\ m = h
                                      \/ PlacedAt(m, a, x) /\ ~(a = "list" /\ m = h)
    <3>1. CASE a = "list"
      <4>1. InLine(m)' <=> InLine(m) /\ m # h
        BY <1>5, <2>0
      <4> QED BY <3>1, <4>1 DEF PlacedAt
    <3>2. CASE a = "new"
      BY <1>1, <1>9, <3>2 DEF PlacedAt, HasNew
    <3>3. CASE a = "taken"
      <4>1. CASE x = c
        BY <1>1, <1>9, <2>0, <3>3, <4>1 DEF PlacedAt, HasOld
      <4>2. CASE x # c
        BY <1>1, <1>9, <3>3, <4>2 DEF PlacedAt, HasOld
      <4> QED BY <4>1, <4>2
    <3>4. CASE a = "retired" \/ a = "detached"
      BY <1>1, <3>4 DEF PlacedAt, collectorVars
    <3> QED BY <3>1, <3>2, <3>3, <3>4 DEF PlacedAt
  <2>3. \A a, x : PlacedAt(h, a, x) => a = "list" /\ x = nullptr
    BY <1>0, <2>1, AtOnce
  <2>4. \A a, x : PlacedAt(h, a, x)' <=> a = "taken" /\ x = c
    BY <2>2, <2>3
  <2>5. \A m, a, x : m # h => (PlacedAt(m, a, x)' <=> PlacedAt(m, a, x))
    BY <2>2
  <2>6. "taken" \in Places /\ c \in Owners
    BY <1>0
  <2>7. PlacedOnce'
    BY <1>1, <2>1, <2>4, <2>5, <2>6, PlaceMoves
  <2> QED BY <1>0, <1>1, <2>7 DEF ReclaimInv, PlaceInv, collectorVars
<1>15. ASSUME NEW q \in Producers PROVE PushKnows(q)'
  <2>1. PushKnows(q) /\ pc'[q] = pc[q] /\ ptr'[q] = ptr[q] /\ new_node'[q] = new_node[q]
    BY <1>0, <1>1, <1>9 DEF ReclaimInv
  <2>2. Known(ptr[q]) => Known(ptr[q])'
    BY <1>13
  <2> QED BY <1>1, <2>1, <2>2 DEF PushKnows, HasNew
<1>16. ASSUME NEW d \in Consumers PROVE PopKnows(d)'
  <2>1. CASE d = c
    BY <1>1, <1>4, <1>8, <1>9, <2>1 DEF PopKnows
  <2>2. CASE d # c
    <3>1. PopKnows(d) /\ pc'[d] = pc[d] /\ ptr'[d] = ptr[d]
      BY <1>0, <1>1, <1>9, <2>2 DEF ReclaimInv
    <3>2. Known(ptr[d]) => Known(ptr[d])'
      BY <1>13
    <3>3. InLine(ptr[d])' => InLine(ptr[d]) /\ ptr[d] # head
      <4>1. PICK m : m = ptr[d]
        OBVIOUS
      <4>2. InLine(m)' => InLine(m) /\ m # head
        BY <1>5
      <4> QED BY <1>1, <4>1, <4>2 DEF InLine
    <3>4. InLine(head)'
      <4>1. 1 \in 1..Len(line')
        BY <1>5, <1>8, QueueTail
      <4>2. \E i \in 1..Len(line') : line'[i] = head'
        BY <1>8, <4>1
      <4> QED BY <4>2 DEF InLine, Contains
    <3>5. pc[d] \in {"next", "tail", "help", "cas"} => ~InLine(ptr[d])' /\ ptr'[d] # head'
      <4>1. ptr'[d] = head' => InLine(ptr[d])'
        BY <3>4 DEF InLine
      <4> QED BY <3>1, <3>3, <4>1 DEF PopKnows
    <3> QED BY <1>1, <3>1, <3>2, <3>5 DEF PopKnows
  <2> QED BY <2>1, <2>2
<1>17. NothingLeaks'
  BY <1>0, <1>1, <1>2, NothingLeaksYet
<1>18. CollectorLeft => KeptInv'
  <2> SUFFICES ASSUME CollectorLeft PROVE KeptInv'
    OBVIOUS
  <2>1. KeptInv
    BY <1>0 DEF ReclaimInv
  <2>2. \A q \in Producers : pc'[q] = pc[q] /\ ptr'[q] = ptr[q]
    BY <1>1, <1>9
  <2> QED BY <1>1, <2>1, <2>2 DEF KeptInv, collectorVars
<1>19. ~CollectorLeft => PairInv'
  <2> SUFFICES ASSUME ~CollectorLeft PROVE PairInv'
    OBVIOUS
  <2>1. PairInv
    BY <1>0 DEF ReclaimInv
  <2>2. \A d \in Consumers : d = c
    BY DEF OneEach
  <2>3. PopPaired(c)'
    BY <1>1, <1>9 DEF PopPaired
  <2>4. ASSUME NEW q \in Producers PROVE PushPaired(q)'
    <3>1. PushPaired(q) /\ pc'[q] = pc[q] /\ ptr'[q] = ptr[q] /\ new_node'[q] = new_node[q]
      BY <1>1, <1>2, <1>9, <2>1 DEF PairInv
    <3> QED BY <1>1, <1>5, <1>8, <3>1 DEF PushPaired
  <2> QED BY <2>2, <2>3, <2>4 DEF PairInv
<1>20. NoUseAfterFree'
  BY <1>0, <1>3 DEF NoUseAfterFree, PopCas, Touch
<1>21. IF CollectorLeft THEN KeptInv' ELSE PairInv'
  BY <1>18, <1>19
<1> QED BY <1>7, <1>11, <1>12, <1>14, <1>15, <1>16, <1>17, <1>20, <1>21 DEF MemoryInv, ReclaimInv

\* TryPop retires the node that it has taken.
LEMMA PopRetireKeeps ==
    ASSUME MemoryInv, CollectorLeft \/ OneEach, NEW c \in Consumers, PopRetire(c)
    PROVE  MemoryInv'
<1> USE QueueThreads
<1>0. /\ ReclaimInv /\ HazardTypeOK /\ QueueTypeOK /\ c \in Threads /\ c \notin Producers
      /\ faults = {}
  BY DEF MemoryInv, ReclaimInv, NoUseAfterFree
<1>1. /\ pc[c] = "retire" /\ pc' = [pc EXCEPT ![c] = "increase"] /\ ptr' = [ptr EXCEPT ![c] = nullptr]
      /\ retired_ptrs' = [retired_ptrs EXCEPT ![c] = <<ptr[c]>> \o @]
      /\ UNCHANGED <<head, tail, next, value, gone, line, new_node, pushes, result>>
      /\ UNCHANGED <<live, faults, threads, protected_ptr, mutators_count,
                     approximate_free_list_size, cancel_collect, collectorVars, dpc>>
  BY DEF PopRetire, ThreadGoto, Retire, nodeVars, mutatorVars
<1>2. ~gone /\ HasOld(c)
  BY <1>0, <1>1 DEF ReclaimInv, LineInv, HasOld
<1>3. PICK n : n = ptr[c]
  OBVIOUS
<1>4. n \in live /\ n \in Nodes /\ PlacedAt(n, "taken", c)
  BY <1>0, <1>2, <1>3, OwnedNodes, AtIntro DEF HazardTypeOK
<1>5. \A a, x : PlacedAt(n, a, x) => a = "taken" /\ x = c
  BY <1>0, <1>4, AtOnce
<1>6. ~Contains(retired_ptrs[c], n) /\ retired_ptrs[c] \in Seq(Nodes)
  BY <1>0, <1>5, AtIntro, QueueTypes
<1>7. /\ pc'[c] = "increase" /\ ptr'[c] = nullptr /\ retired_ptrs'[c] = <<n>> \o retired_ptrs[c]
      /\ \A u \in Threads : u # c => pc'[u] = pc[u] /\ ptr'[u] = ptr[u]
      /\ \A d \in Consumers : d # c => retired_ptrs'[d] = retired_ptrs[d]
  BY <1>0, <1>1, <1>3 DEF QueueTypeOK, HazardTypeOK
<1>8. /\ <<n>> \o retired_ptrs[c] \in Seq(Nodes)
      /\ \A m : Contains(retired_ptrs'[c], m) <=> m = n \/ Contains(retired_ptrs[c], m)
      /\ NoRepeats(retired_ptrs'[c])
  <2>1. NoRepeats(retired_ptrs[c])
    BY <1>0 DEF ReclaimInv, PlaceInv
  <2> QED BY <1>4, <1>6, <1>7, <2>1, QueueCons, ConsContains
<1>9. LocalsSame(c)
  BY <1>1, <1>7 DEF LocalsSame
<1>10. MutatorInv' /\ HazardTypeOK'
  <2>1. MutatorInv'
    BY <1>0, <1>1, <1>7, <1>9, PopMutators
  <2>2. retired_ptrs' \in [Consumers -> Seq(Nodes)]
    BY <1>0, <1>1, <1>3, <1>8 DEF HazardTypeOK
  <2>3. HazardTypeOK'
    BY <1>0, <1>1, <2>2 DEF HazardTypeOK, collectorVars
  <2> QED BY <2>1, <2>3
<1>11. QueueTypeOK'
  <2>1. \A q \in Producers : pc'[q] # "idle" => pushes'[q] < MaxPushes
    BY <1>0, <1>1, <1>7 DEF QueueTypeOK
  <2> QED BY <1>0, <1>1, <2>1 DEF QueueTypeOK
<1>12. LineInv'
  BY <1>0, <1>1, <1>2 DEF ReclaimInv, LineInv, InLine
<1>13. PlaceInv'
  <2>1. ASSUME NEW m, NEW a, NEW x
        PROVE  PlacedAt(m, a, x)' <=> \/ a = "retired" /\ x = c /\ m = n
                                      \/ PlacedAt(m, a, x) /\ ~(a = "taken" /\ x = c)
    <3>1. CASE a = "list"
      BY <1>1, <3>1 DEF PlacedAt, InLine
    <3>2. CASE a = "new"
      BY <1>1, <1>7, <3>2 DEF PlacedAt, HasNew
    <3>3. CASE a = "taken"
      <4>1. CASE x = c
        BY <1>7, <3>3, <4>1 DEF PlacedAt, HasOld
      <4>2. CASE x # c
        BY <1>7, <3>3, <4>2 DEF PlacedAt, HasOld
      <4> QED BY <4>1, <4>2
    <3>4. CASE a = "retired"
      <4>1. CASE x = c
        BY <1>7, <1>8, <3>4, <4>1 DEF PlacedAt
      <4>2. CASE x # c
        BY <1>7, <3>4, <4>2 DEF PlacedAt
      <4> QED BY <4>1, <4>2
    <3>5. CASE a = "detached"
      BY <1>1, <3>5 DEF PlacedAt, collectorVars
    <3> QED BY <3>1, <3>2, <3>3, <3>4, <3>5 DEF PlacedAt
  <2>2. \A a, x : PlacedAt(n, a, x)' <=> a = "retired" /\ x = c
    BY <1>5, <2>1
  <2>3. \A m : PlacedAt(m, "taken", c) => m = n
    BY <1>3, AtIntro
  <2>4. \A m, a, x : m # n => (PlacedAt(m, a, x)' <=> PlacedAt(m, a, x))
    BY <2>1, <2>3
  <2>5. PlacedOnce /\ "retired" \in Places /\ c \in Owners
    BY <1>0 DEF ReclaimInv, PlaceInv
  <2>6. PlacedOnce'
    BY <1>1, <1>4, <2>2, <2>4, <2>5, PlaceMoves
  <2>7. \A d \in Consumers : NoRepeats(retired_ptrs'[d])
    BY <1>0, <1>7, <1>8 DEF ReclaimInv, PlaceInv
  <2> QED BY <1>0, <1>1, <2>6, <2>7 DEF ReclaimInv, PlaceInv, collectorVars
<1>14. ASSUME NEW q \in Producers PROVE PushKnows(q)'
  <2>1. PushKnows(q) /\ pc'[q] = pc[q] /\ ptr'[q] = ptr[q] /\ new_node'[q] = new_node[q]
    BY <1>0, <1>1, <1>7 DEF ReclaimInv
  <2>2. Known(ptr[q])' <=> Known(ptr[q])
    BY <1>1, <2>1 DEF Known, InLine
  <2> QED BY <1>1, <2>1, <2>2 DEF PushKnows, HasNew
<1>15. ASSUME NEW d \in Consumers PROVE PopKnows(d)'
  <2>1. CASE d = c
    BY <1>7, <2>1 DEF PopKnows
  <2>2. CASE d # c
    <3>1. PopKnows(d) /\ pc'[d] = pc[d] /\ ptr'[d] = ptr[d]
      BY <1>0, <1>7, <2>2 DEF ReclaimInv
    <3>2. (Known(ptr[d])' <=> Known(ptr[d])) /\ (InLine(ptr[d])' <=> InLine(ptr[d]))
      BY <1>1, <3>1 DEF Known, InLine
    <3> QED BY <1>1, <3>1, <3>2 DEF PopKnows
  <2> QED BY <2>1, <2>2
<1>16. NothingLeaks'
  BY <1>0, <1>1, <1>2, NothingLeaksYet
<1>17. CollectorLeft => KeptInv'
  <2>1. \A q \in Producers : pc'[q] = pc[q] /\ ptr'[q] = ptr[q]
    BY <1>7
  <2> QED BY <1>0, <1>1, <2>1 DEF ReclaimInv, KeptInv, collectorVars
<1>18. ~CollectorLeft => PairInv'
  <2> SUFFICES ASSUME ~CollectorLeft PROVE PairInv'
    OBVIOUS
  <2>1. \A d \in Consumers : d = c
    BY DEF OneEach
  <2>2. PopPaired(c)'
    BY <1>7 DEF PopPaired
  <2>3. ASSUME NEW q \in Producers PROVE PushPaired(q)'
    <3>1. PushPaired(q) /\ pc'[q] = pc[q] /\ ptr'[q] = ptr[q] /\ new_node'[q] = new_node[q]
      BY <1>0, <1>1, <1>2, <1>7 DEF ReclaimInv, PairInv
    <3> QED BY <1>1, <3>1 DEF PushPaired
  <2> QED BY <2>1, <2>2, <2>3 DEF PairInv
<1>19. NoUseAfterFree'
  BY <1>0, <1>1 DEF NoUseAfterFree
<1>20. IF CollectorLeft THEN KeptInv' ELSE PairInv'
  BY <1>17, <1>18
<1> QED BY <1>10, <1>11, <1>12, <1>13, <1>14, <1>15, <1>16, <1>19, <1>20 DEF MemoryInv, ReclaimInv

-----------------------------------------------------------------------------
(* The collector.                                                          *)

\* It runs only in the regime of one producer and one consumer, whose pointers
\* lead into the list; so it is enough that it deletes no node of the list.
LEMMA CollectorKeeps ==
    ASSUME MemoryInv, UNCHANGED <<nodeVars, threadVars, dpc>>, cpc # "exit",
           NoUseAfterFree', HazardTypeOK', PlaceInv', MutatorInv'
    PROVE  MemoryInv'
<1> USE QueueThreads
<1>0. ReclaimInv /\ HazardTypeOK /\ QueueTypeOK
  BY DEF MemoryInv, ReclaimInv
<1>1. /\ UNCHANGED <<head, tail, next, value, gone, line>>
      /\ UNCHANGED <<pc, ptr, new_node, pushes, result, dpc>>
  BY DEF nodeVars, threadVars
<1>2. ~CollectorLeft /\ PairInv
  BY <1>0 DEF ReclaimInv, KeptInv
<1>3. dpc # "destroyed" /\ NothingLeaks'
  BY <1>0, <1>1 DEF ReclaimInv, NothingLeaks
<1>4. QueueTypeOK' /\ LineInv'
  BY <1>0, <1>1 DEF ReclaimInv, QueueTypeOK, LineInv, InLine
<1>5. PairInv'
  BY <1>1, <1>2 DEF PairInv, PushPaired, PopPaired
<1>6. ASSUME NEW n, InLine(n) PROVE n \in live'
  <2>1. PlacedAt(n, "list", nullptr)' /\ n \in Nodes
    BY <1>0, <1>1, <1>6, ListNodes DEF PlacedAt, InLine
  <2> QED BY <2>1 DEF PlaceInv, PlacedOnce, Places, Owners
<1>7. ASSUME NEW p \in Producers PROVE PushKnows(p)'
  <2>1. PushKnows(p)
    BY <1>0 DEF ReclaimInv
  <2>2. pc[p] \in {"next", "help", "link"} => Known(ptr[p])'
    <3> SUFFICES ASSUME pc[p] \in {"next", "help", "link"} PROVE Known(ptr[p])'
      OBVIOUS
    <3>1. ~gone
      BY <1>0 DEF ReclaimInv, LineInv
    <3>2. ptr[p] = tail /\ InLine(tail)
      BY <1>0, <1>2, <3>1, QueueNotEmpty DEF PairInv, PushPaired
    <3>3. tail \in live'
      BY <1>6, <3>2
    <3> QED BY <1>1, <3>2, <3>3 DEF Known, InLine
  <2> QED BY <1>1, <2>1, <2>2 DEF PushKnows, HasNew
<1>8. ASSUME NEW c \in Consumers PROVE PopKnows(c)'
  <2>1. PopKnows(c) /\ PopPaired(c)
    BY <1>0, <1>2 DEF ReclaimInv, PairInv
  <2>2. pc[c] # "idle" => head \in live' /\ InLine(head)
    <3>1. pc[c] # "idle" => ~gone
      BY <1>0 DEF ReclaimInv, LineInv
    <3> QED BY <1>0, <1>6, <3>1, QueueNotEmpty
  <2>3. pc[c] \in {"next", "tail", "help", "cas"} =>
          Known(ptr[c])' /\ (InLine(ptr[c])' => ptr'[c] = head')
    BY <1>1, <2>1, <2>2 DEF PopPaired, Known, InLine
  <2>4. pc[c] = "value" => next[ptr[c]] \in live'
    BY <2>1, <2>2 DEF PopPaired
  <2> QED BY <1>1, <2>1, <2>3, <2>4 DEF PopKnows
<1> QED BY <1>2, <1>3, <1>4, <1>5, <1>7, <1>8 DEF MemoryInv, ReclaimInv

\* The threads' books do not change with the collector.
LEMMA CollectorMutators ==
    ASSUME ReclaimInv, UNCHANGED <<mutatorVars, pc>>,
           \A c \in Consumers : retired_ptrs'[c] # retired_ptrs[c] => c \in threads,
           cpc' = "delete" => current' \in threads,
           candidates' # <<>> => cpc' = "delete"
    PROVE  MutatorInv'
<1>1. MutatorInv
  BY DEF ReclaimInv
<1>2. {c \in Consumers : pc[c] \notin {"idle", "inserted"}}'
        = {c \in Consumers : pc[c] \notin {"idle", "inserted"}}
  OBVIOUS
<1> QED BY <1>1, <1>2 DEF MutatorInv, mutatorVars

\* A step of the collector that changes its own state only.
LEMMA CollectorCalm ==
    ASSUME MemoryInv, cpc # "exit",
           UNCHANGED <<nodeVars, threadVars, live, faults, mutatorVars, retired_ptrs, candidates, dpc>>,
           HazardTypeOK', cpc' # "delete", candidates = <<>>
    PROVE  MemoryInv'
<1>0. ReclaimInv
  BY DEF MemoryInv
<1>1. UNCHANGED <<live, line, pc, ptr, new_node, retired_ptrs, candidates>>
  BY DEF nodeVars, threadVars
<1>2. PlacedOnce'
  BY <1>1 DEF MemoryInv, ReclaimInv, PlaceInv, PlacedOnce, PlacedAt, InLine, HasNew, HasOld
<1>3. PlaceInv'
  BY <1>0, <1>1, <1>2 DEF ReclaimInv, PlaceInv
<1>4. MutatorInv'
  BY <1>0, <1>1, CollectorMutators
<1>5. NoUseAfterFree'
  BY DEF MemoryInv, NoUseAfterFree
<1> QED BY <1>3, <1>4, <1>5, CollectorKeeps

\* The collector looks whether it is needed, takes the lock, reads the pointers
\* that are protected, gives the lock back and sleeps.
LEMMA CollectorReads ==
    ASSUME MemoryInv, UNCHANGED <<nodeVars, threadVars>>,
           \/ CollectTest \/ CollectLock \/ CollectScan \/ CollectNextThread \/ CollectWakeUp
           \/ CollectCheck /\ todo = {}
    PROVE  MemoryInv'
<1>0. HazardTypeOK /\ (candidates # <<>> => cpc = "delete")
  BY DEF MemoryInv, ReclaimInv, MutatorInv
<1>1. /\ UNCHANGED <<live, faults, mutatorVars, retired_ptrs, candidates, dpc>>
      /\ cpc # "exit" /\ cpc' # "delete" /\ candidates = <<>>
  BY <1>0 DEF CollectTest, CollectLock, CollectScan, CollectNextThread, CollectWakeUp, CollectCheck
<1>2. HazardTypeOK'
  <2>1. CASE CollectTest
    BY <1>0, <2>1 DEF CollectTest, HazardTypeOK, mutatorVars
  <2>2. CASE CollectLock
    BY <1>0, <2>2 DEF CollectLock, HazardTypeOK, mutatorVars
  <2>3. CASE CollectScan
    <3>1. \A c \in todo : {protected_ptr[c]} \ {nullptr} \subseteq Nodes
      BY <1>0 DEF HazardTypeOK
    <3>2. snapshot' \subseteq Nodes /\ todo' \subseteq threads
      BY <1>0, <2>3, <3>1 DEF CollectScan, HazardTypeOK
    <3> QED BY <1>0, <2>3, <3>2 DEF CollectScan, HazardTypeOK, mutatorVars
  <2>4. CASE CollectNextThread
    BY <1>0, <2>4 DEF CollectNextThread, HazardTypeOK, mutatorVars
  <2>5. CASE CollectWakeUp
    BY <1>0, <2>5 DEF CollectWakeUp, HazardTypeOK, mutatorVars
  <2>6. CASE CollectCheck /\ todo = {}
    BY <1>0, <2>6 DEF CollectCheck, HazardTypeOK, mutatorVars
  <2> QED BY <2>1, <2>2, <2>3, <2>4, <2>5, <2>6
<1> QED BY <1>1, <1>2, CollectorCalm

\* It detaches the list of a thread.
LEMMA DetachKeeps ==
    ASSUME MemoryInv, UNCHANGED <<nodeVars, threadVars>>, CollectCheck, todo # {}
    PROVE  MemoryInv'
<1> USE QueueThreads
<1>0. ReclaimInv /\ HazardTypeOK /\ QueueTypeOK /\ MutatorInv
  BY DEF MemoryInv, ReclaimInv
<1>1. PICK c \in todo : /\ current' = c /\ candidates' = retired_ptrs[c]
                        /\ retired_ptrs' = [retired_ptrs EXCEPT ![c] = <<>>]
                        /\ todo' = todo \ {c} /\ cpc' = "delete"
  BY DEF CollectCheck
<1>2. /\ cpc = "check"
      /\ UNCHANGED <<live, faults, mutatorVars, approximate_free_list_size, cancel_collect, snapshot, dpc>>
  BY DEF CollectCheck
<1>3. c \in threads /\ c \in Consumers /\ c \in Owners /\ nullptr \in Owners
  BY <1>0 DEF HazardTypeOK
<1>4. /\ retired_ptrs'[c] = <<>> /\ \A d \in Consumers : d # c => retired_ptrs'[d] = retired_ptrs[d]
      /\ retired_ptrs' \in [Consumers -> Seq(Nodes)]
  BY <1>0, <1>1, <1>3 DEF HazardTypeOK
<1>5. HazardTypeOK'
  BY <1>0, <1>1, <1>2, <1>3, <1>4 DEF HazardTypeOK, mutatorVars
<1>6. UNCHANGED <<line, pc, ptr, new_node>>
  BY DEF nodeVars, threadVars
<1>7. MutatorInv'
  BY <1>0, <1>1, <1>2, <1>3, <1>4, <1>6, CollectorMutators
<1>8. candidates = <<>>
  BY <1>0, <1>2 DEF MutatorInv
<1>9. /\ \A n : ~Contains(candidates, n)
      /\ \A n : ~Contains(retired_ptrs'[c], n)
      /\ NoRepeats(retired_ptrs'[c])
  BY <1>4, <1>8 DEF Contains, NoRepeats
<1>10. ASSUME NEW n, NEW a, NEW x
       PROVE  PlacedAt(n, a, x)' <=> IF a = "detached" /\ x = nullptr THEN PlacedAt(n, "retired", c)
                                     ELSE PlacedAt(n, a, x) /\ ~(a = "retired" /\ x = c)
  <2>1. CASE a = "list"
    BY <1>6, <2>1 DEF PlacedAt, InLine
  <2>2. CASE a = "new"
    BY <1>6, <2>2 DEF PlacedAt, HasNew
  <2>3. CASE a = "taken"
    BY <1>6, <2>3 DEF PlacedAt, HasOld
  <2>4. CASE a = "retired"
    <3>1. CASE x = c
      BY <1>9, <2>4, <3>1 DEF PlacedAt
    <3>2. CASE x # c
      BY <1>4, <2>4, <3>2 DEF PlacedAt
    <3> QED BY <3>1, <3>2
  <2>5. CASE a = "detached"
    BY <1>1, <1>3, <2>5 DEF PlacedAt
  <2> QED BY <2>1, <2>2, <2>3, <2>4, <2>5 DEF PlacedAt
<1>11. \A n : ~PlacedAt(n, "detached", nullptr)
  BY <1>9, AtIntro
<1>12. PlacedOnce /\ "retired" \in Places /\ "detached" \in Places /\ <<"retired", c>> # <<"detached", nullptr>>
  BY <1>0 DEF ReclaimInv, PlaceInv
<1>13. PlacedOnce'
  BY <1>2, <1>3, <1>10, <1>11, <1>12, PlaceEmpties
<1>14. PlaceInv'
  <2>1. NoRepeats(candidates') /\ \A d \in Consumers : NoRepeats(retired_ptrs'[d])
    BY <1>0, <1>1, <1>3, <1>4, <1>9 DEF ReclaimInv, PlaceInv
  <2> QED BY <1>13, <2>1 DEF PlaceInv
<1>15. NoUseAfterFree'
  BY <1>2 DEF MemoryInv, NoUseAfterFree
<1> QED BY <1>2, <1>5, <1>7, <1>14, <1>15, CollectorKeeps

\* It puts a protected node back.
LEMMA KeepKeeps ==
    ASSUME MemoryInv, UNCHANGED <<nodeVars, threadVars>>, CollectKeep
    PROVE  MemoryInv'
<1> USE QueueThreads
<1>0. ReclaimInv /\ HazardTypeOK /\ QueueTypeOK /\ MutatorInv
  BY DEF MemoryInv, ReclaimInv
<1>1. PICK c : c = current
  OBVIOUS
<1>2. PICK n : n = Head(candidates)
  OBVIOUS
<1>3. /\ cpc = "delete" /\ candidates # <<>> /\ candidates' = Tail(candidates)
      /\ retired_ptrs' = [retired_ptrs EXCEPT ![c] = <<n>> \o @]
      /\ approximate_free_list_size' = approximate_free_list_size + 1
      /\ UNCHANGED <<live, faults, mutatorVars, cancel_collect, cpc, snapshot, todo, current, dpc>>
  BY <1>1, <1>2 DEF CollectKeep
<1>4. c \in threads /\ c \in Consumers /\ c \in Owners
  BY <1>0, <1>1, <1>3 DEF HazardTypeOK, MutatorInv
<1>5. /\ candidates \in Seq(Nodes) /\ retired_ptrs[c] \in Seq(Nodes)
      /\ NoRepeats(candidates) /\ NoRepeats(retired_ptrs[c]) /\ PlacedOnce
  BY <1>0, <1>4 DEF HazardTypeOK, ReclaimInv, PlaceInv
<1>6. /\ n = candidates[1] /\ n \in Nodes /\ Contains(candidates, n)
      /\ candidates' \in Seq(Nodes) /\ NoRepeats(candidates')
      /\ \A m : Contains(candidates', m) <=> Contains(candidates, m) /\ m # n
  BY <1>2, <1>3, <1>5, HeadContains
<1>7. n \in live /\ \A a, x : PlacedAt(n, a, x) => a = "detached" /\ x = nullptr
  <2>1. PlacedAt(n, "detached", nullptr)
    BY <1>6, AtIntro
  <2> QED BY <1>0, <2>1, AtLive, AtOnce
<1>8. ~Contains(retired_ptrs[c], n)
  BY <1>4, <1>7, AtIntro
<1>9. /\ retired_ptrs'[c] = <<n>> \o retired_ptrs[c] /\ <<n>> \o retired_ptrs[c] \in Seq(Nodes)
      /\ \A d \in Consumers : d # c => retired_ptrs'[d] = retired_ptrs[d]
      /\ NoRepeats(retired_ptrs'[c])
      /\ \A m : Contains(retired_ptrs'[c], m) <=> m = n \/ Contains(retired_ptrs[c], m)
  <2>1. /\ retired_ptrs'[c] = <<n>> \o retired_ptrs[c]
        /\ \A d \in Consumers : d # c => retired_ptrs'[d] = retired_ptrs[d]
    BY <1>0, <1>3, <1>4 DEF HazardTypeOK
  <2> QED BY <1>5, <1>6, <1>8, <2>1, QueueCons, ConsContains
<1>10. HazardTypeOK'
  <2>1. retired_ptrs' \in [Consumers -> Seq(Nodes)]
    BY <1>0, <1>3, <1>9 DEF HazardTypeOK
  <2> QED BY <1>0, <1>3, <1>6, <2>1 DEF HazardTypeOK, mutatorVars
<1>11. UNCHANGED <<line, pc, ptr, new_node>>
  BY DEF nodeVars, threadVars
<1>12. MutatorInv'
  BY <1>0, <1>1, <1>3, <1>4, <1>9, <1>11, CollectorMutators
<1>13. ASSUME NEW m, NEW a, NEW x
       PROVE  PlacedAt(m, a, x)' <=> \/ a = "retired" /\ x = c /\ m = n
                                     \/ PlacedAt(m, a, x) /\ ~(a = "detached" /\ m = n)
  <2>1. CASE a = "list"
    BY <1>11, <2>1 DEF PlacedAt, InLine
  <2>2. CASE a = "new"
    BY <1>11, <2>2 DEF PlacedAt, HasNew
  <2>3. CASE a = "taken"
    BY <1>11, <2>3 DEF PlacedAt, HasOld
  <2>4. CASE a = "retired"
    <3>1. CASE x = c
      BY <1>4, <1>9, <2>4, <3>1 DEF PlacedAt
    <3>2. CASE x # c
      BY <1>9, <2>4, <3>2 DEF PlacedAt
    <3> QED BY <3>1, <3>2
  <2>5. CASE a = "detached"
    BY <1>6, <2>5 DEF PlacedAt
  <2> QED BY <2>1, <2>2, <2>3, <2>4, <2>5 DEF PlacedAt
<1>14. \A a, x : PlacedAt(n, a, x)' <=> a = "retired" /\ x = c
  BY <1>7, <1>13
<1>15. \A m, a, x : m # n => (PlacedAt(m, a, x)' <=> PlacedAt(m, a, x))
  BY <1>13
<1>16. PlacedOnce'
  BY <1>3, <1>4, <1>5, <1>7, <1>14, <1>15, PlaceMoves
<1>17. PlaceInv'
  <2>1. \A d \in Consumers : NoRepeats(retired_ptrs'[d])
    BY <1>0, <1>9 DEF ReclaimInv, PlaceInv
  <2> QED BY <1>6, <1>16, <2>1 DEF PlaceInv
<1>18. NoUseAfterFree'
  BY <1>3 DEF MemoryInv, NoUseAfterFree
<1> QED BY <1>3, <1>10, <1>12, <1>17, <1>18, CollectorKeeps

\* It deletes a node that was not protected.
LEMMA DeleteKeeps ==
    ASSUME MemoryInv, UNCHANGED <<nodeVars, threadVars>>, CollectDelete
    PROVE  MemoryInv'
<1> USE QueueThreads
<1>0. ReclaimInv /\ HazardTypeOK /\ QueueTypeOK /\ MutatorInv
  BY DEF MemoryInv, ReclaimInv
<1>1. PICK n : n = Head(candidates)
  OBVIOUS
<1>2. /\ cpc = "delete" /\ candidates # <<>> /\ candidates' = Tail(candidates)
      /\ live' = live \ {n} /\ faults' = IF {n} \subseteq live THEN faults ELSE faults \union {"delete"}
      /\ UNCHANGED <<mutatorVars, retired_ptrs, approximate_free_list_size, cancel_collect, cpc,
                     snapshot, todo, current, dpc>>
  BY <1>1 DEF CollectDelete, Delete
<1>3. candidates \in Seq(Nodes) /\ NoRepeats(candidates) /\ PlacedOnce
  BY <1>0 DEF HazardTypeOK, ReclaimInv, PlaceInv
<1>4. /\ n = candidates[1] /\ Contains(candidates, n)
      /\ candidates' \in Seq(Nodes) /\ NoRepeats(candidates')
      /\ \A m : Contains(candidates', m) <=> Contains(candidates, m) /\ m # n
  BY <1>1, <1>2, <1>3, HeadContains
<1>5. n \in live /\ \A a, x : PlacedAt(n, a, x) => a = "detached" /\ x = nullptr
  <2>1. PlacedAt(n, "detached", nullptr)
    BY <1>4, AtIntro
  <2> QED BY <1>0, <2>1, AtLive, AtOnce
<1>6. HazardTypeOK'
  BY <1>0, <1>2, <1>4 DEF HazardTypeOK, mutatorVars
<1>7. UNCHANGED <<line, pc, ptr, new_node>>
  BY DEF nodeVars, threadVars
<1>8. MutatorInv'
  BY <1>0, <1>2, <1>7, CollectorMutators DEF MutatorInv
<1>9. ASSUME NEW m, NEW a, NEW x
      PROVE  PlacedAt(m, a, x)' <=> PlacedAt(m, a, x) /\ ~(a = "detached" /\ m = n)
  <2>1. CASE a = "list"
    BY <1>7, <2>1 DEF PlacedAt, InLine
  <2>2. CASE a = "new"
    BY <1>7, <2>2 DEF PlacedAt, HasNew
  <2>3. CASE a = "taken"
    BY <1>7, <2>3 DEF PlacedAt, HasOld
  <2>4. CASE a = "retired"
    BY <1>2, <2>4 DEF PlacedAt
  <2>5. CASE a = "detached"
    BY <1>4, <2>5 DEF PlacedAt
  <2> QED BY <2>1, <2>2, <2>3, <2>4, <2>5 DEF PlacedAt
<1>10. \A m, a, x : PlacedAt(m, a, x)' <=> PlacedAt(m, a, x) /\ m # n
  BY <1>5, <1>9
<1>11. PlacedOnce'
  BY <1>2, <1>3, <1>10, PlaceGoes
<1>12. PlaceInv'
  BY <1>0, <1>2, <1>4, <1>11 DEF ReclaimInv, PlaceInv
<1>13. NoUseAfterFree'
  BY <1>2, <1>5 DEF MemoryInv, NoUseAfterFree
<1> QED BY <1>2, <1>6, <1>8, <1>12, <1>13, CollectorKeeps

\* Altogether: the collector keeps the invariant.
LEMMA CollectorStepKeeps ==
    ASSUME MemoryInv, Collector
    PROVE  MemoryInv'
<1>1. CollectorStep /\ UNCHANGED <<nodeVars, threadVars>>
  BY DEF Collector
<1> QED BY <1>1, CollectorReads, DetachKeeps, KeepKeeps, DeleteKeeps DEF CollectorStep

-----------------------------------------------------------------------------
(* The destructors.                                                        *)

\* Idle threads know nothing, and need to know nothing.
LEMMA IdleKnows ==
    ASSUME \A t \in Threads : pc'[t] = "idle", gone', CollectorLeft => cpc' = "exit"
    PROVE  /\ \A p \in Producers : PushKnows(p)' /\ ~HasNew(p)'
           /\ \A c \in Consumers : PopKnows(c)' /\ ~HasOld(c)'
           /\ IF CollectorLeft THEN KeptInv' ELSE PairInv'
<1>1. \A p \in Producers : PushKnows(p)' /\ ~HasNew(p)'
  BY QueueThreads DEF PushKnows, HasNew
<1>2. \A c \in Consumers : PopKnows(c)' /\ ~HasOld(c)' /\ PopPaired(c)'
  BY QueueThreads DEF PopKnows, HasOld, PopPaired
<1>3. CollectorLeft => KeptInv'
  BY DEF KeptInv
<1>4. PairInv'
  BY <1>2 DEF PairInv
<1> QED BY <1>1, <1>2, <1>3, <1>4

\* ~SimpleMSQueue deletes the first node.
LEMMA DestroyQueueKeeps ==
    ASSUME MemoryInv, DestroyQueue
    PROVE  MemoryInv'
<1> USE QueueThreads
<1>0. ReclaimInv /\ HazardTypeOK /\ QueueTypeOK /\ MutatorInv /\ LineInv
  BY DEF MemoryInv, ReclaimInv
<1>1. PICK h : h = head
  OBVIOUS
<1>2. /\ \A t \in Threads : pc[t] = "idle"
      /\ h # nullptr /\ head' = next[head] /\ gone' = TRUE /\ line' = Tail(line)
      /\ live' = live \ {h} /\ faults' = IF {h} \subseteq live THEN faults ELSE faults \union {"delete"}
      /\ UNCHANGED <<tail, next, value, pc, ptr, new_node, pushes, result>>
      /\ UNCHANGED <<threads, protected_ptr, mutators_count, retired_ptrs, approximate_free_list_size,
                     cancel_collect, collectorVars, dpc>>
  BY <1>1 DEF DestroyQueue, Delete, mutatorVars, threadVars
<1>3. line # <<>> /\ dpc = "alive"
  BY <1>0, <1>1, <1>2 DEF LineInv
<1>4. /\ line' \in Seq(Nodes) /\ NoRepeats(line')
      /\ \A i \in 1..Len(line') : next'[line'[i]] = IF i = Len(line') THEN nullptr ELSE line'[i + 1]
      /\ \A i \in 1..Len(line') : value'[line'[i]] \in Values
      /\ head' = IF line' = <<>> THEN nullptr ELSE line'[1]
      /\ InLine(h)
      /\ \A m : InLine(m)' <=> InLine(m) /\ m # h
  BY <1>0, <1>1, <1>2, <1>3, FirstOut
<1>5. h \in live /\ h \in Nodes /\ PlacedAt(h, "list", nullptr)
  BY <1>0, <1>4, ListNodes, AtIntro
<1>6. \A t \in Threads : pc'[t] = "idle"
  BY <1>2
<1>7. LineInv'
  BY <1>2, <1>3, <1>4, <1>6 DEF LineInv
<1>8. HazardTypeOK'
  BY <1>0, <1>2 DEF HazardTypeOK, collectorVars
<1>9. QueueTypeOK'
  <2>1. head' \in Nodes \union {nullptr}
    BY <1>0, <1>1, <1>2, <1>5 DEF QueueTypeOK
  <2> QED BY <1>0, <1>2, <1>4, <2>1 DEF QueueTypeOK
<1>10. MutatorInv'
  BY <1>0, <1>2 DEF MutatorInv, collectorVars
<1>11. CollectorLeft => cpc' = "exit"
  BY <1>0, <1>2 DEF ReclaimInv, KeptInv, collectorVars
<1>12. /\ \A p \in Producers : PushKnows(p)' /\ ~HasNew(p)'
       /\ \A c \in Consumers : PopKnows(c)' /\ ~HasOld(c)'
       /\ IF CollectorLeft THEN KeptInv' ELSE PairInv'
  BY <1>2, <1>6, <1>11, IdleKnows
<1>13. PlaceInv'
  <2>1. ASSUME NEW m, NEW a, NEW x
        PROVE  PlacedAt(m, a, x)' <=> PlacedAt(m, a, x) /\ ~(a = "list" /\ m = h)
    <3>1. CASE a = "list"
      <4>1. InLine(m)' <=> InLine(m) /\ m # h
        BY <1>4
      <4> QED BY <3>1, <4>1 DEF PlacedAt
    <3>2. CASE a = "new"
      BY <1>2, <3>2 DEF PlacedAt, HasNew
    <3>3. CASE a = "taken"
      BY <1>2, <3>3 DEF PlacedAt, HasOld
    <3>4. CASE a = "retired" \/ a = "detached"
      BY <1>2, <3>4 DEF PlacedAt, collectorVars
    <3> QED BY <3>1, <3>2, <3>3, <3>4 DEF PlacedAt
  <2>2. \A a, x : PlacedAt(h, a, x) => a = "list"
    BY <1>0, <1>5, AtOnce
  <2>3. \A m, a, x : PlacedAt(m, a, x)' <=> PlacedAt(m, a, x) /\ m # h
    BY <2>1, <2>2
  <2>4. PlacedOnce'
    BY <1>0, <1>2, <2>3, PlaceGoes DEF ReclaimInv, PlaceInv
  <2> QED BY <1>0, <1>2, <2>4 DEF ReclaimInv, PlaceInv, collectorVars
<1>14. NothingLeaks'
  BY <1>2, <1>3 DEF NothingLeaks
<1>15. NoUseAfterFree'
  BY <1>2, <1>5 DEF MemoryInv, NoUseAfterFree
<1> QED BY <1>7, <1>8, <1>9, <1>10, <1>12, <1>13, <1>14, <1>15 DEF MemoryInv, ReclaimInv

\* A queue without a first node has been destroyed.
LEMMA QueueDestroyed ==
    ASSUME ReclaimInv, head = nullptr
    PROVE  gone /\ line = <<>> /\ \A t \in Threads : pc[t] = "idle"
<1>1. gone
  BY QueueNotEmpty, QueueThreads
<1>2. line = <<>>
  <2> SUFFICES ASSUME line # <<>> PROVE FALSE
    OBVIOUS
  <2>1. head = line[1] /\ line[1] \in Nodes
    BY QueueTail DEF ReclaimInv, LineInv, QueueTypeOK
  <2> QED BY <2>1, QueueThreads
<1> QED BY <1>1, <1>2 DEF ReclaimInv, LineInv

\* ~HazardManager tells the collector to stop.
LEMMA CancelKeeps ==
    ASSUME MemoryInv, head = nullptr, CancelCollect, UNCHANGED <<nodeVars, threadVars>>
    PROVE  MemoryInv'
<1>0. ReclaimInv /\ HazardTypeOK /\ QueueTypeOK /\ MutatorInv /\ LineInv /\ PlaceInv
  BY DEF MemoryInv, ReclaimInv
<1>1. gone /\ \A t \in Threads : pc[t] = "idle"
  BY <1>0, QueueDestroyed
<1>2. /\ dpc' = "join" /\ cancel_collect' = TRUE
      /\ UNCHANGED <<live, faults, threads, protected_ptr, mutators_count, retired_ptrs,
                     approximate_free_list_size, collectorVars>>
      /\ UNCHANGED <<head, tail, next, value, gone, line, pc, ptr, new_node, pushes, result>>
  BY DEF CancelCollect, mutatorVars, nodeVars, threadVars
<1>3. HazardTypeOK' /\ QueueTypeOK'
  BY <1>0, <1>2 DEF HazardTypeOK, QueueTypeOK, collectorVars
<1>4. MutatorInv'
  BY <1>0, <1>2 DEF MutatorInv, collectorVars
<1>5. LineInv'
  BY <1>0, <1>1, <1>2 DEF LineInv, InLine
<1>6. PlaceInv'
  BY <1>0, <1>2 DEF PlaceInv, PlacedOnce, PlacedAt, InLine, HasNew, HasOld, collectorVars
<1>7. CollectorLeft => cpc' = "exit"
  BY <1>0, <1>2 DEF ReclaimInv, KeptInv, collectorVars
<1>8. /\ \A p \in Producers : PushKnows(p)'
      /\ \A c \in Consumers : PopKnows(c)'
      /\ IF CollectorLeft THEN KeptInv' ELSE PairInv'
  BY <1>1, <1>2, <1>7, IdleKnows
<1>9. NothingLeaks' /\ NoUseAfterFree'
  BY <1>2 DEF NothingLeaks, NoUseAfterFree, MemoryInv
<1> QED BY <1>3, <1>4, <1>5, <1>6, <1>8, <1>9 DEF MemoryInv, ReclaimInv

\* ~HazardManager deletes what is still retired.
LEMMA FinishKeeps ==
    ASSUME MemoryInv, head = nullptr, Finish, UNCHANGED <<nodeVars, threadVars>>
    PROVE  MemoryInv'
<1> USE QueueThreads
<1>0. ReclaimInv /\ HazardTypeOK /\ QueueTypeOK /\ MutatorInv /\ LineInv /\ PlaceInv
  BY DEF MemoryInv, ReclaimInv
<1>1. gone /\ line = <<>> /\ \A t \in Threads : pc[t] = "idle"
  BY <1>0, QueueDestroyed
<1> DEFINE D == UNION {{retired_ptrs[c][i] : i \in 1..Len(retired_ptrs[c])} : c \in threads}
<1>2. /\ dpc' = "destroyed" /\ cpc = "exit"
      /\ live' = live \ D /\ faults' = IF D \subseteq live THEN faults ELSE faults \union {"delete"}
      /\ retired_ptrs' = [c \in Consumers |-> IF c \in threads THEN <<>> ELSE retired_ptrs[c]]
      /\ UNCHANGED <<threads, protected_ptr, mutators_count, approximate_free_list_size,
                     cancel_collect, collectorVars>>
      /\ UNCHANGED <<head, tail, next, value, gone, line, pc, ptr, new_node, pushes, result>>
  BY DEF Finish, Delete, mutatorVars, nodeVars, threadVars
<1>3. \A n : n \in D <=> \E c \in threads : Contains(retired_ptrs[c], n)
  BY DEF Contains
<1> HIDE DEF D
<1>4. threads \subseteq Consumers /\ candidates = <<>>
  BY <1>0, <1>2 DEF HazardTypeOK, MutatorInv
<1>5. D \subseteq live
  BY <1>0, <1>3, <1>4, OwnedNodes
<1>6. \A c \in Consumers : retired_ptrs[c] # <<>> => c \in threads
  BY <1>0 DEF MutatorInv
<1>7. \A c \in Consumers : retired_ptrs'[c] = <<>>
  BY <1>2, <1>6
<1>8. ASSUME NEW n \in live PROVE n \in D
  <2>1. PICK a \in Places, x \in Owners : PlacedAt(n, a, x)
    BY <1>0 DEF PlaceInv, PlacedOnce
  <2>2. ~(a = "list") /\ ~(a = "detached")
    BY <1>1, <1>4, <2>1 DEF PlacedAt, InLine, Contains
  <2>3. ~(a = "new") /\ ~(a = "taken")
    BY <1>1, <2>1 DEF PlacedAt, HasNew, HasOld
  <2>4. x \in Consumers /\ Contains(retired_ptrs[x], n)
    BY <2>1, <2>2, <2>3 DEF PlacedAt
  <2>5. retired_ptrs[x] # <<>>
    BY <2>4 DEF Contains
  <2> QED BY <1>3, <1>6, <2>4, <2>5
<1>9. live' = {}
  BY <1>2, <1>8
<1>10. mutators_count = 0
  <2>1. {c \in Consumers : pc[c] \notin {"idle", "inserted"}} = {}
    BY <1>1
  <2>2. Cardinality({}) = 0
    BY FS_EmptySet
  <2> QED BY <1>0, <2>1, <2>2 DEF MutatorInv
<1>11. \A t \in Threads : pc'[t] = "idle"
  BY <1>1, <1>2
<1>12. CollectorLeft => cpc' = "exit"
  BY <1>2 DEF collectorVars
<1>13. /\ \A p \in Producers : PushKnows(p)' /\ ~HasNew(p)'
       /\ \A c \in Consumers : PopKnows(c)' /\ ~HasOld(c)'
       /\ IF CollectorLeft THEN KeptInv' ELSE PairInv'
  BY <1>1, <1>2, <1>11, <1>12, IdleKnows
<1>14. HazardTypeOK' /\ QueueTypeOK'
  <2>1. retired_ptrs' \in [Consumers -> Seq(Nodes)]
    BY <1>0, <1>2 DEF HazardTypeOK
  <2> QED BY <1>0, <1>2, <1>9, <2>1 DEF HazardTypeOK, QueueTypeOK, collectorVars
<1>15. MutatorInv'
  BY <1>0, <1>2, <1>7 DEF MutatorInv, collectorVars
<1>16. LineInv'
  BY <1>0, <1>1, <1>2 DEF LineInv, InLine
<1>17. PlaceInv'
  <2>1. ASSUME NEW n, NEW a, NEW x PROVE ~PlacedAt(n, a, x)'
    <3>1. ~InLine(n)' /\ ~Contains(candidates', n) /\ \A c \in Consumers : ~Contains(retired_ptrs'[c], n)
      BY <1>1, <1>2, <1>4, <1>7 DEF InLine, Contains, collectorVars
    <3> QED BY <1>13, <3>1 DEF PlacedAt
  <2>2. PlacedOnce'
    BY <1>9, <2>1 DEF PlacedOnce
  <2>3. NoRepeats(candidates') /\ \A c \in Consumers : NoRepeats(retired_ptrs'[c])
    BY <1>2, <1>4, <1>7 DEF NoRepeats, collectorVars
  <2> QED BY <2>2, <2>3 DEF PlaceInv
<1>18. NothingLeaks'
  BY <1>0, <1>1, <1>2, <1>7, <1>9, <1>10 DEF NothingLeaks, MutatorInv, collectorVars
<1>19. NoUseAfterFree'
  BY <1>2, <1>5 DEF MemoryInv, NoUseAfterFree
<1> QED BY <1>13, <1>14, <1>15, <1>16, <1>17, <1>18, <1>19 DEF MemoryInv, ReclaimInv

-----------------------------------------------------------------------------
(* The theorems about memory.                                              *)

\* The empty queue.
LEMMA MemoryStart ==
    ASSUME QueueInit
    PROVE  MemoryInv
<1> USE QueueThreads
<1>1. PICK dummy \in Nodes : live = {dummy} /\ head = dummy /\ tail = dummy /\ line = <<dummy>>
  BY DEF QueueInit
<1>2. /\ gone = FALSE /\ next = [n \in Nodes |-> nullptr] /\ value = [n \in Nodes |-> None]
      /\ pc = [t \in Threads |-> "idle"] /\ ptr = [t \in Threads |-> nullptr]
      /\ new_node = [p \in Producers |-> nullptr] /\ pushes = [p \in Producers |-> 0]
      /\ result = [c \in Consumers |-> None]
  BY DEF QueueInit
<1>3. /\ faults = {} /\ threads = {} /\ protected_ptr = [c \in Consumers |-> nullptr]
      /\ retired_ptrs = [c \in Consumers |-> <<>>] /\ mutators_count = 0
      /\ approximate_free_list_size = 0 /\ cancel_collect = FALSE
      /\ cpc = IF CollectorLeft THEN "exit" ELSE "test"
      /\ snapshot = {} /\ todo = {} /\ current = nullptr /\ candidates = <<>> /\ dpc = "alive"
  BY DEF QueueInit, HazardInit
<1>4. line \in Seq(Nodes) /\ Len(line) = 1 /\ line[1] = dummy /\ line # <<>>
  BY <1>1
<1>5. \A n : InLine(n) <=> n = dummy
  BY <1>4 DEF InLine, Contains
<1>6. HazardTypeOK
  <2>1. /\ protected_ptr \in [Consumers -> Nodes \union {nullptr}]
        /\ retired_ptrs \in [Consumers -> Seq(Nodes)] /\ candidates \in Seq(Nodes)
    BY <1>3
  <2>2. cpc \in {"test", "lock", "scan", "check", "delete", "wait", "exit"}
    BY <1>3
  <2>3. mutators_count \in Nat /\ approximate_free_list_size \in Nat /\ cancel_collect \in BOOLEAN
    BY <1>3
  <2>4. live \subseteq Nodes /\ threads \subseteq Consumers /\ snapshot \subseteq Nodes /\ todo \subseteq threads
    BY <1>1, <1>3
  <2> QED BY <1>3, <2>1, <2>2, <2>3, <2>4 DEF HazardTypeOK
<1>7. QueueTypeOK
  <2>1. /\ next \in [Nodes -> Nodes \union {nullptr}] /\ value \in [Nodes -> Values \union {None}]
        /\ ptr \in [Threads -> Nodes \union {nullptr}] /\ new_node \in [Producers -> Nodes \union {nullptr}]
        /\ result \in [Consumers -> Values \union {None}]
    BY <1>2
  <2>2. pushes \in [Producers -> 0..MaxPushes]
    <3>1. 0 \in 0..MaxPushes
      BY QueueAssumption
    <3> QED BY <1>2, <3>1
  <2>3. \A t \in Threads : pc[t] = "idle"
    BY <1>2
  <2>4. pc \in [Threads -> {"idle", "load", "next", "help", "link", "swing", "inserted", "counted",
                            "ready", "store", "recheck", "release_empty", "tail", "cas", "value",
                            "release", "retire", "increase"}]
    BY <1>2
  <2>5. head \in Nodes \union {nullptr} /\ tail \in Nodes /\ gone \in BOOLEAN /\ line \in Seq(Nodes)
    BY <1>1, <1>2, <1>4
  <2> QED BY <2>1, <2>2, <2>3, <2>4, <2>5 DEF QueueTypeOK
<1>8. LineInv
  BY <1>1, <1>2, <1>3, <1>4, <1>5 DEF LineInv, NoRepeats
<1>9. \A p \in Producers : ~HasNew(p) /\ PushKnows(p) /\ pc[p] = "idle"
  BY <1>2 DEF HasNew, PushKnows
<1>10. \A c \in Consumers : ~HasOld(c) /\ PopKnows(c) /\ pc[c] = "idle"
  BY <1>2 DEF HasOld, PopKnows
<1>11. PlaceInv
  <2>1. \A n : ~Contains(candidates, n) /\ \A c \in Consumers : ~Contains(retired_ptrs[c], n)
    BY <1>3 DEF Contains
  <2>2. \A n, a, x : PlacedAt(n, a, x) <=> a = "list" /\ x = nullptr /\ n = dummy
    BY <1>5, <1>9, <1>10, <2>1 DEF PlacedAt
  <2>3. PlacedOnce
    BY <1>1, <2>2 DEF PlacedOnce
  <2>4. NoRepeats(candidates) /\ \A c \in Consumers : NoRepeats(retired_ptrs[c])
    BY <1>3 DEF NoRepeats
  <2> QED BY <2>3, <2>4 DEF PlaceInv
<1>12. MutatorInv
  <2>1. {c \in Consumers : pc[c] \notin {"idle", "inserted"}} = {}
    BY <1>10
  <2>2. Cardinality({}) = 0
    BY FS_EmptySet
  <2> QED BY <1>3, <1>10, <2>1, <2>2 DEF MutatorInv
<1>13. CollectorLeft => KeptInv
  BY <1>1, <1>2, <1>3, <1>9 DEF KeptInv
<1>14. PairInv
  BY <1>1, <1>4, <1>9, <1>10 DEF PairInv, PushPaired, PopPaired
<1>15. NothingLeaks /\ NoUseAfterFree
  BY <1>3 DEF NothingLeaks, NoUseAfterFree
<1> QED BY <1>6, <1>7, <1>8, <1>9, <1>10, <1>11, <1>12, <1>13, <1>14, <1>15 DEF MemoryInv, ReclaimInv

\* Every step keeps the invariant.
LEMMA MemoryStep ==
    ASSUME MemoryInv, CollectorLeft \/ OneEach, [QueueNext]_queueVars
    PROVE  MemoryInv'
<1>1. CASE UNCHANGED queueVars
  BY <1>1 DEF MemoryInv, NoUseAfterFree, ReclaimInv, HazardTypeOK, QueueTypeOK, LineInv, InLine, PlaceInv,
     PlacedOnce, PlacedAt, HasNew, HasOld, MutatorInv, NothingLeaks, Known, PushKnows, PopKnows, KeptInv, PairInv,
     PushPaired, PopPaired, queueVars, hazardVars, nodeVars, threadVars, mutatorVars, collectorVars
<1>2. ASSUME NEW p \in Producers, PushStep(p) PROVE MemoryInv'
  <2>1. CASE PushLink(p)
    <3>1. CASE pc' = [pc EXCEPT ![p] = "swing"] /\ next[ptr[p]] = nullptr
               /\ next' = [next EXCEPT ![ptr[p]] = new_node[p]] /\ line' = Append(line, new_node[p])
      BY <2>1, <3>1, PushLinkKeeps
    <3>2. CASE pc' = [pc EXCEPT ![p] = "load"] /\ UNCHANGED <<next, line>>
      <4>1. pc'[p] = "load"
        BY <3>2, QueueThreads DEF MemoryInv, ReclaimInv, QueueTypeOK
      <4> QED BY <2>1, <3>2, <4>1, PushMovesTail
    <3> QED BY <2>1, <3>1, <3>2 DEF PushLink, ThreadGoto
  <2> QED BY <1>2, <2>1, PushNewKeeps, PushReads, PushMovesTail DEF PushStep
<1>3. ASSUME NEW c \in Consumers, PopStep(c) PROVE MemoryInv'
  <2>1. CASE PopCas(c)
    <3>1. CASE pc' = [pc EXCEPT ![c] = "value"] /\ head = ptr[c] /\ head' = next[ptr[c]] /\ line' = Tail(line)
      BY <2>1, <3>1, PopCasKeeps
    <3>2. CASE pc' = [pc EXCEPT ![c] = "ready"] /\ UNCHANGED <<head, line>>
      <4>1. pc'[c] = "ready"
        BY <3>2, QueueThreads DEF MemoryInv, ReclaimInv, QueueTypeOK
      <4> QED BY <2>1, <3>2, <4>1, PopReads
    <3> QED BY <2>1, <3>1, <3>2 DEF PopCas, ThreadGoto
  <2> QED BY <1>3, <2>1, PopMutatorSteps, AcquireSteps, PopReads, PopMovesTail, PopReturns, PopRetireKeeps
          DEF PopStep
<1>4. CASE Collector
  BY <1>4, CollectorStepKeeps
<1>5. CASE DestroyQueue
  BY <1>5, DestroyQueueKeeps
<1>6. CASE DestroyManager
  BY <1>6, CancelKeeps, FinishKeeps DEF DestroyManager
<1>7. CASE QueueTerminated
  BY <1>1, <1>7 DEF QueueTerminated
<1> QED BY <1>1, <1>2, <1>3, <1>4, <1>5, <1>6, <1>7 DEF QueueNext

\* The invariant holds for ever, if the collector has left or there is one
\* producer and one consumer.
LEMMA MemoryAlways ==
    ASSUME CollectorLeft \/ OneEach
    PROVE  QueueSpec => []MemoryInv
<1>1. QueueInit => MemoryInv
  BY MemoryStart
<1>2. MemoryInv /\ [QueueNext]_queueVars => MemoryInv'
  BY MemoryStep
<1> QED BY <1>1, <1>2, PTL DEF QueueSpec

\* Every node goes from the queue to a retired list and from there to delete,
\* once, and none is left at the end.
THEOREM NodesAreReclaimed ==
    ASSUME CollectorLeft \/ OneEach
    PROVE  QueueSpec => []ReclaimInv
<1>1. QueueSpec => []MemoryInv
  BY MemoryAlways
<1>2. MemoryInv => ReclaimInv
  BY DEF MemoryInv
<1> QED BY <1>1, <1>2, PTL

-----------------------------------------------------------------------------
(* The refinement of FifoQueue.                                            *)

\* The elements and the answers, as the refinement sees them.
QueueItems == IF gone THEN <<>> ELSE [i \in 1..Len(line) - 1 |-> value[line[i + 1]]]
QueueAnswers == [c \in Consumers |-> IF pc[c] = "value" THEN value[next[ptr[c]]] ELSE result[c]]

\* The values behind the first node of a list.
LEMMA LineValues ==
    ASSUME NEW l \in Seq(Nodes), l # <<>>, NEW v,
           \A i \in 1..Len(l) : i > 1 => v[l[i]] \in Values,
           NEW s, s = [i \in 1..Len(l) - 1 |-> v[l[i + 1]]]
    PROVE  /\ s \in Seq(Values) /\ Len(s) = Len(l) - 1
           /\ Len(l) \in Nat \ {0}
           /\ \A i \in 1..Len(l) - 1 : s[i] = v[l[i + 1]]
<1> DEFINE n == Len(l)
<1>1. n \in Nat \ {0} /\ n - 1 \in Nat
  BY EmptySeq
<1>2. \A i \in 1..n - 1 : i + 1 \in 1..n /\ i + 1 > 1
  BY <1>1
<1>3. s \in [1..n - 1 -> Values]
  BY <1>2
<1>4. s \in Seq(Values)
  BY <1>1, <1>3, SeqDef
<1>5. Len(s) = n - 1
  BY <1>1, <1>3, <1>4, LenProperties
<1> QED BY <1>1, <1>4, <1>5

\* There is one element for each node behind the dummy node.
LEMMA QueueItemsSeq ==
    ASSUME ReclaimInv, ~gone
    PROVE  /\ QueueItems \in Seq(Values) /\ Len(QueueItems) = Len(line) - 1
           /\ Len(line) \in Nat \ {0}
           /\ \A i \in 1..Len(line) - 1 : QueueItems[i] = value[line[i + 1]]
<1>1. line \in Seq(Nodes) /\ line # <<>>
  BY QueueNotEmpty
<1>2. \A i \in 1..Len(line) : i > 1 => value[line[i]] \in Values
  BY DEF ReclaimInv, LineInv
<1>3. QueueItems = [i \in 1..Len(line) - 1 |-> value[line[i + 1]]]
  BY DEF QueueItems
<1> QED BY <1>1, <1>2, <1>3, LineValues

\* The same after a step.
LEMMA QueueItemsNext ==
    ASSUME ReclaimInv', ~gone'
    PROVE  /\ QueueItems' \in Seq(Values) /\ Len(QueueItems') = Len(line') - 1
           /\ Len(line') \in Nat \ {0}
           /\ \A i \in 1..Len(line') - 1 : QueueItems'[i] = value'[line'[i + 1]]
<1>1. line' \in Seq(Nodes) /\ InLine(tail)'
  BY DEF ReclaimInv, QueueTypeOK, LineInv
<1>2. line' # <<>>
  BY <1>1 DEF InLine, Contains
<1>3. \A i \in 1..Len(line') : i > 1 => value'[line'[i]] \in Values
  BY DEF ReclaimInv, LineInv
<1>4. QueueItems' = [i \in 1..Len(line') - 1 |-> value'[line'[i + 1]]]
  BY DEF QueueItems
<1> QED BY <1>1, <1>2, <1>3, <1>4, LineValues

\* Linking a node enqueues its value.
LEMMA LinkIsEnqueue ==
    ASSUME ReclaimInv, ReclaimInv', NEW p \in Producers, PushLink(p),
           next[ptr[p]] = nullptr, next' = [next EXCEPT ![ptr[p]] = new_node[p]],
           line' = Append(line, new_node[p]), pc' = [pc EXCEPT ![p] = "swing"]
    PROVE  Fifo!Next
<1> USE QueueThreads
<1> DEFINE n == Len(line)
           v == value[new_node[p]]
<1>0. HazardTypeOK /\ QueueTypeOK /\ PushKnows(p) /\ p \in Threads /\ p \notin Consumers
  BY DEF ReclaimInv
<1>1. pc[p] = "link" /\ UNCHANGED <<value, gone, ptr, result>>
  BY DEF PushLink
<1>2. ~gone /\ ~gone' /\ HasNew(p)
  BY <1>1 DEF ReclaimInv, LineInv, HasNew
<1>3. new_node[p] \in Nodes /\ v \in Values
  BY <1>0, <1>2, OwnedNodes DEF PushKnows, HazardTypeOK
<1>4. /\ n \in Nat /\ Len(line') = n + 1
      /\ \A i \in 1..n : line'[i] = line[i]
      /\ line'[n + 1] = new_node[p]
  BY <1>0, <1>3, QueueAppend DEF QueueTypeOK
<1>5. /\ QueueItems \in Seq(Values) /\ Len(QueueItems) = n - 1 /\ n \in Nat \ {0}
      /\ \A i \in 1..n - 1 : QueueItems[i] = value[line[i + 1]]
  BY <1>2, QueueItemsSeq
<1>6. /\ QueueItems' \in Seq(Values) /\ Len(QueueItems') = (n + 1) - 1
      /\ \A i \in 1..(n + 1) - 1 : QueueItems'[i] = value[line'[i + 1]]
  BY <1>1, <1>2, <1>4, QueueItemsNext
<1>7. /\ Append(QueueItems, v) \in Seq(Values) /\ Len(Append(QueueItems, v)) = (n - 1) + 1
      /\ \A i \in 1..n - 1 : Append(QueueItems, v)[i] = QueueItems[i]
      /\ Append(QueueItems, v)[(n - 1) + 1] = v
  BY <1>3, <1>5, QueueAppend
<1>8. QueueItems' = Append(QueueItems, v)
  <2>1. ASSUME NEW i \in 1..n PROVE QueueItems'[i] = Append(QueueItems, v)[i]
    <3>1. QueueItems'[i] = value[line'[i + 1]]
      BY <1>5, <1>6
    <3>2. CASE i = n
      BY <1>4, <1>5, <1>7, <3>1, <3>2
    <3>3. CASE i # n
      <4>1. i \in 1..n - 1 /\ i + 1 \in 1..n
        BY <1>5, <3>3
      <4> QED BY <1>4, <1>5, <1>7, <3>1, <4>1
    <3> QED BY <3>2, <3>3
  <2>2. Len(QueueItems') = n /\ Len(Append(QueueItems, v)) = n
    BY <1>5, <1>6, <1>7
  <2>3. \A i \in 1..Len(QueueItems') : QueueItems'[i] = Append(QueueItems, v)[i]
    BY <2>1, <2>2
  <2> HIDE DEF n, v
  <2> QED BY <1>6, <1>7, <2>2, <2>3, SeqEqual
<1>9. QueueAnswers' = QueueAnswers
  <2>1. ASSUME NEW c \in Consumers
        PROVE  pc'[c] = pc[c] /\ (pc[c] = "value" => next'[ptr[c]] = next[ptr[c]])
    <3>1. pc'[c] = pc[c]
      BY <1>0 DEF QueueTypeOK
    <3>2. pc[c] = "value" => ptr[c] # ptr[p] /\ ptr[c] \in Nodes
      BY <1>0, OwnedNodes DEF ReclaimInv, PopKnows, HasOld, HazardTypeOK
    <3>3. next \in [Nodes -> Nodes \union {nullptr}]
      BY <1>0 DEF QueueTypeOK
    <3> QED BY <3>1, <3>2, <3>3
  <2> QED BY <1>1, <2>1 DEF QueueAnswers
<1>10. PICK w \in Values : w = v
  BY <1>3
<1>11. Fifo!Enqueue(w)
  BY <1>1, <1>2, <1>8, <1>9, <1>10 DEF Fifo!Enqueue, QueueItems, QueueAnswers
<1> QED BY <1>11 DEF Fifo!Next

\* Moving head dequeues the value of the new dummy node.
LEMMA CasIsDequeue ==
    ASSUME ReclaimInv, ReclaimInv', NEW c \in Consumers, PopCas(c),
           head = ptr[c], head' = next[ptr[c]], line' = Tail(line), pc' = [pc EXCEPT ![c] = "value"]
    PROVE  Fifo!Next
<1> USE QueueThreads
<1> DEFINE n == Len(line)
<1>0. HazardTypeOK /\ QueueTypeOK /\ PopKnows(c) /\ c \in Threads
  BY DEF ReclaimInv
<1>1. pc[c] = "cas" /\ UNCHANGED <<next, value, gone, ptr, result>>
  BY DEF PopCas
<1>2. ~gone /\ ~gone'
  BY <1>1 DEF ReclaimInv, LineInv
<1>3. line # <<>> /\ line \in Seq(Nodes) /\ head = line[1] /\ 1 \in 1..n
  BY <1>2, QueueNotEmpty
<1>4. /\ n \in Nat \ {0} /\ Len(line') = n - 1
      /\ \A i \in 1..n - 1 : line'[i] = line[i + 1]
  BY <1>3, QueueTail
<1>5. next[line[1]] = IF 1 = n THEN nullptr ELSE line[1 + 1]
  BY <1>3 DEF ReclaimInv, LineInv
<1>6. n # 1 /\ next[ptr[c]] = line[1 + 1]
  BY <1>0, <1>1, <1>3, <1>5 DEF PopKnows
<1>7. 1 \in 1..n - 1
  BY <1>4, <1>6
<1>8. /\ QueueItems \in Seq(Values) /\ Len(QueueItems) = n - 1
      /\ \A i \in 1..n - 1 : QueueItems[i] = value[line[i + 1]]
  BY <1>2, QueueItemsSeq
<1>9. /\ QueueItems' \in Seq(Values) /\ Len(QueueItems') = (n - 1) - 1
      /\ \A i \in 1..(n - 1) - 1 : QueueItems'[i] = value[line'[i + 1]]
  BY <1>1, <1>2, <1>4, QueueItemsNext
<1>10. QueueItems # <<>>
  <2>1. Len(QueueItems) # 0
    BY <1>4, <1>7, <1>8
  <2> QED BY <2>1, EmptySeq
<1>11. /\ Tail(QueueItems) \in Seq(Values) /\ Len(Tail(QueueItems)) = (n - 1) - 1
       /\ \A i \in 1..(n - 1) - 1 : Tail(QueueItems)[i] = QueueItems[i + 1]
       /\ Head(QueueItems) = QueueItems[1]
  BY <1>8, <1>10, QueueTail
<1>12. QueueItems' = Tail(QueueItems)
  <2>1. ASSUME NEW i \in 1..(n - 1) - 1 PROVE QueueItems'[i] = Tail(QueueItems)[i]
    <3>1. i + 1 \in 1..n - 1
      BY <1>4
    <3>2. QueueItems'[i] = value[line'[i + 1]]
      BY <1>9
    <3> QED BY <1>4, <1>8, <1>11, <3>1, <3>2
  <2> QED BY <1>9, <1>11, <2>1, SeqEqual
<1>13. Head(QueueItems) = value[next[ptr[c]]]
  BY <1>6, <1>7, <1>8, <1>11
<1>14. QueueAnswers' = [QueueAnswers EXCEPT ![c] = Head(QueueItems)]
  <2>1. pc'[c] = "value" /\ \A d \in Consumers : d # c => pc'[d] = pc[d]
    BY <1>0 DEF QueueTypeOK
  <2> QED BY <1>1, <1>13, <2>1 DEF QueueAnswers
<1>15. Fifo!Dequeue(c)
  BY <1>1, <1>2, <1>10, <1>12, <1>14 DEF Fifo!Dequeue, QueueItems, QueueAnswers
<1> QED BY <1>15 DEF Fifo!Next

\* A TryPop that reads a null link behind head sees an empty queue.
LEMMA NextSeesEmpty ==
    ASSUME ReclaimInv, NEW c \in Consumers, PopNext(c), next[ptr[c]] = nullptr
    PROVE  Fifo!Next
<1> USE QueueThreads
<1>0. HazardTypeOK /\ QueueTypeOK /\ PopKnows(c) /\ c \in Threads
  BY DEF ReclaimInv
<1>1. /\ pc[c] = "next" /\ pc' = [pc EXCEPT ![c] = "release_empty"]
      /\ result' = [result EXCEPT ![c] = None] /\ UNCHANGED <<next, value, gone, line, ptr>>
  BY DEF PopNext, ThreadGoto, nodeVars
<1>2. ~gone
  BY <1>1 DEF ReclaimInv, LineInv
<1>3. Known(ptr[c]) /\ (InLine(ptr[c]) => ptr[c] = head)
  BY <1>0, <1>1 DEF PopKnows
<1>4. ptr[c] = line[Len(line)] /\ ptr[c] = head
  BY <1>2, <1>3, LinkAtEnd
<1>5. head = line[1] /\ Len(line) \in 1..Len(line) /\ 1 \in 1..Len(line)
  BY <1>2, QueueNotEmpty
<1>6. Len(line) = 1
  BY <1>4, <1>5 DEF ReclaimInv, LineInv, NoRepeats
<1>7. QueueItems \in Seq(Values) /\ Len(QueueItems) = 0
  BY <1>2, <1>6, QueueItemsSeq
<1>8. QueueItems = <<>>
  BY <1>7, EmptySeq
<1>9. QueueAnswers' = [QueueAnswers EXCEPT ![c] = None]
  <2>1. pc'[c] = "release_empty" /\ \A d \in Consumers : d # c => pc'[d] = pc[d]
    BY <1>0, <1>1 DEF QueueTypeOK
  <2>2. result'[c] = None /\ \A d \in Consumers : d # c => result'[d] = result[d]
    BY <1>0, <1>1 DEF QueueTypeOK
  <2>3. QueueAnswers'[c] = None
    BY <2>1, <2>2 DEF QueueAnswers
  <2>4. \A d \in Consumers : d # c => QueueAnswers'[d] = QueueAnswers[d]
    BY <1>1, <2>1, <2>2 DEF QueueAnswers
  <2>5. /\ QueueAnswers = [d \in Consumers |-> QueueAnswers[d]]
        /\ QueueAnswers' = [d \in Consumers |-> QueueAnswers'[d]]
    BY DEF QueueAnswers
  <2> QED BY <2>3, <2>4, <2>5
<1>10. QueueItems' = QueueItems
  BY <1>1 DEF QueueItems
<1>11. Fifo!DequeueEmpty(c)
  BY <1>1, <1>2, <1>8, <1>9, <1>10 DEF Fifo!DequeueEmpty, QueueItems, QueueAnswers
<1> QED BY <1>11 DEF Fifo!Next

\* A step that neither changes the list nor an answer is invisible.
LEMMA QueueStutters ==
    ASSUME QueueItems' = QueueItems, gone' = gone, QueueAnswers' = QueueAnswers
    PROVE  UNCHANGED Fifo!vars
BY DEF Fifo!vars, QueueItems, QueueAnswers

\* Most steps of the threads are of this kind ...
LEMMA LocalStepStutters ==
    ASSUME UNCHANGED <<line, gone, value, next, result>>,
           NEW t \in Threads, \A u \in Threads : u # t => pc'[u] = pc[u] /\ ptr'[u] = ptr[u],
           t \in Consumers => pc[t] # "value" /\ pc'[t] # "value"
    PROVE  UNCHANGED Fifo!vars
<1>1. QueueItems' = QueueItems
  BY DEF QueueItems
<1>2. \A c \in Consumers : /\ pc'[c] = "value" <=> pc[c] = "value"
                           /\ pc[c] = "value" => ptr'[c] = ptr[c]
  BY QueueThreads
<1>3. QueueAnswers' = QueueAnswers
  BY <1>2 DEF QueueAnswers
<1> QED BY <1>1, <1>3, QueueStutters

\* ... those of Push that link no node ...
LEMMA PushStutters ==
    ASSUME ReclaimInv, NEW p \in Producers,
           \/ PushLoad(p) \/ PushNext(p) \/ PushHelp(p) \/ PushSwing(p)
           \/ PushLink(p) /\ UNCHANGED <<next, line>>
    PROVE  UNCHANGED Fifo!vars
<1>0. QueueTypeOK /\ p \in Threads /\ p \notin Consumers
  BY QueueThreads DEF ReclaimInv
<1>1. UNCHANGED <<line, gone, value, next, result>>
  BY DEF PushLoad, PushNext, PushHelp, PushSwing, PushLink, nodeVars
<1>2. \/ \E x : pc' = [pc EXCEPT ![p] = x] /\ ptr' = ptr
      \/ \E x, y : pc' = [pc EXCEPT ![p] = x] /\ ptr' = [ptr EXCEPT ![p] = y]
  BY DEF PushLoad, PushNext, PushHelp, PushSwing, PushLink, ThreadGoto
<1>3. \A u \in Threads : u # p => pc'[u] = pc[u] /\ ptr'[u] = ptr[u]
  BY <1>0, <1>2 DEF QueueTypeOK
<1> QED BY <1>0, <1>1, <1>3, LocalStepStutters

\* ... those of TryPop that neither move head nor find the queue empty ...
LEMMA PopStutters ==
    ASSUME ReclaimInv, NEW c \in Consumers,
           \/ PopMakeMutator(c) \/ PopCountMutator(c) \/ PopRegisterThread(c) \/ PopDestroyMutator(c)
           \/ AcquireLoad(c) \/ AcquireStore(c) \/ AcquireRecheck(c)
           \/ PopNext(c) /\ next[ptr[c]] # nullptr
           \/ PopReleaseEmpty(c) \/ PopTail(c) \/ PopHelp(c)
           \/ PopCas(c) /\ pc' = [pc EXCEPT ![c] = "ready"] /\ UNCHANGED <<head, line>>
           \/ PopRelease(c) \/ PopRetire(c) \/ PopIncreaseRetired(c)
    PROVE  UNCHANGED Fifo!vars
<1>0. QueueTypeOK /\ c \in Threads
  BY QueueThreads DEF ReclaimInv
<1>1. UNCHANGED <<line, gone, value, next, result>>
  BY DEF PopMakeMutator, PopCountMutator, PopRegisterThread, PopDestroyMutator, AcquireLoad, AcquireStore,
         AcquireRecheck, PopNext, PopReleaseEmpty, PopTail, PopHelp, PopCas, PopRelease, PopRetire,
         PopIncreaseRetired, nodeVars
<1>2. pc[c] # "value" /\ \E x : x # "value" /\ pc' = [pc EXCEPT ![c] = x]
  BY DEF PopMakeMutator, PopCountMutator, PopRegisterThread, PopDestroyMutator, AcquireLoad, AcquireStore,
         AcquireRecheck, PopNext, PopReleaseEmpty, PopTail, PopHelp, PopCas, PopRelease, PopRetire,
         PopIncreaseRetired, ThreadGoto
<1>3. ptr' = ptr \/ \E y : ptr' = [ptr EXCEPT ![c] = y]
  BY DEF PopMakeMutator, PopCountMutator, PopRegisterThread, PopDestroyMutator, AcquireLoad, AcquireStore,
         AcquireRecheck, PopNext, PopReleaseEmpty, PopTail, PopHelp, PopCas, PopRelease, PopRetire,
         PopIncreaseRetired
<1>4. pc'[c] # "value" /\ \A u \in Threads : u # c => pc'[u] = pc[u] /\ ptr'[u] = ptr[u]
  BY <1>0, <1>2, <1>3 DEF QueueTypeOK
<1> QED BY <1>0, <1>1, <1>2, <1>4, LocalStepStutters

\* ... the value that TryPop reads is the one that it has dequeued ...
LEMMA ValueStutters ==
    ASSUME ReclaimInv, NEW c \in Consumers, PopValue(c)
    PROVE  UNCHANGED Fifo!vars
<1>0. QueueTypeOK /\ c \in Threads
  BY QueueThreads DEF ReclaimInv
<1>1. /\ pc[c] = "value" /\ pc' = [pc EXCEPT ![c] = "release"]
      /\ result' = [result EXCEPT ![c] = value[next[ptr[c]]]]
      /\ UNCHANGED <<line, gone, value, next, ptr>>
  BY DEF PopValue, ThreadGoto, nodeVars
<1>2. pc'[c] = "release" /\ result'[c] = value[next[ptr[c]]]
  BY <1>0, <1>1 DEF QueueTypeOK
<1>3. \A d \in Consumers : d # c => pc'[d] = pc[d] /\ result'[d] = result[d]
  BY <1>0, <1>1, QueueThreads DEF QueueTypeOK
<1>4. QueueAnswers' = QueueAnswers
  BY <1>1, <1>2, <1>3 DEF QueueAnswers
<1>5. QueueItems' = QueueItems
  BY <1>1 DEF QueueItems
<1> QED BY <1>1, <1>4, <1>5, QueueStutters

\* ... and a new node takes the place of none that holds an element or an answer.
LEMMA NewStutters ==
    ASSUME ReclaimInv, NEW p \in Producers, PushNew(p)
    PROVE  UNCHANGED Fifo!vars
<1>0. QueueTypeOK /\ HazardTypeOK /\ p \in Threads /\ p \notin Consumers
  BY QueueThreads DEF ReclaimInv
<1>1. PICK n \in Nodes \ live :
        /\ next' = [next EXCEPT ![n] = nullptr] /\ value' = [value EXCEPT ![n] = <<p, pushes[p] + 1>>]
  BY DEF PushNew
<1>2. pc' = [pc EXCEPT ![p] = "load"] /\ UNCHANGED <<gone, line, ptr, result>>
  BY DEF PushNew, ThreadGoto
<1>3. \A m \in live : next'[m] = next[m] /\ value'[m] = value[m]
  BY <1>0, <1>1 DEF QueueTypeOK, HazardTypeOK
<1>4. \A i \in 1..Len(line) : value'[line[i]] = value[line[i]]
  <2> SUFFICES ASSUME NEW i \in 1..Len(line) PROVE line[i] \in live
    BY <1>3
  <2>1. InLine(line[i])
    BY DEF InLine, Contains
  <2> QED BY <2>1, ListNodes
<1>5. \A i \in 1..Len(line) - 1 : value'[line[i + 1]] = value[line[i + 1]]
  <2>1. Len(line) \in Nat
    BY <1>0, QueueTypes
  <2> QED BY <1>4, <2>1
<1>6. QueueItems' = QueueItems
  BY <1>2, <1>5 DEF QueueItems
<1>7. ASSUME NEW c \in Consumers
      PROVE  pc'[c] = pc[c] /\ (pc[c] = "value" => value'[next'[ptr[c]]] = value[next[ptr[c]]])
  <2>1. pc'[c] = pc[c]
    BY <1>0, <1>2, QueueThreads DEF QueueTypeOK
  <2>2. pc[c] = "value" => ptr[c] \in live /\ next[ptr[c]] \in live
    BY OwnedNodes DEF ReclaimInv, PopKnows, HasOld
  <2> QED BY <1>3, <2>1, <2>2
<1>8. QueueAnswers' = QueueAnswers
  BY <1>2, <1>7 DEF QueueAnswers
<1> QED BY <1>2, <1>6, <1>8, QueueStutters

\* Push and TryPop are linearizable: the elements leave in the order in which
\* they were linked, each to one consumer, although TryPop reads the value only
\* after it has moved head and the node may be reused at any time.
THEOREM QueueRefinement ==
    ASSUME CollectorLeft \/ OneEach
    PROVE  QueueSpec => ImplementsFifoQueue
<1>1. QueueInit => Fifo!Init
  <2> SUFFICES ASSUME QueueInit PROVE Fifo!Init
    OBVIOUS
  <2>1. PICK dummy \in Nodes : line = <<dummy>>
    BY DEF QueueInit
  <2>2. ~gone /\ Len(line) = 1
    BY <2>1 DEF QueueInit
  <2>3. ReclaimInv
    BY MemoryStart DEF MemoryInv
  <2>4. QueueItems \in Seq(Values) /\ Len(QueueItems) = 0
    BY <2>2, <2>3, QueueItemsSeq
  <2>5. QueueItems = <<>>
    BY <2>4, EmptySeq
  <2>6. QueueAnswers = [c \in Consumers |-> None]
    BY QueueThreads DEF QueueAnswers, QueueInit
  <2> QED BY <2>2, <2>5, <2>6 DEF Fifo!Init, QueueItems, QueueAnswers
<1>2. MemoryInv /\ [QueueNext]_queueVars => [Fifo!Next]_(Fifo!vars)
  <2> SUFFICES ASSUME MemoryInv, [QueueNext]_queueVars PROVE [Fifo!Next]_(Fifo!vars)
    OBVIOUS
  <2>0. ReclaimInv /\ ReclaimInv'
    BY MemoryStep DEF MemoryInv
  <2>1. CASE UNCHANGED <<nodeVars, threadVars>>
    BY <2>1 DEF nodeVars, threadVars, Fifo!vars
  <2>2. ASSUME NEW p \in Producers, PushStep(p)
        PROVE  [Fifo!Next]_(Fifo!vars)
    <3>1. CASE PushLink(p)
      <4>1. CASE pc' = [pc EXCEPT ![p] = "swing"] /\ next[ptr[p]] = nullptr
                 /\ next' = [next EXCEPT ![ptr[p]] = new_node[p]] /\ line' = Append(line, new_node[p])
        BY <2>0, <3>1, <4>1, LinkIsEnqueue
      <4>2. CASE UNCHANGED <<next, line>>
        BY <2>0, <3>1, <4>2, PushStutters
      <4> QED BY <3>1, <4>1, <4>2 DEF PushLink, ThreadGoto
    <3> QED BY <2>0, <2>2, <3>1, NewStutters, PushStutters DEF PushStep
  <2>3. ASSUME NEW c \in Consumers, PopStep(c)
        PROVE  [Fifo!Next]_(Fifo!vars)
    <3>1. CASE PopCas(c)
      <4>1. CASE pc' = [pc EXCEPT ![c] = "value"] /\ head = ptr[c] /\ head' = next[ptr[c]] /\ line' = Tail(line)
        BY <2>0, <3>1, <4>1, CasIsDequeue
      <4>2. CASE pc' = [pc EXCEPT ![c] = "ready"] /\ UNCHANGED <<head, line>>
        BY <2>0, <3>1, <4>2, PopStutters
      <4> QED BY <3>1, <4>1, <4>2 DEF PopCas, ThreadGoto
    <3>2. CASE PopNext(c)
      BY <2>0, <3>2, NextSeesEmpty, PopStutters
    <3> QED BY <2>0, <2>3, <3>1, <3>2, ValueStutters, PopStutters DEF PopStep
  <2>4. CASE DestroyQueue
    <3>1. gone' = TRUE /\ UNCHANGED <<next, value, pc, ptr, result>>
      BY <2>4 DEF DestroyQueue, threadVars
    <3>2. QueueAnswers' = QueueAnswers /\ QueueItems' = <<>>
      BY <3>1 DEF QueueAnswers, QueueItems
    <3>3. CASE gone
      <4>1. QueueItems' = QueueItems
        BY <3>2, <3>3 DEF QueueItems
      <4> QED BY <3>1, <3>2, <3>3, <4>1, QueueStutters
    <3>4. CASE ~gone
      <4>1. Fifo!Destroy
        BY <3>1, <3>2, <3>4 DEF Fifo!Destroy, QueueItems, QueueAnswers
      <4> QED BY <4>1 DEF Fifo!Next
    <3> QED BY <2>0, <3>3, <3>4 DEF ReclaimInv, QueueTypeOK
  <2>5. CASE Collector \/ DestroyManager \/ QueueTerminated \/ UNCHANGED queueVars
    BY <2>1, <2>5 DEF Collector, DestroyManager, QueueTerminated, queueVars
  <2> QED BY <2>2, <2>3, <2>4, <2>5 DEF QueueNext
<1>3. QueueSpec => []MemoryInv
  BY MemoryAlways
<1> QED BY <1>1, <1>2, <1>3, PTL DEF QueueSpec, ImplementsFifoQueue, Fifo!Spec
=============================================================================
