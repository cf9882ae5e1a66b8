----------------------- MODULE IntrusiveThreadPoolProofs -----------------------
(***************************************************************************)
(* For any number of workers, tasks and stops: count_tasks counts the work *)
(* exactly, no submitted task is lost, WaitIdle returns only when each of  *)
(* them has ended or is parked, and the destructor outlives the workers.   *)
(***************************************************************************)
EXTENDS IntrusiveThreadPool, SequenceTheorems, FiniteSetTheorems, TLAPS

\* The list of tasks after Push.
LEMMA AppendHas ==
    ASSUME NEW S, NEW s \in Seq(S), NEW e \in S
    PROVE  /\ Append(s, e) \in Seq(S)
           /\ Len(s) \in Nat /\ Len(Append(s, e)) = Len(s) + 1
           /\ \A x : Has(Append(s, e), x) <=> Has(s, x) \/ x = e
<1>1. /\ Append(s, e) \in Seq(S) /\ Len(s) \in Nat /\ Len(Append(s, e)) = Len(s) + 1
      /\ Append(s, e)[Len(s) + 1] = e
      /\ \A i \in 1..Len(s) : Append(s, e)[i] = s[i]
  BY AppendProperties, LenProperties
<1>2. ASSUME NEW x
      PROVE  Has(Append(s, e), x) <=> Has(s, x) \/ x = e
  <2>1. ASSUME NEW i \in 1..Len(s) + 1, Append(s, e)[i] = x
        PROVE  Has(s, x) \/ x = e
    <3>1. CASE i = Len(s) + 1
      BY <3>1, <2>1, <1>1
    <3>2. CASE i # Len(s) + 1
      <4>1. i \in 1..Len(s)
        BY <3>2, <1>1
      <4> QED BY <4>1, <2>1, <1>1 DEF Has
    <3> QED BY <3>1, <3>2
  <2>2. ASSUME NEW i \in 1..Len(s), s[i] = x
        PROVE  Has(Append(s, e), x)
    <3>1. i \in 1..Len(s) + 1
      BY <1>1
    <3> QED BY <3>1, <2>2, <1>1 DEF Has
  <2>3. ASSUME x = e
        PROVE  Has(Append(s, e), x)
    <3>1. Len(s) + 1 \in 1..Len(s) + 1
      BY <1>1
    <3> QED BY <3>1, <2>3, <1>1 DEF Has
  <2> QED BY <2>1, <2>2, <2>3, <1>1 DEF Has
<1> QED BY <1>1, <1>2

\* The list of tasks before and after Pop.
LEMMA TailHas ==
    ASSUME NEW S, NEW s \in Seq(S), s # <<>>
    PROVE  /\ Tail(s) \in Seq(S) /\ Head(s) \in S
           /\ Len(s) \in Nat \ {0} /\ Len(Tail(s)) = Len(s) - 1
           /\ \A x : Has(s, x) => x = Head(s) \/ Has(Tail(s), x)
<1>1. /\ Tail(s) \in Seq(S) /\ Head(s) \in S
      /\ Len(s) \in Nat \ {0} /\ Len(Tail(s)) = Len(s) - 1 /\ Head(s) = s[1]
      /\ \A i \in 1..Len(s) - 1 : Tail(s)[i] = s[i + 1]
  BY EmptySeq, HeadTailProperties
<1>2. ASSUME NEW x, NEW i \in 1..Len(s), s[i] = x
      PROVE  x = Head(s) \/ Has(Tail(s), x)
  <2>1. CASE i = 1
    BY <2>1, <1>1, <1>2
  <2>2. CASE i # 1
    <3>1. i - 1 \in 1..Len(s) - 1 /\ (i - 1) + 1 = i
      BY <2>2, <1>1
    <3> QED BY <3>1, <1>1, <1>2 DEF Has
  <2> QED BY <2>1, <2>2
<1> QED BY <1>1, <1>2 DEF Has

\* An empty list has no task.
LEMMA EmptyHas == ASSUME NEW x PROVE ~Has(<<>>, x)
<1>1. Len(<<>>) = 0
  BY EmptySeq
<1> QED BY <1>1 DEF Has

\* The workers at some places are finitely many.
LEMMA AtFinite ==
    ASSUME NEW P
    PROVE  /\ IsFiniteSet(At(P)) /\ Cardinality(At(P)) \in Nat
           /\ Cardinality(At(P)) <= Cardinality(Workers)
           /\ Cardinality(Workers) \in Nat
<1>1. At(P) \subseteq Workers
  BY DEF At
<1> QED BY <1>1, FS_Subset, FS_CardinalityType, PoolAssumption

\* A worker that moves enters and leaves the counts.
LEMMA GotoAt ==
    ASSUME TypeOK, NEW w \in Workers, NEW to, Goto(w, to), NEW P
    PROVE  /\ Cardinality(At(P)') \in Nat
           /\ to \in P /\ wpc[w] \in P => Cardinality(At(P)') = Cardinality(At(P))
           /\ to \notin P /\ wpc[w] \notin P => Cardinality(At(P)') = Cardinality(At(P))
           /\ to \in P /\ wpc[w] \notin P => Cardinality(At(P)') = Cardinality(At(P)) + 1
           /\ to \notin P /\ wpc[w] \in P => Cardinality(At(P)') = Cardinality(At(P)) - 1
<1>1. wpc'[w] = to /\ \A v \in Workers : v # w => wpc'[v] = wpc[v]
  BY DEF TypeOK, Goto
<1>2. w \in At(P) <=> wpc[w] \in P
  BY DEF At
<1>3. IsFiniteSet(At(P)) /\ Cardinality(At(P)) \in Nat
  BY AtFinite
<1>4. CASE to \in P
  <2>1. At(P)' = At(P) \union {w}
    BY <1>1, <1>4 DEF At
  <2>2. Cardinality(At(P)') = IF w \in At(P) THEN Cardinality(At(P)) ELSE Cardinality(At(P)) + 1
    BY <2>1, <1>3, FS_AddElement
  <2> QED BY <2>2, <1>2, <1>3, <1>4
<1>5. CASE to \notin P
  <2>1. At(P)' = At(P) \ {w}
    BY <1>1, <1>5 DEF At
  <2>2. /\ Cardinality(At(P)') = IF w \in At(P) THEN Cardinality(At(P)) - 1 ELSE Cardinality(At(P))
        /\ IsFiniteSet(At(P)')
    BY <2>1, <1>3, FS_RemoveElement
  <2>3. Cardinality(At(P)') \in Nat
    BY <2>2, FS_CardinalityType
  <2> QED BY <2>2, <2>3, <1>2, <1>3, <1>5
<1> QED BY <1>4, <1>5

\* The inductive invariant.
PoolIInv == TypeOK /\ CountMatches /\ HeldInv /\ WaitedInv /\ OutlivesInv

\* Nothing is left to do when count_tasks is 0.
LEMMA ZeroIsIdle ==
    ASSUME PoolIInv, count_tasks = 0
    PROVE  tasks = <<>> /\ Busy = {} /\ mpc # "push"
<1>1. Len(tasks) \in Nat /\ (tasks # <<>> => Len(tasks) # 0)
  BY EmptySeq, LenProperties DEF PoolIInv, TypeOK
<1>2. /\ IsFiniteSet(Busy) /\ Cardinality(Busy) \in Nat
      /\ Cardinality(At({"push"})) \in Nat
  BY AtFinite DEF Busy
<1>3. Len(tasks) = 0 /\ Cardinality(Busy) = 0 /\ mpc # "push"
  BY <1>1, <1>2 DEF PoolIInv, CountMatches
<1> QED BY <1>1, <1>2, <1>3, FS_EmptySet

\* What the runs check follows.
LEMMA PoolIInvSuffices == PoolIInv => PoolInv
<1> SUFFICES ASSUME PoolIInv PROVE PoolInv
  OBVIOUS
<1>1. IdleInv
  <2> SUFFICES ASSUME count_tasks = 0, NEW t \in Tasks, status[t] = "submitted"
               PROVE  t = msub
    BY DEF IdleInv
  <2>1. tasks = <<>> /\ Busy = {}
    BY ZeroIsIdle
  <2>2. ~Has(tasks, t)
    BY <2>1, EmptyHas
  <2>3. \A w \in At({"run", "add", "push"}) : FALSE
    BY <2>1 DEF Busy, At
  <2> QED BY <2>2, <2>3 DEF PoolIInv, HeldInv, Held
<1>2. LeftInv
  <2> SUFFICES ASSUME mpc = "destroyed"
               PROVE  count_tasks = Len(tasks) /\ (waited => tasks = <<>>)
    BY DEF LeftInv
  <2>1. Busy = {} /\ At({"push"}) = {}
    BY DEF PoolIInv, OutlivesInv, Busy, At
  <2>2. Cardinality(Busy) = 0 /\ Cardinality(At({"push"})) = 0
    BY <2>1, FS_EmptySet
  <2>3. Len(tasks) \in Nat
    BY LenProperties DEF PoolIInv, TypeOK
  <2>4. count_tasks = Len(tasks)
    BY <2>2, <2>3 DEF PoolIInv, CountMatches
  <2>5. waited => tasks = <<>>
    BY ZeroIsIdle DEF PoolIInv, WaitedInv
  <2> QED BY <2>4, <2>5
<1> QED BY <1>1, <1>2 DEF PoolInv, PoolIInv

\* The initial state.
LEMMA PoolIInvInit == Init => PoolIInv
<1> SUFFICES ASSUME Init PROVE PoolIInv
  OBVIOUS
<1>1. tasks \in Seq(Tasks) /\ Len(tasks) = 0
  BY EmptySeq DEF Init
<1>2. \A w \in Workers : wpc[w] = "unborn"
  BY DEF Init
<1>3. Busy = {} /\ At({"push"}) = {} /\ Counted = {} /\ At({"run", "add", "push"}) = {}
  BY <1>2 DEF Busy, Counted, At
<1>4. Cardinality({}) = 0 /\ Cardinality(Workers) \in Nat
  BY FS_EmptySet, AtFinite
<1>5. TypeOK
  <2>1. count_workers_ \in 0..Cardinality(Workers) /\ stops \in [Tasks -> 0..MaxStops]
    BY <1>4, PoolAssumption DEF Init
  <2>2. shutdown_ \in BOOLEAN /\ waited \in BOOLEAN
    BY DEF Init
  <2> QED BY <1>1, <2>1, <2>2 DEF Init, TypeOK, OwnerPC, WorkerPC
<1>6. CountMatches
  <2>1. count_tasks = 0 /\ count_workers_ = 0 /\ mpc = "idle"
    BY DEF Init
  <2>2. /\ Cardinality(Busy) = 0 /\ Cardinality(At({"push"})) = 0 /\ Cardinality(Counted) = 0
    BY <1>3, <1>4
  <2>3. mpc # "push" /\ Len(tasks) = 0
    BY <1>1, <2>1
  <2> QED BY <2>1, <2>2, <2>3 DEF CountMatches
<1>7. HeldInv
  BY <1>2, <1>3 DEF Init, HeldInv
<1> QED BY <1>5, <1>6, <1>7 DEF Init, PoolIInv, WaitedInv, OutlivesInv

\* The program counters after Goto.
LEMMA GotoFacts ==
    ASSUME TypeOK, NEW w \in Workers, NEW to \in WorkerPC, Goto(w, to)
    PROVE  /\ wpc'[w] = to /\ \A v \in Workers : v # w => wpc'[v] = wpc[v]
           /\ wpc' \in [Workers -> WorkerPC]
BY DEF TypeOK, Goto

\* The counts of workers are numbers.
LEMMA CountFacts ==
    /\ Cardinality(Busy) \in Nat /\ Cardinality(At({"push"})) \in Nat
    /\ Cardinality(Counted) \in Nat
BY AtFinite DEF Busy, Counted

\* Steps of the owner that change neither the counts nor who holds a task.
LEMMA OwnerMoves ==
    ASSUME PoolIInv, UNCHANGED <<count_tasks, tasks, count_workers_, msub, workerVars, taskVars>>,
           shutdown_' \in BOOLEAN, waited' \in BOOLEAN, mpc' \in OwnerPC,
           mpc \notin {"add", "push"}, mpc' \notin {"add", "push"},
           waited' => count_tasks = 0,
           mpc' = "destroyed" => \A w \in Workers : wpc[w] = "stopped"
    PROVE  PoolIInv'
<1>1. TypeOK'
  BY DEF PoolIInv, TypeOK, workerVars, taskVars
<1>2. \A P : At(P)' = At(P)
  BY DEF At, workerVars
<1>3. CountMatches'
  BY <1>2 DEF PoolIInv, CountMatches, Busy, Counted
<1>4. HeldInv'
  BY <1>2 DEF PoolIInv, HeldInv, Held, Busy, workerVars, taskVars
<1>5. WaitedInv' /\ OutlivesInv'
  BY DEF WaitedInv, OutlivesInv, workerVars
<1> QED BY <1>1, <1>3, <1>4, <1>5 DEF PoolIInv

\* WaitIdle, StartShutdown and WaitShutdown up to the join.
LEMMA PoolIInvOwnerMoves ==
    ASSUME PoolIInv,
           WaitIdle \/ WaitIdleLoad \/ WaitIdleBlock \/ StartShutdown \/ WaitShutdown \/ Join
    PROVE  PoolIInv'
<1>1. /\ shutdown_ \in BOOLEAN /\ waited \in BOOLEAN
      /\ waited => count_tasks = 0
  BY DEF PoolIInv, TypeOK, WaitedInv
<1>2. CASE WaitIdle \/ WaitIdleBlock \/ WaitShutdown
  BY <1>1, <1>2, OwnerMoves DEF WaitIdle, WaitIdleBlock, WaitShutdown, OwnerPC, sharedVars
<1>3. CASE WaitIdleLoad
  BY <1>1, <1>3, OwnerMoves DEF WaitIdleLoad, OwnerPC, sharedVars
<1>4. CASE StartShutdown
  BY <1>1, <1>4, OwnerMoves DEF StartShutdown, OwnerPC
<1>5. CASE Join
  BY <1>1, <1>5, OwnerMoves DEF Join, OwnerPC, sharedVars
<1> QED BY <1>2, <1>3, <1>4, <1>5

\* Submit by the owner: the shutdown is not on, the task is counted ...
LEMMA PoolIInvOwnerSubmit ==
    ASSUME PoolIInv, NEW t \in Tasks, OwnerSubmit(t)
    PROVE  PoolIInv'
<1>1. /\ mpc = "idle" /\ mpc' = "add" /\ msub' = t /\ waited' = FALSE
      /\ status' = [status EXCEPT ![t] = "submitted"]
      /\ UNCHANGED <<shutdown_, count_tasks, tasks, count_workers_, wpc, cur, wsub, stops>>
  BY DEF OwnerSubmit, sharedVars, workerVars
<1>2. TypeOK'
  BY <1>1 DEF PoolIInv, TypeOK, OwnerPC
<1>3. \A P : At(P)' = At(P)
  BY <1>1 DEF At
<1>4. CountMatches'
  BY <1>1, <1>3 DEF PoolIInv, CountMatches, Busy, Counted
<1>5. HeldInv'
  <2>1. msub = NULL /\ t # NULL
    BY <1>1, PoolAssumption DEF PoolIInv, HeldInv
  <2>2. ASSUME NEW u \in Tasks, status'[u] = "submitted"
        PROVE  Held(u)'
    <3>1. CASE u = t
      BY <3>1, <1>1 DEF Held
    <3>2. CASE u # t
      <4>1. Held(u) /\ u # NULL
        BY <2>2, <3>2, <1>1, PoolAssumption DEF PoolIInv, HeldInv, TypeOK
      <4> QED BY <4>1, <2>1, <1>1, <1>3 DEF Held
    <3> QED BY <3>1, <3>2
  <2> QED BY <2>1, <2>2, <1>1, <1>3 DEF PoolIInv, HeldInv, Busy
<1>6. WaitedInv' /\ OutlivesInv'
  BY <1>1 DEF WaitedInv, OutlivesInv
<1> QED BY <1>2, <1>4, <1>5, <1>6 DEF PoolIInv

\* The owner counts the task it submits.
LEMMA PoolIInvOwnerAddTask ==
    ASSUME PoolIInv, OwnerAddTask
    PROVE  PoolIInv'
<1>1. /\ mpc = "add" /\ mpc' = "push" /\ count_tasks' = count_tasks + 1
      /\ UNCHANGED <<shutdown_, tasks, count_workers_, msub, waited, wpc, cur, wsub, status, stops>>
  BY DEF OwnerAddTask, workerVars, taskVars
<1>2. TypeOK'
  BY <1>1 DEF PoolIInv, TypeOK, OwnerPC
<1>3. \A P : At(P)' = At(P)
  BY <1>1 DEF At
<1>4. CountMatches'
  <2>1. Len(tasks) \in Nat
    BY LenProperties DEF PoolIInv, TypeOK
  <2> QED BY <1>1, <1>3, <2>1, CountFacts DEF PoolIInv, CountMatches, Busy, Counted
<1>5. HeldInv'
  BY <1>1, <1>3 DEF PoolIInv, HeldInv, Held, Busy
<1>6. WaitedInv' /\ OutlivesInv'
  BY <1>1 DEF PoolIInv, WaitedInv, OutlivesInv
<1> QED BY <1>2, <1>4, <1>5, <1>6 DEF PoolIInv

\* ... and put into the list.
LEMMA PoolIInvOwnerPush ==
    ASSUME PoolIInv, OwnerPush
    PROVE  PoolIInv'
<1>1. /\ mpc = "push" /\ mpc' = "idle" /\ msub' = NULL /\ tasks' = Append(tasks, msub)
      /\ UNCHANGED <<shutdown_, count_tasks, count_workers_, waited, wpc, cur, wsub, status, stops>>
  BY DEF OwnerPush, workerVars, taskVars
<1>2. msub \in Tasks /\ tasks \in Seq(Tasks)
  BY <1>1 DEF PoolIInv, TypeOK, HeldInv
<1>3. /\ tasks' \in Seq(Tasks) /\ Len(tasks) \in Nat /\ Len(tasks') = Len(tasks) + 1
      /\ \A x : Has(tasks', x) <=> Has(tasks, x) \/ x = msub
  BY <1>1, <1>2, AppendHas
<1>4. TypeOK'
  BY <1>1, <1>3 DEF PoolIInv, TypeOK, OwnerPC
<1>5. \A P : At(P)' = At(P)
  BY <1>1 DEF At
<1>6. CountMatches'
  BY <1>1, <1>3, <1>5, CountFacts DEF PoolIInv, CountMatches, Busy, Counted
<1>7. HeldInv'
  <2>1. ASSUME NEW u \in Tasks, Held(u)
        PROVE  Held(u)'
    BY <2>1, <1>1, <1>3, <1>5 DEF Held
  <2> QED BY <2>1, <1>1, <1>5 DEF PoolIInv, HeldInv, Busy
<1>8. WaitedInv' /\ OutlivesInv'
  BY <1>1 DEF PoolIInv, WaitedInv, OutlivesInv
<1> QED BY <1>4, <1>6, <1>7, <1>8 DEF PoolIInv

\* Start counts a worker.
LEMMA PoolIInvStartWorker ==
    ASSUME PoolIInv, NEW w \in Workers, StartWorker(w)
    PROVE  PoolIInv'
<1>1. /\ wpc[w] = "unborn" /\ Goto(w, "pop") /\ count_workers_' = count_workers_ + 1 /\ mpc = "idle"
      /\ UNCHANGED <<shutdown_, count_tasks, tasks, mpc, msub, waited, cur, wsub, status, stops>>
  BY DEF StartWorker, ownerVars, taskVars
<1>2. wpc'[w] = "pop" /\ (\A v \in Workers : v # w => wpc'[v] = wpc[v]) /\ wpc' \in [Workers -> WorkerPC]
  BY <1>1, GotoFacts DEF PoolIInv, WorkerPC
<1>3. /\ Cardinality(Busy') = Cardinality(Busy)
      /\ Cardinality(At({"push"})') = Cardinality(At({"push"}))
      /\ Cardinality(Counted') = Cardinality(Counted) + 1
  BY <1>1, GotoAt DEF PoolIInv, Busy, Counted, WorkerPC
<1>4. Cardinality(Counted') <= Cardinality(Workers) /\ Cardinality(Workers) \in Nat
  <2>1. Counted' \subseteq Workers
    BY DEF Counted, At
  <2> QED BY <2>1, FS_Subset, FS_CardinalityType, PoolAssumption
<1>5. CountMatches'
  BY <1>1, <1>3 DEF PoolIInv, CountMatches
<1>6. TypeOK'
  <2>1. count_workers_' \in 0..Cardinality(Workers)
    BY <1>3, <1>4, <1>5, CountFacts DEF CountMatches
  <2> QED BY <1>1, <1>2, <2>1 DEF PoolIInv, TypeOK
<1>7. HeldInv'
  <2>1. Busy' = Busy /\ At({"run", "add", "push"})' = At({"run", "add", "push"})
    BY <1>1, <1>2 DEF Busy, At
  <2>2. \A v \in Workers : wpc'[v] \in {"add", "push"} <=> wpc[v] \in {"add", "push"}
    BY <1>1, <1>2
  <2> QED BY <1>1, <2>1, <2>2 DEF PoolIInv, HeldInv, Held
<1>8. WaitedInv' /\ OutlivesInv'
  BY <1>1 DEF PoolIInv, WaitedInv, OutlivesInv
<1> QED BY <1>5, <1>6, <1>7, <1>8 DEF PoolIInv

\* A worker moves, and neither holds a task nor stops being counted.
LEMMA IdleWorkerMoves ==
    ASSUME PoolIInv, NEW w \in Workers, NEW to, Goto(w, to),
           wpc[w] \in {"pop", "check", "notify"}, to \in {"pop", "check", "exit"},
           mpc' \in OwnerPC \ {"add", "push"} \/ mpc' = mpc,
           mpc \notin {"add", "push"} \/ mpc' = mpc,
           mpc' = "destroyed" => mpc = "destroyed",
           UNCHANGED <<sharedVars, msub, waited, cur, wsub, taskVars>>
    PROVE  PoolIInv'
<1>1. UNCHANGED <<shutdown_, count_tasks, tasks, count_workers_, msub, waited, cur, wsub, status, stops>>
  BY DEF sharedVars, taskVars
<1>2. wpc'[w] = to /\ (\A v \in Workers : v # w => wpc'[v] = wpc[v]) /\ wpc' \in [Workers -> WorkerPC]
  BY GotoFacts DEF PoolIInv, WorkerPC
<1>3. /\ Cardinality(Busy') = Cardinality(Busy)
      /\ Cardinality(At({"push"})') = Cardinality(At({"push"}))
      /\ Cardinality(Counted') = Cardinality(Counted)
  BY GotoAt DEF PoolIInv, Busy, Counted, WorkerPC
<1>4. mpc' \in {"add", "push"} <=> mpc \in {"add", "push"}
  OBVIOUS
<1>5. mpc' = "push" <=> mpc = "push"
  OBVIOUS
<1>6. CountMatches'
  BY <1>1, <1>3, <1>5 DEF PoolIInv, CountMatches
<1>7. TypeOK'
  BY <1>1, <1>2 DEF PoolIInv, TypeOK
<1>8. HeldInv'
  <2>1. Busy' = Busy /\ At({"run", "add", "push"})' = At({"run", "add", "push"})
    BY <1>2 DEF Busy, At
  <2>2. \A v \in Workers : wpc'[v] \in {"add", "push"} <=> wpc[v] \in {"add", "push"}
    BY <1>2
  <2> QED BY <1>1, <1>4, <2>1, <2>2 DEF PoolIInv, HeldInv, Held
<1>9. WaitedInv' /\ OutlivesInv'
  <2>1. mpc # "destroyed"
    BY DEF PoolIInv, OutlivesInv
  <2> QED BY <1>1, <1>4, <2>1 DEF PoolIInv, WaitedInv, OutlivesInv
<1> QED BY <1>6, <1>7, <1>8, <1>9 DEF PoolIInv

\* Pop takes the first task of the list, if there is one.
LEMMA PoolIInvPop ==
    ASSUME PoolIInv, NEW w \in Workers, Pop(w)
    PROVE  PoolIInv'
<1>1. CASE tasks = <<>>
  <2>1. /\ Goto(w, "check") /\ wpc[w] = "pop" /\ mpc' = mpc
        /\ UNCHANGED <<sharedVars, msub, waited, cur, wsub, taskVars>>
    BY <1>1 DEF Pop, sharedVars, ownerVars
  <2> QED BY <2>1, IdleWorkerMoves
<1>2. CASE tasks # <<>>
  <2>1. /\ Goto(w, "run") /\ wpc[w] = "pop"
        /\ cur' = [cur EXCEPT ![w] = Head(tasks)] /\ tasks' = Tail(tasks)
        /\ UNCHANGED <<shutdown_, count_tasks, count_workers_, mpc, msub, waited, wsub, status, stops>>
    BY <1>2 DEF Pop, ownerVars, taskVars
  <2>2. wpc'[w] = "run" /\ (\A v \in Workers : v # w => wpc'[v] = wpc[v]) /\ wpc' \in [Workers -> WorkerPC]
    BY <2>1, GotoFacts DEF PoolIInv, WorkerPC
  <2>3. /\ Cardinality(Busy') = Cardinality(Busy) + 1
        /\ Cardinality(At({"push"})') = Cardinality(At({"push"}))
        /\ Cardinality(Counted') = Cardinality(Counted)
    BY <2>1, GotoAt DEF PoolIInv, Busy, Counted, WorkerPC
  <2>4. /\ tasks' \in Seq(Tasks) /\ Head(tasks) \in Tasks /\ Head(tasks) # NULL
        /\ Len(tasks) \in Nat /\ Len(tasks') = Len(tasks) - 1
        /\ \A x : Has(tasks, x) => x = Head(tasks) \/ Has(tasks', x)
    BY <1>2, <2>1, TailHas, PoolAssumption DEF PoolIInv, TypeOK
  <2>5. CountMatches'
    BY <2>1, <2>3, <2>4, CountFacts DEF PoolIInv, CountMatches
  <2>6. TypeOK'
    BY <2>1, <2>2, <2>4 DEF PoolIInv, TypeOK
  <2>7. cur'[w] = Head(tasks) /\ \A v \in Workers : v # w => cur'[v] = cur[v]
    BY <2>1 DEF PoolIInv, TypeOK
  <2>8. HeldInv'
    <3>1. ASSUME NEW v \in Workers PROVE cur'[v] # NULL <=> v \in Busy'
      BY <2>2, <2>4, <2>7 DEF PoolIInv, HeldInv, Busy, At
    <3>2. ASSUME NEW v \in Workers PROVE wsub'[v] # NULL <=> wpc'[v] \in {"add", "push"}
      BY <2>1, <2>2 DEF PoolIInv, HeldInv
    <3>3. ASSUME NEW t \in Tasks, Held(t) PROVE Held(t)'
      <4>1. CASE t = Head(tasks)
        BY <4>1, <2>2, <2>7 DEF Held, At
      <4>2. CASE t # Head(tasks)
        BY <4>2, <3>3, <2>1, <2>2, <2>4, <2>7 DEF Held, At
      <4> QED BY <4>1, <4>2
    <3> QED BY <3>1, <3>2, <3>3, <2>1 DEF PoolIInv, HeldInv
  <2>9. WaitedInv' /\ OutlivesInv'
    BY <2>1 DEF PoolIInv, WaitedInv, OutlivesInv
  <2> QED BY <2>5, <2>6, <2>8, <2>9 DEF PoolIInv
<1> QED BY <1>1, <1>2

\* CheckShutdown and NotifyAll.
LEMMA PoolIInvCheckShutdown ==
    ASSUME PoolIInv, NEW w \in Workers, CheckShutdown(w)
    PROVE  PoolIInv'
<1>1. PICK to \in {"pop", "exit"} : Goto(w, to)
  BY DEF CheckShutdown
<1> QED BY <1>1, IdleWorkerMoves DEF CheckShutdown, ownerVars

\* A worker wakes those who wait.
LEMMA PoolIInvNotifyAll ==
    ASSUME PoolIInv, NEW w \in Workers, NotifyAll(w)
    PROVE  PoolIInv'
BY IdleWorkerMoves DEF NotifyAll, OwnerPC

\* A running task submits: the task is dropped, or in the hands of the worker.
LEMMA PoolIInvRunSubmit ==
    ASSUME PoolIInv, NEW w \in Workers, RunSubmit(w)
    PROVE  PoolIInv'
<1>1. /\ wpc[w] = "run"
      /\ UNCHANGED <<shutdown_, count_tasks, tasks, count_workers_, mpc, msub, waited, cur>>
  BY DEF RunSubmit, sharedVars, ownerVars
<1>2. PICK t \in Tasks :
        /\ \/ status[t] \in {"new", "parked"} /\ UNCHANGED stops
           \/ /\ t = cur[w] /\ stops[t] < MaxStops
              /\ stops' = [stops EXCEPT ![t] = @ + 1]
        /\ \/ /\ shutdown_
              /\ status' = [status EXCEPT ![t] = "dropped"]
              /\ Goto(w, IF t = cur[w] THEN "remove" ELSE "run")
              /\ UNCHANGED wsub
           \/ /\ ~shutdown_
              /\ status' = [status EXCEPT ![t] = "submitted"]
              /\ wsub' = [wsub EXCEPT ![w] = t]
              /\ Goto(w, "add")
  BY DEF RunSubmit
<1>3. PICK to \in {"run", "remove", "add"} : Goto(w, to)
  BY <1>2
<1>4. wpc'[w] = to /\ (\A v \in Workers : v # w => wpc'[v] = wpc[v]) /\ wpc' \in [Workers -> WorkerPC]
  BY <1>3, GotoFacts DEF PoolIInv, WorkerPC
<1>5. /\ Cardinality(Busy') = Cardinality(Busy)
      /\ Cardinality(At({"push"})') = Cardinality(At({"push"}))
      /\ Cardinality(Counted') = Cardinality(Counted)
  BY <1>1, <1>3, GotoAt DEF PoolIInv, Busy, Counted, WorkerPC
<1>6. CountMatches'
  BY <1>1, <1>5 DEF PoolIInv, CountMatches
<1>7. stops' \in [Tasks -> 0..MaxStops]
  BY <1>2, PoolAssumption, SMTT(30) DEF PoolIInv, TypeOK
<1>8. /\ status' \in [Tasks -> {"new", "submitted", "parked", "done", "dropped"}]
      /\ wsub' \in [Workers -> Tasks \union {NULL}]
  BY <1>2 DEF PoolIInv, TypeOK
<1>9. TypeOK'
  BY <1>1, <1>4, <1>7, <1>8 DEF PoolIInv, TypeOK
<1>10. t # NULL
  BY PoolAssumption
<1>11. Busy' = Busy
  BY <1>1, <1>4 DEF Busy, At
<1>12. HeldInv'
  <2>1. CASE shutdown_
    <3>1. /\ status' = [status EXCEPT ![t] = "dropped"]
          /\ Goto(w, IF t = cur[w] THEN "remove" ELSE "run") /\ wsub' = wsub
      BY <2>1, <1>2
    <3>2. wpc'[w] = IF t = cur[w] THEN "remove" ELSE "run"
      BY <3>1 DEF PoolIInv, TypeOK, Goto
    <3>3. wsub[w] = NULL
      BY <1>1 DEF PoolIInv, HeldInv
    <3>4. ASSUME NEW v \in Workers PROVE wsub'[v] # NULL <=> wpc'[v] \in {"add", "push"}
      BY <1>1, <1>4, <3>1, <3>2, <3>3 DEF PoolIInv, HeldInv
    <3>5. ASSUME NEW u \in Tasks, status'[u] = "submitted" PROVE Held(u)'
      <4>1. u # t /\ status[u] = "submitted"
        BY <3>1, <3>5 DEF PoolIInv, TypeOK
      <4>2. Held(u) /\ u # NULL
        BY <4>1, PoolAssumption DEF PoolIInv, HeldInv
      <4>3. ASSUME NEW v \in At({"run", "add", "push"}), cur[v] = u \/ wsub[v] = u
            PROVE  v \in At({"run", "add", "push"})'
        <5>1. CASE v = w
          BY <5>1, <4>1, <4>2, <4>3, <3>2, <3>3 DEF At
        <5>2. CASE v # w
          BY <5>2, <1>4 DEF At
        <5> QED BY <5>1, <5>2
      <4> QED BY <4>2, <4>3, <3>1, <1>1 DEF Held
    <3> QED BY <3>4, <3>5, <1>1, <1>11 DEF PoolIInv, HeldInv
  <2>2. CASE ~shutdown_
    <3>1. /\ status' = [status EXCEPT ![t] = "submitted"]
          /\ wsub' = [wsub EXCEPT ![w] = t] /\ Goto(w, "add")
      BY <2>2, <1>2
    <3>2. wpc'[w] = "add" /\ wsub'[w] = t /\ \A v \in Workers : v # w => wsub'[v] = wsub[v]
      BY <3>1 DEF PoolIInv, TypeOK, Goto
    <3>3. wsub[w] = NULL
      BY <1>1 DEF PoolIInv, HeldInv
    <3>4. ASSUME NEW v \in Workers PROVE wsub'[v] # NULL <=> wpc'[v] \in {"add", "push"}
      BY <1>4, <1>10, <3>2 DEF PoolIInv, HeldInv
    <3>5. ASSUME NEW u \in Tasks, status'[u] = "submitted" PROVE Held(u)'
      <4>1. CASE u = t
        BY <4>1, <3>2 DEF Held, At
      <4>2. CASE u # t
        <5>1. Held(u) /\ u # NULL
          BY <4>2, <3>1, <3>5, PoolAssumption DEF PoolIInv, HeldInv, TypeOK
        <5>2. ASSUME NEW v \in At({"run", "add", "push"}), cur[v] = u \/ wsub[v] = u
              PROVE  v \in At({"run", "add", "push"})' /\ (cur[v] = u \/ wsub'[v] = u)
          <6>1. CASE v = w
            BY <6>1, <5>1, <5>2, <3>2, <3>3 DEF At
          <6>2. CASE v # w
            BY <6>2, <5>2, <1>4, <3>2 DEF At
          <6> QED BY <6>1, <6>2
        <5> QED BY <5>1, <5>2, <1>1 DEF Held
      <4> QED BY <4>1, <4>2
    <3> QED BY <3>4, <3>5, <1>1, <1>11 DEF PoolIInv, HeldInv
  <2> QED BY <2>1, <2>2
<1>13. WaitedInv' /\ OutlivesInv'
  BY <1>1 DEF PoolIInv, WaitedInv, OutlivesInv
<1> QED BY <1>6, <1>9, <1>12, <1>13 DEF PoolIInv

\* A worker counts the task that its task submits.
LEMMA PoolIInvRunAddTask ==
    ASSUME PoolIInv, NEW w \in Workers, RunAddTask(w)
    PROVE  PoolIInv'
<1>1. /\ wpc[w] = "add" /\ Goto(w, "push") /\ count_tasks' = count_tasks + 1
      /\ UNCHANGED <<shutdown_, tasks, count_workers_, mpc, msub, waited, cur, wsub, status, stops>>
  BY DEF RunAddTask, ownerVars, taskVars
<1>2. wpc'[w] = "push" /\ (\A v \in Workers : v # w => wpc'[v] = wpc[v]) /\ wpc' \in [Workers -> WorkerPC]
  BY <1>1, GotoFacts DEF PoolIInv, WorkerPC
<1>3. /\ Cardinality(Busy') = Cardinality(Busy)
      /\ Cardinality(At({"push"})') = Cardinality(At({"push"})) + 1
      /\ Cardinality(Counted') = Cardinality(Counted)
  BY <1>1, GotoAt DEF PoolIInv, Busy, Counted, WorkerPC
<1>4. CountMatches'
  <2>1. Len(tasks) \in Nat
    BY LenProperties DEF PoolIInv, TypeOK
  <2> QED BY <1>1, <1>3, <2>1, CountFacts DEF PoolIInv, CountMatches
<1>5. TypeOK'
  BY <1>1, <1>2 DEF PoolIInv, TypeOK
<1>6. HeldInv'
  <2>1. Busy' = Busy /\ At({"run", "add", "push"})' = At({"run", "add", "push"})
    BY <1>1, <1>2 DEF Busy, At
  <2>2. \A v \in Workers : wpc'[v] \in {"add", "push"} <=> wpc[v] \in {"add", "push"}
    BY <1>1, <1>2
  <2> QED BY <1>1, <2>1, <2>2 DEF PoolIInv, HeldInv, Held
<1>7. ~waited
  <2>1. w \in Busy
    BY <1>1 DEF Busy, At
  <2> QED BY <2>1, ZeroIsIdle DEF PoolIInv, WaitedInv
<1>8. WaitedInv' /\ OutlivesInv'
  BY <1>1, <1>7 DEF PoolIInv, WaitedInv, OutlivesInv
<1> QED BY <1>4, <1>5, <1>6, <1>8 DEF PoolIInv

\* The task goes into the list; another worker may take it at once.
LEMMA PoolIInvRunPush ==
    ASSUME PoolIInv, NEW w \in Workers, RunPush(w)
    PROVE  PoolIInv'
<1>1. /\ wpc[w] = "push" /\ tasks' = Append(tasks, wsub[w])
      /\ Goto(w, IF wsub[w] = cur[w] THEN "remove" ELSE "run")
      /\ wsub' = [wsub EXCEPT ![w] = NULL]
      /\ UNCHANGED <<shutdown_, count_tasks, count_workers_, mpc, msub, waited, cur, status, stops>>
  BY DEF RunPush, ownerVars, taskVars
<1>2. PICK to \in {"remove", "run"} : Goto(w, to) /\ to = IF wsub[w] = cur[w] THEN "remove" ELSE "run"
  BY <1>1
<1>3. wpc'[w] = to /\ (\A v \in Workers : v # w => wpc'[v] = wpc[v]) /\ wpc' \in [Workers -> WorkerPC]
  BY <1>2, GotoFacts DEF PoolIInv, WorkerPC
<1>4. /\ Cardinality(Busy') = Cardinality(Busy)
      /\ Cardinality(At({"push"})') = Cardinality(At({"push"})) - 1
      /\ Cardinality(Counted') = Cardinality(Counted)
  BY <1>1, <1>2, GotoAt, ZenonT(60) DEF PoolIInv, Busy, Counted, WorkerPC
<1>5. wsub[w] \in Tasks /\ tasks \in Seq(Tasks)
  BY <1>1 DEF PoolIInv, TypeOK, HeldInv
<1>6. /\ tasks' \in Seq(Tasks) /\ Len(tasks) \in Nat /\ Len(tasks') = Len(tasks) + 1
      /\ \A x : Has(tasks', x) <=> Has(tasks, x) \/ x = wsub[w]
  BY <1>1, <1>5, AppendHas
<1>7. CountMatches'
  BY <1>1, <1>4, <1>6, CountFacts DEF PoolIInv, CountMatches
<1>8. TypeOK'
  BY <1>1, <1>3, <1>6 DEF PoolIInv, TypeOK
<1>9. wsub'[w] = NULL /\ \A v \in Workers : v # w => wsub'[v] = wsub[v]
  BY <1>1 DEF PoolIInv, TypeOK
<1>10. HeldInv'
  <2>1. Busy' = Busy
    BY <1>1, <1>3 DEF Busy, At
  <2>2. ASSUME NEW v \in Workers PROVE wsub'[v] # NULL <=> wpc'[v] \in {"add", "push"}
    BY <1>3, <1>9 DEF PoolIInv, HeldInv
  <2>3. ASSUME NEW t \in Tasks, Held(t) PROVE Held(t)'
    <3>1. CASE t = wsub[w] \/ Has(tasks, t)
      BY <3>1, <1>6 DEF Held
    <3>2. CASE t # wsub[w] /\ ~Has(tasks, t)
      <4>1. ASSUME NEW v \in At({"run", "add", "push"}), cur[v] = t \/ wsub[v] = t
            PROVE  v \in At({"run", "add", "push"})' /\ (cur[v] = t \/ wsub'[v] = t)
        <5>1. CASE v = w
          BY <5>1, <4>1, <3>2, <1>2, <1>3 DEF At
        <5>2. CASE v # w
          BY <5>2, <4>1, <1>3, <1>9 DEF At
        <5> QED BY <5>1, <5>2
      <4> QED BY <3>2, <2>3, <4>1, <1>1 DEF Held
    <3> QED BY <3>1, <3>2
  <2> QED BY <2>1, <2>2, <2>3, <1>1 DEF PoolIInv, HeldInv
<1>11. WaitedInv' /\ OutlivesInv'
  BY <1>1 DEF PoolIInv, WaitedInv, OutlivesInv
<1> QED BY <1>7, <1>8, <1>10, <1>11 DEF PoolIInv

\* The task comes to its end or is parked.
LEMMA PoolIInvRunReturn ==
    ASSUME PoolIInv, NEW w \in Workers, RunReturn(w)
    PROVE  PoolIInv'
<1>0. PICK outcome \in {"done", "parked"} : status' = [status EXCEPT ![cur[w]] = outcome]
  BY DEF RunReturn
<1>1. /\ wpc[w] = "run" /\ Goto(w, "remove")
      /\ UNCHANGED <<shutdown_, count_tasks, tasks, count_workers_, mpc, msub, waited, cur, wsub>>
  BY DEF RunReturn, sharedVars, ownerVars
<1>2. wpc'[w] = "remove" /\ (\A v \in Workers : v # w => wpc'[v] = wpc[v]) /\ wpc' \in [Workers -> WorkerPC]
  BY <1>1, GotoFacts DEF PoolIInv, WorkerPC
<1>3. /\ Cardinality(Busy') = Cardinality(Busy)
      /\ Cardinality(At({"push"})') = Cardinality(At({"push"}))
      /\ Cardinality(Counted') = Cardinality(Counted)
  BY <1>1, GotoAt DEF PoolIInv, Busy, Counted, WorkerPC
<1>4. CountMatches'
  BY <1>1, <1>3 DEF PoolIInv, CountMatches
<1>5. TypeOK'
  <2>1. stops' \in [Tasks -> 0..MaxStops]
    BY PoolAssumption, SMTT(30) DEF RunReturn, PoolIInv, TypeOK
  <2>2. status' \in [Tasks -> {"new", "submitted", "parked", "done", "dropped"}]
    BY <1>0 DEF PoolIInv, TypeOK
  <2> QED BY <1>1, <1>2, <2>1, <2>2 DEF PoolIInv, TypeOK
<1>6. Busy' = Busy
  BY <1>1, <1>2 DEF Busy, At
<1>7. wsub[w] = NULL /\ cur[w] \in Tasks
  <2>1. w \in Busy
    BY <1>1 DEF Busy, At
  <2> QED BY <1>1, <2>1 DEF PoolIInv, HeldInv, TypeOK
<1>8. HeldInv'
  <2>1. ASSUME NEW v \in Workers PROVE wsub'[v] # NULL <=> wpc'[v] \in {"add", "push"}
    BY <1>1, <1>2 DEF PoolIInv, HeldInv
  <2>2. ASSUME NEW t \in Tasks, status'[t] = "submitted" PROVE Held(t)'
    <3>1. t # cur[w] /\ status[t] = "submitted" /\ t # NULL
      BY <1>0, <2>2, PoolAssumption DEF PoolIInv, TypeOK
    <3>2. Held(t)
      BY <3>1 DEF PoolIInv, HeldInv
    <3>3. ASSUME NEW v \in At({"run", "add", "push"}), cur[v] = t \/ wsub[v] = t
          PROVE  v \in At({"run", "add", "push"})'
      BY <3>1, <3>3, <1>2, <1>7 DEF At
    <3> QED BY <3>2, <3>3, <1>1 DEF Held
  <2> QED BY <2>1, <2>2, <1>1, <1>6 DEF PoolIInv, HeldInv
<1>9. WaitedInv' /\ OutlivesInv'
  BY <1>1 DEF PoolIInv, WaitedInv, OutlivesInv
<1> QED BY <1>4, <1>5, <1>8, <1>9 DEF PoolIInv

\* count_tasks goes down by one, and not below zero.
LEMMA PoolIInvRemoveTask ==
    ASSUME PoolIInv, NEW w \in Workers, RemoveTask(w)
    PROVE  PoolIInv'
<1>1. /\ wpc[w] = "remove" /\ Goto(w, "notify") /\ count_tasks' = count_tasks - 1
      /\ cur' = [cur EXCEPT ![w] = NULL]
      /\ UNCHANGED <<shutdown_, tasks, count_workers_, mpc, msub, waited, wsub, status, stops>>
  BY DEF RemoveTask, ownerVars, taskVars
<1>2. wpc'[w] = "notify" /\ (\A v \in Workers : v # w => wpc'[v] = wpc[v]) /\ wpc' \in [Workers -> WorkerPC]
  BY <1>1, GotoFacts DEF PoolIInv, WorkerPC
<1>3. /\ Cardinality(Busy') = Cardinality(Busy) - 1 /\ Cardinality(Busy') \in Nat
      /\ Cardinality(At({"push"})') = Cardinality(At({"push"}))
      /\ Cardinality(Counted') = Cardinality(Counted)
  BY <1>1, GotoAt DEF PoolIInv, Busy, Counted, WorkerPC
<1>4. Len(tasks) \in Nat
  BY LenProperties DEF PoolIInv, TypeOK
<1>5. CountMatches' /\ count_tasks' \in Nat
  BY <1>1, <1>3, <1>4, CountFacts DEF PoolIInv, CountMatches
<1>6. TypeOK'
  BY <1>1, <1>2, <1>5 DEF PoolIInv, TypeOK
<1>7. cur'[w] = NULL /\ \A v \in Workers : v # w => cur'[v] = cur[v]
  BY <1>1 DEF PoolIInv, TypeOK
<1>8. HeldInv'
  <2>1. ASSUME NEW v \in Workers PROVE wsub'[v] # NULL <=> wpc'[v] \in {"add", "push"}
    BY <1>1, <1>2 DEF PoolIInv, HeldInv
  <2>2. ASSUME NEW v \in Workers PROVE cur'[v] # NULL <=> v \in Busy'
    BY <1>2, <1>7 DEF PoolIInv, HeldInv, Busy, At
  <2>3. ASSUME NEW t \in Tasks, Held(t) PROVE Held(t)'
    <3>1. ASSUME NEW v \in At({"run", "add", "push"})
          PROVE  v \in At({"run", "add", "push"})' /\ cur'[v] = cur[v]
      BY <1>1, <1>2, <1>7 DEF At
    <3> QED BY <2>3, <3>1, <1>1 DEF Held
  <2> QED BY <2>1, <2>2, <2>3, <1>1 DEF PoolIInv, HeldInv
<1>9. ~waited
  <2>1. w \in Busy
    BY <1>1 DEF Busy, At
  <2> QED BY <2>1, ZeroIsIdle DEF PoolIInv, WaitedInv
<1>10. WaitedInv' /\ OutlivesInv'
  BY <1>1, <1>9 DEF PoolIInv, WaitedInv, OutlivesInv
<1> QED BY <1>5, <1>6, <1>8, <1>10 DEF PoolIInv

\* A worker leaves: first it is uncounted, then it tells.
LEMMA PoolIInvExit ==
    ASSUME PoolIInv, NEW w \in Workers, Exit(w) \/ ExitNotify(w)
    PROVE  PoolIInv'
<1>0. PICK to \in {"exit_notify", "stopped"} :
        /\ Goto(w, to)
        /\ \/ to = "exit_notify" /\ wpc[w] = "exit" /\ count_workers_' = count_workers_ - 1
           \/ to = "stopped" /\ wpc[w] = "exit_notify" /\ count_workers_' = count_workers_
  BY DEF Exit, ExitNotify, sharedVars
<1>1. /\ mpc' = mpc \/ (mpc = "workers_asleep" /\ mpc' = "wait_workers")
      /\ UNCHANGED <<shutdown_, count_tasks, tasks, msub, waited, cur, wsub, status, stops>>
  BY DEF Exit, ExitNotify, ownerVars, taskVars, sharedVars
<1>2. wpc'[w] = to /\ (\A v \in Workers : v # w => wpc'[v] = wpc[v]) /\ wpc' \in [Workers -> WorkerPC]
  BY <1>0, GotoFacts DEF PoolIInv, WorkerPC
<1>3. /\ Cardinality(Busy') = Cardinality(Busy)
      /\ Cardinality(At({"push"})') = Cardinality(At({"push"}))
      /\ count_workers_' = Cardinality(Counted') /\ Cardinality(Counted') \in Nat
  <2>1. /\ Cardinality(Busy') = Cardinality(Busy)
        /\ Cardinality(At({"push"})') = Cardinality(At({"push"}))
    BY <1>0, GotoAt DEF PoolIInv, Busy
  <2>2. /\ Cardinality(Counted') \in Nat
        /\ wpc[w] = "exit" => Cardinality(Counted') = Cardinality(Counted) - 1
        /\ wpc[w] = "exit_notify" => Cardinality(Counted') = Cardinality(Counted)
    BY <1>0, GotoAt DEF PoolIInv, Counted, WorkerPC
  <2>3. count_workers_ = Cardinality(Counted)
    BY DEF PoolIInv, CountMatches
  <2> QED BY <2>1, <2>2, <2>3, <1>0
<1>4. mpc' = "push" <=> mpc = "push"
  BY <1>1
<1>5. CountMatches'
  BY <1>1, <1>3, <1>4 DEF PoolIInv, CountMatches
<1>6. count_workers_' \in 0..Cardinality(Workers)
  BY <1>0, <1>3, AtFinite DEF PoolIInv, TypeOK
<1>7. TypeOK'
  BY <1>1, <1>2, <1>6 DEF PoolIInv, TypeOK, OwnerPC
<1>8. HeldInv'
  <2>1. Busy' = Busy /\ At({"run", "add", "push"})' = At({"run", "add", "push"})
    BY <1>0, <1>2 DEF Busy, At
  <2>2. \A v \in Workers : wpc'[v] \in {"add", "push"} <=> wpc[v] \in {"add", "push"}
    BY <1>0, <1>2
  <2>3. mpc' \in {"add", "push"} <=> mpc \in {"add", "push"}
    BY <1>1
  <2> QED BY <1>1, <2>1, <2>2, <2>3 DEF PoolIInv, HeldInv, Held
<1>9. WaitedInv' /\ OutlivesInv'
  BY <1>0, <1>1 DEF PoolIInv, WaitedInv, OutlivesInv
<1> QED BY <1>5, <1>7, <1>8, <1>9 DEF PoolIInv

\* The pool counts its tasks and its workers exactly, holds every task that was
\* submitted until it ends or is parked, has nothing to run when WaitIdle says
\* so, and is destroyed when its workers have stopped; the tasks that are left
\* then are those in the list, none after a WaitIdle.
THEOREM PoolInvariance == Spec => []PoolInv
<1>1. PoolIInv /\ [Next]_vars => PoolIInv'
  <2> SUFFICES ASSUME PoolIInv, [Next]_vars PROVE PoolIInv'
    OBVIOUS
  <2>1. CASE UNCHANGED vars
    <3>1. \A P : At(P)' = At(P)
      BY <2>1 DEF At, vars, workerVars
    <3> QED BY <2>1, <3>1 DEF vars, sharedVars, ownerVars, workerVars, taskVars, PoolIInv, TypeOK,
           CountMatches, HeldInv, Held, Busy, Counted, WaitedInv, OutlivesInv
  <2>2. ASSUME NEW w \in Workers, StartWorker(w) \/ WorkerStep(w)
        PROVE  PoolIInv'
    BY <2>2, PoolIInvStartWorker, PoolIInvPop, PoolIInvCheckShutdown, PoolIInvRunSubmit,
       PoolIInvRunAddTask, PoolIInvRunPush, PoolIInvRunReturn, PoolIInvRemoveTask,
       PoolIInvNotifyAll, PoolIInvExit DEF WorkerStep
  <2>3. ASSUME NEW t \in Tasks, OwnerSubmit(t)
        PROVE  PoolIInv'
    BY <2>3, PoolIInvOwnerSubmit
  <2>4. CASE WaitIdle \/ StartShutdown \/ OwnerStep
    BY <2>4, PoolIInvOwnerMoves, PoolIInvOwnerAddTask, PoolIInvOwnerPush DEF OwnerStep
  <2> QED BY <2>1, <2>2, <2>3, <2>4 DEF Next
<1> QED BY <1>1, PoolIInvInit, PoolIInvSuffices, PTL DEF Spec

=============================================================================
