--------------------------- MODULE TaskQueueProofs ---------------------------
(***************************************************************************)
(* For any clients, workers, tasks and coroutines that keep to the use     *)
(* described by ScriptAssumption and CoroutineAssumption: a task has one   *)
(* outcome and is run at most once, and current_coro names the coroutine   *)
(* that executes on the thread.                                            *)
(***************************************************************************)
EXTENDS TaskQueue, SequenceTheorems, TLAPS

\* A queue after a push.
LEMMA AppendAt ==
    ASSUME NEW S, NEW s \in Seq(S), NEW e \in S
    PROVE  /\ Append(s, e) \in Seq(S)
           /\ Len(s) \in Nat /\ Len(Append(s, e)) = Len(s) + 1
           /\ \A i \in 1..Len(s) : Append(s, e)[i] = s[i]
           /\ Append(s, e)[Len(s) + 1] = e
           /\ Append(s, e) # <<>>
BY AppendProperties, LenProperties

\* A queue after a pop.
LEMMA TailAt ==
    ASSUME NEW S, NEW s \in Seq(S), s # <<>>
    PROVE  /\ Tail(s) \in Seq(S)
           /\ Len(s) \in Nat \ {0} /\ Len(Tail(s)) = Len(s) - 1
           /\ \A i \in 1..Len(s) - 1 : Tail(s)[i] = s[i + 1]
           /\ Head(s) = s[1] /\ s[1] \in S
<1>1. Len(s) \in Nat \ {0}
  BY EmptySeq, LenProperties
<1>2. 1 \in 1..Len(s)
  BY <1>1
<1>3. s[1] \in S
  BY <1>2, ElementOfSeq
<1> QED BY <1>1, <1>3, HeadTailProperties

\* A stack without its last element.
LEMMA FrontAt ==
    ASSUME NEW S, NEW s \in Seq(S), s # <<>>
    PROVE  /\ SubSeq(s, 1, Len(s) - 1) \in Seq(S)
           /\ Len(s) \in Nat \ {0} /\ s[Len(s)] \in S
           /\ Len(SubSeq(s, 1, Len(s) - 1)) = Len(s) - 1
           /\ \A i \in 1..Len(s) - 1 : SubSeq(s, 1, Len(s) - 1)[i] = s[i]
           /\ Append(SubSeq(s, 1, Len(s) - 1), s[Len(s)]) = s
<1> DEFINE f == SubSeq(s, 1, Len(s) - 1)
<1>1. Len(s) \in Nat \ {0}
  BY EmptySeq, LenProperties
<1>2. Len(s) \in 1..Len(s) /\ 1 \in 1..Len(s) + 1 /\ Len(s) - 1 \in 0..Len(s)
  BY <1>1
<1>3. s[Len(s)] \in S
  BY <1>2, ElementOfSeq
<1>4. f \in Seq(S) /\ Len(f) = Len(s) - 1 /\ \A i \in 1..Len(s) - 1 : f[i] = s[i]
  <2> DEFINE n == Len(s) - 1
  <2>1. n \in Nat /\ n \in Int /\ 1 \in Int
    BY <1>1
  <2>2. \A i \in 1..n : s[i] \in S
    BY <1>1, ElementOfSeq
  <2> HIDE DEF n
  <2>3. /\ SubSeq(s, 1, n) \in Seq(S)
        /\ Len(SubSeq(s, 1, n)) = IF 1 <= n THEN n - 1 + 1 ELSE 0
        /\ \A i \in 1..n - 1 + 1 : SubSeq(s, 1, n)[i] = s[1 + i - 1]
    BY <2>1, <2>2, SubSeqProperties
  <2>4. Len(SubSeq(s, 1, n)) = n
    BY <2>1, <2>3
  <2>5. \A i \in 1..n : i \in 1..n - 1 + 1 /\ 1 + i - 1 = i
    BY <2>1
  <2>6. \A i \in 1..n : SubSeq(s, 1, n)[i] = s[i]
    BY <2>3, <2>5
  <2> QED BY <2>3, <2>4, <2>6 DEF n
<1>5. Append(f, s[Len(s)]) = s
  <2> HIDE DEF f
  <2> DEFINE g == Append(f, s[Len(s)])
  <2>1. /\ g \in Seq(S) /\ Len(g) = Len(s)
        /\ \A i \in 1..Len(s) - 1 : g[i] = s[i]
        /\ g[Len(s)] = s[Len(s)]
    BY <1>1, <1>3, <1>4, AppendAt
  <2>2. \A i \in 1..Len(s) : g[i] = s[i]
    BY <2>1, <1>1
  <2> QED BY <2>1, <2>2, SeqEqual
<1> QED BY <1>1, <1>3, <1>4, <1>5

-----------------------------------------------------------------------------
(* Clients.                                                                *)

\* The calls that clients have returned from after client k's current one.
LEMMA PastAdvance ==
    ASSUME TypeOK, NEW k \in Clients, Advance(k)
    PROVE  \A l \in Clients : \A operation, t :
               Past(l, operation, t)' <=>
                   Past(l, operation, t) \/ (l = k /\ Calls(k, operation, t))
<1>1. at[k] \in Nat \ {0} /\ at'[k] = at[k] + 1 /\ \A l \in Clients : l # k => at'[l] = at[l]
  BY DEF TypeOK, Advance
<1>2. TAKE l \in Clients
<1>3. TAKE operation, t
<1>4. CASE l # k
  BY <1>1, <1>4 DEF Past, CallAt
<1>5. CASE l = k
  <2>1. \A i : i \in 1..at[k] + 1 - 1 <=> i \in 1..at[k] - 1 \/ i = at[k]
    BY <1>1
  <2>2. Past(l, operation, t)' <=> \E i : i \in 1..at'[k] - 1 /\ CallAt(k, i, operation, t)
    BY <1>5 DEF Past, CallAt
  <2>3. Past(l, operation, t) <=> \E i : i \in 1..at[k] - 1 /\ CallAt(k, i, operation, t)
    BY <1>5 DEF Past
  <2>4. Calls(k, operation, t) <=> \E i : i = at[k] /\ CallAt(k, i, operation, t)
    BY DEF Calls
  <2>5. \A i : i \in 1..at'[k] - 1 <=> i \in 1..at[k] - 1 \/ i = at[k]
    BY <1>1, <2>1
  <2> QED BY <1>5, <2>2, <2>3, <2>4, <2>5
<1> QED BY <1>4, <1>5

\* A client makes one call at a time.
LEMMA OneCall ==
    ASSUME NEW k \in Clients, NEW p, NEW t, NEW q, NEW u, Calls(k, p, t), Calls(k, q, u)
    PROVE  p = q /\ t = u
BY DEF Calls, CallAt

\* A task that is about to be submitted was not submitted before.
LEMMA FirstSubmit ==
    ASSUME TypeOK, NEW k \in Clients, NEW t \in Tasks, Calls(k, "submit", t)
    PROVE  ~Submitted(t)
<1> SUFFICES ASSUME NEW l \in Clients, Past(l, "submit", t) PROVE FALSE
  BY DEF Submitted
<1>1. PICK j \in 1..at[l] - 1 : CallAt(l, j, "submit", t)
  BY DEF Past
<1>2. CallAt(k, at[k], "submit", t) /\ at[k] \in 1..Len(Script[k]) /\ j \in 1..Len(Script[l])
  BY <1>1 DEF Calls, CallAt
<1>3. k = l /\ at[k] = j
  BY <1>1, <1>2, ScriptAssumption
<1> QED BY <1>1, <1>3 DEF TypeOK

\* Nor was one that is about to be cancelled submitted or cancelled.
LEMMA FirstCancel ==
    ASSUME TypeOK, NEW k \in Clients, NEW t \in Tasks, Calls(k, "cancel", t)
    PROVE  ~Submitted(t) /\ \A l \in Clients : ~Past(l, "cancel", t)
<1>1. CallAt(k, at[k], "cancel", t) /\ at[k] \in 1..Len(Script[k])
  BY DEF Calls, CallAt
<1>2. ASSUME NEW l \in Clients, Past(l, "cancel", t) PROVE FALSE
  <2>1. PICK j \in 1..at[l] - 1 : CallAt(l, j, "cancel", t)
    BY <1>2 DEF Past
  <2>2. j \in 1..Len(Script[l])
    BY <2>1 DEF CallAt
  <2>3. k = l /\ at[k] = j
    BY <1>1, <2>1, <2>2, ScriptAssumption
  <2> QED BY <2>1, <2>3 DEF TypeOK
<1>3. ASSUME NEW l \in Clients, Past(l, "submit", t) PROVE FALSE
  <2>1. PICK j \in 1..at[l] - 1 : CallAt(l, j, "submit", t)
    BY <1>3 DEF Past
  <2>2. j \in 1..Len(Script[l])
    BY <2>1 DEF CallAt
  <2>3. k = l /\ at[k] < j
    BY <1>1, <2>1, <2>2, ScriptAssumption
  <2>4. at[l] \in Nat
    BY DEF TypeOK
  <2> QED BY <2>1, <2>3, <2>4
<1> QED BY <1>2, <1>3 DEF Submitted

\* Of two submitted tasks that resume one coroutine one is finished.
LEMMA OneByOne ==
    ASSUME OneOutcome, NEW t \in Tasks, NEW u \in Tasks, t # u,
           Submitted(t), Submitted(u), Body[t] = Body[u], Body[t] # NoCoro
    PROVE  IsFinished(t) \/ IsFinished(u)
<1>1. PICK k \in Clients : \E i \in 1..at[k] - 1 : CallAt(k, i, "submit", t)
  BY DEF Submitted, Past
<1>2. PICK i \in 1..at[k] - 1 : CallAt(k, i, "submit", t)
  BY <1>1
<1>3. PICK l \in Clients : \E j \in 1..at[l] - 1 : CallAt(l, j, "submit", u)
  BY DEF Submitted, Past
<1>4. PICK j \in 1..at[l] - 1 : CallAt(l, j, "submit", u)
  BY <1>3
<1>5. i \in 1..Len(Script[k]) /\ j \in 1..Len(Script[l])
  BY <1>2, <1>4 DEF CallAt
<1>6. WaitsBefore(l, j, t) \/ WaitsBefore(k, i, u)
  BY <1>2, <1>4, <1>5, CoroutineAssumption
<1>7. at[k] \in Nat /\ at[l] \in Nat
  BY DEF OneOutcome, TypeOK
<1>8. Past(l, "wait", t) \/ Past(k, "wait", u)
  <2>1. \A n \in 1..j - 1 : n \in 1..at[l] - 1
    BY <1>4, <1>7
  <2>2. \A n \in 1..i - 1 : n \in 1..at[k] - 1
    BY <1>2, <1>7
  <2> QED BY <1>6, <2>1, <2>2 DEF WaitsBefore, Past
<1> QED BY <1>8 DEF OneOutcome, StatusInv

-----------------------------------------------------------------------------
(* Types.                                                                  *)

\* What executes on a thread has the type of a coroutine.
LEMMA ExecutingType ==
    ASSUME TypeOK, NEW a \in Threads
    PROVE  /\ Executing(a) \in Coroutines \union {NoCoro}
           /\ Executing(a) # NoCoro => coro_stack[a] # <<>>
<1>1. coro_stack[a] \in Seq(Coroutines)
  BY DEF TypeOK
<1>2. CASE coro_stack[a] = <<>>
  BY <1>2 DEF Executing
<1>3. CASE coro_stack[a] # <<>>
  BY <1>1, <1>3, FrontAt DEF Executing
<1> QED BY <1>2, <1>3

\* The step of Finish on a task that has not finished.
LEMMA FinishStep ==
    ASSUME TypeOK, NEW t \in Tasks, NEW to \in {"Completed", "Cancelled", "Failed"},
           status[t] = "NotStarted", Finish(t, to)
    PROVE  /\ status' = [status EXCEPT ![t] = to] /\ aborted' = aborted
           /\ status' \in [Tasks -> {"NotStarted", "Completed", "Cancelled", "Failed"}]
           /\ task_waits' \in [Tasks -> SUBSET Clients]
<1>1. /\ status' = [status EXCEPT ![t] = to] /\ aborted' = aborted
      /\ \/ UNCHANGED task_waits
         \/ \E a \in task_waits[t] : task_waits' = [task_waits EXCEPT ![t] = @ \ {a}]
  BY DEF Finish
<1>2. status' \in [Tasks -> {"NotStarted", "Completed", "Cancelled", "Failed"}]
  BY <1>1 DEF TypeOK
<1>3. task_waits \in [Tasks -> SUBSET Clients]
  BY DEF TypeOK
<1>4. ASSUME NEW a, task_waits' = [task_waits EXCEPT ![t] = @ \ {a}]
      PROVE  task_waits' \in [Tasks -> SUBSET Clients]
  BY <1>3, <1>4
<1> QED BY <1>1, <1>2, <1>3, <1>4

\* The types of what the queue, the tasks and the clients keep.
QueueTypes ==
    /\ data \in Seq(Tasks) /\ close \in BOOLEAN /\ takers \subseteq Threads
    /\ status \in [Tasks -> {"NotStarted", "Completed", "Cancelled", "Failed"}]
    /\ ex_error \subseteq Tasks /\ task_waits \in [Tasks -> SUBSET Clients]
    /\ at \in [Clients -> Nat \ {0}]
    /\ phase \in [Clients -> {"start", "push", "refused"}]
    /\ late \subseteq Tasks /\ shared \subseteq Tasks

\* The types of what the workers and the coroutines keep.
WorkTypes ==
    /\ current_coro \in [Threads -> Coroutines \union {NoCoro}]
    /\ caller_coro \in [Coroutines -> Coroutines \union {NoCoro}]
    /\ is_completed \in [Coroutines -> BOOLEAN]
    /\ coro_stack \in [Threads -> Seq(Coroutines)]
    /\ back \in [Threads -> Coroutines \union {NoCoro}]
    /\ wpc \in [Threads -> {"take", "gone"} \union Working]
    /\ task \in [Threads -> Tasks \union {NoTask}]
    /\ drives \in [Coroutines -> BOOLEAN]
    /\ runs \in [Tasks -> Nat]

\* Together they are TypeOK.
LEMMA TypeParts == TypeOK <=> QueueTypes /\ WorkTypes
BY DEF TypeOK, QueueTypes, WorkTypes

\* The same after a step.
LEMMA TypePartsNext == QueueTypes' /\ WorkTypes' => TypeOK'
BY DEF TypeOK, QueueTypes, WorkTypes

\* A step of a client keeps the types.
LEMMA ClientTypes ==
    ASSUME OneOutcome, NEW k \in Clients, ClientStep(k) \/ ClientClose(k)
    PROVE  TypeOK'
<1>0. TypeOK /\ QueueTypes /\ WorkTypes
  BY TypeParts DEF OneOutcome
<1>1. UNCHANGED <<coroVars, wpc, task, drives, runs>> => WorkTypes'
  BY <1>0 DEF WorkTypes, coroVars
<1>2. Advance(k) => at' \in [Clients -> Nat \ {0}]
  BY <1>0 DEF QueueTypes, Advance
<1>3. CASE ClientClose(k)
  <2>1. WorkTypes'
    BY <1>1, <1>3 DEF ClientClose
  <2>2. QueueTypes'
    BY <1>0, <1>2, <1>3 DEF QueueTypes, ClientClose, Close, taskVars
  <2> QED BY <2>1, <2>2, TypePartsNext
<1>4. CASE ClientStep(k)
  <2>0. PICK t \in Tasks : \/ ClientCancel(k, t)
                           \/ SubmitCheck(k, t) \/ SubmitPush(k, t) \/ SubmitRefused(k, t)
                           \/ ClientWaits(k, t) \/ ClientWaited(k, t)
    BY <1>4 DEF ClientStep
  <2>1. WorkTypes'
    BY <1>1, <2>0 DEF ClientCancel, SubmitCheck, SubmitPush, SubmitRefused, ClientWaits, ClientWaited
  <2>2. CASE ClientCancel(k, t)
    <3>1. status[t] = "NotStarted"
      BY <1>0, <2>2, FirstCancel DEF ClientCancel, OneOutcome, StatusInv, Untouched, IsCanceled
    <3>2. QueueTypes'
      BY <1>0, <1>2, <2>2, <3>1, FinishStep DEF QueueTypes, ClientCancel, Cancel, queueVars
    <3> QED BY <2>1, <3>2, TypePartsNext
  <2>3. CASE SubmitCheck(k, t)
    <3>1. QueueTypes'
      BY <1>0, <2>3 DEF QueueTypes, SubmitCheck, queueVars, taskVars
    <3> QED BY <2>1, <3>1, TypePartsNext
  <2>4. CASE SubmitPush(k, t)
    <3>1. data' = Append(data, t) /\ data' \in Seq(Tasks) /\ takers' \subseteq Threads
      BY <1>0, <2>4, AppendAt DEF QueueTypes, SubmitPush, PutPush
    <3>2. QueueTypes'
      BY <1>0, <1>2, <2>4, <3>1 DEF QueueTypes, SubmitPush, PutPush, taskVars
    <3> QED BY <2>1, <3>2, TypePartsNext
  <2>5. CASE SubmitRefused(k, t)
    <3>1. /\ status' \in [Tasks -> {"NotStarted", "Completed", "Cancelled", "Failed"}]
          /\ task_waits' \in [Tasks -> SUBSET Clients] /\ ex_error' = ex_error
      BY <1>0, <2>5, FinishStep DEF QueueTypes, SubmitRefused, IsFinished, Cancel, taskVars
    <3>2. QueueTypes'
      BY <1>0, <1>2, <2>5, <3>1 DEF QueueTypes, SubmitRefused, queueVars
    <3> QED BY <2>1, <3>2, TypePartsNext
  <2>6. CASE ClientWaits(k, t)
    <3>1. QueueTypes'
      BY <1>0, <2>6 DEF QueueTypes, ClientWaits, WaitSleeps, queueVars
    <3> QED BY <2>1, <3>1, TypePartsNext
  <2>7. CASE ClientWaited(k, t)
    <3>1. QueueTypes'
      BY <1>0, <1>2, <2>7 DEF QueueTypes, ClientWaited, WaitReturns, queueVars, taskVars
    <3> QED BY <2>1, <3>1, TypePartsNext
  <2> QED BY <2>0, <2>2, <2>3, <2>4, <2>5, <2>6, <2>7
<1> QED BY <1>3, <1>4

\* A worker's task, where it has one.
LEMMA TaskType ==
    ASSUME OneOutcome, NEW a \in Threads, wpc[a] \in Working \ {"notify"}
    PROVE  task[a] \in Tasks /\ Serves(a, task[a])
BY TaskQueueAssumption DEF OneOutcome, TypeOK, PlaceInv, Serves

\* Resume keeps the types of the coroutines, and so do the switches back.
LEMMA CoroTypes ==
    ASSUME WorkTypes, TypeOK, NEW a \in Threads,
           \/ \E c \in Coroutines : Resume(a, c)
           \/ Executing(a) # NoCoro /\ (Suspend(a) \/ RoutineEnds(a))
           \/ ResumeReturns(a)
    PROVE  /\ current_coro' \in [Threads -> Coroutines \union {NoCoro}]
           /\ caller_coro' \in [Coroutines -> Coroutines \union {NoCoro}]
           /\ is_completed' \in [Coroutines -> BOOLEAN]
           /\ coro_stack' \in [Threads -> Seq(Coroutines)]
           /\ back' \in [Threads -> Coroutines \union {NoCoro}]
<1>1. ASSUME NEW c \in Coroutines, Resume(a, c)
      PROVE  /\ current_coro' \in [Threads -> Coroutines \union {NoCoro}]
             /\ caller_coro' \in [Coroutines -> Coroutines \union {NoCoro}]
             /\ coro_stack' \in [Threads -> Seq(Coroutines)]
             /\ UNCHANGED <<is_completed, back>>
  <2>1. Append(coro_stack[a], c) \in Seq(Coroutines)
    BY AppendAt DEF WorkTypes
  <2> QED BY <1>1, <2>1 DEF WorkTypes, Resume
<1>2. ASSUME Executing(a) # NoCoro, Suspend(a) \/ RoutineEnds(a)
      PROVE  /\ is_completed' \in [Coroutines -> BOOLEAN]
             /\ coro_stack' \in [Threads -> Seq(Coroutines)]
             /\ back' \in [Threads -> Coroutines \union {NoCoro}]
             /\ UNCHANGED <<current_coro, caller_coro>>
  <2>1. SubSeq(coro_stack[a], 1, Len(coro_stack[a]) - 1) \in Seq(Coroutines)
    BY <1>2, ExecutingType, FrontAt DEF WorkTypes
  <2>2. Executing(a) \in Coroutines
    BY <1>2, ExecutingType
  <2>3. SwitchBack(a)
    BY <1>2 DEF Suspend, RoutineEnds
  <2>4. is_completed' \in [Coroutines -> BOOLEAN]
    BY <1>2, <2>2 DEF WorkTypes, Suspend, RoutineEnds
  <2> QED BY <2>1, <2>2, <2>3, <2>4 DEF WorkTypes, SwitchBack
<1>3. ASSUME ResumeReturns(a)
      PROVE  /\ current_coro' \in [Threads -> Coroutines \union {NoCoro}]
             /\ back' \in [Threads -> Coroutines \union {NoCoro}]
             /\ UNCHANGED <<caller_coro, is_completed, coro_stack>>
  <2>1. back[a] \in Coroutines /\ caller_coro[back[a]] \in Coroutines \union {NoCoro}
    BY <1>3 DEF WorkTypes, ResumeReturns
  <2> QED BY <1>3, <2>1 DEF WorkTypes, ResumeReturns
<1>4. WorkTypes
  OBVIOUS
<1> QED BY <1>1, <1>2, <1>3, <1>4 DEF WorkTypes

\* What a worker that goes on inside a coroutine does.
LEMMA RunsCases ==
    ASSUME TypeOK, NEW a \in Threads, CoroutineRuns(a)
    PROVE  /\ Executing(a) \in Coroutines
           /\ \/ Suspend(a) \/ RoutineEnds(a)
              \/ Inner[Executing(a)] \in Coroutines /\ Resume(a, Inner[Executing(a)])
           /\ drives' = drives \/ \E b \in BOOLEAN : drives' = [drives EXCEPT ![Executing(a)] = b]
<1>1. Executing(a) \in Coroutines /\ Inner[Executing(a)] \in Coroutines \union {NoCoro}
  BY ExecutingType, TaskQueueAssumption DEF CoroutineRuns
<1>2. CASE Inner[Executing(a)] # NoCoro
  <2>1. Drive(a, Executing(a))
    BY <1>2 DEF CoroutineRuns
  <2> QED BY <1>1, <1>2, <2>1 DEF Drive
<1>3. CASE Inner[Executing(a)] = NoCoro
  BY <1>1, <1>3 DEF CoroutineRuns
<1> QED BY <1>1, <1>2, <1>3

\* A step of a worker keeps the types.
LEMMA WorkerTypes ==
    ASSUME OneOutcome, NEW a \in Threads, WorkerStep(a)
    PROVE  TypeOK'
<1>0. TypeOK /\ QueueTypes /\ WorkTypes
  BY TypeParts DEF OneOutcome
<1>1. UNCHANGED <<queueVars, taskVars, at, phase, late, shared>> => QueueTypes'
  BY <1>0 DEF QueueTypes, queueVars, taskVars
<1>2. UNCHANGED coroVars =>
        /\ UNCHANGED <<current_coro, caller_coro, is_completed, coro_stack, back>>
  BY DEF coroVars
<1>3. ASSUME NEW p \in {"take", "gone"} \union Working, NEW from, WorkerGoto(a, from, p)
      PROVE  wpc' \in [Threads -> {"take", "gone"} \union Working]
  BY <1>0, <1>3 DEF WorkTypes, WorkerGoto
<1>4. {"notify", "begin", "inside", "complete", "fail"} \subseteq Working
  BY DEF Working
<1>5. CASE WorkerSleeps(a)
  <2>1. QueueTypes'
    BY <1>0, <1>5 DEF QueueTypes, WorkerSleeps, TakeSleeps, taskVars, poolVars
  <2>2. WorkTypes'
    BY <1>0, <1>5 DEF WorkTypes, WorkerSleeps, coroVars, poolVars
  <2> QED BY <2>1, <2>2, TypePartsNext
<1>6. CASE WorkerTakes(a)
  <2>1. CASE data # <<>> /\ TakeFront(a) /\ task' = [task EXCEPT ![a] = Head(data)]
    <3>1. Tail(data) \in Seq(Tasks) /\ Head(data) \in Tasks
      BY <1>0, <2>1, TailAt DEF QueueTypes
    <3>2. QueueTypes'
      BY <1>0, <1>6, <2>1, <3>1 DEF QueueTypes, WorkerTakes, TakeFront, taskVars
    <3>3. wpc' \in [Threads -> {"take", "gone"} \union Working]
      BY <1>3, <1>4, <1>6 DEF WorkerTakes
    <3>4. WorkTypes'
      BY <1>0, <1>6, <2>1, <3>1, <3>3 DEF WorkTypes, WorkerTakes, coroVars
    <3> QED BY <3>2, <3>4, TypePartsNext
  <2>2. CASE TakeNothing(a) /\ task' = [task EXCEPT ![a] = NoTask]
    <3>1. QueueTypes'
      BY <1>0, <1>1, <1>6, <2>2 DEF WorkerTakes, TakeNothing
    <3>2. wpc' \in [Threads -> {"take", "gone"} \union Working]
      BY <1>3, <1>4, <1>6 DEF WorkerTakes
    <3>3. WorkTypes'
      BY <1>0, <1>6, <2>2, <3>2 DEF WorkTypes, WorkerTakes, coroVars
    <3> QED BY <3>1, <3>3, TypePartsNext
  <2> QED BY <1>6, <2>1, <2>2 DEF WorkerTakes, TakeFront
<1>7. CASE WorkerNotifies(a)
  <2>1. QueueTypes'
    BY <1>0, <1>7 DEF QueueTypes, WorkerNotifies, TakeNotify, taskVars
  <2>2. wpc' \in [Threads -> {"take", "gone"} \union Working]
    BY <1>3, <1>4, <1>7 DEF WorkerNotifies
  <2>3. WorkTypes'
    BY <1>0, <1>7, <2>2 DEF WorkTypes, WorkerNotifies, coroVars
  <2> QED BY <2>1, <2>3, TypePartsNext
<1>8. CASE WorkerSkips(a)
  <2>1. wpc' \in [Threads -> {"take", "gone"} \union Working]
    BY <1>3, <1>8 DEF WorkerSkips
  <2>2. WorkTypes'
    BY <1>0, <1>8, <2>1 DEF WorkTypes, WorkerSkips, coroVars
  <2>3. QueueTypes'
    BY <1>1, <1>8 DEF WorkerSkips
  <2> QED BY <2>2, <2>3, TypePartsNext
<1>9. CASE WorkerRuns(a)
  <2>1. QueueTypes'
    BY <1>1, <1>9 DEF WorkerRuns
  <2>2. wpc' \in [Threads -> {"take", "gone"} \union Working]
    BY <1>3, <1>4, <1>9 DEF WorkerRuns
  <2>3. task[a] \in Tasks
    BY <1>9, TaskType DEF WorkerRuns, Working
  <2>4. Body[task[a]] \in Coroutines \union {NoCoro}
    BY <2>3, TaskQueueAssumption
  <2>5. UNCHANGED coroVars \/ \E c \in Coroutines : Resume(a, c)
    BY <1>9, <2>4 DEF WorkerRuns
  <2>6. /\ current_coro' \in [Threads -> Coroutines \union {NoCoro}]
        /\ caller_coro' \in [Coroutines -> Coroutines \union {NoCoro}]
        /\ is_completed' \in [Coroutines -> BOOLEAN]
        /\ coro_stack' \in [Threads -> Seq(Coroutines)]
        /\ back' \in [Threads -> Coroutines \union {NoCoro}]
    <3>1. CASE UNCHANGED coroVars
      BY <1>0, <1>2, <3>1 DEF WorkTypes
    <3>2. CASE \E c \in Coroutines : Resume(a, c)
      BY <1>0, <3>2, CoroTypes
    <3> QED BY <2>5, <3>1, <3>2
  <2>7. task' = task /\ drives' = drives /\ runs' = [runs EXCEPT ![task[a]] = @ + 1]
    BY <1>9 DEF WorkerRuns
  <2>8. runs' \in [Tasks -> Nat]
    BY <1>0, <2>3, <2>7 DEF WorkTypes
  <2>9. task' \in [Threads -> Tasks \union {NoTask}] /\ drives' \in [Coroutines -> BOOLEAN]
    BY <1>0, <2>7 DEF WorkTypes
  <2>10. WorkTypes'
    BY <2>2, <2>6, <2>8, <2>9 DEF WorkTypes
  <2> QED BY <2>1, <2>10, TypePartsNext
<1>10. CASE CoroutineRuns(a) \/ CoroutineReturns(a)
  <2>1. QueueTypes'
    BY <1>1, <1>10 DEF CoroutineRuns, CoroutineReturns
  <2>2. wpc' \in [Threads -> {"take", "gone"} \union Working]
    <3>1. CASE CoroutineRuns(a)
      BY <1>0, <3>1 DEF CoroutineRuns, WorkTypes
    <3>2. CASE CoroutineReturns(a)
      BY <1>3, <1>4, <3>2 DEF CoroutineReturns
    <3> QED BY <1>10, <3>1, <3>2
  <2>3. /\ current_coro' \in [Threads -> Coroutines \union {NoCoro}]
        /\ caller_coro' \in [Coroutines -> Coroutines \union {NoCoro}]
        /\ is_completed' \in [Coroutines -> BOOLEAN]
        /\ coro_stack' \in [Threads -> Seq(Coroutines)]
        /\ back' \in [Threads -> Coroutines \union {NoCoro}]
    <3>1. CASE CoroutineRuns(a)
      <4>1. Executing(a) # NoCoro
        BY <3>1 DEF CoroutineRuns
      <4> QED BY <1>0, <3>1, <4>1, CoroTypes, RunsCases
    <3>2. CASE CoroutineReturns(a)
      BY <1>0, <3>2, CoroTypes DEF CoroutineReturns
    <3> QED BY <1>10, <3>1, <3>2
  <2>4. drives' \in [Coroutines -> BOOLEAN]
    <3>1. CASE CoroutineRuns(a)
      BY <1>0, <3>1, RunsCases DEF WorkTypes
    <3>2. CASE CoroutineReturns(a)
      BY <1>0, <3>2 DEF CoroutineReturns, WorkTypes
    <3> QED BY <1>10, <3>1, <3>2
  <2>5. task' \in [Threads -> Tasks \union {NoTask}] /\ runs' \in [Tasks -> Nat]
    BY <1>0, <1>10 DEF WorkTypes, CoroutineRuns, CoroutineReturns
  <2>6. WorkTypes'
    BY <2>2, <2>3, <2>4, <2>5 DEF WorkTypes
  <2> QED BY <2>1, <2>6, TypePartsNext
<1>11. CASE WorkerMarks(a)
  <2>1. task[a] \in Tasks /\ status[task[a]] = "NotStarted"
    BY <1>11, TaskType DEF WorkerMarks, WorkerGoto, Working, OneOutcome, StatusInv
  <2>2. /\ status' \in [Tasks -> {"NotStarted", "Completed", "Cancelled", "Failed"}]
        /\ task_waits' \in [Tasks -> SUBSET Clients] /\ ex_error' \subseteq Tasks
    <3>1. CASE MarkCompleted(task[a])
      BY <1>0, <2>1, <3>1, FinishStep DEF QueueTypes, MarkCompleted
    <3>2. CASE MarFailed(task[a])
      BY <1>0, <2>1, <3>2, FinishStep DEF QueueTypes, MarFailed
    <3> QED BY <1>11, <3>1, <3>2 DEF WorkerMarks
  <2>3. QueueTypes'
    BY <1>0, <1>11, <2>2 DEF QueueTypes, WorkerMarks, queueVars
  <2>4. wpc' \in [Threads -> {"take", "gone"} \union Working]
    BY <1>3, <1>11 DEF WorkerMarks
  <2>5. WorkTypes'
    BY <1>0, <1>11, <2>4 DEF WorkTypes, WorkerMarks, coroVars
  <2> QED BY <2>3, <2>5, TypePartsNext
<1> QED BY <1>5, <1>6, <1>7, <1>8, <1>9, <1>10, <1>11 DEF WorkerStep

-----------------------------------------------------------------------------
(* The tasks.                                                              *)

\* What OneOutcome says of task t, and of all tasks.
Outcome(t) ==
    /\ runs[t] <= (IF IsCanceled(t) THEN 0 ELSE 1)
    /\ IsCompleted(t) \/ IsFailed(t) => runs[t] = 1
    /\ GetError(t) <=> IsFailed(t)

TasksInv == PlaceInv /\ StatusInv /\ ~aborted /\ \A t \in Tasks : Outcome(t)

\* With the types this is OneOutcome.
LEMMA OutcomeParts == OneOutcome <=> TypeOK /\ TasksInv
BY DEF OneOutcome, TasksInv, Outcome

\* The same after a step.
LEMMA OutcomePartsNext == TypeOK' /\ TasksInv' => OneOutcome'
BY DEF OneOutcome, TasksInv, Outcome

\* Steps that do not concern the tasks.
LEMMA TasksStay ==
    ASSUME TasksInv, UNCHANGED <<data, status, ex_error, aborted, at, wpc, task, runs>>
    PROVE  TasksInv'
<1>1. /\ \A t : Queued(t)' <=> Queued(t)
      /\ \A a, t : Serves(a, t)' <=> Serves(a, t)
      /\ \A k, p, t : Past(k, p, t)' <=> Past(k, p, t)
      /\ \A t : Submitted(t)' <=> Submitted(t)
  BY DEF Queued, Serves, Past, Submitted, CallAt
<1>2. PlaceInv'
  BY <1>1 DEF TasksInv, PlaceInv
<1>3. StatusInv'
  BY <1>1 DEF TasksInv, StatusInv, Untouched, IsCanceled, IsFinished
<1>4. ASSUME NEW t \in Tasks PROVE Outcome(t)'
  BY DEF TasksInv, Outcome, IsCanceled, IsCompleted, IsFailed, GetError
<1> QED BY <1>2, <1>3, <1>4 DEF TasksInv

\* A step of a client that submits nothing and changes no status.
LEMMA TasksCall ==
    ASSUME OneOutcome, NEW k \in Clients, Advance(k),
           UNCHANGED <<data, status, ex_error, aborted, wpc, task, runs>>,
           \A t \in Tasks : ~Calls(k, "submit", t),
           \A t \in Tasks : Calls(k, "wait", t) => IsFinished(t)
    PROVE  TasksInv'
<1>0. TypeOK /\ TasksInv
  BY OutcomeParts
<1>1. \A l \in Clients : \A p, t : Past(l, p, t)' <=> Past(l, p, t) \/ (l = k /\ Calls(k, p, t))
  BY <1>0, PastAdvance
<1>2. \A t \in Tasks : Submitted(t)' <=> Submitted(t)
  BY <1>1 DEF Submitted
<1>3. /\ \A t : Queued(t)' <=> Queued(t)
      /\ \A a, t : Serves(a, t)' <=> Serves(a, t)
  BY DEF Queued, Serves
<1>4. PlaceInv'
  BY <1>0, <1>2, <1>3 DEF TasksInv, PlaceInv
<1>5. StatusInv'
  BY <1>0, <1>1, <1>2, <1>3 DEF TasksInv, StatusInv, Untouched, IsCanceled, IsFinished
<1>6. ASSUME NEW t \in Tasks PROVE Outcome(t)'
  BY <1>0 DEF TasksInv, Outcome, IsCanceled, IsCompleted, IsFailed, GetError
<1> QED BY <1>0, <1>4, <1>5, <1>6 DEF TasksInv

\* Nobody has a task that was not submitted.
LEMMA NotInside ==
    ASSUME TasksInv, NEW t \in Tasks, ~Submitted(t)
    PROVE  ~Queued(t) /\ (\A a \in Threads : ~Serves(a, t)) /\ Untouched(t)
BY DEF TasksInv, PlaceInv, StatusInv

\* A task is cancelled by the client that has it, before or instead of its
\* submission.
LEMMA TasksCancel ==
    ASSUME OneOutcome, NEW k \in Clients, NEW t \in Tasks, Advance(k),
           Calls(k, "cancel", t) \/ Calls(k, "submit", t),
           ~Submitted(t), status[t] = "NotStarted", Cancel(t),
           UNCHANGED <<data, wpc, task, runs>>
    PROVE  TasksInv'
<1>0. TypeOK /\ TasksInv
  BY OutcomeParts
<1>1. \A l \in Clients : \A p, u : Past(l, p, u)' <=> Past(l, p, u) \/ (l = k /\ Calls(k, p, u))
  BY <1>0, PastAdvance
<1>2. \A p, u : Calls(k, p, u) => u = t /\ p \in {"cancel", "submit"}
  BY OneCall
<1>3. \A u \in Tasks : u # t => (Submitted(u)' <=> Submitted(u))
  BY <1>1, <1>2 DEF Submitted
<1>4. /\ \A u : Queued(u)' <=> Queued(u)
      /\ \A a, u : Serves(a, u)' <=> Serves(a, u)
  BY DEF Queued, Serves
<1>5. ~Queued(t) /\ (\A a \in Threads : ~Serves(a, t)) /\ Untouched(t)
  BY <1>0, NotInside
<1>6. /\ status' = [status EXCEPT ![t] = "Cancelled"] /\ aborted' = aborted
      /\ ex_error' = ex_error
  BY <1>0, FinishStep DEF Cancel
<1>7. status'[t] = "Cancelled" /\ \A u \in Tasks : u # t => status'[u] = status[u]
  BY <1>0, <1>6 DEF TypeOK
<1>8. PlaceInv'
  BY <1>0, <1>3, <1>4, <1>5 DEF TasksInv, PlaceInv
<1>9. StatusInv'
  <2> SUFFICES ASSUME NEW u \in Tasks
               PROVE  /\ ~Submitted(u)' \/ Queued(u)' => Untouched(u)'
                      /\ \A a \in Threads :
                           Serves(a, u)' => IF wpc'[a] \in {"notify", "begin"}
                                            THEN Untouched(u)'
                                            ELSE runs'[u] = 1 /\ status'[u] = "NotStarted"
                      /\ IsCanceled(u)' => Submitted(u)' \/ \E l \in Clients : Past(l, "cancel", u)'
                      /\ \A l \in Clients : Past(l, "wait", u)' => IsFinished(u)'
    BY DEF StatusInv
  <2>1. CASE u = t
    <3>1. Untouched(u)' /\ IsFinished(u)'
      BY <1>5, <1>7, <2>1 DEF Untouched, IsFinished
    <3>2. Past(k, "cancel", t)' \/ Past(k, "submit", t)'
      BY <1>1
    <3>3. Submitted(t)' \/ \E l \in Clients : Past(l, "cancel", t)'
      BY <3>2 DEF Submitted
    <3> QED BY <1>4, <1>5, <2>1, <3>1, <3>3
  <2>2. CASE u # t
    <3>1. Untouched(u)' <=> Untouched(u)
      BY <1>7, <2>2 DEF Untouched
    <3>2. \A l \in Clients : Past(l, "wait", u)' => Past(l, "wait", u)
      BY <1>1, <1>2, <2>2
    <3>3. \A l \in Clients : Past(l, "cancel", u) => Past(l, "cancel", u)'
      BY <1>1
    <3>4. status'[u] = status[u] /\ runs'[u] = runs[u] /\ wpc' = wpc
      BY <1>7, <2>2
    <3> QED BY <1>0, <1>3, <1>4, <2>2, <3>1, <3>2, <3>3, <3>4
            DEF TasksInv, StatusInv, IsCanceled, IsFinished
  <2> QED BY <2>1, <2>2
<1>10. ASSUME NEW u \in Tasks PROVE Outcome(u)'
  <2>1. CASE u = t
    <3>1. runs'[u] = 0 /\ status'[u] = "Cancelled" /\ ~GetError(u)
      BY <1>0, <1>5, <1>7, <2>1 DEF Untouched, TasksInv, Outcome, IsFailed
    <3> QED BY <1>6, <3>1 DEF Outcome, IsCanceled, IsCompleted, IsFailed, GetError
  <2>2. CASE u # t
    BY <1>0, <1>6, <1>7, <2>2 DEF TasksInv, Outcome, IsCanceled, IsCompleted, IsFailed, GetError
  <2> QED BY <2>1, <2>2
<1> QED BY <1>0, <1>6, <1>8, <1>9, <1>10 DEF TasksInv

\* A task is pushed when its client submits it, and never again.
LEMMA TasksPush ==
    ASSUME OneOutcome, NEW k \in Clients, NEW t \in Tasks, SubmitPush(k, t)
    PROVE  TasksInv'
<1>0. TypeOK /\ TasksInv
  BY OutcomeParts
<1>1. \A l \in Clients : \A p, u : Past(l, p, u)' <=> Past(l, p, u) \/ (l = k /\ Calls(k, p, u))
  BY <1>0, PastAdvance DEF SubmitPush
<1>2. \A p, u : Calls(k, p, u) => u = t /\ p = "submit"
  BY OneCall DEF SubmitPush
<1>3. Submitted(t)' /\ \A u \in Tasks : u # t => (Submitted(u)' <=> Submitted(u))
  BY <1>1, <1>2 DEF Submitted, SubmitPush
<1>4. ~Submitted(t)
  BY <1>0, FirstSubmit DEF SubmitPush
<1>5. ~Queued(t) /\ (\A a \in Threads : ~Serves(a, t)) /\ Untouched(t)
  BY <1>0, <1>4, NotInside
<1>6. /\ data' = Append(data, t) /\ Len(data) \in Nat /\ Len(data') = Len(data) + 1
      /\ \A i \in 1..Len(data) : data'[i] = data[i]
      /\ data'[Len(data) + 1] = t
  <2>1. data' = Append(data, t) /\ data \in Seq(Tasks)
    BY <1>0 DEF TypeOK, SubmitPush, PutPush
  <2> QED BY <2>1, AppendAt
<1>7. \A u : Queued(u)' <=> Queued(u) \/ u = t
  <2>1. \A i : i \in 1..Len(data') <=> i \in 1..Len(data) \/ i = Len(data) + 1
    BY <1>6
  <2> QED BY <1>6, <2>1 DEF Queued
<1>8. \A i, j \in 1..Len(data') : data'[i] = data'[j] => i = j
  <2>1. \A i \in 1..Len(data') : i \in 1..Len(data) \/ i = Len(data) + 1
    BY <1>6
  <2>2. \A i \in 1..Len(data) : data[i] # t
    BY <1>5 DEF Queued
  <2> QED BY <1>0, <1>6, <2>1, <2>2 DEF TasksInv, PlaceInv
<1>9. UNCHANGED <<status, ex_error, aborted, wpc, task, runs>>
  BY DEF SubmitPush, taskVars
<1>10. \A a, u : Serves(a, u)' <=> Serves(a, u)
  BY <1>9 DEF Serves
<1>11. PlaceInv'
  BY <1>0, <1>3, <1>5, <1>7, <1>8, <1>9, <1>10 DEF TasksInv, PlaceInv
<1>12. StatusInv'
  <2>1. \A u \in Tasks : Untouched(u)' <=> Untouched(u)
    BY <1>9 DEF Untouched
  <2>2. \A u \in Tasks, l \in Clients : Past(l, "wait", u)' <=> Past(l, "wait", u)
    BY <1>1, <1>2
  <2>3. \A u \in Tasks, l \in Clients : Past(l, "cancel", u)' <=> Past(l, "cancel", u)
    BY <1>1, <1>2
  <2> QED BY <1>0, <1>3, <1>5, <1>7, <1>9, <1>10, <2>1, <2>2, <2>3
          DEF TasksInv, StatusInv, IsCanceled, IsFinished
<1>13. ASSUME NEW u \in Tasks PROVE Outcome(u)'
  BY <1>0, <1>9 DEF TasksInv, Outcome, IsCanceled, IsCompleted, IsFailed, GetError
<1> QED BY <1>0, <1>9, <1>11, <1>12, <1>13 DEF TasksInv

\* A task that was cancelled before Put refused it.
LEMMA TasksRefused ==
    ASSUME OneOutcome, NEW k \in Clients, NEW t \in Tasks, Advance(k),
           Calls(k, "submit", t), ~Submitted(t), IsFinished(t),
           UNCHANGED <<data, status, ex_error, aborted, wpc, task, runs>>
    PROVE  TasksInv'
<1>0. TypeOK /\ TasksInv
  BY OutcomeParts
<1>1. \A l \in Clients : \A p, u : Past(l, p, u)' <=> Past(l, p, u) \/ (l = k /\ Calls(k, p, u))
  BY <1>0, PastAdvance
<1>2. \A p, u : Calls(k, p, u) => u = t /\ p = "submit"
  BY OneCall
<1>3. \A u \in Tasks : (Submitted(u) => Submitted(u)') /\ (u # t => (Submitted(u)' => Submitted(u)))
  BY <1>1, <1>2 DEF Submitted
<1>4. /\ \A u : Queued(u)' <=> Queued(u)
      /\ \A a, u : Serves(a, u)' <=> Serves(a, u)
      /\ \A u : Untouched(u)' <=> Untouched(u)
  BY DEF Queued, Serves, Untouched
<1>5. \A u \in Tasks, l \in Clients :
          /\ Past(l, "wait", u)' <=> Past(l, "wait", u)
          /\ Past(l, "cancel", u)' <=> Past(l, "cancel", u)
  BY <1>1, <1>2
<1>6. ~Queued(t) /\ (\A a \in Threads : ~Serves(a, t)) /\ Untouched(t)
  BY <1>0, NotInside
<1>7. PlaceInv'
  BY <1>0, <1>3, <1>4 DEF TasksInv, PlaceInv
<1>8. StatusInv'
  BY <1>0, <1>3, <1>4, <1>5, <1>6 DEF TasksInv, StatusInv, IsCanceled, IsFinished
<1>9. ASSUME NEW u \in Tasks PROVE Outcome(u)'
  BY <1>0 DEF TasksInv, Outcome, IsCanceled, IsCompleted, IsFailed, GetError
<1> QED BY <1>0, <1>7, <1>8, <1>9 DEF TasksInv

\* A step of a client.
LEMMA TasksClient ==
    ASSUME OneOutcome, NEW k \in Clients, ClientStep(k) \/ ClientClose(k)
    PROVE  TasksInv'
<1>0. TypeOK /\ TasksInv
  BY OutcomeParts
<1>1. CASE ClientClose(k)
  <2>1. /\ Advance(k) /\ Calls(k, "close", NoTask)
        /\ UNCHANGED <<data, status, ex_error, aborted, wpc, task, runs>>
    BY <1>1 DEF ClientClose, Close, taskVars
  <2>2. \A t \in Tasks : ~Calls(k, "submit", t) /\ ~Calls(k, "wait", t)
    BY <2>1, OneCall
  <2> QED BY <2>1, <2>2, TasksCall
<1>2. ASSUME NEW t \in Tasks, ClientCancel(k, t)
      PROVE  TasksInv'
  <2>1. ~Submitted(t) /\ \A l \in Clients : ~Past(l, "cancel", t)
    BY <1>0, <1>2, FirstCancel DEF ClientCancel
  <2>2. status[t] = "NotStarted"
    BY <1>0, <2>1, NotInside DEF Untouched, TasksInv, StatusInv, IsCanceled
  <2> QED BY <1>2, <2>1, <2>2, TasksCancel DEF ClientCancel, queueVars
<1>3. ASSUME NEW t \in Tasks, SubmitCheck(k, t) \/ ClientWaits(k, t)
      PROVE  TasksInv'
  BY <1>0, <1>3, TasksStay DEF SubmitCheck, ClientWaits, WaitSleeps, queueVars, taskVars
<1>4. ASSUME NEW t \in Tasks, SubmitPush(k, t)
      PROVE  TasksInv'
  BY <1>4, TasksPush
<1>5. ASSUME NEW t \in Tasks, SubmitRefused(k, t)
      PROVE  TasksInv'
  <2>1. Calls(k, "submit", t) /\ Advance(k) /\ UNCHANGED <<data, wpc, task, runs>>
    BY <1>5 DEF SubmitRefused, queueVars
  <2>2. ~Submitted(t)
    BY <1>0, <2>1, FirstSubmit
  <2>3. CASE ~IsFinished(t)
    BY <1>5, <2>1, <2>2, <2>3, TasksCancel DEF SubmitRefused, IsFinished
  <2>4. CASE IsFinished(t)
    BY <1>5, <2>1, <2>2, <2>4, TasksRefused DEF SubmitRefused, taskVars
  <2> QED BY <2>3, <2>4
<1>6. ASSUME NEW t \in Tasks, ClientWaited(k, t)
      PROVE  TasksInv'
  <2>1. /\ Advance(k) /\ Calls(k, "wait", t) /\ IsFinished(t)
        /\ UNCHANGED <<data, status, ex_error, aborted, wpc, task, runs>>
    BY <1>6 DEF ClientWaited, WaitReturns, IsFinished, queueVars, taskVars
  <2>2. \A u \in Tasks : ~Calls(k, "submit", u) /\ (Calls(k, "wait", u) => u = t)
    BY <2>1, OneCall
  <2> QED BY <2>1, <2>2, TasksCall
<1> QED BY <1>1, <1>2, <1>3, <1>4, <1>5, <1>6 DEF ClientStep

\* A worker takes the first task of the queue.
LEMMA TasksTake ==
    ASSUME OneOutcome, NEW a \in Threads, wpc[a] = "take", data # <<>>,
           data' = Tail(data), task' = [task EXCEPT ![a] = Head(data)],
           wpc' = [wpc EXCEPT ![a] = "notify"],
           UNCHANGED <<at, status, ex_error, aborted, runs>>
    PROVE  TasksInv'
<1>0. TypeOK /\ TasksInv
  BY OutcomeParts
<1>1. PICK t : t = data[1]
  OBVIOUS
<1>2. /\ t \in Tasks /\ Head(data) = t /\ Len(data) \in Nat \ {0}
      /\ Len(data') = Len(data) - 1 /\ \A i \in 1..Len(data) - 1 : data'[i] = data[i + 1]
  <2>1. data \in Seq(Tasks)
    BY <1>0 DEF TypeOK
  <2> QED BY <1>1, <2>1, TailAt
<1>3. /\ 1 \in 1..Len(data)
      /\ \A i \in 1..Len(data) - 1 : i + 1 \in 1..Len(data) /\ i + 1 # 1
      /\ \A i \in 1..Len(data) : i # 1 => i - 1 \in 1..Len(data) - 1 /\ (i - 1) + 1 = i
      /\ \A i, j \in 1..Len(data) - 1 : i + 1 = j + 1 => i = j
  BY <1>2
<1>4. \A i, j \in 1..Len(data) : data[i] = data[j] => i = j
  BY <1>0 DEF TasksInv, PlaceInv
<1>5. \A u : Queued(u)' <=> Queued(u) /\ u # t
  <2>1. ASSUME NEW u, NEW i \in 1..Len(data'), data'[i] = u PROVE Queued(u) /\ u # t
    <3>1. i \in 1..Len(data) - 1
      BY <1>2, <2>1
    <3>2. data[i + 1] = u /\ i + 1 \in 1..Len(data) /\ i + 1 # 1
      BY <1>2, <1>3, <2>1, <3>1
    <3> QED BY <1>1, <1>3, <1>4, <3>2 DEF Queued
  <2>2. ASSUME NEW u, NEW i \in 1..Len(data), data[i] = u, u # t PROVE Queued(u)'
    <3>1. i # 1
      BY <1>1, <2>2
    <3>2. i - 1 \in 1..Len(data) - 1 /\ data'[i - 1] = u
      BY <1>2, <1>3, <2>2, <3>1
    <3> QED BY <1>2, <3>2 DEF Queued
  <2> QED BY <2>1, <2>2 DEF Queued
<1>6. \A i, j \in 1..Len(data') : data'[i] = data'[j] => i = j
  BY <1>2, <1>3, <1>4
<1>7. Queued(t)
  BY <1>1, <1>3 DEF Queued
<1>8. \A u : ~Serves(a, u) /\ (Serves(a, u)' <=> u = t)
  BY <1>0, <1>2 DEF Serves, TypeOK, Working
<1>9. \A b \in Threads : b # a => wpc'[b] = wpc[b] /\ \A u : Serves(b, u)' <=> Serves(b, u)
  BY <1>0 DEF Serves, TypeOK
<1>10. wpc'[a] = "notify"
  BY <1>0 DEF TypeOK
<1>11. /\ \A u : Submitted(u)' <=> Submitted(u)
       /\ \A k, p, u : Past(k, p, u)' <=> Past(k, p, u)
       /\ \A u : Untouched(u)' <=> Untouched(u)
  BY DEF Submitted, Past, CallAt, Untouched
<1>12. \A b \in Threads : b # a => (task'[b] = task[b])
  BY <1>0 DEF TypeOK
<1>13. PlaceInv'
  <2>1. \A u \in Tasks, b \in Threads : Serves(b, u)' => Submitted(u)' /\ ~Queued(u)'
    BY <1>0, <1>5, <1>7, <1>8, <1>9, <1>11 DEF TasksInv, PlaceInv
  <2>2. \A u \in Tasks, b, c \in Threads : Serves(b, u)' /\ Serves(c, u)' => b = c
    BY <1>0, <1>7, <1>8, <1>9 DEF TasksInv, PlaceInv
  <2>3. \A u \in Tasks : Queued(u)' => Submitted(u)'
    BY <1>0, <1>5, <1>11 DEF TasksInv, PlaceInv
  <2>4. \A b \in Threads : wpc'[b] \in Working \ {"notify"} => task'[b] # NoTask
    BY <1>0, <1>9, <1>10, <1>12 DEF TasksInv, PlaceInv
  <2> QED BY <1>6, <2>1, <2>2, <2>3, <2>4 DEF PlaceInv
<1>14. StatusInv'
  <2>1. Untouched(t)
    BY <1>0, <1>2, <1>7 DEF TasksInv, StatusInv
  <2> QED BY <1>0, <1>2, <1>5, <1>8, <1>9, <1>10, <1>11, <2>1
          DEF TasksInv, StatusInv, IsCanceled, IsFinished
<1>15. ASSUME NEW u \in Tasks PROVE Outcome(u)'
  BY <1>0 DEF TasksInv, Outcome, IsCanceled, IsCompleted, IsFailed, GetError
<1> QED BY <1>0, <1>13, <1>14, <1>15 DEF TasksInv

\* A worker that goes on with its task, or finds that it has none.
LEMMA TasksGo ==
    ASSUME OneOutcome, NEW a \in Threads,
           UNCHANGED <<data, at, status, ex_error, aborted, runs>>,
           \A b \in Threads : b # a => wpc'[b] = wpc[b] /\ task'[b] = task[b],
           \A t \in Tasks : Serves(a, t)' <=> Serves(a, t),
           wpc[a] \in Working => (wpc'[a] \in {"notify", "begin"} <=> wpc[a] \in {"notify", "begin"})
                                 \/ task[a] = NoTask,
           wpc'[a] \in Working \ {"notify"} => task'[a] # NoTask
    PROVE  TasksInv'
<1>0. TypeOK /\ TasksInv /\ NoTask \notin Tasks
  BY OutcomeParts, TaskQueueAssumption
<1>1. \A b \in Threads, t \in Tasks : Serves(b, t)' <=> Serves(b, t)
  BY DEF Serves
<1>2. /\ \A t : Queued(t)' <=> Queued(t)
      /\ \A t : Submitted(t)' <=> Submitted(t)
      /\ \A k, p, t : Past(k, p, t)' <=> Past(k, p, t)
      /\ \A t : Untouched(t)' <=> Untouched(t)
  BY DEF Queued, Submitted, Past, CallAt, Untouched
<1>3. PlaceInv'
  BY <1>0, <1>1, <1>2 DEF TasksInv, PlaceInv
<1>4. \A b \in Threads, t \in Tasks :
          Serves(b, t) => (wpc'[b] \in {"notify", "begin"} <=> wpc[b] \in {"notify", "begin"})
  BY <1>0 DEF Serves
<1>5. StatusInv'
  BY <1>0, <1>1, <1>2, <1>4 DEF TasksInv, StatusInv, IsCanceled, IsFinished
<1>6. ASSUME NEW t \in Tasks PROVE Outcome(t)'
  BY <1>0 DEF TasksInv, Outcome, IsCanceled, IsCompleted, IsFailed, GetError
<1> QED BY <1>0, <1>3, <1>5, <1>6 DEF TasksInv

\* A worker that drops its task, which was cancelled or has its outcome now.
LEMMA TasksDrop ==
    ASSUME OneOutcome, TypeOK', NEW a \in Threads, NEW t \in Tasks, Serves(a, t),
           wpc' = [wpc EXCEPT ![a] = "take"],
           UNCHANGED <<data, at, task, runs, aborted>>,
           \A u \in Tasks : u # t => status'[u] = status[u] /\ (u \in ex_error' <=> u \in ex_error),
           IsFinished(t)', IsCanceled(t)' => IsCanceled(t), Outcome(t)'
    PROVE  TasksInv'
<1>0. TypeOK /\ TasksInv
  BY OutcomeParts
<1>1. \A u : ~Serves(a, u)'
  BY <1>0 DEF Serves, TypeOK, Working
<1>2. \A b \in Threads : b # a => wpc'[b] = wpc[b] /\ \A u : Serves(b, u)' <=> Serves(b, u)
  BY <1>0 DEF Serves, TypeOK
<1>3. /\ \A u : Queued(u)' <=> Queued(u)
      /\ \A u : Submitted(u)' <=> Submitted(u)
      /\ \A k, p, u : Past(k, p, u)' <=> Past(k, p, u)
  BY DEF Queued, Submitted, Past, CallAt
<1>4. wpc'[a] = "take"
  BY <1>0 DEF TypeOK
<1>5. PlaceInv'
  <2>1. \A u \in Tasks, b \in Threads : Serves(b, u)' => Submitted(u)' /\ ~Queued(u)'
    BY <1>0, <1>1, <1>2, <1>3 DEF TasksInv, PlaceInv
  <2>2. \A u \in Tasks, b, c \in Threads : Serves(b, u)' /\ Serves(c, u)' => b = c
    BY <1>0, <1>1, <1>2 DEF TasksInv, PlaceInv
  <2>3. \A b \in Threads : wpc'[b] \in Working \ {"notify"} => task'[b] # NoTask
    BY <1>0, <1>2, <1>4 DEF TasksInv, PlaceInv, Working
  <2> QED BY <1>0, <1>3, <2>1, <2>2, <2>3 DEF TasksInv, PlaceInv
<1>6. StatusInv'
  <2> SUFFICES ASSUME NEW u \in Tasks
               PROVE  /\ ~Submitted(u)' \/ Queued(u)' => Untouched(u)'
                      /\ \A b \in Threads :
                           Serves(b, u)' => IF wpc'[b] \in {"notify", "begin"}
                                            THEN Untouched(u)'
                                            ELSE runs'[u] = 1 /\ status'[u] = "NotStarted"
                      /\ IsCanceled(u)' => Submitted(u)' \/ \E l \in Clients : Past(l, "cancel", u)'
                      /\ \A l \in Clients : Past(l, "wait", u)' => IsFinished(u)'
    BY DEF StatusInv
  <2>1. CASE u = t
    <3>1. Submitted(t) /\ ~Queued(t) /\ \A b \in Threads : b # a => ~Serves(b, t)
      BY <1>0 DEF TasksInv, PlaceInv
    <3> QED BY <1>1, <1>2, <1>3, <2>1, <3>1
  <2>2. CASE u # t
    <3>1. status'[u] = status[u] /\ runs'[u] = runs[u] /\ (Untouched(u)' <=> Untouched(u))
      BY <2>2 DEF Untouched
    <3> QED BY <1>0, <1>1, <1>2, <1>3, <3>1 DEF TasksInv, StatusInv, IsCanceled, IsFinished
  <2> QED BY <2>1, <2>2
<1>7. ASSUME NEW u \in Tasks, u # t PROVE Outcome(u)'
  BY <1>0, <1>7 DEF TasksInv, Outcome, IsCanceled, IsCompleted, IsFailed, GetError
<1> QED BY <1>0, <1>5, <1>6, <1>7 DEF TasksInv

\* A worker runs the body of its task.
LEMMA TasksRun ==
    ASSUME OneOutcome, NEW a \in Threads, WorkerRuns(a)
    PROVE  TasksInv'
<1>0. TypeOK /\ TasksInv
  BY OutcomeParts
<1>1. wpc[a] = "begin" /\ ~IsCanceled(task[a])
  BY DEF WorkerRuns
<1>2. PICK t \in Tasks : t = task[a] /\ Serves(a, t)
  BY <1>1, TaskType DEF Working
<1>3. runs[t] = 0 /\ status[t] = "NotStarted"
  BY <1>0, <1>1, <1>2 DEF TasksInv, StatusInv, Untouched, IsCanceled
<1>4. /\ UNCHANGED <<data, at, task, status, ex_error, aborted>>
      /\ runs' = [runs EXCEPT ![t] = @ + 1]
      /\ \E p \in {"inside", "complete", "fail"} : wpc' = [wpc EXCEPT ![a] = p]
  BY <1>2 DEF WorkerRuns, WorkerGoto, queueVars, taskVars
<1>5. runs'[t] = 1 /\ \A u \in Tasks : u # t => runs'[u] = runs[u]
  BY <1>0, <1>3, <1>4 DEF TypeOK
<1>6. wpc'[a] \in {"inside", "complete", "fail"} /\ \A b \in Threads : b # a => wpc'[b] = wpc[b]
  BY <1>0, <1>4 DEF TypeOK
<1>7. \A b \in Threads, u \in Tasks : Serves(b, u)' <=> Serves(b, u)
  BY <1>1, <1>4, <1>6 DEF Serves, Working
<1>8. /\ \A u : Queued(u)' <=> Queued(u)
      /\ \A u : Submitted(u)' <=> Submitted(u)
      /\ \A k, p, u : Past(k, p, u)' <=> Past(k, p, u)
      /\ \A u \in Tasks : u # t => (Untouched(u)' <=> Untouched(u))
  BY <1>4, <1>5 DEF Queued, Submitted, Past, CallAt, Untouched
<1>9. task'[a] # NoTask
  BY <1>2, <1>4, TaskQueueAssumption
<1>10. PlaceInv'
  BY <1>0, <1>4, <1>6, <1>7, <1>8, <1>9 DEF TasksInv, PlaceInv
<1>11. StatusInv'
  <2> SUFFICES ASSUME NEW u \in Tasks
               PROVE  /\ ~Submitted(u)' \/ Queued(u)' => Untouched(u)'
                      /\ \A b \in Threads :
                           Serves(b, u)' => IF wpc'[b] \in {"notify", "begin"}
                                            THEN Untouched(u)'
                                            ELSE runs'[u] = 1 /\ status'[u] = "NotStarted"
                      /\ IsCanceled(u)' => Submitted(u)' \/ \E l \in Clients : Past(l, "cancel", u)'
                      /\ \A l \in Clients : Past(l, "wait", u)' => IsFinished(u)'
    BY DEF StatusInv
  <2>1. CASE u = t
    <3>1. Submitted(t) /\ ~Queued(t) /\ \A b \in Threads : Serves(b, t) => b = a
      BY <1>0, <1>2 DEF TasksInv, PlaceInv
    <3>2. \A b \in Threads : Serves(b, u)' => b = a
      BY <1>7, <2>1, <3>1
    <3>3. status'[u] = "NotStarted" /\ runs'[u] = 1
      BY <1>3, <1>4, <1>5, <2>1
    <3>4. \A l \in Clients : ~Past(l, "wait", u)'
      BY <1>0, <1>3, <1>8, <2>1 DEF TasksInv, StatusInv, IsFinished
    <3> QED BY <1>6, <1>8, <2>1, <3>1, <3>2, <3>3, <3>4 DEF IsCanceled
  <2>2. CASE u # t
    <3>1. status'[u] = status[u] /\ runs'[u] = runs[u] /\ ~Serves(a, u)'
      BY <1>2, <1>4, <1>5, <1>7, <2>2 DEF Serves
    <3> QED BY <1>0, <1>6, <1>7, <1>8, <2>2, <3>1 DEF TasksInv, StatusInv, IsCanceled, IsFinished
  <2> QED BY <2>1, <2>2
<1>12. ASSUME NEW u \in Tasks PROVE Outcome(u)'
  <2>1. CASE u = t
    <3>1. status'[u] = "NotStarted" /\ runs'[u] = 1 /\ ~GetError(u)
      BY <1>0, <1>3, <1>4, <1>5, <2>1 DEF TasksInv, Outcome, IsFailed
    <3> QED BY <1>4, <3>1 DEF Outcome, IsCanceled, IsCompleted, IsFailed, GetError
  <2>2. CASE u # t
    BY <1>0, <1>4, <1>5, <2>2 DEF TasksInv, Outcome, IsCanceled, IsCompleted, IsFailed, GetError
  <2> QED BY <2>1, <2>2
<1> QED BY <1>0, <1>4, <1>10, <1>11, <1>12 DEF TasksInv

\* A worker marks its task.
LEMMA TasksMark ==
    ASSUME OneOutcome, TypeOK', NEW a \in Threads, WorkerMarks(a)
    PROVE  TasksInv'
<1>0. TypeOK /\ TasksInv
  BY OutcomeParts
<1>1. /\ wpc[a] \in {"complete", "fail"} /\ wpc' = [wpc EXCEPT ![a] = "take"]
      /\ UNCHANGED <<data, at, task, runs>>
  BY DEF WorkerMarks, WorkerGoto, queueVars
<1>2. PICK t \in Tasks : t = task[a] /\ Serves(a, t)
  BY <1>1, TaskType DEF Working
<1>3. runs[t] = 1 /\ status[t] = "NotStarted" /\ t \notin ex_error
  BY <1>0, <1>1, <1>2 DEF TasksInv, StatusInv, Outcome, IsFailed, GetError
<1>4. CASE MarkCompleted(t)
  <2>1. status' = [status EXCEPT ![t] = "Completed"] /\ aborted' = aborted /\ ex_error' = ex_error
    BY <1>0, <1>3, <1>4, FinishStep DEF MarkCompleted
  <2>2. status'[t] = "Completed" /\ \A u \in Tasks : u # t => status'[u] = status[u]
    BY <1>0, <2>1 DEF TypeOK
  <2>3. Outcome(t)' /\ IsFinished(t)' /\ ~IsCanceled(t)'
    BY <1>1, <1>3, <2>1, <2>2 DEF Outcome, IsCanceled, IsCompleted, IsFailed, GetError, IsFinished
  <2> QED BY <1>1, <1>2, <2>1, <2>2, <2>3, TasksDrop
<1>5. CASE MarFailed(t)
  <2>1. /\ status' = [status EXCEPT ![t] = "Failed"] /\ aborted' = aborted
        /\ ex_error' = ex_error \union {t}
    BY <1>0, <1>3, <1>5, FinishStep DEF MarFailed
  <2>2. status'[t] = "Failed" /\ \A u \in Tasks : u # t => status'[u] = status[u]
    BY <1>0, <2>1 DEF TypeOK
  <2>3. Outcome(t)' /\ IsFinished(t)' /\ ~IsCanceled(t)'
    BY <1>1, <1>3, <2>1, <2>2 DEF Outcome, IsCanceled, IsCompleted, IsFailed, GetError, IsFinished
  <2>4. \A u \in Tasks : u # t => (u \in ex_error' <=> u \in ex_error)
    BY <2>1
  <2> QED BY <1>1, <1>2, <2>1, <2>2, <2>3, <2>4, TasksDrop
<1> QED BY <1>2, <1>4, <1>5 DEF WorkerMarks

\* A step of a worker.
LEMMA TasksWorker ==
    ASSUME OneOutcome, TypeOK', NEW a \in Threads, WorkerStep(a)
    PROVE  TasksInv'
<1>0. TypeOK /\ TasksInv /\ NoTask \notin Tasks
  BY OutcomeParts, TaskQueueAssumption
<1>1. CASE WorkerSleeps(a)
  BY <1>0, <1>1, TasksStay DEF WorkerSleeps, TakeSleeps, taskVars, poolVars
<1>2. CASE WorkerTakes(a)
  <2>1. /\ wpc[a] = "take" /\ wpc' = [wpc EXCEPT ![a] = "notify"]
        /\ UNCHANGED <<at, status, ex_error, aborted, runs>>
    BY <1>2 DEF WorkerTakes, WorkerGoto, taskVars
  <2>2. CASE TakeFront(a) /\ task' = [task EXCEPT ![a] = Head(data)]
    BY <2>1, <2>2, TasksTake DEF TakeFront
  <2>3. CASE TakeNothing(a) /\ task' = [task EXCEPT ![a] = NoTask]
    <3>1. data' = data /\ task'[a] = NoTask /\ wpc'[a] = "notify"
      BY <1>0, <2>1, <2>3 DEF TakeNothing, queueVars, TypeOK
    <3>2. \A b \in Threads : b # a => wpc'[b] = wpc[b] /\ task'[b] = task[b]
      BY <1>0, <2>1, <2>3 DEF TypeOK
    <3>3. \A t \in Tasks : Serves(a, t)' <=> Serves(a, t)
      BY <1>0, <2>1, <3>1 DEF Serves, Working
    <3>4. wpc[a] \notin Working
      BY <2>1 DEF Working
    <3> QED BY <2>1, <3>1, <3>2, <3>3, <3>4, TasksGo
  <2> QED BY <1>2, <2>2, <2>3 DEF WorkerTakes
<1>3. CASE WorkerNotifies(a)
  <2>1. /\ wpc[a] = "notify" /\ wpc'[a] = IF task[a] = NoTask THEN "gone" ELSE "begin"
        /\ \A b \in Threads : b # a => wpc'[b] = wpc[b] /\ task'[b] = task[b]
        /\ task' = task
    BY <1>0, <1>3 DEF WorkerNotifies, WorkerGoto, TypeOK
  <2>2. UNCHANGED <<data, at, status, ex_error, aborted, runs>>
    BY <1>3 DEF WorkerNotifies, TakeNotify, taskVars
  <2>3. \A t \in Tasks : Serves(a, t)' <=> Serves(a, t)
    BY <1>0, <2>1 DEF Serves, Working
  <2>4. /\ (wpc'[a] \in {"notify", "begin"} <=> wpc[a] \in {"notify", "begin"}) \/ task[a] = NoTask
        /\ wpc'[a] \in Working \ {"notify"} => task'[a] # NoTask
    BY <2>1 DEF Working
  <2> QED BY <2>1, <2>2, <2>3, <2>4, TasksGo
<1>4. CASE WorkerSkips(a)
  <2>1. /\ wpc[a] = "begin" /\ wpc' = [wpc EXCEPT ![a] = "take"] /\ IsCanceled(task[a])
        /\ UNCHANGED <<data, at, task, runs, aborted, status, ex_error>>
    BY <1>4 DEF WorkerSkips, WorkerGoto, queueVars, taskVars
  <2>2. PICK t \in Tasks : t = task[a] /\ Serves(a, t)
    BY <2>1, TaskType DEF Working
  <2>3. IsFinished(t)' /\ IsCanceled(t)
    BY <2>1, <2>2 DEF IsFinished, IsCanceled
  <2>4. Outcome(t)'
    BY <1>0, <2>1 DEF TasksInv, Outcome, IsCanceled, IsCompleted, IsFailed, GetError
  <2> QED BY <2>1, <2>2, <2>3, <2>4, TasksDrop
<1>5. CASE WorkerRuns(a)
  BY <1>5, TasksRun
<1>6. CASE CoroutineRuns(a)
  BY <1>0, <1>6, TasksStay DEF CoroutineRuns, queueVars, taskVars
<1>7. CASE CoroutineReturns(a)
  <2>1. /\ wpc[a] = "inside" /\ wpc'[a] \in {"inside", "complete"}
        /\ \A b \in Threads : b # a => wpc'[b] = wpc[b] /\ task'[b] = task[b]
        /\ task' = task
    BY <1>0, <1>7 DEF CoroutineReturns, WorkerGoto, TypeOK
  <2>2. UNCHANGED <<data, at, status, ex_error, aborted, runs>>
    BY <1>7 DEF CoroutineReturns, queueVars, taskVars
  <2>3. \A t \in Tasks : Serves(a, t)' <=> Serves(a, t)
    BY <2>1 DEF Serves, Working
  <2>4. task[a] # NoTask
    BY <1>0, <2>1 DEF TasksInv, PlaceInv, Working
  <2> QED BY <2>1, <2>2, <2>3, <2>4, TasksGo
<1>8. CASE WorkerMarks(a)
  BY <1>8, TasksMark
<1> QED BY <1>1, <1>2, <1>3, <1>4, <1>5, <1>6, <1>7, <1>8 DEF WorkerStep

-----------------------------------------------------------------------------
(* The coroutines.                                                         *)

\* The last coroutine of a list, or none.
LastOf(s) == IF s = <<>> THEN NoCoro ELSE s[Len(s)]

\* FramesInv, for the lists fr of the threads.
Nested(fr, pc, tk, current, caller) ==
    \A a \in Threads :
        /\ fr[a] # <<>> <=> pc[a] = "inside"
        /\ current[a] = LastOf(fr[a])
        /\ \A i \in 1..Len(fr[a]) :
             /\ fr[a][i] = IF i = 1 THEN Body[tk[a]] ELSE Inner[fr[a][i - 1]]
             /\ caller[fr[a][i]] = IF i = 1 THEN NoCoro ELSE fr[a][i - 1]
             /\ \A b \in Threads : \A j \in 1..Len(fr[b]) :
                  fr[a][i] = fr[b][j] => a = b /\ i = j

\* The calls of Resume of all threads.
AllFrames == [a \in Threads |-> Frames(a)]

\* FramesInv says that the calls of Resume are nested.
LEMMA FramesNested == FramesInv <=> Nested(AllFrames, wpc, task, current_coro, caller_coro)
BY DEF FramesInv, Nested, AllFrames, LastOf

\* The same after a step.
LEMMA FramesNestedNext ==
    Nested(AllFrames', wpc', task', current_coro', caller_coro') => FramesInv'
<1>1. AllFrames' = [a \in Threads |-> Frames(a)']
  BY DEF AllFrames
<1> QED BY <1>1 DEF FramesInv, Nested, LastOf

\* The calls of Resume of a thread are a list of coroutines.
LEMMA FramesType ==
    ASSUME TypeOK
    PROVE  AllFrames \in [Threads -> Seq(Coroutines)]
<1>1. ASSUME NEW a \in Threads PROVE Frames(a) \in Seq(Coroutines)
  <2>1. coro_stack[a] \in Seq(Coroutines) /\ back[a] \in Coroutines \union {NoCoro}
    BY DEF TypeOK
  <2> QED BY <2>1, AppendAt DEF Frames
<1> QED BY <1>1 DEF AllFrames

\* No coroutine is resumed twice at a time.
LEMMA NestedDistinct ==
    ASSUME NEW fr, NEW pc, NEW tk, NEW current, NEW caller, Nested(fr, pc, tk, current, caller),
           NEW a \in Threads, NEW b \in Threads, NEW i \in 1..Len(fr[a]), NEW j \in 1..Len(fr[b]),
           fr[a][i] = fr[b][j]
    PROVE  a = b /\ i = j
BY DEF Nested

\* Resume of a coroutine that nobody has resumed nests it in the last one.
LEMMA NestedResume ==
    ASSUME NEW fr \in [Threads -> Seq(Coroutines)], NEW pc, NEW pc2, NEW tk, NEW current, NEW caller,
           NEW a \in Threads, NEW c \in Coroutines,
           current \in [Threads -> Coroutines \union {NoCoro}],
           caller \in [Coroutines -> Coroutines \union {NoCoro}],
           Nested(fr, pc, tk, current, caller),
           pc2[a] = "inside", \A b \in Threads : b # a => pc2[b] = pc[b],
           c = IF fr[a] = <<>> THEN Body[tk[a]] ELSE Inner[LastOf(fr[a])],
           \A b \in Threads : \A j \in 1..Len(fr[b]) : fr[b][j] # c
    PROVE  Nested([fr EXCEPT ![a] = Append(@, c)], pc2, tk,
                  [current EXCEPT ![a] = c], [caller EXCEPT ![c] = current[a]])
<1> DEFINE f2 == [fr EXCEPT ![a] = Append(@, c)]
           cur2 == [current EXCEPT ![a] = c]
           cal2 == [caller EXCEPT ![c] = current[a]]
           n == Len(fr[a])
<1>1. /\ fr[a] \in Seq(Coroutines) /\ n \in Nat /\ Len(f2[a]) = n + 1
      /\ \A i \in 1..n : f2[a][i] = fr[a][i]
      /\ f2[a][n + 1] = c /\ f2[a] # <<>>
      /\ n = 0 <=> fr[a] = <<>>
  <2>1. fr[a] \in Seq(Coroutines) /\ f2[a] = Append(fr[a], c)
    OBVIOUS
  <2> HIDE DEF f2
  <2> QED BY <2>1, AppendAt, EmptySeq, LenProperties
<1>2. \A b \in Threads : b # a => f2[b] = fr[b]
  OBVIOUS
<1>3. cur2[a] = c /\ \A b \in Threads : b # a => cur2[b] = current[b]
  OBVIOUS
<1>4. cal2[c] = current[a] /\ \A d \in Coroutines : d # c => cal2[d] = caller[d]
  OBVIOUS
<1>5. \A b \in Threads : \A i \in 1..Len(fr[b]) : fr[b][i] \in Coroutines
  BY ElementOfSeq
<1>6. \A i \in 1..n + 1 : i \in 1..n \/ i = n + 1
  BY <1>1
<1>7. current[a] = LastOf(fr[a])
  BY DEF Nested
<1> HIDE DEF f2, cur2, cal2
<1> SUFFICES ASSUME NEW b \in Threads
             PROVE  /\ f2[b] # <<>> <=> pc2[b] = "inside"
                    /\ cur2[b] = LastOf(f2[b])
                    /\ \A i \in 1..Len(f2[b]) :
                         /\ f2[b][i] = IF i = 1 THEN Body[tk[b]] ELSE Inner[f2[b][i - 1]]
                         /\ cal2[f2[b][i]] = IF i = 1 THEN NoCoro ELSE f2[b][i - 1]
                         /\ \A d \in Threads : \A j \in 1..Len(f2[d]) :
                              f2[b][i] = f2[d][j] => b = d /\ i = j
  BY DEF Nested, f2, cur2, cal2
<1>8. (f2[b] # <<>> <=> pc2[b] = "inside") /\ cur2[b] = LastOf(f2[b])
  <2>1. CASE b = a
    BY <1>1, <1>3, <2>1 DEF LastOf
  <2>2. CASE b # a
    BY <1>2, <1>3, <2>2 DEF Nested
  <2> QED BY <2>1, <2>2
<1>9. ASSUME NEW i \in 1..Len(f2[b])
      PROVE  /\ f2[b][i] = IF i = 1 THEN Body[tk[b]] ELSE Inner[f2[b][i - 1]]
             /\ cal2[f2[b][i]] = IF i = 1 THEN NoCoro ELSE f2[b][i - 1]
  <2>1. CASE b # a
    <3>1. i \in 1..Len(fr[b]) /\ fr[b][i] \in Coroutines /\ fr[b][i] # c
      BY <1>2, <1>5, <2>1
    <3> QED BY <1>2, <1>4, <2>1, <3>1 DEF Nested
  <2>2. CASE b = a /\ i \in 1..n
    <3>1. fr[a][i] \in Coroutines /\ fr[a][i] # c /\ f2[a][i] = fr[a][i]
      BY <1>1, <1>5, <2>2
    <3>2. i # 1 => f2[a][i - 1] = fr[a][i - 1]
      BY <1>1, <2>2
    <3> QED BY <1>4, <2>2, <3>1, <3>2 DEF Nested
  <2>3. CASE b = a /\ i = n + 1
    <3>1. CASE n = 0
      BY <1>1, <1>4, <1>7, <2>3, <3>1 DEF LastOf
    <3>2. CASE n # 0
      <4>1. i # 1 /\ i - 1 = n /\ n \in 1..n
        BY <1>1, <2>3, <3>2
      <4>2. f2[a][i - 1] = fr[a][n] /\ LastOf(fr[a]) = fr[a][n]
        BY <1>1, <3>2, <4>1 DEF LastOf
      <4> QED BY <1>1, <1>4, <1>7, <2>3, <3>2, <4>1, <4>2
    <3> QED BY <3>1, <3>2
  <2> QED BY <1>1, <1>6, <2>1, <2>2, <2>3
<1>10. ASSUME NEW i \in 1..Len(f2[b]), NEW d \in Threads, NEW j \in 1..Len(f2[d]), f2[b][i] = f2[d][j]
       PROVE  b = d /\ i = j
  <2>1. ASSUME NEW e \in Threads, NEW m \in 1..Len(f2[e])
        PROVE  \/ e = a /\ m = n + 1
               \/ m \in 1..Len(fr[e]) /\ f2[e][m] = fr[e][m] /\ f2[e][m] # c
    BY <1>1, <1>2, <1>6
  <2>2. CASE b = a /\ i = n + 1
    BY <1>1, <1>10, <2>1, <2>2
  <2>3. CASE d = a /\ j = n + 1
    BY <1>1, <1>10, <2>1, <2>3
  <2>4. CASE ~(b = a /\ i = n + 1) /\ ~(d = a /\ j = n + 1)
    <3>1. /\ i \in 1..Len(fr[b]) /\ f2[b][i] = fr[b][i]
          /\ j \in 1..Len(fr[d]) /\ f2[d][j] = fr[d][j]
      BY <2>1, <2>4
    <3>2. fr[b][i] = fr[d][j]
      BY <1>10, <3>1
    <3> QED BY <3>1, <3>2, NestedDistinct
  <2> QED BY <2>2, <2>3, <2>4
<1> QED BY <1>8, <1>9, <1>10

\* The return of Resume leaves the coroutines below the last one.
LEMMA NestedReturn ==
    ASSUME NEW fr \in [Threads -> Seq(Coroutines)], NEW pc, NEW pc2, NEW tk, NEW current, NEW caller,
           NEW a \in Threads, NEW c \in Coroutines, NEW s \in Seq(Coroutines),
           current \in [Threads -> Coroutines \union {NoCoro}],
           Nested(fr, pc, tk, current, caller),
           fr[a] = Append(s, c),
           s # <<>> <=> pc2[a] = "inside", \A b \in Threads : b # a => pc2[b] = pc[b]
    PROVE  Nested([fr EXCEPT ![a] = s], pc2, tk, [current EXCEPT ![a] = caller[c]], caller)
<1> DEFINE n == Len(s)
           f2 == [fr EXCEPT ![a] = s]
           cur2 == [current EXCEPT ![a] = caller[c]]
<1>0. /\ f2 \in [Threads -> Seq(Coroutines)]
      /\ f2[a] = s /\ \A b \in Threads : b # a => f2[b] = fr[b]
      /\ cur2[a] = caller[c] /\ \A b \in Threads : b # a => cur2[b] = current[b]
  OBVIOUS
<1> HIDE DEF f2, cur2
<1>1. /\ n \in Nat /\ Len(fr[a]) = n + 1
      /\ \A i \in 1..n : fr[a][i] = f2[a][i]
      /\ fr[a][n + 1] = c
      /\ n = 0 <=> f2[a] = <<>>
  BY <1>0, AppendAt, EmptySeq, LenProperties
<1>2. \A b \in Threads : \A i \in 1..Len(f2[b]) : i \in 1..Len(fr[b]) /\ f2[b][i] = fr[b][i]
  <2>1. \A i \in 1..n : i \in 1..Len(fr[a])
    BY <1>1
  <2>2. \A i \in 1..Len(f2[a]) : i \in 1..Len(fr[a]) /\ f2[a][i] = fr[a][i]
    BY <1>0, <1>1, <2>1
  <2>3. \A b \in Threads : b # a => Len(f2[b]) = Len(fr[b]) /\ f2[b] = fr[b]
    BY <1>0
  <2> QED BY <2>2, <2>3
<1>3. \A b \in Threads : \A i \in 1..Len(f2[b]) : i # 1 => f2[b][i - 1] = fr[b][i - 1]
  <2>1. ASSUME NEW b \in Threads, NEW i \in 1..Len(f2[b]), i # 1
        PROVE  i - 1 \in 1..Len(f2[b])
    <3>1. Len(f2[b]) \in Nat
      BY <1>0, LenProperties
    <3> QED BY <2>1, <3>1
  <2> QED BY <1>2, <2>1
<1>4. cur2[a] = LastOf(f2[a])
  <2>0. n + 1 \in 1..Len(fr[a])
    BY <1>1
  <2>1. caller[c] = IF n + 1 = 1 THEN NoCoro ELSE fr[a][n + 1 - 1]
    BY <1>1, <2>0 DEF Nested
  <2>2. CASE n = 0
    BY <1>0, <1>1, <2>1, <2>2 DEF LastOf
  <2>3. CASE n # 0
    <3>1. n + 1 # 1 /\ n + 1 - 1 = n /\ n \in 1..n
      BY <1>1, <2>3
    <3>2. caller[c] = f2[a][n]
      BY <1>0, <1>1, <2>1, <3>1
    <3> QED BY <1>0, <1>1, <2>3, <3>2 DEF LastOf
  <2> QED BY <2>2, <2>3
<1>5. ASSUME NEW b \in Threads
      PROVE  (f2[b] # <<>> <=> pc2[b] = "inside") /\ cur2[b] = LastOf(f2[b])
  <2>1. CASE b = a
    BY <1>0, <1>4, <2>1
  <2>2. CASE b # a
    <3>1. (fr[b] # <<>> <=> pc[b] = "inside") /\ current[b] = LastOf(fr[b])
      BY DEF Nested
    <3> QED BY <1>0, <2>2, <3>1
  <2> QED BY <2>1, <2>2
<1>6. ASSUME NEW b \in Threads, NEW i \in 1..Len(f2[b])
      PROVE  /\ f2[b][i] = IF i = 1 THEN Body[tk[b]] ELSE Inner[f2[b][i - 1]]
             /\ caller[f2[b][i]] = IF i = 1 THEN NoCoro ELSE f2[b][i - 1]
             /\ \A d \in Threads : \A j \in 1..Len(f2[d]) :
                  f2[b][i] = f2[d][j] => b = d /\ i = j
  <2>1. i \in 1..Len(fr[b]) /\ f2[b][i] = fr[b][i] /\ (i # 1 => f2[b][i - 1] = fr[b][i - 1])
    BY <1>2, <1>3
  <2>2. /\ fr[b][i] = IF i = 1 THEN Body[tk[b]] ELSE Inner[fr[b][i - 1]]
        /\ caller[fr[b][i]] = IF i = 1 THEN NoCoro ELSE fr[b][i - 1]
        /\ \A d \in Threads : \A j \in 1..Len(fr[d]) : fr[b][i] = fr[d][j] => b = d /\ i = j
    BY <2>1 DEF Nested
  <2>3. \A d \in Threads : \A j \in 1..Len(f2[d]) : f2[b][i] = f2[d][j] => b = d /\ i = j
    <3>1. SUFFICES ASSUME NEW d \in Threads, NEW j \in 1..Len(f2[d]), f2[b][i] = f2[d][j]
                   PROVE  b = d /\ i = j
      OBVIOUS
    <3>2. j \in 1..Len(fr[d]) /\ fr[b][i] = fr[d][j]
      BY <1>2, <2>1, <3>1
    <3> QED BY <2>2, <3>2
  <2>4. /\ f2[b][i] = IF i = 1 THEN Body[tk[b]] ELSE Inner[f2[b][i - 1]]
        /\ caller[f2[b][i]] = IF i = 1 THEN NoCoro ELSE f2[b][i - 1]
    BY <2>1, <2>2
  <2> QED BY <2>3, <2>4
<1> QED BY <1>5, <1>6 DEF Nested, f2, cur2

\* The inductive invariant.
IInv == OneOutcome /\ ~lost /\ FramesInv

\* Between switches the last frame is what executes.
LEMMA ExecutingIsLast ==
    ASSUME TypeOK, FramesInv, NEW a \in Threads, back[a] = NoCoro
    PROVE  Frames(a) = coro_stack[a] /\ Executing(a) = LastOf(Frames(a)) /\ current_coro[a] = Executing(a)
BY DEF Frames, Executing, LastOf, FramesInv

\* Steps that do not concern the coroutines.
LEMMA FramesStay ==
    ASSUME TypeOK, ~lost, FramesInv, UNCHANGED coroVars,
           \A a \in Threads : /\ wpc'[a] = "inside" <=> wpc[a] = "inside"
                              /\ wpc[a] = "inside" => task'[a] = task[a]
    PROVE  ~lost' /\ FramesInv'
<1>1. lost' = lost /\ current_coro' = current_coro /\ caller_coro' = caller_coro
  BY DEF coroVars
<1>2. \A a : Frames(a)' = Frames(a)
  BY DEF coroVars, Frames
<1>3. \A a \in Threads : \A i \in 1..Len(Frames(a)) : wpc[a] = "inside"
  <2>1. SUFFICES ASSUME NEW a \in Threads, NEW i \in 1..Len(Frames(a)), wpc[a] # "inside" PROVE FALSE
    OBVIOUS
  <2>2. Frames(a) = <<>>
    BY <2>1 DEF FramesInv
  <2> QED BY <2>1, <2>2
<1>4. FramesInv'
  BY <1>1, <1>2, <1>3 DEF FramesInv
<1> QED BY <1>1, <1>4

\* The coroutine of a task that begins has not been resumed elsewhere.
LEMMA FreshBody ==
    ASSUME IInv, NEW a \in Threads, wpc[a] = "begin", ~IsCanceled(task[a]), Body[task[a]] # NoCoro,
           NEW b \in Threads, NEW j \in 1..Len(Frames(b))
    PROVE  Frames(b)[j] # Body[task[a]]
<1>0. TypeOK /\ TasksInv /\ OneOutcome
  BY OutcomeParts DEF IInv
<1>1. SUFFICES ASSUME Frames(b)[j] = Body[task[a]] PROVE FALSE
  OBVIOUS
<1>2. PICK t \in Tasks : t = task[a] /\ Serves(a, t)
  BY <1>0, TaskType DEF Working
<1>3. wpc[b] = "inside"
  <2>1. Frames(b) # <<>>
    OBVIOUS
  <2> QED BY <2>1 DEF IInv, FramesInv
<1>4. PICK u \in Tasks : u = task[b] /\ Serves(b, u)
  BY <1>0, <1>3, TaskType DEF Working
<1>5. Frames(b) \in Seq(Coroutines)
  BY <1>0, FramesType DEF AllFrames
<1>6. Frames(b)[j] = IF j = 1 THEN Body[u] ELSE Inner[Frames(b)[j - 1]]
  BY <1>4 DEF IInv, FramesInv
<1>7. CASE j # 1
  <2>1. j - 1 \in 1..Len(Frames(b))
    BY <1>5, <1>7, LenProperties
  <2>2. Frames(b)[j - 1] \in Coroutines
    BY <1>5, <2>1, ElementOfSeq
  <2> QED BY <1>1, <1>2, <1>6, <1>7, <2>2, CoroutineAssumption
<1>8. CASE j = 1
  <2>1. t # u
    BY <1>0, <1>2, <1>3, <1>4 DEF TasksInv, PlaceInv
  <2>2. Submitted(t) /\ Submitted(u)
    BY <1>0, <1>2, <1>4 DEF TasksInv, PlaceInv
  <2>3. status[u] = "NotStarted"
    BY <1>0, <1>3, <1>4 DEF TasksInv, StatusInv
  <2>4. status[t] = "NotStarted"
    BY <1>0, <1>2 DEF TasksInv, StatusInv, Untouched, IsCanceled
  <2>5. IsFinished(t) \/ IsFinished(u)
    BY <1>0, <1>1, <1>2, <1>6, <1>8, <2>1, <2>2, OneByOne
  <2> QED BY <2>3, <2>4, <2>5 DEF IsFinished
<1> QED BY <1>7, <1>8

\* Nor has the inner coroutine of one that executes.
LEMMA FreshInner ==
    ASSUME IInv, NEW a \in Threads, Frames(a) # <<>>, Inner[LastOf(Frames(a))] # NoCoro,
           NEW b \in Threads, NEW j \in 1..Len(Frames(b))
    PROVE  Frames(b)[j] # Inner[LastOf(Frames(a))]
<1>0. TypeOK /\ TasksInv /\ OneOutcome
  BY OutcomeParts DEF IInv
<1>1. SUFFICES ASSUME Frames(b)[j] = Inner[LastOf(Frames(a))] PROVE FALSE
  OBVIOUS
<1>2. Frames(a) \in Seq(Coroutines) /\ Frames(b) \in Seq(Coroutines)
  BY <1>0, FramesType DEF AllFrames
<1>3. PICK n : n = Len(Frames(a))
  OBVIOUS
<1>4. n \in Nat \ {0} /\ Len(Frames(b)) \in Nat
  BY <1>2, <1>3, EmptySeq, LenProperties
<1>5. PICK c : c = LastOf(Frames(a))
  OBVIOUS
<1>6. c = Frames(a)[n] /\ n \in 1..Len(Frames(a)) /\ c \in Coroutines
  <2>1. c = Frames(a)[n] /\ n \in 1..Len(Frames(a))
    BY <1>3, <1>4, <1>5 DEF LastOf
  <2> QED BY <1>2, <2>1, ElementOfSeq
<1>7. wpc[b] = "inside"
  <2>1. Frames(b) # <<>>
    OBVIOUS
  <2> QED BY <2>1 DEF IInv, FramesInv
<1>8. task[b] \in Tasks
  BY <1>0, <1>7, TaskType DEF Working
<1>9. Frames(b)[j] = IF j = 1 THEN Body[task[b]] ELSE Inner[Frames(b)[j - 1]]
  BY DEF IInv, FramesInv
<1>10. CASE j = 1
  BY <1>1, <1>5, <1>6, <1>8, <1>9, <1>10, CoroutineAssumption
<1>11. CASE j # 1
  <2>1. j - 1 \in 1..Len(Frames(b))
    BY <1>4, <1>11
  <2>2. PICK d : d = Frames(b)[j - 1]
    OBVIOUS
  <2>3. d \in Coroutines
    BY <1>2, <2>1, <2>2, ElementOfSeq
  <2>4. Inner[d] = Inner[c] /\ Inner[c] # NoCoro
    BY <1>1, <1>5, <1>9, <1>11, <2>2
  <2>5. d = c
    BY <1>6, <2>3, <2>4, CoroutineAssumption
  <2>6. Frames(b)[j - 1] = Frames(a)[n]
    BY <1>6, <2>2, <2>5
  <2>7. b = a /\ j - 1 = n
    BY <1>6, <2>1, <2>6 DEF IInv, FramesInv
  <2> QED BY <1>3, <1>4, <2>7
<1> QED BY <1>10, <1>11

\* Resume, of the coroutine of a task or of an inner one.
LEMMA FramesResume ==
    ASSUME IInv, NEW a \in Threads, NEW c \in Coroutines, Resume(a, c),
           c = IF Frames(a) = <<>> THEN Body[task[a]] ELSE Inner[LastOf(Frames(a))],
           \A b \in Threads : \A j \in 1..Len(Frames(b)) : Frames(b)[j] # c,
           wpc'[a] = "inside", \A b \in Threads : b # a => wpc'[b] = wpc[b],
           task' = task
    PROVE  ~lost' /\ FramesInv'
<1>0. TypeOK /\ FramesInv /\ ~lost
  BY OutcomeParts DEF IInv
<1>1. PICK fr : fr = AllFrames
  OBVIOUS
<1>2. fr \in [Threads -> Seq(Coroutines)] /\ \A b \in Threads : fr[b] = Frames(b)
  <2>1. \A b \in Threads : AllFrames[b] = Frames(b)
    BY DEF AllFrames
  <2> QED BY <1>0, <1>1, <2>1, FramesType
<1>3. Nested(fr, wpc, task, current_coro, caller_coro)
  BY <1>0, <1>1, FramesNested
<1>4. /\ current_coro \in [Threads -> Coroutines \union {NoCoro}]
      /\ caller_coro \in [Coroutines -> Coroutines \union {NoCoro}]
      /\ coro_stack \in [Threads -> Seq(Coroutines)]
  BY <1>0 DEF TypeOK
<1>5. /\ back[a] = NoCoro /\ back' = back /\ lost' = lost
      /\ caller_coro' = [caller_coro EXCEPT ![c] = current_coro[a]]
      /\ current_coro' = [current_coro EXCEPT ![a] = c]
      /\ coro_stack' = [coro_stack EXCEPT ![a] = Append(@, c)]
  BY DEF Resume
<1>6. AllFrames' = [fr EXCEPT ![a] = Append(@, c)]
  <2>1. /\ coro_stack'[a] = Append(coro_stack[a], c)
        /\ \A b \in Threads : b # a => coro_stack'[b] = coro_stack[b]
    BY <1>4, <1>5
  <2>2. \A b \in Threads : Frames(b)' = IF b = a THEN Append(fr[a], c) ELSE fr[b]
    BY <1>2, <1>5, <2>1 DEF Frames
  <2>3. AllFrames' = [b \in Threads |-> Frames(b)']
    BY DEF AllFrames
  <2>4. AllFrames' = [b \in Threads |-> IF b = a THEN Append(fr[a], c) ELSE fr[b]]
    BY <2>2, <2>3
  <2> QED BY <1>2, <2>4
<1>7. Nested([fr EXCEPT ![a] = Append(@, c)], wpc', task,
             [current_coro EXCEPT ![a] = c], [caller_coro EXCEPT ![c] = current_coro[a]])
  <2>1. c = IF fr[a] = <<>> THEN Body[task[a]] ELSE Inner[LastOf(fr[a])]
    BY <1>2
  <2>2. \A b \in Threads : \A j \in 1..Len(fr[b]) : fr[b][j] # c
    BY <1>2
  <2> QED BY <1>2, <1>3, <1>4, <2>1, <2>2, NestedResume
<1>8. Nested(AllFrames', wpc', task', current_coro', caller_coro')
  BY <1>5, <1>6, <1>7
<1> QED BY <1>0, <1>5, <1>8, FramesNestedNext

\* A switch from the innermost coroutine back leaves the calls of Resume as they
\* are.
LEMMA FramesSwitch ==
    ASSUME IInv, NEW a \in Threads, Executing(a) # NoCoro, Suspend(a) \/ RoutineEnds(a),
           wpc' = wpc, task' = task
    PROVE  ~lost' /\ FramesInv'
<1>0. TypeOK /\ FramesInv /\ ~lost
  BY OutcomeParts DEF IInv
<1>1. back[a] = NoCoro /\ SwitchBack(a)
  BY DEF Suspend, RoutineEnds
<1>2. current_coro[a] = Executing(a)
  BY <1>0, <1>1, ExecutingIsLast
<1>3. ~lost'
  <2>1. CASE Suspend(a)
    BY <1>0, <1>2, <2>1, Zenon DEF Suspend
  <2>2. CASE RoutineEnds(a)
    BY <1>0, <2>2, Zenon DEF RoutineEnds
  <2> QED BY <2>1, <2>2
<1>4. coro_stack[a] # <<>> /\ Executing(a) = coro_stack[a][Len(coro_stack[a])]
  BY DEF Executing
<1>5. coro_stack \in [Threads -> Seq(Coroutines)] /\ back \in [Threads -> Coroutines \union {NoCoro}]
  BY <1>0 DEF TypeOK
<1>6. /\ back'[a] = Executing(a)
      /\ coro_stack'[a] = SubSeq(coro_stack[a], 1, Len(coro_stack[a]) - 1)
      /\ \A b \in Threads : b # a => back'[b] = back[b] /\ coro_stack'[b] = coro_stack[b]
      /\ UNCHANGED <<current_coro, caller_coro>>
  BY <1>1, <1>5 DEF SwitchBack
<1>7. Append(coro_stack'[a], back'[a]) = coro_stack[a]
  BY <1>4, <1>5, <1>6, FrontAt
<1>8. \A b \in Threads : Frames(b)' = Frames(b)
  BY <1>1, <1>6, <1>7 DEF Frames
<1>9. FramesInv'
  BY <1>0, <1>6, <1>8 DEF FramesInv
<1> QED BY <1>0, <1>3, <1>9

\* Resume returns and restores current_coro.
LEMMA FramesReturn ==
    ASSUME IInv, NEW a \in Threads, CoroutineReturns(a)
    PROVE  ~lost' /\ FramesInv'
<1>0. TypeOK /\ FramesInv /\ ~lost
  BY OutcomeParts DEF IInv
<1>1. PICK fr : fr = AllFrames
  OBVIOUS
<1>2. fr \in [Threads -> Seq(Coroutines)] /\ \A b \in Threads : fr[b] = Frames(b)
  <2>1. \A b \in Threads : AllFrames[b] = Frames(b)
    BY DEF AllFrames
  <2> QED BY <1>0, <1>1, <2>1, FramesType
<1>3. Nested(fr, wpc, task, current_coro, caller_coro)
  BY <1>0, <1>1, FramesNested
<1>4. /\ current_coro \in [Threads -> Coroutines \union {NoCoro}]
      /\ coro_stack \in [Threads -> Seq(Coroutines)]
      /\ back \in [Threads -> Coroutines \union {NoCoro}]
      /\ wpc \in [Threads -> {"take", "gone"} \union Working]
  BY <1>0 DEF TypeOK
<1>5. PICK c : c = back[a]
  OBVIOUS
<1>6. /\ c \in Coroutines /\ task' = task /\ caller_coro' = caller_coro
      /\ coro_stack' = coro_stack /\ lost' = lost
      /\ current_coro' = [current_coro EXCEPT ![a] = caller_coro[c]]
      /\ back' = [back EXCEPT ![a] = NoCoro]
      /\ wpc' = [wpc EXCEPT ![a] = IF Executing(a) = NoCoro THEN "complete" ELSE "inside"]
  BY <1>4, <1>5 DEF CoroutineReturns, ResumeReturns, WorkerGoto
<1>7. PICK s : s = coro_stack[a]
  OBVIOUS
<1>8. s \in Seq(Coroutines)
  BY <1>4, <1>7
<1>9. AllFrames' = [fr EXCEPT ![a] = s]
  <2>1. back'[a] = NoCoro /\ \A b \in Threads : b # a => back'[b] = back[b]
    BY <1>4, <1>6
  <2>2. \A b \in Threads : Frames(b)' = IF b = a THEN s ELSE fr[b]
    BY <1>2, <1>6, <1>7, <2>1 DEF Frames
  <2>3. AllFrames' = [b \in Threads |-> Frames(b)']
    BY DEF AllFrames
  <2>4. AllFrames' = [b \in Threads |-> IF b = a THEN s ELSE fr[b]]
    BY <2>2, <2>3
  <2> QED BY <1>2, <2>4
<1>10. fr[a] = Append(s, c)
  <2>1. c # NoCoro
    BY <1>6, TaskQueueAssumption
  <2> QED BY <1>2, <1>5, <1>7, <2>1 DEF Frames
<1>11. s # <<>> <=> wpc'[a] = "inside"
  <2>1. wpc'[a] = IF Executing(a) = NoCoro THEN "complete" ELSE "inside"
    BY <1>4, <1>6
  <2>2. Executing(a) = NoCoro <=> coro_stack[a] = <<>>
    <3>1. CASE coro_stack[a] = <<>>
      BY <3>1 DEF Executing
    <3>2. CASE coro_stack[a] # <<>>
      <4>1. coro_stack[a][Len(coro_stack[a])] \in Coroutines
        BY <1>4, <3>2, FrontAt
      <4> QED BY <3>2, <4>1, TaskQueueAssumption DEF Executing
    <3> QED BY <3>1, <3>2
  <2> QED BY <1>7, <2>1, <2>2
<1>12. c \in Coroutines /\ \A b \in Threads : b # a => wpc'[b] = wpc[b]
  BY <1>4, <1>6
<1>13. Nested([fr EXCEPT ![a] = s], wpc', task, [current_coro EXCEPT ![a] = caller_coro[c]], caller_coro)
  BY <1>2, <1>3, <1>4, <1>8, <1>10, <1>11, <1>12, NestedReturn
<1>14. Nested(AllFrames', wpc', task', current_coro', caller_coro')
  BY <1>6, <1>9, <1>13
<1> QED BY <1>0, <1>6, <1>14, FramesNestedNext

\* A step of a client leaves the coroutines alone.
LEMMA FramesClient ==
    ASSUME IInv, NEW k \in Clients, ClientStep(k) \/ ClientClose(k)
    PROVE  ~lost' /\ FramesInv'
<1>0. TypeOK /\ FramesInv /\ ~lost
  BY OutcomeParts DEF IInv
<1>1. UNCHANGED <<coroVars, wpc, task>>
  BY DEF ClientStep, ClientClose, ClientCancel, SubmitCheck, SubmitPush, SubmitRefused,
         ClientWaits, ClientWaited
<1>2. \A a \in Threads : /\ wpc'[a] = "inside" <=> wpc[a] = "inside"
                         /\ wpc[a] = "inside" => task'[a] = task[a]
  BY <1>1
<1>3. UNCHANGED coroVars
  BY <1>1
<1> QED BY <1>0, <1>2, <1>3, FramesStay

\* A step of a worker.
LEMMA FramesWorker ==
    ASSUME IInv, NEW a \in Threads, WorkerStep(a)
    PROVE  ~lost' /\ FramesInv'
<1>0. TypeOK /\ FramesInv /\ ~lost /\ OneOutcome
  BY OutcomeParts DEF IInv
<1>1. ASSUME UNCHANGED coroVars, NEW p, p # "inside", wpc[a] # "inside",
             wpc' = wpc \/ wpc' = [wpc EXCEPT ![a] = p],
             \A b \in Threads : b # a => task'[b] = task[b]
      PROVE  ~lost' /\ FramesInv'
  <2>1. \A b \in Threads : /\ wpc'[b] = "inside" <=> wpc[b] = "inside"
                           /\ wpc[b] = "inside" => task'[b] = task[b]
    BY <1>0, <1>1 DEF TypeOK
  <2> QED BY <1>0, <1>1, <2>1, FramesStay
<1>2. CASE WorkerSleeps(a)
  <2>1. UNCHANGED <<coroVars, wpc, task>> /\ wpc[a] = "take"
    BY <1>2 DEF WorkerSleeps, poolVars
  <2>2. \A b \in Threads : b # a => task'[b] = task[b]
    BY <2>1
  <2>3. UNCHANGED coroVars /\ wpc' = wpc
    BY <2>1
  <2> QED BY <1>1, <2>1, <2>2, <2>3
<1>3. CASE WorkerTakes(a)
  <2>1. /\ UNCHANGED coroVars /\ wpc[a] = "take" /\ wpc' = [wpc EXCEPT ![a] = "notify"]
        /\ \A b \in Threads : b # a => task'[b] = task[b]
    BY <1>0, <1>3 DEF WorkerTakes, WorkerGoto, TypeOK
  <2> QED BY <1>1, <2>1
<1>4. CASE WorkerNotifies(a)
  <2>1. PICK p : p = IF task[a] = NoTask THEN "gone" ELSE "begin"
    OBVIOUS
  <2>2. /\ UNCHANGED coroVars /\ wpc[a] = "notify" /\ wpc' = [wpc EXCEPT ![a] = p]
        /\ p # "inside"
        /\ \A b \in Threads : b # a => task'[b] = task[b]
    BY <1>4, <2>1 DEF WorkerNotifies, WorkerGoto
  <2> QED BY <1>1, <2>2
<1>5. CASE WorkerSkips(a)
  <2>1. /\ UNCHANGED coroVars /\ wpc[a] = "begin" /\ wpc' = [wpc EXCEPT ![a] = "take"]
        /\ \A b \in Threads : b # a => task'[b] = task[b]
    BY <1>5 DEF WorkerSkips, WorkerGoto
  <2> QED BY <1>1, <2>1
<1>6. CASE WorkerMarks(a)
  <2>1. /\ UNCHANGED coroVars /\ wpc[a] \in {"complete", "fail"}
        /\ wpc' = [wpc EXCEPT ![a] = "take"]
        /\ \A b \in Threads : b # a => task'[b] = task[b]
    BY <1>6 DEF WorkerMarks, WorkerGoto
  <2> QED BY <1>1, <2>1
<1>7. CASE WorkerRuns(a)
  <2>1. wpc[a] = "begin" /\ ~IsCanceled(task[a]) /\ task' = task
    BY <1>7 DEF WorkerRuns
  <2>2. CASE \E p \in {"fail", "complete"} : UNCHANGED coroVars /\ wpc' = [wpc EXCEPT ![a] = p]
    <3>1. PICK p \in {"fail", "complete"} : UNCHANGED coroVars /\ wpc' = [wpc EXCEPT ![a] = p]
      BY <2>2
    <3>2. \A b \in Threads : b # a => task'[b] = task[b]
      BY <2>1
    <3> QED BY <1>1, <2>1, <3>1, <3>2
  <2>3. CASE Body[task[a]] # NoCoro /\ Resume(a, Body[task[a]]) /\ wpc' = [wpc EXCEPT ![a] = "inside"]
    <3>1. task[a] \in Tasks
      BY <1>0, <2>1, TaskType DEF Working
    <3>2. PICK c : c = Body[task[a]]
      OBVIOUS
    <3>3. c \in Coroutines
      BY <2>3, <3>1, <3>2, TaskQueueAssumption
    <3>4. Frames(a) = <<>>
      BY <1>0, <2>1 DEF FramesInv
    <3>5. \A b \in Threads : \A j \in 1..Len(Frames(b)) : Frames(b)[j] # c
      BY <2>1, <2>3, <3>2, FreshBody
    <3>6. wpc'[a] = "inside" /\ \A b \in Threads : b # a => wpc'[b] = wpc[b]
      BY <1>0, <2>3 DEF TypeOK
    <3>7. Resume(a, c) /\ c = IF Frames(a) = <<>> THEN Body[task[a]] ELSE Inner[LastOf(Frames(a))]
      BY <2>3, <3>2, <3>4
    <3> QED BY <2>1, <3>3, <3>5, <3>6, <3>7, FramesResume
  <2> QED BY <1>7, <2>2, <2>3 DEF WorkerRuns, WorkerGoto
<1>8. CASE CoroutineRuns(a)
  <2>1. wpc[a] = "inside" /\ wpc' = wpc /\ task' = task /\ Executing(a) # NoCoro
    BY <1>8 DEF CoroutineRuns
  <2>2. CASE Suspend(a) \/ RoutineEnds(a)
    BY <2>1, <2>2, FramesSwitch
  <2>3. CASE Inner[Executing(a)] \in Coroutines /\ Resume(a, Inner[Executing(a)])
    <3>1. PICK c : c = Inner[Executing(a)]
      OBVIOUS
    <3>2. back[a] = NoCoro
      BY <2>3 DEF Resume
    <3>3. c \in Coroutines /\ Resume(a, c) /\ c # NoCoro
      BY <2>3, <3>1, TaskQueueAssumption
    <3>4. Frames(a) # <<>>
      BY <1>0, <2>1 DEF FramesInv
    <3>5. c = Inner[LastOf(Frames(a))]
      BY <1>0, <3>1, <3>2, ExecutingIsLast
    <3>6. \A b \in Threads : \A j \in 1..Len(Frames(b)) : Frames(b)[j] # c
      BY <3>3, <3>4, <3>5, FreshInner
    <3>7. wpc'[a] = "inside" /\ \A b \in Threads : b # a => wpc'[b] = wpc[b]
      BY <2>1
    <3>8. c = IF Frames(a) = <<>> THEN Body[task[a]] ELSE Inner[LastOf(Frames(a))]
      BY <3>4, <3>5
    <3> QED BY <2>1, <3>3, <3>6, <3>7, <3>8, FramesResume
  <2> QED BY <1>0, <1>8, <2>2, <2>3, RunsCases
<1>9. CASE CoroutineReturns(a)
  BY <1>9, FramesReturn
<1> QED BY <1>2, <1>3, <1>4, <1>5, <1>6, <1>7, <1>8, <1>9 DEF WorkerStep

-----------------------------------------------------------------------------

\* The initial state satisfies the invariant.
LEMMA IInvInit == Init => IInv
<1> SUFFICES ASSUME Init PROVE IInv
  OBVIOUS
<1>1. QueueTypes /\ WorkTypes
  <2>1. QueueTypes
    <3>1. data \in Seq(Tasks) /\ close \in BOOLEAN /\ takers \subseteq Threads
      BY EmptySeq DEF Init, QueueInit
    <3>2. /\ status \in [Tasks -> {"NotStarted", "Completed", "Cancelled", "Failed"}]
          /\ ex_error \subseteq Tasks /\ task_waits \in [Tasks -> SUBSET Clients]
      BY DEF Init, TaskInit
    <3>3. /\ at \in [Clients -> Nat \ {0}]
          /\ phase \in [Clients -> {"start", "push", "refused"}]
          /\ late \subseteq Tasks /\ shared \subseteq Tasks
      BY DEF Init
    <3> QED BY <3>1, <3>2, <3>3 DEF QueueTypes
  <2>2. WorkTypes
    BY DEF Init, CoroInit, WorkTypes
  <2> QED BY <2>1, <2>2
<1>2. /\ \A t : ~Queued(t)
      /\ \A a \in Threads : \A t : ~Serves(a, t)
      /\ \A k \in Clients : \A p, t : ~Past(k, p, t)
  BY DEF Init, QueueInit, Queued, Serves, Past, Working
<1>3. PlaceInv
  BY <1>2 DEF Init, QueueInit, PlaceInv, Working
<1>4. StatusInv
  BY <1>2 DEF Init, TaskInit, StatusInv, Untouched, IsCanceled
<1>5. ~aborted /\ \A t \in Tasks : Outcome(t)
  BY DEF Init, TaskInit, Outcome, IsCanceled, IsCompleted, IsFailed, GetError
<1>6. OneOutcome
  BY <1>1, <1>3, <1>4, <1>5, TypeParts, OutcomeParts DEF TasksInv
<1>7. \A a \in Threads : Frames(a) = <<>>
  BY DEF Init, CoroInit, Frames
<1>8. ~lost /\ FramesInv
  BY <1>7 DEF Init, CoroInit, FramesInv
<1> QED BY <1>6, <1>8 DEF IInv

\* Every step keeps it.
LEMMA IInvStep == IInv /\ [Next]_vars => IInv'
<1> SUFFICES ASSUME IInv, [Next]_vars PROVE IInv'
  OBVIOUS
<1>0. TypeOK /\ TasksInv /\ OneOutcome /\ FramesInv /\ ~lost
  BY OutcomeParts DEF IInv
<1>1. ASSUME NEW k \in Clients, ClientStep(k) \/ ClientClose(k)
      PROVE  IInv'
  <2>1. TypeOK' /\ TasksInv'
    BY <1>0, <1>1, ClientTypes, TasksClient
  <2>2. ~lost' /\ FramesInv'
    BY <1>1, FramesClient
  <2> QED BY <2>1, <2>2, OutcomePartsNext DEF IInv
<1>2. ASSUME NEW a \in Threads, WorkerStep(a)
      PROVE  IInv'
  <2>1. TypeOK'
    BY <1>0, <1>2, WorkerTypes
  <2>2. TasksInv'
    BY <1>0, <1>2, <2>1, TasksWorker
  <2>3. ~lost' /\ FramesInv'
    BY <1>2, FramesWorker
  <2> QED BY <2>1, <2>2, <2>3, OutcomePartsNext DEF IInv
<1>3. CASE UNCHANGED vars
  <2>1. /\ UNCHANGED <<queueVars, taskVars, poolVars>> /\ UNCHANGED coroVars
        /\ UNCHANGED <<at, phase, wpc, task, drives, runs, late, shared>>
    BY <1>3 DEF vars, poolVars
  <2>2. QueueTypes'
    BY <1>0, <2>1, TypeParts DEF QueueTypes, queueVars, taskVars
  <2>3. WorkTypes'
    BY <1>0, <2>1, TypeParts DEF WorkTypes, coroVars
  <2>4. TasksInv'
    BY <1>0, <2>1, TasksStay DEF queueVars, taskVars
  <2>5. ~lost' /\ FramesInv'
    BY <1>0, <2>1, FramesStay
  <2> QED BY <2>2, <2>3, <2>4, <2>5, TypePartsNext, OutcomePartsNext DEF IInv
<1> QED BY <1>1, <1>2, <1>3 DEF Next

\* What the runs check follows from it.
LEMMA IInvSuffices == IInv => OneOutcome /\ CurrentIsExecuting
<1> SUFFICES ASSUME IInv PROVE OneOutcome /\ CurrentIsExecuting
  OBVIOUS
<1>1. \A a \in Threads : back[a] = NoCoro => current_coro[a] = Executing(a)
  BY ExecutingIsLast, OutcomeParts DEF IInv
<1> QED BY <1>1 DEF IInv, CurrentIsExecuting

\* The asserts of Cancel, MarkCompleted and MarFailed hold and the body of a task
\* is run at most once, for any number of clients, workers and tasks.
THEOREM OneOutcomeInvariance == Spec => []OneOutcome
BY IInvInit, IInvStep, IInvSuffices, PTL DEF Spec

\* Suspend suspends its caller: current_coro names the coroutine that executes
\* on the thread, through any nesting of Resumes and on any thread.
THEOREM CurrentIsExecutingInvariance == Spec => []CurrentIsExecuting
BY IInvInit, IInvStep, IInvSuffices, PTL DEF Spec
=============================================================================
