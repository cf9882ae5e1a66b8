------------------------ MODULE IntrusiveStrandProofs ------------------------
(***************************************************************************)
(* For any set of tasks and any set of workers of the underlying executor, *)
(* the strand keeps StrandInv, and with it: its assertions hold, batches   *)
(* never overlap, tasks run in the order of their Submit and no planned    *)
(* batch is lost.  The strand is a SerialExecutor.                         *)
(***************************************************************************)
EXTENDS IntrusiveStrand, SequenceTheorems, TLAPS

\* Appending to the last of two concatenated sequences.
LEMMA AppendToSecond ==
    ASSUME NEW S, NEW a \in Seq(S), NEW c \in Seq(S), NEW e \in S
    PROVE  a \o Append(c, e) = Append(a \o c, e)
<1>1. Append(c, e) = c \o <<e>> /\ <<e>> \in Seq(S)
  BY AppendIsConcat
<1>2. a \o c \in Seq(S)
  BY ConcatProperties
<1>3. a \o (c \o <<e>>) = (a \o c) \o <<e>>
  BY <1>1, ConcatAssociative
<1>4. Append(a \o c, e) = (a \o c) \o <<e>>
  BY <1>2, AppendIsConcat
<1> QED BY <1>1, <1>3, <1>4

\* Moving the head of a sequence to the end of the one before it.
LEMMA MoveHead ==
    ASSUME NEW S, NEW a \in Seq(S), NEW b \in Seq(S), b # <<>>
    PROVE  /\ Append(a, Head(b)) \o Tail(b) = a \o b
           /\ Head(b) \in S
           /\ Tail(b) \in Seq(S)
<1>1. Head(b) \in S /\ Tail(b) \in Seq(S) /\ <<Head(b)>> \in Seq(S)
  BY HeadTailProperties
<1>2. Append(a, Head(b)) = a \o <<Head(b)>>
  BY <1>1, AppendIsConcat
<1>3. (a \o <<Head(b)>>) \o Tail(b) = a \o (<<Head(b)>> \o Tail(b))
  BY <1>1, ConcatAssociative
<1>4. <<Head(b)>> \o Tail(b) = b
  BY HeadTailProperties, LenProperties, EmptySeq
<1> QED BY <1>1, <1>2, <1>3, <1>4

\* The initial state satisfies the invariant.
LEMMA StrandInvInit == Init => StrandInv
<1> SUFFICES ASSUME Init PROVE StrandInv
  OBVIOUS
<1> USE DEF Init
<1>1. TypeOK
  BY DEF TypeOK, SubPC, RunPC
<1>2. LockInv
  BY StrandAssumption DEF LockInv
<1>3. TokenInv
  BY DEF TokenInv, SubmitterPlans, WorkerPlans, InBatch
<1>4. ListInv
  BY DEF ListInv
<1>5. InOrder
  BY DEF InOrder, InBatch
<1> QED BY <1>1, <1>2, <1>3, <1>4, <1>5 DEF StrandInv

\* SubmitPush keeps the invariant.
LEMMA StrandInvSubmitPush ==
    ASSUME StrandInv, NEW t \in Tasks, SubmitPush(t)
    PROVE  StrandInv'
<1> USE DEF StrandInv
<1>1. TypeOK'
  BY DEF TypeOK, SubmitPush, SubGoto, SubPC
<1>2. LockInv'
  BY StrandAssumption DEF LockInv, TypeOK, SubmitPush, SubGoto
<1>3. TokenInv'
  BY DEF TokenInv, TypeOK, SubmitterPlans, WorkerPlans, InBatch, SubmitPush, SubGoto
<1>4. tasks' # <<>>
  BY AppendProperties DEF TypeOK, SubmitPush
<1>5. ListInv'
  BY <1>4 DEF ListInv, SubmitPush
<1>6. InOrder'
  <2>1. ASSUME NEW w \in Workers, InBatch(w)
        PROVE  (executed \o scheduled[w]) \o Append(tasks, t) = Append(pushed, t)
    <3> DEFINE started == executed \o scheduled[w]
    <3>1. started \in Seq(Tasks) /\ tasks \in Seq(Tasks)
      BY ConcatProperties DEF TypeOK
    <3>2. started \o tasks = pushed
      BY <2>1 DEF InOrder
    <3> HIDE DEF started
    <3>3. started \o Append(tasks, t) = Append(started \o tasks, t)
      BY <3>1, AppendToSecond
    <3> QED BY <3>2, <3>3 DEF started
  <2>2. ASSUME \A w \in Workers : ~InBatch(w)
        PROVE  executed \o Append(tasks, t) = Append(pushed, t)
    BY <2>2, AppendToSecond DEF InOrder, TypeOK
  <2> QED BY <2>1, <2>2 DEF InOrder, InBatch, SubmitPush
<1> QED BY <1>1, <1>2, <1>3, <1>5, <1>6

\* SubmitPlan and SubmitInternal keep the invariant.
LEMMA StrandInvSubmitStep ==
    ASSUME StrandInv, NEW t \in Tasks, SubmitStep(t)
    PROVE  StrandInv'
<1> USE DEF StrandInv, SubmitStep
<1>1. CASE SubmitPlan(t)
  <2>1. TypeOK'
    BY <1>1 DEF TypeOK, SubmitPlan, SubGoto, SubPC
  <2>2. LockInv'
    BY <1>1, StrandAssumption DEF LockInv, TypeOK, SubmitPlan, SubGoto
  <2>3. TokenInv'
    BY <1>1 DEF TokenInv, TypeOK, SubmitterPlans, WorkerPlans, InBatch, SubmitPlan, SubGoto
  <2>4. ListInv'
    BY <1>1 DEF ListInv, TypeOK, SubmitPlan, SubGoto
  <2>5. InOrder'
    BY <1>1 DEF InOrder, InBatch, SubmitPlan
  <2> QED BY <2>1, <2>2, <2>3, <2>4, <2>5
<1>2. CASE SubmitInternal(t)
  <2>0. sub[t] = "internal" /\ batches = 0 /\ state = "PLAN" /\ spinlock = t
    BY <1>2 DEF SubmitInternal, TokenInv, SubmitterPlans, LockInv, TypeOK
  <2>1. TypeOK'
    BY <1>2, <2>0 DEF TypeOK, SubmitInternal, SubGoto, SubPC
  <2>2. LockInv'
    BY <1>2, <2>0, StrandAssumption DEF LockInv, TypeOK, SubmitInternal, SubGoto
  <2>3. ~SubmitterPlans'
    BY <1>2, <2>0 DEF LockInv, TypeOK, SubmitInternal, SubGoto, SubmitterPlans
  <2>4. TokenInv'
    BY <1>2, <2>0, <2>3 DEF TokenInv, TypeOK, SubmitterPlans, WorkerPlans, InBatch, SubmitInternal
  <2>5. ListInv'
    BY <1>2, <2>0 DEF ListInv, TypeOK, SubmitInternal, SubGoto
  <2>6. InOrder'
    BY <1>2 DEF InOrder, InBatch, SubmitInternal
  <2> QED BY <2>1, <2>2, <2>4, <2>5, <2>6
<1> QED BY <1>1, <1>2

\* Every step of a worker keeps the invariant.
LEMMA StrandInvWorkerStep ==
    ASSUME StrandInv, NEW w \in Workers, WorkerStep(w)
    PROVE  StrandInv'
<1> USE DEF StrandInv, Goto
<1>1. CASE TakeBatch(w)
  <2>0. batches = 1 /\ state = "PLAN" /\ ~SubmitterPlans /\ pc[w] = "idle"
    BY <1>1 DEF TakeBatch, TypeOK, TokenInv
  <2>1. TypeOK'
    BY <1>1, <2>0 DEF TakeBatch, TypeOK, RunPC
  <2>2. LockInv'
    BY <1>1 DEF TakeBatch, LockInv
  <2>3. TokenInv'
    BY <1>1, <2>0 DEF TakeBatch, TypeOK, TokenInv, SubmitterPlans, WorkerPlans, InBatch
  <2>4. ListInv'
    BY <1>1, <2>0 DEF TakeBatch, TypeOK, ListInv
  <2>5. InOrder'
    BY <1>1, <2>0 DEF TakeBatch, TypeOK, InOrder, InBatch
  <2> QED BY <2>1, <2>2, <2>3, <2>4, <2>5
<1>2. CASE RunBatchStart(w)
  <2>0. /\ pc[w] = "start" /\ state = "PLAN" /\ ~SubmitterPlans /\ batches = 0
        /\ \A v \in Workers : v # w => pc[v] = "idle"
    <3>1. pc[w] \in {"start", "internal"} /\ batches \in 0..1
      BY <1>2 DEF RunBatchStart, TypeOK
    <3>2. state = "PLAN" /\ ~SubmitterPlans /\ batches # 1
      BY <3>1 DEF TypeOK, TokenInv, InBatch, SubmitterPlans
    <3> QED BY <1>2, <3>1, <3>2 DEF RunBatchStart, TokenInv
  <2>1. TypeOK'
    BY <1>2, <2>0 DEF RunBatchStart, TypeOK, RunPC
  <2>2. LockInv'
    BY <1>2 DEF RunBatchStart, LockInv
  <2>3. TokenInv'
    BY <1>2, <2>0 DEF RunBatchStart, TypeOK, TokenInv, SubmitterPlans, WorkerPlans, InBatch
  <2>4. ListInv'
    BY <1>2, <2>0 DEF RunBatchStart, TypeOK, ListInv
  <2>5. scheduled[w] = <<>> /\ executed \o tasks = pushed
    BY <2>0 DEF ListInv, InOrder, InBatch
  <2>6. (executed \o scheduled[w]) \o tasks = pushed
    BY <2>5, ConcatEmptySeq DEF TypeOK
  <2>7. InOrder'
    BY <1>2, <2>0, <2>6 DEF RunBatchStart, TypeOK, InOrder, InBatch
  <2> QED BY <2>1, <2>2, <2>3, <2>4, <2>7
<1>3. CASE RunBatchSwap(w)
  <2>0. /\ InBatch(w) /\ tasks # <<>> /\ state = "RUNNING" /\ scheduled[w] = <<>>
        /\ \A v \in Workers : v # w => pc[v] = "idle"
        /\ \A t \in Tasks : sub[t] \notin {"plan", "internal"}
    BY <1>3, StrandAssumption DEF RunBatchSwap, TypeOK, TokenInv, ListInv, LockInv, InBatch
  <2>1. TypeOK'
    BY <1>3, <2>0 DEF RunBatchSwap, TypeOK, RunPC
  <2>2. LockInv'
    BY <1>3 DEF RunBatchSwap, LockInv
  <2>3. TokenInv'
    BY <1>3, <2>0 DEF RunBatchSwap, TypeOK, TokenInv, SubmitterPlans, WorkerPlans, InBatch
  <2>4. ListInv'
    BY <1>3, <2>0 DEF RunBatchSwap, TypeOK, ListInv
  <2>5. (executed \o scheduled[w]) \o tasks = pushed
    BY <2>0 DEF InOrder
  <2>6. executed \in Seq(Tasks) /\ tasks \in Seq(Tasks) /\ executed \o tasks \in Seq(Tasks)
    BY ConcatProperties DEF TypeOK
  <2>7. (executed \o tasks) \o <<>> = pushed
    BY <2>0, <2>5, <2>6, ConcatEmptySeq
  <2>8. InOrder'
    BY <1>3, <2>0, <2>7 DEF RunBatchSwap, TypeOK, InOrder, InBatch
  <2> QED BY <2>1, <2>2, <2>3, <2>4, <2>8
<1>4. CASE RunTask(w)
  <2>1. TypeOK'
    BY <1>4 DEF RunTask, TypeOK, RunPC
  <2>2. LockInv'
    BY <1>4 DEF RunTask, LockInv
  <2>3. TokenInv'
    BY <1>4 DEF RunTask, TypeOK, TokenInv, SubmitterPlans, WorkerPlans, InBatch
  <2>4. ListInv'
    BY <1>4 DEF RunTask, TypeOK, ListInv
  <2>5. InOrder'
    BY <1>4 DEF RunTask, TypeOK, InOrder, InBatch
  <2> QED BY <2>1, <2>2, <2>3, <2>4, <2>5
<1>5. CASE RunTaskReturn(w)
  <2>0. /\ pc[w] = "in_task" /\ scheduled[w] # <<>> /\ scheduled[w] \in Seq(Tasks)
        /\ \A v \in Workers : v # w => pc[v] = "idle"
    BY <1>5 DEF RunTaskReturn, TypeOK, TokenInv, ListInv
  <2>a. /\ Head(scheduled[w]) \in Tasks
        /\ Tail(scheduled[w]) \in Seq(Tasks)
        /\ Append(executed, Head(scheduled[w])) \o Tail(scheduled[w])
              = executed \o scheduled[w]
    BY <2>0, MoveHead DEF TypeOK
  <2>1. TypeOK'
    BY <1>5, <2>0, <2>a DEF RunTaskReturn, TypeOK, RunPC
  <2>2. LockInv'
    BY <1>5 DEF RunTaskReturn, LockInv
  <2>3. TokenInv'
    BY <1>5 DEF RunTaskReturn, TypeOK, TokenInv, SubmitterPlans, WorkerPlans, InBatch
  <2>4. ListInv'
    BY <1>5 DEF RunTaskReturn, TypeOK, ListInv
  <2>5. (executed \o scheduled[w]) \o tasks = pushed
    BY <2>0 DEF InOrder, InBatch
  <2>6. InOrder'
    BY <1>5, <2>0, <2>a, <2>5 DEF RunTaskReturn, TypeOK, InOrder, InBatch
  <2> QED BY <2>1, <2>2, <2>3, <2>4, <2>6
<1>6. CASE RunBatchCheck(w)
  <2>1. TypeOK'
    BY <1>6 DEF RunBatchCheck, TypeOK, RunPC
  <2>2. LockInv'
    BY <1>6 DEF RunBatchCheck, LockInv
  <2>3. TokenInv'
    BY <1>6 DEF RunBatchCheck, TypeOK, TokenInv, SubmitterPlans, WorkerPlans, InBatch
  <2>4. ListInv'
    BY <1>6 DEF RunBatchCheck, TypeOK, ListInv
  <2>5. InOrder'
    BY <1>6 DEF RunBatchCheck, TypeOK, InOrder, InBatch
  <2> QED BY <2>1, <2>2, <2>3, <2>4, <2>5
<1>7. CASE RunBatchToReady(w) \/ RunBatchReplan(w)
  <2>0. /\ pc[w] \in {"to_ready", "replan"} /\ state = "RUNNING" /\ scheduled[w] = <<>>
        /\ \A v \in Workers : v # w => pc[v] = "idle"
    BY <1>7 DEF RunBatchToReady, RunBatchReplan, TypeOK, TokenInv, ListInv
  <2>1. TypeOK'
    BY <1>7 DEF RunBatchToReady, RunBatchReplan, TypeOK, RunPC
  <2>2. LockInv'
    BY <1>7 DEF RunBatchToReady, RunBatchReplan, LockInv
  <2>3. TokenInv'
    BY <1>7, <2>0, ZenonT(60) DEF RunBatchToReady, RunBatchReplan, TypeOK, TokenInv, SubmitterPlans, WorkerPlans, InBatch
  <2>4. ListInv'
    BY <1>7, <2>0 DEF RunBatchToReady, RunBatchReplan, TypeOK, ListInv
  <2>5. (executed \o scheduled[w]) \o tasks = pushed
    BY <2>0 DEF InOrder, InBatch
  <2>6. executed \o tasks = pushed
    BY <2>0, <2>5, ConcatEmptySeq DEF TypeOK
  <2>7. InOrder'
    BY <1>7, <2>0, <2>6 DEF RunBatchToReady, RunBatchReplan, TypeOK, InOrder, InBatch
  <2> QED BY <2>1, <2>2, <2>3, <2>4, <2>7
<1>8. CASE RunBatchSubmitInternal(w)
  <2>0. /\ pc[w] = "internal" /\ state = "PLAN" /\ ~SubmitterPlans /\ batches = 0
        /\ \A v \in Workers : v # w => pc[v] = "idle"
    <3>1. pc[w] \in {"start", "internal"} /\ batches \in 0..1
      BY <1>8 DEF RunBatchSubmitInternal, TypeOK
    <3>2. state = "PLAN" /\ ~SubmitterPlans /\ batches # 1
      BY <3>1 DEF TypeOK, TokenInv, InBatch, SubmitterPlans
    <3> QED BY <1>8, <3>1, <3>2 DEF RunBatchSubmitInternal, TokenInv
  <2>1. TypeOK'
    BY <1>8, <2>0 DEF RunBatchSubmitInternal, TypeOK, RunPC
  <2>2. LockInv'
    BY <1>8 DEF RunBatchSubmitInternal, LockInv
  <2>3. TokenInv'
    BY <1>8, <2>0 DEF RunBatchSubmitInternal, TypeOK, TokenInv, SubmitterPlans, WorkerPlans, InBatch
  <2>4. ListInv'
    BY <1>8, <2>0 DEF RunBatchSubmitInternal, TypeOK, ListInv
  <2>5. InOrder'
    BY <1>8, <2>0 DEF RunBatchSubmitInternal, TypeOK, InOrder, InBatch
  <2> QED BY <2>1, <2>2, <2>3, <2>4, <2>5
<1> QED BY <1>1, <1>2, <1>3, <1>4, <1>5, <1>6, <1>7, <1>8 DEF WorkerStep

\* The invariant of the strand holds in every reachable state: the token, the
\* spinlock and the two lists of IntrusiveStrand fit together.
THEOREM StrandInvariance == Spec => []StrandInv
<1>1. Init => StrandInv
  BY StrandInvInit
<1>2. StrandInv /\ [Next]_vars => StrandInv'
  <2> SUFFICES ASSUME StrandInv, [Next]_vars PROVE StrandInv'
    OBVIOUS
  <2>1. CASE Next
    BY <2>1, StrandInvSubmitPush, StrandInvSubmitStep, StrandInvWorkerStep DEF Next
  <2>2. CASE UNCHANGED vars
    BY <2>2 DEF vars, StrandInv, TypeOK, LockInv, TokenInv, ListInv, InOrder,
                SubmitterPlans, WorkerPlans, InBatch
  <2> QED BY <2>1, <2>2
<1> QED BY <1>1, <1>2, PTL DEF Spec

\* The variables of the strand keep their types and at most one closure of
\* the strand is in the underlying executor.
THEOREM StrandTypeCorrect == Spec => []TypeOK
<1>1. StrandInv => TypeOK
  BY DEF StrandInv
<1> QED BY <1>1, StrandInvariance, PTL

\* The asserts of RunBatch never fail.
THEOREM StrandAssertionsHold == Spec => []AssertionsHold
<1>1. StrandInv => AssertionsHold
  BY DEF StrandInv, TypeOK, TokenInv, AssertionsHold, InBatch
<1> QED BY <1>1, StrandInvariance, PTL

\* RunBatch is never executed by two workers at once.
THEOREM StrandSerial == Spec => []Serial
<1>1. StrandInv => Serial
  BY DEF StrandInv, TokenInv, Serial, InBatch
<1> QED BY <1>1, StrandInvariance, PTL

\* Tasks are run once each, in the order in which Submit pushed them.
THEOREM StrandInOrder == Spec => []InOrder
<1>1. StrandInv => InOrder
  BY DEF StrandInv
<1> QED BY <1>1, StrandInvariance, PTL

\* A strand that is not READY has somebody who will run the next batch.
THEOREM StrandNoLostBatch == Spec => []NoLostBatch
<1>1. ASSUME StrandInv, state # "READY", Idle
      PROVE  FALSE
  <2>1. CASE state = "PLAN"
    BY <1>1, <2>1 DEF StrandInv, TokenInv, Idle, SubmitterPlans, WorkerPlans
  <2>2. CASE state = "RUNNING"
    BY <1>1, <2>2 DEF StrandInv, TokenInv, Idle, InBatch
  <2> QED BY <1>1, <2>1, <2>2 DEF StrandInv, TypeOK
<1>2. StrandInv => NoLostBatch
  BY <1>1 DEF NoLostBatch
<1> QED BY <1>2, StrandInvariance, PTL

-----------------------------------------------------------------------------
(* The refinement.                                                         *)

\* The batch is the list of the only worker that has one.
LEMMA BatchIs ==
    ASSUME NEW lists, NEW w \in Workers, \A v \in Workers : v # w => lists[v] = <<>>
    PROVE  BatchOf(lists) = lists[w]
<1>1. CASE lists[w] # <<>>
  <2>1. \A v \in Workers : lists[v] # <<>> <=> v = w
    BY <1>1
  <2> QED BY <2>1 DEF BatchOf
<1>2. CASE lists[w] = <<>>
  BY <1>2 DEF BatchOf
<1> QED BY <1>1, <1>2

\* Without a list there is no batch.
LEMMA NoBatch ==
    ASSUME NEW lists, \A v \in Workers : lists[v] = <<>>
    PROVE  BatchOf(lists) = <<>>
BY DEF BatchOf

\* A task that was never given to Submit is not in the strand's history.
FreshInv == \A t \in Tasks : sub[t] = "idle" => \A i \in 1..Len(pushed) : pushed[i] # t

\* A task is given to Submit once, so the strand never has it twice.
LEMMA FreshInvariance == Spec => []FreshInv
<1>1. Init => FreshInv
  BY EmptySeq DEF Init, FreshInv
<1>2. StrandInv /\ FreshInv /\ [Next]_vars => FreshInv'
  <2> SUFFICES ASSUME StrandInv, FreshInv, [Next]_vars PROVE FreshInv'
    OBVIOUS
  <2>1. ASSUME NEW t \in Tasks, SubmitPush(t)
        PROVE  FreshInv'
    <3>1. /\ pushed' = Append(pushed, t) /\ pushed \in Seq(Tasks)
          /\ sub'[t] = "plan" /\ \A u \in Tasks : u # t => sub'[u] = sub[u]
      BY <2>1 DEF SubmitPush, SubGoto, StrandInv, TypeOK
    <3>2. /\ Len(pushed) \in Nat /\ Len(pushed') = Len(pushed) + 1
          /\ \A i \in 1..Len(pushed) : pushed'[i] = pushed[i]
          /\ pushed'[Len(pushed) + 1] = t
      BY <3>1, AppendProperties, LenProperties
    <3>3. \A i \in 1..Len(pushed) + 1 : i # Len(pushed) + 1 => i \in 1..Len(pushed)
      BY <3>2
    <3> QED BY <3>1, <3>2, <3>3 DEF FreshInv
  <2>2. ASSUME NEW t \in Tasks, SubmitStep(t)
        PROVE  FreshInv'
    <3>1. pushed' = pushed /\ sub[t] # "idle" /\ \A u \in Tasks : u # t => sub'[u] = sub[u]
      BY <2>2 DEF SubmitStep, SubmitPlan, SubmitInternal, SubGoto, StrandInv, TypeOK
    <3>2. sub'[t] # "idle"
      BY <2>2 DEF SubmitStep, SubmitPlan, SubmitInternal, SubGoto, StrandInv, TypeOK
    <3> QED BY <3>1, <3>2 DEF FreshInv
  <2>3. ASSUME NEW w \in Workers, WorkerStep(w)
        PROVE  FreshInv'
    <3>1. UNCHANGED <<sub, pushed>>
      BY <2>3 DEF WorkerStep, TakeBatch, RunBatchStart, RunBatchSwap, RunTask, RunTaskReturn,
                  RunBatchCheck, RunBatchToReady, RunBatchReplan, RunBatchSubmitInternal
    <3> QED BY <3>1 DEF FreshInv
  <2>4. CASE UNCHANGED vars
    BY <2>4 DEF vars, FreshInv
  <2> QED BY <2>1, <2>2, <2>3, <2>4 DEF Next
<1> QED BY <1>1, <1>2, StrandInvariance, PTL DEF Spec

\* What is in one of three lists is in their concatenation.
LEMMA InConcat ==
    ASSUME NEW S, NEW a \in Seq(S), NEW b \in Seq(S), NEW t \in S,
           \A i \in 1..Len(a \o b) : (a \o b)[i] # t
    PROVE  /\ \A i \in 1..Len(a) : a[i] # t
           /\ \A i \in 1..Len(b) : b[i] # t
           /\ a \o b \in Seq(S)
<1>1. /\ a \o b \in Seq(S) /\ Len(a) \in Nat /\ Len(b) \in Nat
      /\ Len(a \o b) = Len(a) + Len(b)
      /\ \A i \in 1..Len(a) + Len(b) : (a \o b)[i] = IF i <= Len(a) THEN a[i] ELSE b[i - Len(a)]
  BY ConcatProperties, LenProperties
<1>2. ASSUME NEW i \in 1..Len(a) PROVE a[i] # t
  <2>1. i \in 1..Len(a) + Len(b) /\ i <= Len(a)
    BY <1>1
  <2> QED BY <1>1, <2>1
<1>3. ASSUME NEW i \in 1..Len(b) PROVE b[i] # t
  <2>1. i + Len(a) \in 1..Len(a) + Len(b) /\ ~(i + Len(a) <= Len(a)) /\ (i + Len(a)) - Len(a) = i
    BY <1>1
  <2> QED BY <1>1, <2>1
<1> QED BY <1>1, <1>2, <1>3

\* The batch and the list, and what the abstract queue is made of.
LEMMA QueueFacts ==
    ASSUME StrandInv
    PROVE  /\ BatchOf(scheduled) \in Seq(Tasks)
           /\ InTask => BatchOf(scheduled) # <<>>
           /\ executed \in Seq(Tasks) /\ tasks \in Seq(Tasks)
           /\ (executed \o BatchOf(scheduled)) \o tasks = pushed
           /\ \A w \in Workers : pc[w] # "idle" => /\ BatchOf(scheduled) = scheduled[w]
                                                   /\ InTask <=> pc[w] = "in_task"
                                                   /\ \A v \in Workers : v # w => scheduled[v] = <<>>
<1>0. executed \in Seq(Tasks) /\ tasks \in Seq(Tasks) /\ scheduled \in [Workers -> Seq(Tasks)]
  BY DEF StrandInv, TypeOK
<1>1. ASSUME NEW w \in Workers, pc[w] # "idle"
      PROVE  /\ BatchOf(scheduled) = scheduled[w]
             /\ InTask <=> pc[w] = "in_task"
             /\ \A v \in Workers : v # w => scheduled[v] = <<>>
  <2>1. \A v \in Workers : v # w => pc[v] = "idle"
    BY <1>1 DEF StrandInv, TokenInv
  <2>2. \A v \in Workers : v # w => scheduled[v] = <<>>
    BY <2>1 DEF StrandInv, ListInv
  <2> QED BY <2>1, <2>2, BatchIs DEF InTask
<1>2. CASE \E w \in Workers : InBatch(w)
  <2>1. PICK w \in Workers : InBatch(w)
    BY <1>2
  <2>2. pc[w] # "idle" /\ (executed \o scheduled[w]) \o tasks = pushed
    BY <2>1 DEF InBatch, StrandInv, InOrder
  <2>3. pc[w] = "in_task" => scheduled[w] # <<>>
    BY DEF StrandInv, ListInv
  <2> QED BY <1>0, <1>1, <2>2, <2>3
<1>3. CASE \A w \in Workers : ~InBatch(w)
  <2>1. \A w \in Workers : scheduled[w] = <<>>
    BY <1>3 DEF StrandInv, ListInv, InBatch
  <2>2. BatchOf(scheduled) = <<>> /\ ~InTask
    BY <1>3, <2>1, NoBatch DEF InTask, InBatch
  <2>3. executed \o <<>> = executed /\ executed \o tasks = pushed
    BY <1>0, <1>3, ConcatEmptySeq DEF StrandInv, InOrder
  <2> QED BY <1>0, <1>1, <2>2, <2>3
<1> QED BY <1>2, <1>3

\* SubmitPush is Submit of the serial executor.
LEMMA SubmitPushIsSubmit ==
    ASSUME StrandInv, FreshInv, NEW t \in Tasks, SubmitPush(t)
    PROVE  Serially!Submit(t)
<1>1. /\ BatchOf(scheduled) \in Seq(Tasks) /\ (InTask => BatchOf(scheduled) # <<>>)
      /\ executed \in Seq(Tasks) /\ tasks \in Seq(Tasks)
      /\ (executed \o BatchOf(scheduled)) \o tasks = pushed
  BY QueueFacts
<1>2. sub[t] = "idle" /\ tasks' = Append(tasks, t) /\ UNCHANGED <<pc, scheduled, executed>>
  BY DEF SubmitPush
<1>3. PICK b : b \in Seq(Tasks) /\ b = BatchOf(scheduled)
  BY <1>1
<1>4. executed \o b \in Seq(Tasks)
  BY <1>1, <1>3, ConcatProperties
<1>5. /\ \A i \in 1..Len(executed \o b) : (executed \o b)[i] # t
      /\ \A i \in 1..Len(tasks) : tasks[i] # t
  <2>1. \A i \in 1..Len((executed \o b) \o tasks) : ((executed \o b) \o tasks)[i] # t
    BY <1>1, <1>2, <1>3 DEF FreshInv
  <2>2. PICK started : started \in Seq(Tasks) /\ started = executed \o b
    BY <1>4
  <2>3. PICK waiting : waiting \in Seq(Tasks) /\ waiting = tasks
    BY <1>1
  <2>4. \A i \in 1..Len(started \o waiting) : (started \o waiting)[i] # t
    BY <2>1, <2>2, <2>3
  <2>5. started \in Seq(Tasks) /\ waiting \in Seq(Tasks) /\ t \in Tasks
    BY <2>2, <2>3
  <2>6. /\ \A i \in 1..Len(started) : started[i] # t
        /\ \A i \in 1..Len(waiting) : waiting[i] # t
    BY <2>4, <2>5, InConcat
  <2> QED BY <2>2, <2>3, <2>6
<1>6. /\ \A i \in 1..Len(executed) : executed[i] # t
      /\ \A i \in 1..Len(b) : b[i] # t
  <2>1. PICK ran : ran \in Seq(Tasks) /\ ran = executed
    BY <1>1
  <2>2. \A i \in 1..Len(ran \o b) : (ran \o b)[i] # t
    BY <1>5, <2>1
  <2>3. ran \in Seq(Tasks) /\ b \in Seq(Tasks) /\ t \in Tasks
    BY <1>3, <2>1
  <2>4. (\A i \in 1..Len(ran) : ran[i] # t) /\ (\A i \in 1..Len(b) : b[i] # t)
    BY <2>2, <2>3, InConcat
  <2> QED BY <2>1, <2>4
<1>7. InTask' = InTask /\ BatchOf(scheduled)' = b
  BY <1>2, <1>3 DEF InTask, BatchOf
<1>8. PICK q : /\ q \in Seq(Tasks)
               /\ q = IF InTask THEN Tail(b) ELSE b
               /\ \A i \in 1..Len(q) : q[i] # t
  <2>1. CASE InTask
    <3>1. /\ Tail(b) \in Seq(Tasks) /\ Len(b) \in Nat \ {0} /\ Len(Tail(b)) = Len(b) - 1
          /\ \A i \in 1..Len(b) - 1 : Tail(b)[i] = b[i + 1]
      BY <2>1, <1>1, <1>3, HeadTailProperties, LenProperties, EmptySeq
    <3>2. \A i \in 1..Len(b) - 1 : i + 1 \in 1..Len(b)
      BY <3>1
    <3> QED BY <2>1, <3>1, <3>2, <1>6
  <2>2. CASE ~InTask
    BY <2>2, <1>3, <1>6
  <2> QED BY <2>1, <2>2
<1>9. Queue = q \o tasks /\ Queue' = q \o Append(tasks, t)
  BY <1>2, <1>3, <1>7, <1>8 DEF Queue
<1>10. Queue' = Append(Queue, t)
  <2>1. q \in Seq(Tasks) /\ tasks \in Seq(Tasks) /\ t \in Tasks
    BY <1>1, <1>8
  <2>2. q \o Append(tasks, t) = Append(q \o tasks, t)
    BY <2>1, AppendToSecond
  <2> QED BY <1>9, <2>2
<1>11. \A i \in 1..Len(Queue) : Queue[i] # t
  <2>1. /\ Len(q \o tasks) = Len(q) + Len(tasks) /\ Len(q) \in Nat /\ Len(tasks) \in Nat
        /\ \A i \in 1..Len(q) + Len(tasks) : (q \o tasks)[i] = IF i <= Len(q) THEN q[i] ELSE tasks[i - Len(q)]
    BY <1>1, ConcatProperties, LenProperties
  <2>2. \A i \in 1..Len(q) + Len(tasks) : IF i <= Len(q) THEN i \in 1..Len(q) ELSE i - Len(q) \in 1..Len(tasks)
    BY <2>1
  <2> QED BY <1>5, <1>8, <1>9, <2>1, <2>2, ZenonT(60)
<1>12. Running # t /\ Running' = Running
  <2>1. Running' = Running
    BY <1>3, <1>7 DEF Running
  <2>2. CASE InTask
    <3>1. Head(b) = b[1] /\ 1 \in 1..Len(b)
      BY <2>2, <1>1, <1>3, HeadTailProperties, LenProperties, EmptySeq
    <3> QED BY <2>1, <2>2, <3>1, <1>3, <1>6 DEF Running
  <2>3. CASE ~InTask
    BY <2>1, <2>3, StrandAssumption DEF Running
  <2> QED BY <2>2, <2>3
<1> QED BY <1>2, <1>6, <1>10, <1>11, <1>12 DEF Serially!Submit

\* The head and the tail of a concatenation whose first part is not empty.
LEMMA HeadTailOfConcat ==
    ASSUME NEW S, NEW b \in Seq(S), NEW c \in Seq(S), b # <<>>
    PROVE  b \o c # <<>> /\ Head(b \o c) = Head(b) /\ Tail(b \o c) = Tail(b) \o c
<1>1. /\ Head(b) \in S /\ Tail(b) \in Seq(S) /\ Len(b) \in Nat \ {0} /\ Len(c) \in Nat
      /\ Len(Tail(b)) = Len(b) - 1 /\ Head(b) = b[1]
      /\ \A i \in 1..Len(b) - 1 : Tail(b)[i] = b[i + 1]
  BY HeadTailProperties, LenProperties, EmptySeq
<1>2. /\ b \o c \in Seq(S) /\ Len(b \o c) = Len(b) + Len(c)
      /\ \A i \in 1..Len(b) + Len(c) : (b \o c)[i] = IF i <= Len(b) THEN b[i] ELSE c[i - Len(b)]
  BY ConcatProperties
<1>3. /\ Tail(b) \o c \in Seq(S) /\ Len(Tail(b) \o c) = Len(b) - 1 + Len(c)
      /\ \A i \in 1..Len(b) - 1 + Len(c) :
             (Tail(b) \o c)[i] = IF i <= Len(b) - 1 THEN Tail(b)[i] ELSE c[i - (Len(b) - 1)]
  BY <1>1, ConcatProperties
<1>4. b \o c # <<>>
  BY <1>1, <1>2, EmptySeq
<1>5. /\ Tail(b \o c) \in Seq(S) /\ Len(Tail(b \o c)) = Len(b) + Len(c) - 1
      /\ Head(b \o c) = (b \o c)[1]
      /\ \A i \in 1..Len(b) + Len(c) - 1 : Tail(b \o c)[i] = (b \o c)[i + 1]
  BY <1>1, <1>2, <1>4, HeadTailProperties
<1>6. Head(b \o c) = Head(b)
  BY <1>1, <1>2, <1>5
<1>7. ASSUME NEW i \in 1..Len(b) + Len(c) - 1
      PROVE  Tail(b \o c)[i] = (Tail(b) \o c)[i]
  <2>1. Tail(b \o c)[i] = IF i + 1 <= Len(b) THEN b[i + 1] ELSE c[(i + 1) - Len(b)]
    BY <1>1, <1>2, <1>5
  <2>2. (Tail(b) \o c)[i] = IF i <= Len(b) - 1 THEN b[i + 1] ELSE c[i - (Len(b) - 1)]
    BY <1>1, <1>3
  <2>3. (i + 1 <= Len(b) <=> i <= Len(b) - 1) /\ (i + 1) - Len(b) = i - (Len(b) - 1)
    BY <1>1
  <2> QED BY <2>1, <2>2, <2>3
<1>8. Len(Tail(b \o c)) = Len(Tail(b) \o c)
  BY <1>1, <1>3, <1>5
<1>9. Tail(b \o c) = Tail(b) \o c
  BY <1>3, <1>5, <1>7, <1>8, SeqEqual
<1> QED BY <1>4, <1>6, <1>9

\* A step of a worker begins a task, ends it, or is invisible.
LEMMA WorkerStepIsSerial ==
    ASSUME StrandInv, NEW w \in Workers, WorkerStep(w)
    PROVE  Serially!Begin \/ Serially!End \/ UNCHANGED Serially!vars
<1>1. /\ BatchOf(scheduled) \in Seq(Tasks) /\ (InTask => BatchOf(scheduled) # <<>>)
      /\ executed \in Seq(Tasks) /\ tasks \in Seq(Tasks) /\ scheduled \in [Workers -> Seq(Tasks)]
      /\ pc \in [Workers -> RunPC]
  BY QueueFacts DEF StrandInv, TypeOK
<1>2. ASSUME UNCHANGED <<tasks, scheduled, executed>>,
             pc[w] # "in_task", \E to \in RunPC \ {"in_task"} : Goto(w, to)
      PROVE  UNCHANGED Serially!vars
  <2>1. \A v \in Workers : pc'[v] = "in_task" <=> pc[v] = "in_task"
    BY <1>1, <1>2 DEF Goto
  <2>2. InTask' <=> InTask
    BY <2>1 DEF InTask
  <2> QED BY <1>2, <2>2 DEF Serially!vars, Queue, Running, BatchOf
<1>3. CASE \/ TakeBatch(w) \/ RunBatchStart(w) \/ RunBatchCheck(w) \/ RunBatchToReady(w)
           \/ RunBatchReplan(w) \/ RunBatchSubmitInternal(w)
  BY <1>2, <1>3 DEF TakeBatch, RunBatchStart, RunBatchCheck, RunBatchToReady, RunBatchReplan,
                    RunBatchSubmitInternal, RunPC
<1>4. ASSUME pc[w] # "idle"
      PROVE  /\ BatchOf(scheduled) = scheduled[w]
             /\ InTask <=> pc[w] = "in_task"
             /\ \A v \in Workers : v # w => scheduled[v] = <<>> /\ pc[v] = "idle"
  BY <1>4, QueueFacts DEF StrandInv, TokenInv
<1>5. CASE RunBatchSwap(w)
  <2>1. /\ pc[w] = "swap" /\ pc[w] # "in_task" /\ scheduled' = [scheduled EXCEPT ![w] = tasks] /\ tasks' = <<>>
        /\ executed' = executed /\ \E to \in {"run", "abort"} : Goto(w, to)
    BY <1>5 DEF RunBatchSwap
  <2>2. /\ BatchOf(scheduled) = scheduled[w] /\ ~InTask
        /\ \A v \in Workers : v # w => scheduled[v] = <<>> /\ pc[v] = "idle"
    BY <1>4, <2>1
  <2>3. scheduled[w] = <<>>
    BY <2>1 DEF StrandInv, ListInv
  <2>4. scheduled'[w] = tasks /\ \A v \in Workers : v # w => scheduled'[v] = <<>>
    BY <1>1, <2>1, <2>2
  <2>5. BatchOf(scheduled') = tasks
    BY <2>4, BatchIs
  <2>6. ~InTask'
    BY <1>1, <2>1, <2>2 DEF InTask, Goto
  <2>7. <<>> \o tasks = tasks /\ tasks \o <<>> = tasks
    BY <1>1, ConcatEmptySeq
  <2>8. Queue' = Queue /\ Running' = Running
    BY <2>1, <2>2, <2>3, <2>5, <2>6, <2>7 DEF Queue, Running
  <2> QED BY <2>1, <2>8 DEF Serially!vars
<1>6. CASE RunTask(w)
  <2>1. pc[w] = "run" /\ UNCHANGED <<tasks, scheduled, executed>>
    BY <1>6 DEF RunTask
  <2>2. CASE scheduled[w] = <<>>
    BY <1>2, <1>6, <2>1, <2>2 DEF RunTask, RunPC
  <2>3. CASE scheduled[w] # <<>>
    <3>1. Goto(w, "in_task")
      BY <1>6, <2>3 DEF RunTask
    <3>2. InTask' /\ ~InTask /\ BatchOf(scheduled) = scheduled[w]
      BY <1>1, <1>4, <2>1, <3>1 DEF InTask, Goto
    <3>3. PICK b \in Seq(Tasks) : b = scheduled[w]
      BY <1>1
    <3>4. Running = NULL /\ Running' = Head(b) /\ Queue = b \o tasks /\ Queue' = Tail(b) \o tasks
      BY <2>1, <3>2, <3>3 DEF Running, Queue, BatchOf
    <3>5. b \o tasks # <<>> /\ Head(b \o tasks) = Head(b) /\ Tail(b \o tasks) = Tail(b) \o tasks
      BY <1>1, <2>3, <3>3, HeadTailOfConcat
    <3> QED BY <2>1, <3>4, <3>5 DEF Serially!Begin
  <2> QED BY <2>2, <2>3
<1>7. CASE RunTaskReturn(w)
  <2>1. /\ pc[w] = "in_task" /\ executed' = Append(executed, Head(scheduled[w])) /\ tasks' = tasks
        /\ scheduled' = [scheduled EXCEPT ![w] = Tail(scheduled[w])] /\ Goto(w, "run")
    BY <1>1, <1>7 DEF RunTaskReturn
  <2>2. /\ BatchOf(scheduled) = scheduled[w] /\ InTask
        /\ \A v \in Workers : v # w => scheduled[v] = <<>> /\ pc[v] = "idle"
    BY <1>4, <2>1
  <2>3. scheduled'[w] = Tail(scheduled[w]) /\ \A v \in Workers : v # w => scheduled'[v] = <<>>
    BY <1>1, <2>1, <2>2
  <2>4. BatchOf(scheduled') = Tail(scheduled[w])
    BY <2>3, BatchIs
  <2>5. ~InTask'
    BY <1>1, <2>1, <2>2 DEF InTask, Goto
  <2>6. Head(scheduled[w]) \in Tasks
    BY <1>1, <2>2, HeadTailProperties
  <2>7. Queue' = Queue /\ Running = Head(scheduled[w]) /\ Running' = NULL
    BY <2>1, <2>2, <2>4, <2>5 DEF Queue, Running
  <2> QED BY <2>1, <2>6, <2>7, StrandAssumption DEF Serially!End
<1> QED BY <1>3, <1>5, <1>6, <1>7 DEF WorkerStep

\* The strand is a serial executor: Submit, the call and the return of a task's
\* Run are its steps; the state flag, the spinlock, the swap of the lists and
\* the planning of batches are invisible.
THEOREM StrandRefinement == Spec => ImplementsSerialExecutor
<1>1. Init => Serially!Init
  <2> SUFFICES ASSUME Init PROVE Serially!Init
    OBVIOUS
  <2>1. (\A w \in Workers : scheduled[w] = <<>>) /\ tasks = <<>> /\ executed = <<>> /\ ~InTask
    BY DEF Init, InTask
  <2>2. BatchOf(scheduled) = <<>>
    BY <2>1, NoBatch
  <2>3. Queue = <<>> \o <<>> /\ Running = NULL
    BY <2>1, <2>2 DEF Queue, Running
  <2>4. <<>> \o <<>> = <<>>
    BY ConcatEmptySeq, EmptySeq
  <2> QED BY <2>1, <2>3, <2>4 DEF Serially!Init
<1>2. StrandInv /\ FreshInv /\ [Next]_vars => [Serially!Next]_(Serially!vars)
  <2> SUFFICES ASSUME StrandInv, FreshInv, [Next]_vars PROVE [Serially!Next]_(Serially!vars)
    OBVIOUS
  <2>1. CASE UNCHANGED vars
    BY <2>1 DEF vars, Serially!vars, Queue, Running, InTask, BatchOf
  <2>2. ASSUME NEW t \in Tasks, SubmitPush(t)
        PROVE  Serially!Next
    BY <2>2, SubmitPushIsSubmit DEF Serially!Next
  <2>3. ASSUME NEW t \in Tasks, SubmitStep(t)
        PROVE  UNCHANGED Serially!vars
    BY <2>3 DEF SubmitStep, SubmitPlan, SubmitInternal, Serially!vars, Queue, Running, InTask, BatchOf
  <2>4. ASSUME NEW w \in Workers, WorkerStep(w)
        PROVE  [Serially!Next]_(Serially!vars)
    BY <2>4, WorkerStepIsSerial DEF Serially!Next
  <2> QED BY <2>1, <2>2, <2>3, <2>4 DEF Next
<1> QED BY <1>1, <1>2, StrandInvariance, FreshInvariance, PTL
       DEF Spec, ImplementsSerialExecutor, Serially!Spec

=============================================================================
