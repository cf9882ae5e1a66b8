----------------------------- MODULE SyncProofs -----------------------------
(***************************************************************************)
(* Proofs about the primitives that coroutines and fibers wait on.         *)
(*                                                                         *)
(* The coroutine mutex: for any number of coroutines, threads and sections *)
(* it keeps CoroInv, and is a first-come-first-served lock; the benchmark  *)
(* around it, for any number of jthreads, unlocks its std::mutex on the    *)
(* thread that has locked it and destroys the mutex when nobody is inside. *)
(*                                                                         *)
(* The event and the wait group of fibers: for any fibers, workers and     *)
(* code that the assumptions of FiberExecutor and FiberWaitGroup allow,    *)
(* on an executor that resumes a fiber on the worker that ran it first.    *)
(***************************************************************************)
EXTENDS BenchAsyncMutex, FiberSync, SequenceTheorems, FiniteSetTheorems, FunctionTheorems, TLAPS

\* A sequence without its last element.
LEMMA FrontAt ==
    ASSUME NEW S, NEW s \in Seq(S), s # <<>>
    PROVE  /\ Front(s) \in Seq(S)
           /\ Len(s) \in Nat \ {0}
           /\ Len(Front(s)) = Len(s) - 1
           /\ \A i \in 1..Len(s) - 1 : Front(s)[i] = s[i]
           /\ s[Len(s)] \in S
<1> DEFINE n == Len(s) - 1
<1>1. Len(s) \in Nat \ {0} /\ \A i \in 1..Len(s) : s[i] \in S
  BY EmptySeq, ElementOfSeq
<1>2. n \in Nat /\ \A i \in 1..n : s[i] \in S
  BY <1>1
<1>3. Front(s) = [i \in 1..n |-> s[i]]
  BY <1>1, <1>2 DEF Front
<1>4. Front(s) \in Seq(S) /\ Len(Front(s)) = n
  BY <1>2, <1>3, SeqDef
<1> QED BY <1>1, <1>3, <1>4

\* A sequence with an element at its end.
LEMMA AppendAt ==
    ASSUME NEW S, NEW s \in Seq(S), NEW e \in S
    PROVE  /\ Append(s, e) \in Seq(S)
           /\ Len(s) \in Nat
           /\ Len(Append(s, e)) = Len(s) + 1
           /\ Append(s, e)[Len(s) + 1] = e
           /\ \A i \in 1..Len(s) : Append(s, e)[i] = s[i]
           /\ Append(s, e) # <<>>
BY AppendProperties, LenProperties

\* The first element of a sequence, and the rest.
LEMMA TailAt ==
    ASSUME NEW S, NEW s \in Seq(S), s # <<>>
    PROVE  /\ Len(s) \in Nat \ {0}
           /\ Head(s) = s[1] /\ Head(s) \in S
           /\ Tail(s) \in Seq(S)
           /\ Len(Tail(s)) = Len(s) - 1
           /\ \A i \in 1..Len(s) - 1 : Tail(s)[i] = s[i + 1]
BY EmptySeq, HeadTailProperties

\* What the stacks hold.
LEMMA StackFacts ==
    ASSUME TypeOK, NEW t \in Threads
    PROVE  /\ stack[t] \in Seq(Coroutines)
           /\ Len(stack[t]) \in Nat
           /\ stack[t] = <<>> <=> Len(stack[t]) = 0
           /\ \A i \in 1..Len(stack[t]) : stack[t][i] \in Coroutines
BY EmptySeq, LenProperties, ElementOfSeq DEF TypeOK

\* The program counter after Goto.
LEMMA GotoFacts ==
    ASSUME TypeOK, NEW c \in Coroutines, NEW to, Goto(c, to)
    PROVE  pc'[c] = to /\ \A d \in Coroutines : d # c => pc'[d] = pc[d]
BY DEF TypeOK, Goto

\* Somebody takes the free spinlock ...
LEMMA SpinTaken ==
    ASSUME SpinlockOwned, ~spinlock, spinlock', NEW h, Holders' = Holders \union {h}
    PROVE  SpinlockOwned'
BY DEF SpinlockOwned

\* ... or its holder releases it ...
LEMMA SpinReleased ==
    ASSUME SpinlockOwned, ~spinlock', NEW h \in Holders, Holders' = Holders \ {h}
    PROVE  SpinlockOwned'
BY DEF SpinlockOwned

\* ... or passes it on.
LEMMA SpinMoved ==
    ASSUME SpinlockOwned, spinlock' = spinlock, NEW h \in Holders, NEW g,
           Holders' = (Holders \ {h}) \union {g}
    PROVE  SpinlockOwned'
BY DEF SpinlockOwned

\* The holder is alone.
LEMMA SpinHolder ==
    ASSUME SpinlockOwned, NEW h \in Holders
    PROVE  spinlock /\ Holders = {h}
BY DEF SpinlockOwned

\* Who the holders are.
LEMMA HolderIs ==
    ASSUME NEW h
    PROVE  h \in Holders <=> \/ h \in guards
                             \/ \E c \in Coroutines : pc[c] = "unlock" /\ h = <<"unlock", c>>
BY DEF Holders

\* The guards of the awaiters are not the one of Unlock.
LEMMA GuardKinds ==
    ASSUME TypeOK, NEW c, NEW d
    PROVE  /\ <<"unlock", c>> \notin guards
           /\ <<"frame", c>> # <<"list", d>>
           /\ <<"frame", c>> # <<"unlock", d>>
           /\ <<"list", c>> # <<"unlock", d>>
           /\ <<"frame", c>> = <<"frame", d>> <=> c = d
           /\ <<"list", c>> = <<"list", d>> <=> c = d
           /\ <<"unlock", c>> = <<"unlock", d>> <=> c = d
BY DEF TypeOK

\* Nobody holds the spinlock: no coroutine is between its co_await and the end
\* of await_suspend, none is in Unlock.
LEMMA SpinFree ==
    ASSUME CoroInv, ~spinlock
    PROVE  /\ guards = {}
           /\ \A c \in Coroutines : pc[c] # "unlock" /\ pc[c] # "ready"
           /\ \A t \in Threads : tpc[t] # "release"
<1>1. Holders = {}
  BY DEF CoroInv, SpinlockOwned
<1>2. guards = {} /\ \A c \in Coroutines : pc[c] # "unlock"
  BY <1>1 DEF Holders
<1>3. \A c \in Coroutines : pc[c] # "ready"
  BY <1>2 DEF CoroInv, GuardInv
<1>4. ASSUME NEW t \in Threads, tpc[t] = "release"
      PROVE  FALSE
  <2>1. stack[t] # <<>>
    BY <1>4 DEF CoroInv, GuardInv
  <2>2. stack[t][Len(stack[t])] \in Coroutines
    BY <2>1, StackFacts DEF CoroInv
  <2>3. <<"list", stack[t][Len(stack[t])]>> \in guards
    BY <2>1, <2>2, <1>4 DEF CoroInv, GuardInv, OnTop
  <2> QED BY <2>3, <1>2
<1> QED BY <1>2, <1>3, <1>4

\* The holder of the spinlock is alone.
LEMMA SpinAlone ==
    ASSUME CoroInv, NEW c \in Coroutines, pc[c] \in {"ready", "unlock"}
    PROVE  /\ spinlock
           /\ \A d \in Coroutines : pc[d] \in {"ready", "unlock"} => d = c
           /\ \A t \in Threads : tpc[t] # "release"
<1> USE DEF CoroInv
<1>1. CASE pc[c] = "ready"
  <2>1. <<"frame", c>> \in Holders
    BY <1>1 DEF GuardInv, Holders
  <2>2. spinlock /\ Holders = {<<"frame", c>>}
    BY <2>1, SpinHolder
  <2>3. ASSUME NEW d \in Coroutines, pc[d] = "ready"
        PROVE  d = c
    <3>1. <<"frame", d>> \in Holders
      BY <2>3 DEF GuardInv, Holders
    <3> QED BY <3>1, <2>2
  <2>4. ASSUME NEW d \in Coroutines, pc[d] = "unlock"
        PROVE  FALSE
    <3>1. <<"unlock", d>> \in Holders
      BY <2>4 DEF Holders
    <3> QED BY <3>1, <2>2
  <2>5. ASSUME NEW t \in Threads, tpc[t] = "release"
        PROVE  FALSE
    <3>1. stack[t] # <<>>
      BY <2>5 DEF GuardInv
    <3>2. stack[t][Len(stack[t])] \in Coroutines
      BY <3>1, StackFacts
    <3>3. <<"list", stack[t][Len(stack[t])]>> \in guards
      BY <3>1, <3>2, <2>5 DEF GuardInv, OnTop
    <3> QED BY <3>3, <2>2, GuardKinds, HolderIs
  <2> QED BY <2>2, <2>3, <2>4, <2>5
<1>2. CASE pc[c] = "unlock"
  <2>1. <<"unlock", c>> \in Holders
    BY <1>2 DEF Holders
  <2>2. spinlock /\ Holders = {<<"unlock", c>>}
    BY <2>1, SpinHolder
  <2>3. guards = {}
    BY <2>2, GuardKinds, HolderIs DEF Holders
  <2>4. \A d \in Coroutines : pc[d] # "ready"
    BY <2>3 DEF GuardInv
  <2>5. \A d \in Coroutines : pc[d] = "unlock" => d = c
    BY <2>2, GuardKinds, HolderIs, ZenonT(60)
  <2>6. ASSUME NEW t \in Threads, tpc[t] = "release"
        PROVE  FALSE
    <3>1. stack[t] # <<>>
      BY <2>6 DEF GuardInv
    <3>2. stack[t][Len(stack[t])] \in Coroutines
      BY <3>1, StackFacts
    <3>3. <<"list", stack[t][Len(stack[t])]>> \in guards
      BY <3>1, <3>2, <2>6 DEF GuardInv, OnTop
    <3> QED BY <3>3, <2>3
  <2> QED BY <2>2, <2>4, <2>5, <2>6
<1> QED BY <1>1, <1>2

\* The initial state satisfies the invariant.
LEMMA CoroInvInit == Init => CoroInv
<1> SUFFICES ASSUME Init PROVE CoroInv
  OBVIOUS
<1>1. TypeOK
  <2>1. waiters \in Seq(Coroutines) /\ stack \in [Threads -> Seq(Coroutines)]
    BY EmptySeq DEF Init
  <2>2. spinlock \in BOOLEAN /\ lock_flag \in BOOLEAN
    BY DEF Init
  <2>3. guards \subseteq {"frame", "list"} \X Coroutines
    BY DEF Init
  <2> QED BY <2>1, <2>2, <2>3 DEF Init, TypeOK
<1>2. SpinlockOwned
  BY DEF Init, SpinlockOwned, Holders
<1>3. \A t \in Threads : stack[t] = <<>> /\ Len(stack[t]) = 0
  BY EmptySeq DEF Init
<1>4. OneActivation
  BY <1>3 DEF Init, OneActivation, Suspended
<1>5. GuardInv
  BY <1>3 DEF Init, GuardInv, OnTop
<1>6. OwnerInv
  BY CoroMutexAssumption DEF Init, OwnerInv, Granted
<1>7. ParkedInv
  BY CoroMutexAssumption, EmptySeq DEF Init, ParkedInv
<1> QED BY <1>1, <1>2, <1>4, <1>5, <1>6, <1>7 DEF CoroInv

\* A step that neither moves a coroutine between stacks nor suspends one.
LEMMA ActivationKept ==
    ASSUME OneActivation, TypeOK, UNCHANGED stackVars,
           \A c \in Coroutines : Suspended(c)' <=> Suspended(c)
    PROVE  OneActivation'
<1>1. \A t \in Threads : \A i \in 1..Len(stack[t]) : stack[t][i] \in Coroutines
  BY StackFacts
<1>2. stack' = stack /\ \A t, i : Active(t, i)' <=> Active(t, i)
  BY DEF stackVars, Active
<1> HIDE DEF Active, Suspended
<1> QED BY <1>1, <1>2 DEF OneActivation

\* A step that leaves the list, the owner and the parked coroutines alone.
LEMMA ParkedKept ==
    ASSUME ParkedInv, TypeOK, UNCHANGED <<waiters, waiter, owner>>,
           \A c \in Coroutines : pc'[c] = "resume" <=> pc[c] = "resume",
           \A c \in Coroutines : pc'[c] = "parked" <=> pc[c] = "parked"
    PROVE  ParkedInv'
<1>1. \A i \in 1..Len(waiters) : waiters[i] \in Coroutines
  BY ElementOfSeq DEF TypeOK
<1>2. \A c \in Coroutines : waiter[c] # NULL => waiter[c] \in Coroutines
  BY DEF TypeOK
<1> QED BY <1>1, <1>2 DEF ParkedInv

\* A thread runs a coroutine: it is on its stack, and not suspended.
LEMMA RunsFacts ==
    ASSUME CoroInv, NEW t \in Threads, NEW c \in Coroutines, Runs(t, c)
    PROVE  /\ Len(stack[t]) \in 1..Len(stack[t])
           /\ stack[t][Len(stack[t])] = c
           /\ Active(t, Len(stack[t]))
           /\ ~Suspended(c)
           /\ \A i \in 1..Len(stack[t]) - 1 : stack[t][i] # c
<1>1. stack[t] # <<>> /\ stack[t][Len(stack[t])] = c /\ tpc[t] = "run"
  BY DEF Runs, OnTop
<1>2. Len(stack[t]) \in 1..Len(stack[t]) /\ Len(stack[t]) \in Nat
  BY <1>1, StackFacts DEF CoroInv
<1>3. Active(t, Len(stack[t]))
  BY <1>1 DEF Active
<1>4. ~Suspended(c)
  BY <1>1, <1>2, <1>3 DEF CoroInv, OneActivation
<1>5. ASSUME NEW i \in 1..Len(stack[t]) - 1, stack[t][i] = c
      PROVE  FALSE
  <2>1. i \in 1..Len(stack[t]) /\ i < Len(stack[t])
    BY <1>2, <1>5
  <2>2. Active(t, i)
    BY <2>1 DEF Active
  <2>3. i = Len(stack[t])
    BY <2>1, <2>2, <1>1, <1>2, <1>3, <1>5 DEF CoroInv, OneActivation
  <2> QED BY <2>1, <2>3
<1> QED BY <1>1, <1>2, <1>3, <1>4, <1>5

\* A coroutine that a thread runs at the top of its stack is not inside another
\* unlock, and the thread is the only one to run it.
LEMMA RunsAlone ==
    ASSUME CoroInv, NEW t \in Threads, NEW c \in Coroutines, Runs(t, c), pc[c] # "unlocked",
           NEW s \in Threads, NEW i \in 1..Len(stack[s]) - 1
    PROVE  stack[s][i] # c
BY DEF CoroInv, GuardInv

\* The coroutines below the top of a stack stay between Unlock and their next
\* step while another one moves.
LEMMA BelowUnlocked ==
    ASSUME CoroInv, NEW t \in Threads, NEW c \in Coroutines, Runs(t, c), pc[c] # "unlocked",
           \A d \in Coroutines : d # c => pc'[d] = pc[d]
    PROVE  \A s \in Threads : \A i \in 1..Len(stack[s]) - 1 : pc'[stack[s][i]] = "unlocked"
<1> SUFFICES ASSUME NEW s \in Threads, NEW i \in 1..Len(stack[s]) - 1
             PROVE  pc'[stack[s][i]] = "unlocked"
  OBVIOUS
<1>1. i \in 1..Len(stack[s])
  BY StackFacts DEF CoroInv
<1>2. stack[s][i] \in Coroutines
  BY <1>1, StackFacts DEF CoroInv
<1>3. stack[s][i] # c
  BY RunsAlone
<1>4. pc[stack[s][i]] = "unlocked"
  BY DEF CoroInv, GuardInv
<1> QED BY <1>2, <1>3, <1>4

\* operator co_await takes the spinlock.
LEMMA CoroInvCoAwait ==
    ASSUME CoroInv, NEW t \in Threads, NEW c \in Coroutines, CoAwait(t, c)
    PROVE  CoroInv'
<1> USE DEF CoroInv
<1>0. /\ ~spinlock /\ spinlock' = TRUE /\ pc[c] = "lock" /\ Goto(c, "ready") /\ Runs(t, c)
      /\ guards' = guards \union {<<"frame", c>>}
      /\ UNCHANGED <<lock_flag, waiters, owner, stack, tpc, waiter, sections>>
  BY DEF CoAwait, Lock, stackVars
<1>1. pc'[c] = "ready" /\ \A d \in Coroutines : d # c => pc'[d] = pc[d]
  BY <1>0, GotoFacts
<1>2. TypeOK'
  BY <1>0 DEF TypeOK, Goto
<1>3. Holders' = Holders \union {<<"frame", c>>}
  BY <1>0, <1>1 DEF Holders
<1>4. SpinlockOwned'
  BY <1>0, <1>3, SpinTaken
<1>5. OneActivation'
  BY <1>0, <1>1, ActivationKept DEF Suspended, stackVars
<1>6. GuardInv'
  <2>1. ASSUME NEW d \in Coroutines
        PROVE  <<"frame", d>> \in guards' <=> pc'[d] = "ready"
    BY <1>0, <1>1 DEF GuardInv
  <2>2. ASSUME NEW d \in Coroutines
        PROVE  <<"list", d>> \in guards' <=> <<"list", d>> \in guards
    BY <1>0
  <2>3. \A s \in Threads : \A i \in 1..Len(stack[s]) - 1 : pc'[stack[s][i]] = "unlocked"
    BY <1>0, <1>1, BelowUnlocked
  <2> QED BY <1>0, <2>1, <2>2, <2>3 DEF GuardInv, OnTop
<1>7. OwnerInv'
  BY <1>0, <1>1 DEF OwnerInv, Granted
<1>8. ParkedInv'
  BY <1>0, <1>1, ParkedKept
<1> QED BY <1>2, <1>4, <1>5, <1>6, <1>7, <1>8

\* await_ready takes the mutex and releases the guard.
LEMMA CoroInvAwaitReady ==
    ASSUME CoroInv, NEW t \in Threads, NEW c \in Coroutines, AwaitReady(t, c)
    PROVE  CoroInv'
<1> USE DEF CoroInv
<1>0. /\ ~lock_flag /\ lock_flag' = TRUE /\ owner' = c /\ spinlock' = FALSE
      /\ pc[c] = "ready" /\ Goto(c, "granted") /\ Runs(t, c)
      /\ guards' = guards \ {<<"frame", c>>}
      /\ UNCHANGED <<waiters, stack, tpc, waiter, sections>>
  BY DEF AwaitReady, TryLock, stackVars
<1>1. pc'[c] = "granted" /\ \A d \in Coroutines : d # c => pc'[d] = pc[d]
  BY <1>0, GotoFacts
<1>2. TypeOK'
  BY <1>0 DEF TypeOK, Goto
<1>3. <<"frame", c>> \in Holders /\ Holders' = Holders \ {<<"frame", c>>}
  BY <1>0, <1>1 DEF Holders, GuardInv
<1>4. SpinlockOwned'
  BY <1>0, <1>3, SpinReleased
<1>5. OneActivation'
  BY <1>0, <1>1, ActivationKept DEF Suspended, stackVars
<1>6. GuardInv'
  <2>1. ASSUME NEW d \in Coroutines
        PROVE  <<"frame", d>> \in guards' <=> pc'[d] = "ready"
    BY <1>0, <1>1 DEF GuardInv
  <2>2. ASSUME NEW d \in Coroutines
        PROVE  <<"list", d>> \in guards' <=> <<"list", d>> \in guards
    BY <1>0
  <2>3. \A s \in Threads : \A i \in 1..Len(stack[s]) - 1 : pc'[stack[s][i]] = "unlocked"
    BY <1>0, <1>1, BelowUnlocked
  <2> QED BY <1>0, <2>1, <2>2, <2>3 DEF GuardInv, OnTop
<1>7. owner = NULL /\ waiters = <<>> /\ c # NULL /\ Len(waiters) = 0
  BY <1>0, CoroMutexAssumption, EmptySeq DEF OwnerInv
<1>8. OwnerInv'
  BY <1>0, <1>1, <1>7, CoroMutexAssumption DEF OwnerInv, Granted
<1>9. ParkedInv'
  BY <1>0, <1>1, <1>7, CoroMutexAssumption DEF ParkedInv, TypeOK
<1> QED BY <1>2, <1>4, <1>5, <1>6, <1>8, <1>9

\* await_resume destroys the awaiter in the frame, which has no guard left.
LEMMA CoroInvAwaitResume ==
    ASSUME CoroInv, NEW t \in Threads, NEW c \in Coroutines, AwaitResume(t, c)
    PROVE  CoroInv'
<1> USE DEF CoroInv
<1>0. /\ pc[c] = "granted" /\ Goto(c, "section") /\ Runs(t, c)
      /\ UNCHANGED <<spinlock, guards, lock_flag, waiters, owner, stack, tpc, waiter, sections>>
  <2>1. pc[c] = "granted"
    BY DEF AwaitResume
  <2>2. <<"frame", c>> \notin guards
    BY <2>1 DEF GuardInv
  <2> QED BY <2>1, <2>2 DEF AwaitResume, stackVars
<1>1. pc'[c] = "section" /\ \A d \in Coroutines : d # c => pc'[d] = pc[d]
  BY <1>0, GotoFacts
<1>2. TypeOK'
  BY <1>0 DEF TypeOK, Goto
<1>3. Holders' = Holders
  BY <1>0, <1>1 DEF Holders
<1>4. SpinlockOwned'
  BY <1>0, <1>3 DEF SpinlockOwned
<1>5. OneActivation'
  BY <1>0, <1>1, ActivationKept DEF Suspended, stackVars
<1>6. GuardInv'
  <2>1. \A s \in Threads : \A i \in 1..Len(stack[s]) - 1 : pc'[stack[s][i]] = "unlocked"
    BY <1>0, <1>1, BelowUnlocked
  <2> QED BY <1>0, <1>1, <2>1 DEF GuardInv, OnTop
<1>7. OwnerInv'
  BY <1>0, <1>1 DEF OwnerInv, Granted
<1>8. ParkedInv'
  BY <1>0, <1>1, ParkedKept
<1> QED BY <1>2, <1>4, <1>5, <1>6, <1>7, <1>8

\* Unlock takes the spinlock.
LEMMA CoroInvUnlock ==
    ASSUME CoroInv, NEW t \in Threads, NEW c \in Coroutines, Unlock(t, c)
    PROVE  CoroInv'
<1> USE DEF CoroInv
<1>0. /\ ~spinlock /\ spinlock' = TRUE /\ pc[c] = "section" /\ Goto(c, "unlock") /\ Runs(t, c)
      /\ UNCHANGED <<guards, lock_flag, waiters, owner, stack, tpc, waiter, sections>>
  BY DEF Unlock, Lock, stackVars
<1>1. pc'[c] = "unlock" /\ \A d \in Coroutines : d # c => pc'[d] = pc[d]
  BY <1>0, GotoFacts
<1>2. TypeOK'
  BY <1>0 DEF TypeOK, Goto
<1>3. Holders' = Holders \union {<<"unlock", c>>}
  BY <1>0, <1>1 DEF Holders
<1>4. SpinlockOwned'
  BY <1>0, <1>3, SpinTaken
<1>5. OneActivation'
  BY <1>0, <1>1, ActivationKept DEF Suspended, stackVars
<1>6. GuardInv'
  <2>1. \A s \in Threads : \A i \in 1..Len(stack[s]) - 1 : pc'[stack[s][i]] = "unlocked"
    BY <1>0, <1>1, BelowUnlocked
  <2> QED BY <1>0, <1>1, <2>1 DEF GuardInv, OnTop
<1>7. OwnerInv'
  BY <1>0, <1>1 DEF OwnerInv, Granted
<1>8. ParkedInv'
  BY <1>0, <1>1, ParkedKept
<1> QED BY <1>2, <1>4, <1>5, <1>6, <1>7, <1>8

\* Unlock finds no waiter.
LEMMA CoroInvUnlockFree ==
    ASSUME CoroInv, NEW t \in Threads, NEW c \in Coroutines, UnlockFree(t, c)
    PROVE  CoroInv'
<1> USE DEF CoroInv
<1>0. /\ spinlock' = FALSE /\ lock_flag' = FALSE /\ owner' = NULL /\ waiters = <<>>
      /\ pc[c] = "unlock" /\ Goto(c, "unlocked") /\ Runs(t, c)
      /\ UNCHANGED <<guards, waiters, stack, tpc, waiter, sections>>
  BY DEF UnlockFree, stackVars
<1>1. pc'[c] = "unlocked" /\ \A d \in Coroutines : d # c => pc'[d] = pc[d]
  BY <1>0, GotoFacts
<1>2. TypeOK'
  BY <1>0 DEF TypeOK, Goto
<1>3. <<"unlock", c>> \in Holders
  BY <1>0 DEF Holders
<1>4. Holders' = Holders \ {<<"unlock", c>>}
  BY <1>0, <1>1, GuardKinds DEF Holders
<1>5. SpinlockOwned'
  BY <1>0, <1>3, <1>4, SpinReleased
<1>6. OneActivation'
  BY <1>0, <1>1, ActivationKept DEF Suspended, stackVars
<1>7. GuardInv'
  <2>1. \A s \in Threads : \A i \in 1..Len(stack[s]) - 1 : pc'[stack[s][i]] = "unlocked"
    BY <1>0, <1>1, BelowUnlocked
  <2> QED BY <1>0, <1>1, <2>1 DEF GuardInv, OnTop
<1>8. owner = c /\ c # NULL /\ \A d \in Coroutines : waiter[d] = NULL
  <2>1. owner = c /\ c # NULL
    BY <1>0, CoroMutexAssumption DEF OwnerInv, Granted
  <2>2. \A d \in Coroutines : waiter[d] # NULL => pc[c] = "parked"
    BY <2>1 DEF ParkedInv
  <2> QED BY <1>0, <2>1, <2>2
<1>9. OwnerInv'
  BY <1>0, <1>1, <1>8, CoroMutexAssumption DEF OwnerInv, Granted
<1>10. ParkedInv'
  <2>1. Len(waiters) = 0
    BY <1>0, EmptySeq
  <2> QED BY <1>0, <1>1, <1>8, <2>1 DEF ParkedInv
<1> QED BY <1>2, <1>5, <1>6, <1>7, <1>9, <1>10

\* Unlock passes the mutex to the first waiter.
LEMMA CoroInvUnlockPop ==
    ASSUME CoroInv, NEW t \in Threads, NEW c \in Coroutines, UnlockPop(t, c)
    PROVE  CoroInv'
<1> USE DEF CoroInv
<1> DEFINE w == Head(waiters)
<1>0. /\ spinlock' = FALSE /\ waiters # <<>>
      /\ pc[c] = "unlock" /\ Goto(c, "resume") /\ Runs(t, c)
      /\ waiter' = [waiter EXCEPT ![c] = w] /\ waiters' = Tail(waiters) /\ owner' = w
      /\ UNCHANGED <<guards, lock_flag, stack, tpc, sections>>
  BY DEF UnlockPop, stackVars
<1>1. pc'[c] = "resume" /\ \A d \in Coroutines : d # c => pc'[d] = pc[d]
  BY <1>0, GotoFacts
<1>2. /\ waiters \in Seq(Coroutines) /\ Len(waiters) \in Nat \ {0} /\ w = waiters[1] /\ w \in Coroutines
      /\ waiters' \in Seq(Coroutines) /\ Len(waiters') = Len(waiters) - 1
      /\ \A i \in 1..Len(waiters) - 1 : waiters'[i] = waiters[i + 1]
  BY <1>0, TailAt DEF TypeOK
<1> HIDE DEF w
<1>3. TypeOK'
  BY <1>0, <1>2 DEF TypeOK, Goto
<1>4. <<"unlock", c>> \in Holders
  BY <1>0 DEF Holders
<1>5. Holders' = Holders \ {<<"unlock", c>>}
  BY <1>0, <1>1, GuardKinds DEF Holders
<1>6. SpinlockOwned'
  BY <1>0, <1>4, <1>5, SpinReleased
<1>7. OneActivation'
  BY <1>0, <1>1, ActivationKept DEF Suspended, stackVars
<1>8. GuardInv'
  <2>1. \A s \in Threads : \A i \in 1..Len(stack[s]) - 1 : pc'[stack[s][i]] = "unlocked"
    BY <1>0, <1>1, BelowUnlocked
  <2> QED BY <1>0, <1>1, <2>1 DEF GuardInv, OnTop
<1>9. owner = c /\ c # NULL /\ w # NULL /\ \A d \in Coroutines : waiter[d] = NULL
  <2>1. owner = c /\ c # NULL
    BY <1>0, CoroMutexAssumption DEF OwnerInv, Granted
  <2>2. \A d \in Coroutines : waiter[d] # NULL => pc[c] = "parked"
    BY <2>1 DEF ParkedInv
  <2> QED BY <1>0, <1>2, <2>1, <2>2, CoroMutexAssumption
<1>10. waiter'[c] = w /\ \A d \in Coroutines : d # c => waiter'[d] = NULL
  BY <1>0, <1>9 DEF TypeOK
<1>11. pc[w] = "parked" /\ w # c /\ pc'[w] = "parked"
  BY <1>0, <1>1, <1>2 DEF ParkedInv
<1>12. OwnerInv'
  <2>1. \A d \in Coroutines : ~Granted(d)'
    BY <1>0, <1>1, <1>9 DEF Granted, OwnerInv
  <2> QED BY <1>0, <1>9, <1>10, <2>1 DEF OwnerInv
<1>13. ParkedInv'
  <2>1. \A i \in 1..Len(waiters') : /\ i + 1 \in 1..Len(waiters)
                                   /\ waiters'[i] = waiters[i + 1]
                                   /\ waiters[i + 1] \in Coroutines
    BY <1>2, ElementOfSeq
  <2>2. \A i \in 1..Len(waiters') : pc'[waiters'[i]] = "parked" /\ waiters'[i] # w
    <3> SUFFICES ASSUME NEW i \in 1..Len(waiters')
                 PROVE  pc'[waiters'[i]] = "parked" /\ waiters'[i] # w
      OBVIOUS
    <3>1. pc[waiters'[i]] = "parked" /\ waiters'[i] \in Coroutines
      BY <2>1 DEF ParkedInv
    <3>2. 1 \in 1..Len(waiters) /\ i + 1 \in 1..Len(waiters) /\ i + 1 # 1
      BY <1>2, <2>1
    <3>3. waiters'[i] # w
      BY <3>2, <1>2, <2>1 DEF ParkedInv
    <3> QED BY <3>1, <3>3, <1>0, <1>1
  <2>3. \A i, j \in 1..Len(waiters') : waiters'[i] = waiters'[j] => i = j
    <3> SUFFICES ASSUME NEW i \in 1..Len(waiters'), NEW j \in 1..Len(waiters'),
                        waiters'[i] = waiters'[j]
                 PROVE  i = j
      OBVIOUS
    <3>1. i + 1 = j + 1
      BY <2>1 DEF ParkedInv
    <3> QED BY <3>1, <1>2
  <2>4. ASSUME NEW d \in Coroutines, pc'[d] = "parked"
        PROVE  \/ \E i \in 1..Len(waiters') : waiters'[i] = d
               \/ \E e \in Coroutines : waiter'[e] = d
    <3>1. pc[d] = "parked" /\ d # NULL
      BY <2>4, <1>0, <1>1, CoroMutexAssumption
    <3>2. PICK i \in 1..Len(waiters) : waiters[i] = d
      BY <3>1, <1>9 DEF ParkedInv
    <3>3. CASE i = 1
      BY <3>2, <3>3, <1>2, <1>10
    <3>4. CASE i # 1
      <4>1. i - 1 \in 1..Len(waiters') /\ (i - 1) + 1 = i
        BY <3>4, <1>2
      <4> QED BY <4>1, <3>2, <2>1
    <3> QED BY <3>3, <3>4
  <2>5. \A d \in Coroutines : waiter'[d] # NULL <=> pc'[d] = "resume"
    BY <1>1, <1>9, <1>10 DEF ParkedInv
  <2> QED BY <1>0, <1>9, <1>10, <1>11, <2>2, <2>3, <2>4, <2>5 DEF ParkedInv
<1> QED BY <1>3, <1>6, <1>7, <1>8, <1>12, <1>13

\* await_suspend moves the awaiter into the list.
LEMMA CoroInvPark ==
    ASSUME CoroInv, NEW t \in Threads, NEW c \in Coroutines, Park(t, c)
    PROVE  CoroInv'
<1> USE DEF CoroInv
<1>0. /\ lock_flag /\ pc[c] = "ready" /\ Goto(c, "parked") /\ Runs(t, c)
      /\ waiters' = Append(waiters, c)
      /\ tpc' = [tpc EXCEPT ![t] = "release"]
      /\ UNCHANGED <<spinlock, lock_flag, owner, stack, waiter, sections>>
  BY DEF Park
<1>1. pc'[c] = "parked" /\ \A d \in Coroutines : d # c => pc'[d] = pc[d]
  BY <1>0, GotoFacts
<1>2. /\ <<"frame", c>> \in guards
      /\ guards' = (guards \ {<<"frame", c>>}) \union {<<"list", c>>}
  BY <1>0 DEF Park, MoveGuard, GuardInv
<1>3. /\ waiters \in Seq(Coroutines) /\ waiters' \in Seq(Coroutines)
      /\ Len(waiters) \in Nat /\ Len(waiters') = Len(waiters) + 1
      /\ waiters'[Len(waiters) + 1] = c
      /\ \A i \in 1..Len(waiters) : waiters'[i] = waiters[i] /\ waiters[i] \in Coroutines
  BY <1>0, AppendAt, ElementOfSeq DEF TypeOK
<1>4. tpc'[t] = "release" /\ \A s \in Threads : s # t => tpc'[s] = tpc[s]
  BY <1>0 DEF TypeOK
<1>5. TypeOK'
  BY <1>0, <1>2, <1>3 DEF TypeOK, Goto
<1>6. Holders' = (Holders \ {<<"frame", c>>}) \union {<<"list", c>>} /\ <<"frame", c>> \in Holders
  BY <1>0, <1>1, <1>2 DEF Holders
<1>7. SpinlockOwned'
  BY <1>0, <1>6, SpinMoved
<1>8. stack[t] # <<>> /\ stack[t][Len(stack[t])] = c /\ tpc[t] = "run"
  BY <1>0 DEF Runs, OnTop
<1>9. ASSUME NEW s \in Threads, NEW i \in 1..Len(stack[s])
      PROVE  Active(s, i)' <=> Active(s, i) /\ stack[s][i] # c
  <2>0. Len(stack[s]) \in Nat /\ Len(stack[t]) \in 1..Len(stack[t])
    BY StackFacts, <1>8
  <2>1. CASE s = t
    <3>1. CASE i = Len(stack[t])
      BY <2>0, <2>1, <3>1, <1>0, <1>4, <1>8 DEF Active
    <3>2. CASE i # Len(stack[t])
      <4>1. i \in 1..Len(stack[t]) - 1 /\ i < Len(stack[t])
        BY <2>0, <2>1, <3>2
      <4>2. stack[t][i] # c
        BY <4>1, <1>0, RunsFacts
      <4> QED BY <2>1, <4>1, <4>2, <1>0 DEF Active
    <3> QED BY <3>1, <3>2
  <2>2. CASE s # t
    <3>1. Active(s, i)' <=> Active(s, i)
      BY <2>2, <1>0, <1>4 DEF Active
    <3>2. Active(t, Len(stack[t]))
      BY <1>8 DEF Active
    <3>3. Active(s, i) => stack[s][i] # c
      <4> HIDE DEF Active
      <4> QED BY <2>0, <2>2, <3>2, <1>8 DEF OneActivation
    <3> QED BY <3>1, <3>3
  <2> QED BY <2>1, <2>2
<1>10. OneActivation'
  <2>1. \A d \in Coroutines : d # c => (Suspended(d)' <=> Suspended(d))
    BY <1>1 DEF Suspended
  <2>2. Suspended(c)'
    BY <1>1 DEF Suspended
  <2>3. \A s \in Threads : \A i \in 1..Len(stack[s]) : stack[s][i] \in Coroutines
    BY StackFacts
  <2> HIDE DEF Active, Suspended
  <2> QED BY <2>1, <2>2, <2>3, <1>0, <1>9 DEF OneActivation
<1>11. GuardInv'
  <2>1. ASSUME NEW d \in Coroutines
        PROVE  <<"frame", d>> \in guards' <=> pc'[d] = "ready"
    BY <1>0, <1>1, <1>2 DEF GuardInv
  <2>2. \A s \in Threads : tpc[s] # "release"
    BY <1>0, SpinAlone
  <2>3. ASSUME NEW d \in Coroutines
        PROVE  <<"list", d>> \in guards' <=> d = c
    BY <1>2, <2>2 DEF GuardInv
  <2>4. \A s \in Threads : tpc'[s] = "release" <=> s = t
    BY <1>4, <2>2
  <2>5. \A s \in Threads : \A i \in 1..Len(stack[s]) - 1 : pc'[stack[s][i]] = "unlocked"
    BY <1>0, <1>1, BelowUnlocked
  <2>6. \A s \in Threads : tpc'[s] # "run" => stack'[s] # <<>>
    BY <1>0, <1>4, <1>8 DEF GuardInv
  <2>7. ASSUME NEW d \in Coroutines
        PROVE  <<"list", d>> \in guards'
                   <=> \E s \in Threads : OnTop(s, d)' /\ tpc'[s] = "release"
    BY <2>3, <2>4, <1>0, <1>8 DEF OnTop
  <2> QED BY <2>1, <2>4, <2>5, <2>6, <2>7, <1>0 DEF GuardInv
<1>12. owner # NULL /\ owner # c
  BY <1>0, CoroMutexAssumption DEF OwnerInv, ParkedInv, Granted
<1>13. OwnerInv'
  BY <1>0, <1>1, <1>12 DEF OwnerInv, Granted
<1>14. ParkedInv'
  <2>1. \A i \in 1..Len(waiters) : waiters[i] # c
    BY <1>0 DEF ParkedInv
  <2>2. \A i \in 1..Len(waiters') : pc'[waiters'[i]] = "parked" /\ waiters'[i] # owner'
    BY <1>0, <1>1, <1>3, <1>12, <2>1 DEF ParkedInv
  <2>3. \A i, j \in 1..Len(waiters') : waiters'[i] = waiters'[j] => i = j
    BY <1>3, <2>1 DEF ParkedInv
  <2>4. ASSUME NEW d \in Coroutines, pc'[d] = "parked"
        PROVE  \/ \E i \in 1..Len(waiters') : waiters'[i] = d
               \/ \E e \in Coroutines : waiter'[e] = d
    <3>1. CASE d = c
      <4>1. Len(waiters) + 1 \in 1..Len(waiters')
        BY <1>3
      <4> QED BY <3>1, <4>1, <1>3
    <3>2. CASE d # c
      <4>1. CASE \E i \in 1..Len(waiters) : waiters[i] = d
        BY <4>1, <1>3
      <4>2. CASE \E e \in Coroutines : waiter[e] = d
        BY <4>2, <1>0
      <4> QED BY <2>4, <3>2, <4>1, <4>2, <1>1 DEF ParkedInv
    <3> QED BY <3>1, <3>2
  <2>5. \A d \in Coroutines : /\ waiter'[d] # NULL <=> pc'[d] = "resume"
                              /\ waiter'[d] # NULL => owner' = waiter'[d] /\ pc'[owner'] = "parked"
    <3>1. \A d \in Coroutines : waiter[d] # NULL => waiter[d] \in Coroutines
      BY DEF TypeOK
    <3> QED BY <1>0, <1>1, <1>12, <3>1 DEF ParkedInv
  <2>6. \A d, e \in Coroutines : waiter'[d] # NULL /\ waiter'[e] # NULL => d = e
    BY <1>0 DEF ParkedInv
  <2> QED BY <2>2, <2>3, <2>4, <2>5, <2>6 DEF ParkedInv
<1> QED BY <1>5, <1>7, <1>10, <1>11, <1>13, <1>14

\* ReleaseLock, through the awaiter at the end of the list.
LEMMA CoroInvParkRelease ==
    ASSUME CoroInv, NEW t \in Threads, NEW c \in Coroutines, ParkRelease(t, c)
    PROVE  CoroInv'
<1> USE DEF CoroInv
<1>0. /\ OnTop(t, c) /\ tpc[t] = "release"
      /\ guards' = guards \ {<<"list", c>>}
      /\ tpc' = [tpc EXCEPT ![t] = "return"]
      /\ UNCHANGED <<lock_flag, waiters, owner, stack, pc, waiter, sections>>
  BY DEF ParkRelease, coroVars
<1>1. <<"list", c>> \in guards
  BY <1>0 DEF GuardInv
<1>2. spinlock' = FALSE
  BY <1>1 DEF ParkRelease
<1>3. tpc'[t] = "return" /\ \A s \in Threads : s # t => tpc'[s] = tpc[s]
  BY <1>0 DEF TypeOK
<1>4. TypeOK'
  BY <1>0, <1>2 DEF TypeOK
<1>5. Holders' = Holders \ {<<"list", c>>} /\ <<"list", c>> \in Holders
  BY <1>0, <1>1 DEF Holders
<1>6. SpinlockOwned'
  BY <1>2, <1>5, SpinReleased
<1>7. \A s \in Threads : tpc'[s] = "run" <=> tpc[s] = "run"
  BY <1>0, <1>3
<1>8. OneActivation'
  <2>1. \A s \in Threads : \A i : Active(s, i)' <=> Active(s, i)
    BY <1>0, <1>7 DEF Active
  <2>2. \A d : Suspended(d)' <=> Suspended(d)
    BY <1>0 DEF Suspended
  <2> HIDE DEF Active, Suspended
  <2> QED BY <1>0, <2>1, <2>2 DEF OneActivation
<1>9. GuardInv'
  <2>1. \A s \in Threads : tpc'[s] # "release"
    BY <1>0, <1>3 DEF GuardInv
  <2>2. ASSUME NEW d \in Coroutines, <<"list", d>> \in guards'
        PROVE  FALSE
    <3>1. <<"list", d>> \in guards /\ d # c
      BY <2>2, <1>0
    <3>2. PICK s \in Threads : OnTop(s, d) /\ tpc[s] = "release"
      BY <3>1 DEF GuardInv
    <3>3. s = t
      BY <3>2, <1>0 DEF GuardInv
    <3> QED BY <3>1, <3>2, <3>3, <1>0 DEF OnTop
  <2>3. ASSUME NEW d \in Coroutines
        PROVE  <<"frame", d>> \in guards' <=> pc'[d] = "ready"
    BY <1>0 DEF GuardInv
  <2>4. \A s \in Threads : tpc'[s] # "run" => stack'[s] # <<>>
    BY <1>0, <1>7 DEF GuardInv
  <2> QED BY <1>0, <2>1, <2>2, <2>3, <2>4 DEF GuardInv
<1>10. OwnerInv'
  BY <1>0 DEF OwnerInv, Granted
<1>11. ParkedInv'
  BY <1>0 DEF ParkedInv
<1> QED BY <1>4, <1>6, <1>8, <1>9, <1>10, <1>11

\* await_suspend returns to whoever has called or resumed the coroutine.
LEMMA CoroInvParkReturn ==
    ASSUME CoroInv, NEW t \in Threads, NEW c \in Coroutines, ParkReturn(t, c)
    PROVE  CoroInv'
<1> USE DEF CoroInv
<1>0. /\ stack[t] # <<>> /\ tpc[t] = "return"
      /\ stack' = [stack EXCEPT ![t] = Front(stack[t])]
      /\ tpc' = [tpc EXCEPT ![t] = "run"]
      /\ UNCHANGED <<spinlock, guards, lock_flag, waiters, owner, pc, waiter, sections>>
  BY DEF ParkReturn, OnTop, mutexVars, coroVars
<1>1. tpc'[t] = "run" /\ \A s \in Threads : s # t => tpc'[s] = tpc[s]
  BY <1>0 DEF TypeOK
<1>2. stack'[t] = Front(stack[t]) /\ \A s \in Threads : s # t => stack'[s] = stack[s]
  BY <1>0 DEF TypeOK
<1>3. /\ stack'[t] \in Seq(Coroutines) /\ Len(stack[t]) \in Nat \ {0}
      /\ Len(stack'[t]) = Len(stack[t]) - 1
      /\ \A i \in 1..Len(stack'[t]) : stack'[t][i] = stack[t][i]
  BY <1>0, <1>2, FrontAt, StackFacts
<1>4. TypeOK'
  BY <1>0, <1>2, <1>3 DEF TypeOK
<1>5. SpinlockOwned'
  BY <1>0 DEF SpinlockOwned, Holders
<1>6. OneActivation'
  <2>1. ASSUME NEW s \in Threads, NEW i \in 1..Len(stack'[s])
        PROVE  i \in 1..Len(stack[s]) /\ stack'[s][i] = stack[s][i]
    BY <1>2, <1>3
  <2>2. ASSUME NEW s \in Threads, NEW i \in 1..Len(stack'[s])
        PROVE  Active(s, i)' <=> Active(s, i)
    <3>1. CASE s = t
      <4>1. i < Len(stack[t])
        BY <3>1, <1>3
      <4> QED BY <3>1, <4>1, <1>1 DEF Active
    <3>2. CASE s # t
      BY <3>2, <1>1, <1>2 DEF Active
    <3> QED BY <3>1, <3>2
  <2>3. ASSUME NEW s \in Threads, NEW i \in 1..Len(stack[s]), Active(s, i)
        PROVE  i \in 1..Len(stack'[s])
    BY <2>3, <1>0, <1>2, <1>3 DEF Active
  <2>4. \A d : Suspended(d)' <=> Suspended(d)
    BY <1>0 DEF Suspended
  <2> HIDE DEF Active, Suspended
  <2>5. \A s \in Threads : \A i \in 1..Len(stack'[s]) :
            \A d : Active(s, i)' /\ stack'[s][i] = d => ~Suspended(d)'
    BY <2>1, <2>2, <2>4 DEF OneActivation
  <2>6. \A r, s \in Threads : \A i \in 1..Len(stack'[r]), j \in 1..Len(stack'[s]) :
            Active(r, i)' /\ Active(s, j)' /\ stack'[r][i] = stack'[s][j] => r = s /\ i = j
    BY <2>1, <2>2 DEF OneActivation
  <2>7. ASSUME NEW d \in Coroutines, ~Suspended(d)'
        PROVE  \E s \in Threads : \E i \in 1..Len(stack'[s]) : Active(s, i)' /\ stack'[s][i] = d
    <3>1. PICK s \in Threads : \E i \in 1..Len(stack[s]) : Active(s, i) /\ stack[s][i] = d
      BY <2>4, <2>7 DEF OneActivation
    <3>2. PICK i \in 1..Len(stack[s]) : Active(s, i) /\ stack[s][i] = d
      BY <3>1
    <3> QED BY <2>1, <2>2, <2>3, <3>2
  <2> QED BY <2>5, <2>6, <2>7 DEF OneActivation
<1>7. GuardInv'
  <2>1. \A s \in Threads : tpc'[s] = "release" <=> s # t /\ tpc[s] = "release"
    BY <1>0, <1>1
  <2>2. ASSUME NEW d \in Coroutines
        PROVE  <<"list", d>> \in guards'
                   <=> \E s \in Threads : OnTop(s, d)' /\ tpc'[s] = "release"
    BY <1>0, <1>2, <2>1 DEF GuardInv, OnTop
  <2>3. \A s \in Threads : tpc'[s] # "run" => stack'[s] # <<>>
    BY <1>1, <1>2 DEF GuardInv
  <2>4. ASSUME NEW s \in Threads, NEW i \in 1..Len(stack'[s]) - 1
        PROVE  i \in 1..Len(stack[s]) - 1 /\ stack'[s][i] = stack[s][i]
    BY <1>2, <1>3
  <2> QED BY <1>0, <2>1, <2>2, <2>3, <2>4 DEF GuardInv
<1>8. OwnerInv'
  BY <1>0 DEF OwnerInv, Granted
<1>9. ParkedInv'
  BY <1>0 DEF ParkedInv
<1> QED BY <1>4, <1>5, <1>6, <1>7, <1>8, <1>9

\* The waiter goes on inside the unlock of c.
LEMMA CoroInvUnlockResume ==
    ASSUME CoroInv, NEW t \in Threads, NEW c \in Coroutines, UnlockResume(t, c)
    PROVE  CoroInv'
<1> USE DEF CoroInv
<1>1. PICK w \in Coroutines : /\ w = waiter[c] /\ owner = w /\ pc[w] = "parked"
                             /\ w # c /\ w # NULL
  <2>1. pc[c] = "resume"
    BY DEF UnlockResume
  <2> QED BY <2>1, CoroMutexAssumption DEF TypeOK, ParkedInv
<1>0. /\ pc[c] = "resume" /\ Runs(t, c)
      /\ stack' = [stack EXCEPT ![t] = Append(stack[t], w)]
      /\ pc' = [pc EXCEPT ![c] = "unlocked", ![w] = "granted"]
      /\ waiter' = [waiter EXCEPT ![c] = NULL]
      /\ UNCHANGED <<spinlock, guards, lock_flag, waiters, owner, tpc, sections>>
  BY <1>1 DEF UnlockResume, mutexVars
<1>2. pc'[c] = "unlocked" /\ pc'[w] = "granted" /\ \A d \in Coroutines : d # c /\ d # w => pc'[d] = pc[d]
  BY <1>0, <1>1 DEF TypeOK
<1>3. stack'[t] = Append(stack[t], w) /\ \A s \in Threads : s # t => stack'[s] = stack[s]
  BY <1>0 DEF TypeOK
<1>4. /\ stack'[t] \in Seq(Coroutines) /\ Len(stack[t]) \in Nat
      /\ Len(stack'[t]) = Len(stack[t]) + 1
      /\ stack'[t][Len(stack[t]) + 1] = w
      /\ \A i \in 1..Len(stack[t]) : stack'[t][i] = stack[t][i]
      /\ stack'[t] # <<>>
  BY <1>1, <1>3, AppendAt, StackFacts
<1>5. /\ stack[t][Len(stack[t])] = c /\ Len(stack[t]) \in 1..Len(stack[t]) /\ tpc[t] = "run"
  BY <1>0, RunsFacts DEF Runs
<1>6. TypeOK'
  BY <1>0, <1>1, <1>3, <1>4 DEF TypeOK
<1>7. SpinlockOwned'
  <2>1. \A d \in Coroutines : pc'[d] = "unlock" <=> pc[d] = "unlock"
    BY <1>0, <1>1, <1>2
  <2>2. Holders' = Holders
    BY <1>0, <2>1 DEF Holders
  <2> QED BY <1>0, <2>2 DEF SpinlockOwned
<1>8. OneActivation'
  <2>1. ASSUME NEW s \in Threads, NEW i \in 1..Len(stack[s])
        PROVE  i \in 1..Len(stack'[s]) /\ stack'[s][i] = stack[s][i] /\ stack[s][i] \in Coroutines
    <3>1. CASE s = t
      BY <3>1, <1>4, StackFacts
    <3>2. CASE s # t
      BY <3>2, <1>3, StackFacts
    <3> QED BY <3>1, <3>2
  <2>2. ASSUME NEW s \in Threads, NEW i \in 1..Len(stack'[s])
        PROVE  i \in 1..Len(stack[s]) \/ (s = t /\ i = Len(stack[t]) + 1 /\ stack'[s][i] = w)
    <3>1. CASE s = t
      BY <3>1, <1>4
    <3>2. CASE s # t
      BY <3>2, <1>3
    <3> QED BY <3>1, <3>2
  <2>3. ASSUME NEW s \in Threads, NEW i \in 1..Len(stack[s])
        PROVE  Active(s, i)' <=> Active(s, i)
    <3>1. CASE s = t
      BY <3>1, <1>0, <1>5 DEF Active
    <3>2. CASE s # t
      BY <3>2, <1>0, <1>3 DEF Active
    <3> QED BY <3>1, <3>2
  <2>4. \E i \in 1..Len(stack'[t]) : Active(t, i)' /\ stack'[t][i] = w
    BY <1>0, <1>4, <1>5 DEF Active
  <2>5. Suspended(w) /\ ~Suspended(w)' /\ \A d \in Coroutines : d # w => (Suspended(d)' <=> Suspended(d))
    BY <1>0, <1>1, <1>2 DEF Suspended
  <2> HIDE DEF Active, Suspended
  <2>6. ASSUME NEW s \in Threads, NEW i \in 1..Len(stack[s]), Active(s, i)
        PROVE  stack[s][i] # w /\ ~Suspended(stack[s][i])'
    BY <2>1, <2>5, <2>6 DEF OneActivation
  <2>7. ASSUME NEW s \in Threads, NEW i \in 1..Len(stack'[s]), Active(s, i)'
        PROVE  ~Suspended(stack[s][i])'
    <3>1. CASE i \in 1..Len(stack[s])
      BY <3>1, <2>3, <2>6, <2>7
    <3>2. CASE i \notin 1..Len(stack[s])
      BY <3>2, <2>2, <2>5
    <3> QED BY <3>1, <3>2
  <2>8. ASSUME NEW r \in Threads, NEW s \in Threads,
               NEW i \in 1..Len(stack'[r]), NEW j \in 1..Len(stack'[s]),
               Active(r, i)', Active(s, j)', stack'[r][i] = stack'[s][j]
        PROVE  r = s /\ i = j
    <3>1. CASE i \in 1..Len(stack[r]) /\ j \in 1..Len(stack[s])
      BY <2>1, <2>3, <2>8, <3>1, ZenonT(60) DEF OneActivation
    <3>2. CASE i \notin 1..Len(stack[r])
      <4>1. r = t /\ i = Len(stack[t]) + 1 /\ stack'[r][i] = w
        BY <2>2, <3>2
      <4>2. j \notin 1..Len(stack[s])
        BY <2>1, <2>3, <2>6, <2>8, <4>1
      <4> QED BY <2>2, <4>1, <4>2
    <3>3. CASE j \notin 1..Len(stack[s])
      <4>1. s = t /\ j = Len(stack[t]) + 1 /\ stack'[s][j] = w
        BY <2>2, <3>3
      <4>2. i \notin 1..Len(stack[r])
        BY <2>1, <2>3, <2>6, <2>8, <4>1
      <4> QED BY <2>2, <4>1, <4>2
    <3> QED BY <3>1, <3>2, <3>3
  <2>9. ASSUME NEW d \in Coroutines, ~Suspended(d)'
        PROVE  \E s \in Threads : \E i \in 1..Len(stack'[s]) : Active(s, i)' /\ stack'[s][i] = d
    <3>1. CASE d = w
      BY <3>1, <2>4
    <3>2. CASE d # w
      <4>1. PICK s \in Threads : \E i \in 1..Len(stack[s]) : Active(s, i) /\ stack[s][i] = d
        BY <2>5, <2>9, <3>2 DEF OneActivation
      <4> QED BY <4>1, <2>1, <2>3
    <3> QED BY <3>1, <3>2
  <2> QED BY <2>7, <2>8, <2>9 DEF OneActivation
<1>9. GuardInv'
  <2>1. ASSUME NEW d \in Coroutines
        PROVE  <<"frame", d>> \in guards' <=> pc'[d] = "ready"
    <3>1. pc'[d] = "ready" <=> pc[d] = "ready"
      BY <1>0, <1>1, <1>2
    <3> QED BY <3>1, <1>0 DEF GuardInv
  <2>2. ASSUME NEW d \in Coroutines
        PROVE  <<"list", d>> \in guards'
                   <=> \E s \in Threads : OnTop(s, d)' /\ tpc'[s] = "release"
    BY <1>0, <1>3, <1>5 DEF GuardInv, OnTop
  <2>3. \A s \in Threads : tpc'[s] # "run" => stack'[s] # <<>>
    BY <1>0, <1>3, <1>4 DEF GuardInv
  <2>4. ASSUME NEW s \in Threads, NEW i \in 1..Len(stack'[s]) - 1
        PROVE  pc'[stack'[s][i]] = "unlocked"
    <3>1. i \in 1..Len(stack[s]) /\ stack'[s][i] = stack[s][i] /\ stack[s][i] \in Coroutines
          /\ (i \in 1..Len(stack[s]) - 1 \/ (s = t /\ i = Len(stack[t])))
      <4>1. CASE s = t
        BY <4>1, <1>4, StackFacts
      <4>2. CASE s # t
        BY <4>2, <1>3, StackFacts
      <4> QED BY <4>1, <4>2
    <3>2. CASE i \in 1..Len(stack[s]) - 1
      <4>1. pc[stack[s][i]] = "unlocked"
        BY <3>2 DEF GuardInv
      <4> QED BY <3>1, <4>1, <1>0, <1>1, <1>2
    <3>3. CASE s = t /\ i = Len(stack[t])
      BY <3>1, <3>3, <1>2, <1>5
    <3> QED BY <3>1, <3>2, <3>3
  <2>5. \A r, s \in Threads : tpc'[r] = "release" /\ tpc'[s] = "release" => r = s
    BY <1>0 DEF GuardInv
  <2> QED BY <2>1, <2>2, <2>3, <2>4, <2>5 DEF GuardInv
<1>10. waiter'[c] = NULL /\ \A d \in Coroutines : waiter'[d] = NULL
  <2>1. \A d \in Coroutines : d # c => waiter[d] = NULL
    BY <1>1 DEF ParkedInv
  <2> QED BY <1>0, <2>1 DEF TypeOK
<1>11. OwnerInv'
  <2>1. Granted(w)' /\ \A d \in Coroutines : d # w => ~Granted(d)'
    BY <1>0, <1>1, <1>2 DEF Granted, OwnerInv
  <2> QED BY <1>0, <1>1, <2>1 DEF OwnerInv
<1>12. ParkedInv'
  <2>1. \A i \in 1..Len(waiters) : waiters[i] \in Coroutines /\ waiters[i] # w /\ waiters[i] # c
    BY <1>0, <1>1, ElementOfSeq DEF ParkedInv, TypeOK
  <2>2. \A d \in Coroutines : pc'[d] = "parked" => pc[d] = "parked" /\ d # w
    BY <1>0, <1>1, <1>2
  <2>3. ASSUME NEW d \in Coroutines, pc'[d] = "parked"
        PROVE  \E i \in 1..Len(waiters) : waiters[i] = d
    <3>1. \A e \in Coroutines : waiter[e] # d
      BY <1>1, <2>2, <2>3, CoroMutexAssumption DEF ParkedInv
    <3> QED BY <2>2, <2>3, <3>1 DEF ParkedInv
  <2>4. \A d \in Coroutines : pc'[d] # "resume"
    <3>1. \A d \in Coroutines : pc[d] = "resume" => d = c
      BY <1>0 DEF ParkedInv
    <3> QED BY <3>1, <1>1, <1>2
  <2>5. \A i \in 1..Len(waiters) : pc'[waiters[i]] = "parked" /\ waiters[i] # owner'
    <3>1. owner' = owner
      BY <1>0
    <3> QED BY <3>1, <1>2, <2>1 DEF ParkedInv
  <2>6. \A i, j \in 1..Len(waiters) : waiters[i] = waiters[j] => i = j
    BY DEF ParkedInv
  <2>7. waiters' = waiters
    BY <1>0
  <2> QED BY <1>10, <2>3, <2>4, <2>5, <2>6, <2>7 DEF ParkedInv
<1> QED BY <1>6, <1>7, <1>8, <1>9, <1>11, <1>12

\* The coroutine goes on to its next section.
LEMMA CoroInvNextSection ==
    ASSUME CoroInv, NEW t \in Threads, NEW c \in Coroutines, UnlockReturn(t, c),
           sections[c] + 1 < Sections[c]
    PROVE  CoroInv'
<1> USE DEF CoroInv
<1>0. /\ pc[c] = "unlocked" /\ Goto(c, "lock") /\ Runs(t, c)
      /\ sections' = [sections EXCEPT ![c] = sections[c] + 1]
      /\ UNCHANGED <<spinlock, guards, lock_flag, waiters, owner, stack, tpc, waiter>>
  BY DEF UnlockReturn, mutexVars
<1>1. pc'[c] = "lock" /\ \A d \in Coroutines : d # c => pc'[d] = pc[d]
  BY <1>0, GotoFacts
<1>2. TypeOK'
  BY <1>0 DEF TypeOK, Goto
<1>3. SpinlockOwned'
  <2>1. Holders' = Holders
    BY <1>0, <1>1 DEF Holders
  <2> QED BY <1>0, <2>1 DEF SpinlockOwned
<1>4. OneActivation'
  BY <1>0, <1>1, ActivationKept DEF Suspended, stackVars
<1>5. GuardInv'
  <2>1. ASSUME NEW s \in Threads, NEW i \in 1..Len(stack[s]) - 1
        PROVE  stack[s][i] # c /\ stack[s][i] \in Coroutines
    <3>1. Len(stack[s]) \in Nat /\ i \in 1..Len(stack[s]) /\ i < Len(stack[s])
      BY StackFacts
    <3>2. Active(s, i)
      BY <3>1 DEF Active
    <3>3. CASE s = t
      BY <3>3, <3>1, StackFacts, <1>0, RunsFacts
    <3>4. CASE s # t
      <4>1. Active(t, Len(stack[t])) /\ Len(stack[t]) \in 1..Len(stack[t]) /\ stack[t][Len(stack[t])] = c
        BY <1>0, RunsFacts
      <4> QED BY <3>1, <3>2, <3>4, <4>1, StackFacts DEF OneActivation
    <3> QED BY <3>3, <3>4
  <2>2. \A s \in Threads : \A i \in 1..Len(stack[s]) - 1 : pc'[stack[s][i]] = "unlocked"
    BY <1>1, <2>1 DEF GuardInv
  <2> QED BY <1>0, <1>1, <2>2 DEF GuardInv, OnTop
<1>6. OwnerInv'
  BY <1>0, <1>1 DEF OwnerInv, Granted
<1>7. ParkedInv'
  BY <1>0, <1>1, ParkedKept
<1> QED BY <1>2, <1>3, <1>4, <1>5, <1>6, <1>7

\* The coroutine ends, and the thread goes back to the unlock that resumed it.
LEMMA CoroInvEnd ==
    ASSUME CoroInv, NEW t \in Threads, NEW c \in Coroutines, UnlockReturn(t, c),
           ~(sections[c] + 1 < Sections[c])
    PROVE  CoroInv'
<1> USE DEF CoroInv
<1>0. /\ pc[c] = "unlocked" /\ Goto(c, "done") /\ Runs(t, c)
      /\ sections' = [sections EXCEPT ![c] = sections[c] + 1]
      /\ stack' = [stack EXCEPT ![t] = Front(stack[t])]
      /\ UNCHANGED <<spinlock, guards, lock_flag, waiters, owner, tpc, waiter>>
  BY DEF UnlockReturn, mutexVars
<1>1. pc'[c] = "done" /\ \A d \in Coroutines : d # c => pc'[d] = pc[d]
  BY <1>0, GotoFacts
<1>2. stack'[t] = Front(stack[t]) /\ \A s \in Threads : s # t => stack'[s] = stack[s]
  BY <1>0 DEF TypeOK
<1>3. /\ stack[t] # <<>> /\ stack[t][Len(stack[t])] = c /\ tpc[t] = "run"
      /\ stack'[t] \in Seq(Coroutines) /\ Len(stack[t]) \in Nat \ {0}
      /\ Len(stack'[t]) = Len(stack[t]) - 1
      /\ \A i \in 1..Len(stack'[t]) : stack'[t][i] = stack[t][i]
  <2>1. stack[t] # <<>> /\ stack[t][Len(stack[t])] = c /\ tpc[t] = "run"
    BY <1>0 DEF Runs, OnTop
  <2>2. stack[t] \in Seq(Coroutines)
    BY StackFacts
  <2>3. /\ Front(stack[t]) \in Seq(Coroutines) /\ Len(stack[t]) \in Nat \ {0}
        /\ Len(Front(stack[t])) = Len(stack[t]) - 1
        /\ \A i \in 1..Len(stack[t]) - 1 : Front(stack[t])[i] = stack[t][i]
    BY <2>1, <2>2, FrontAt
  <2> QED BY <2>1, <2>3, <1>2
<1>4. TypeOK'
  BY <1>0, <1>2, <1>3 DEF TypeOK, Goto
<1>5. SpinlockOwned'
  <2>1. Holders' = Holders
    BY <1>0, <1>1 DEF Holders
  <2> QED BY <1>0, <2>1 DEF SpinlockOwned
<1>6. ASSUME NEW s \in Threads, NEW i \in 1..Len(stack'[s])
      PROVE  /\ i \in 1..Len(stack[s]) /\ stack'[s][i] = stack[s][i]
             /\ stack[s][i] \in Coroutines
             /\ Active(s, i)' <=> Active(s, i)
             /\ Active(s, i) => stack[s][i] # c
  <2>1. Active(t, Len(stack[t])) /\ Len(stack[t]) \in 1..Len(stack[t])
    BY <1>3 DEF Active
  <2>2. CASE s = t
    <3>1. i \in 1..Len(stack[t]) - 1 /\ i \in 1..Len(stack[t]) /\ i < Len(stack[t])
      BY <2>2, <1>3
    <3>2. stack[t][i] # c
      BY <3>1, <1>0, RunsFacts
    <3> QED BY <2>2, <3>1, <3>2, <1>0, <1>3, StackFacts DEF Active
  <2>3. CASE s # t
    <3>1. stack'[s] = stack[s] /\ (Active(s, i)' <=> Active(s, i))
      BY <2>3, <1>0, <1>2 DEF Active
    <3>2. Active(s, i) => stack[s][i] # c
      <4> HIDE DEF Active
      <4> QED BY <2>1, <2>3, <3>1, <1>3 DEF OneActivation
    <3> QED BY <3>1, <3>2, StackFacts
  <2> QED BY <2>2, <2>3
<1>7. OneActivation'
  <2>1. \A d \in Coroutines : d # c => (Suspended(d)' <=> Suspended(d))
    BY <1>1 DEF Suspended
  <2>2. Suspended(c)'
    BY <1>1 DEF Suspended
  <2>3. ASSUME NEW s \in Threads, NEW i \in 1..Len(stack[s]), stack[s][i] # c
        PROVE  i \in 1..Len(stack'[s])
    BY <2>3, <1>2, <1>3
  <2> HIDE DEF Active, Suspended
  <2>4. ASSUME NEW s \in Threads, NEW i \in 1..Len(stack'[s]), Active(s, i)'
        PROVE  ~Suspended(stack[s][i])'
    BY <2>4, <2>1, <1>6 DEF OneActivation
  <2>5. ASSUME NEW r \in Threads, NEW s \in Threads,
               NEW i \in 1..Len(stack'[r]), NEW j \in 1..Len(stack'[s]),
               Active(r, i)', Active(s, j)', stack'[r][i] = stack'[s][j]
        PROVE  r = s /\ i = j
    BY <2>5, <1>6 DEF OneActivation
  <2>6. ASSUME NEW d \in Coroutines, ~Suspended(d)'
        PROVE  \E s \in Threads : \E i \in 1..Len(stack'[s]) : Active(s, i)' /\ stack'[s][i] = d
    <3>1. d # c /\ ~Suspended(d)
      BY <2>1, <2>2, <2>6
    <3>2. PICK s \in Threads : \E i \in 1..Len(stack[s]) : Active(s, i) /\ stack[s][i] = d
      BY <3>1 DEF OneActivation
    <3>3. PICK i \in 1..Len(stack[s]) : Active(s, i) /\ stack[s][i] = d
      BY <3>2
    <3> QED BY <3>1, <3>3, <2>3, <1>6
  <2> QED BY <2>4, <2>5, <2>6 DEF OneActivation
<1>8. GuardInv'
  <2>1. ASSUME NEW d \in Coroutines
        PROVE  <<"frame", d>> \in guards' <=> pc'[d] = "ready"
    <3>1. pc'[d] = "ready" <=> pc[d] = "ready"
      BY <1>0, <1>1
    <3> QED BY <3>1, <1>0 DEF GuardInv
  <2>2. ASSUME NEW d \in Coroutines
        PROVE  <<"list", d>> \in guards'
                   <=> \E s \in Threads : OnTop(s, d)' /\ tpc'[s] = "release"
    BY <1>0, <1>2, <1>3 DEF GuardInv, OnTop
  <2>3. \A s \in Threads : tpc'[s] # "run" => stack'[s] # <<>>
    BY <1>0, <1>2, <1>3 DEF GuardInv
  <2>4. ASSUME NEW s \in Threads, NEW i \in 1..Len(stack'[s]) - 1
        PROVE  pc'[stack'[s][i]] = "unlocked"
    <3>1. i \in 1..Len(stack[s]) - 1 /\ i \in 1..Len(stack'[s]) /\ i < Len(stack[s])
      <4>1. CASE s = t
        BY <4>1, <1>3
      <4>2. CASE s # t
        BY <4>2, <1>2, StackFacts
      <4> QED BY <4>1, <4>2
    <3>2. Active(s, i)
      BY <3>1 DEF Active
    <3> QED BY <3>1, <3>2, <1>1, <1>6 DEF GuardInv
  <2>5. \A r, s \in Threads : tpc'[r] = "release" /\ tpc'[s] = "release" => r = s
    BY <1>0 DEF GuardInv
  <2> QED BY <2>1, <2>2, <2>3, <2>4, <2>5 DEF GuardInv
<1>9. OwnerInv'
  BY <1>0, <1>1 DEF OwnerInv, Granted
<1>10. ParkedInv'
  BY <1>0, <1>1, ParkedKept
<1> QED BY <1>4, <1>5, <1>7, <1>8, <1>9, <1>10

\* A thread calls a coroutine.
LEMMA CoroInvStart ==
    ASSUME CoroInv, NEW t \in Threads, NEW c \in Coroutines, Start(t, c)
    PROVE  CoroInv'
<1> USE DEF CoroInv
<1>0. /\ stack[t] = <<>> /\ pc[c] = "new" /\ Goto(c, "lock")
      /\ stack' = [stack EXCEPT ![t] = <<c>>]
      /\ UNCHANGED <<spinlock, guards, lock_flag, waiters, owner, tpc, waiter, sections>>
  BY DEF Start, mutexVars
<1>1. pc'[c] = "lock" /\ \A d \in Coroutines : d # c => pc'[d] = pc[d]
  BY <1>0, GotoFacts
<1>2. stack'[t] = <<c>> /\ \A s \in Threads : s # t => stack'[s] = stack[s]
  BY <1>0 DEF TypeOK
<1>3. /\ stack'[t] \in Seq(Coroutines) /\ Len(stack[t]) = 0
      /\ Len(stack'[t]) = 1 /\ stack'[t][1] = c /\ stack'[t] # <<>>
  BY <1>0, <1>2, EmptySeq
<1>4. tpc[t] = "run"
  BY <1>0 DEF GuardInv
<1>5. TypeOK'
  BY <1>0, <1>2, <1>3 DEF TypeOK, Goto
<1>6. SpinlockOwned'
  <2>1. Holders' = Holders
    BY <1>0, <1>1 DEF Holders
  <2> QED BY <1>0, <2>1 DEF SpinlockOwned
<1>7. OneActivation'
  <2>1. ASSUME NEW s \in Threads, NEW i \in 1..Len(stack'[s])
        PROVE  \/ s = t /\ i = 1 /\ stack'[s][i] = c
               \/ s # t /\ stack'[s] = stack[s] /\ (Active(s, i)' <=> Active(s, i))
    BY <1>0, <1>2, <1>3 DEF Active
  <2>2. Active(t, 1)' /\ 1 \in 1..Len(stack'[t])
    BY <1>0, <1>3, <1>4 DEF Active
  <2>3. Suspended(c) /\ ~Suspended(c)' /\ \A d \in Coroutines : d # c => (Suspended(d)' <=> Suspended(d))
    BY <1>0, <1>1 DEF Suspended
  <2> HIDE DEF Active, Suspended
  <2>4. ASSUME NEW s \in Threads, NEW i \in 1..Len(stack[s]), Active(s, i)
        PROVE  stack[s][i] # c /\ stack[s][i] \in Coroutines /\ s # t
    BY <2>3, <2>4, <1>3, StackFacts DEF OneActivation
  <2>5. ASSUME NEW s \in Threads, NEW i \in 1..Len(stack'[s]), Active(s, i)'
        PROVE  ~Suspended(stack[s][i])'
    <3>1. CASE s = t
      BY <3>1, <2>1, <2>3
    <3>2. CASE s # t
      BY <3>2, <2>1, <2>3, <2>4, <2>5 DEF OneActivation
    <3> QED BY <3>1, <3>2
  <2>6. ASSUME NEW r \in Threads, NEW s \in Threads,
               NEW i \in 1..Len(stack'[r]), NEW j \in 1..Len(stack'[s]),
               Active(r, i)', Active(s, j)', stack'[r][i] = stack'[s][j]
        PROVE  r = s /\ i = j
    <3>1. CASE r = t /\ s = t
      BY <3>1, <2>1
    <3>2. CASE r = t /\ s # t
      BY <3>2, <2>1, <2>4, <2>6
    <3>3. CASE r # t /\ s = t
      BY <3>3, <2>1, <2>4, <2>6
    <3>4. CASE r # t /\ s # t
      BY <3>4, <2>1, <2>6 DEF OneActivation
    <3> QED BY <3>1, <3>2, <3>3, <3>4
  <2>7. ASSUME NEW d \in Coroutines, ~Suspended(d)'
        PROVE  \E s \in Threads : \E i \in 1..Len(stack'[s]) : Active(s, i)' /\ stack'[s][i] = d
    <3>1. CASE d = c
      BY <3>1, <2>2, <1>3
    <3>2. CASE d # c
      <4>0. PICK s \in Threads : \E i \in 1..Len(stack[s]) : Active(s, i) /\ stack[s][i] = d
        BY <2>3, <2>7, <3>2 DEF OneActivation
      <4>1. PICK i \in 1..Len(stack[s]) : Active(s, i) /\ stack[s][i] = d
        BY <4>0
      <4>2. s # t /\ stack'[s] = stack[s]
        BY <4>1, <2>4, <1>2
      <4> QED BY <4>1, <4>2, <2>1
    <3> QED BY <3>1, <3>2
  <2> QED BY <2>5, <2>6, <2>7 DEF OneActivation
<1>8. GuardInv'
  <2>1. ASSUME NEW d \in Coroutines
        PROVE  <<"frame", d>> \in guards' <=> pc'[d] = "ready"
    <3>1. pc'[d] = "ready" <=> pc[d] = "ready"
      BY <1>0, <1>1
    <3> QED BY <3>1, <1>0 DEF GuardInv
  <2>2. ASSUME NEW d \in Coroutines
        PROVE  <<"list", d>> \in guards'
                   <=> \E s \in Threads : OnTop(s, d)' /\ tpc'[s] = "release"
    BY <1>0, <1>2, <1>4 DEF GuardInv, OnTop
  <2>3. \A s \in Threads : tpc'[s] # "run" => stack'[s] # <<>>
    BY <1>0, <1>2, <1>4 DEF GuardInv
  <2>4. ASSUME NEW s \in Threads, NEW i \in 1..Len(stack'[s]) - 1
        PROVE  pc'[stack'[s][i]] = "unlocked"
    <3>1. s # t /\ stack'[s] = stack[s] /\ i \in 1..Len(stack[s])
      <4>1. CASE s = t
        BY <4>1, <1>3
      <4>2. CASE s # t
        BY <4>2, <1>2, StackFacts
      <4> QED BY <4>1, <4>2
    <3>2. pc[stack[s][i]] = "unlocked"
      BY <3>1 DEF GuardInv
    <3>3. stack[s][i] \in Coroutines
      BY <3>1, StackFacts
    <3> QED BY <3>1, <3>2, <3>3, <1>0, <1>1
  <2>5. \A r, s \in Threads : tpc'[r] = "release" /\ tpc'[s] = "release" => r = s
    BY <1>0 DEF GuardInv
  <2> QED BY <2>1, <2>2, <2>3, <2>4, <2>5 DEF GuardInv
<1>9. OwnerInv'
  BY <1>0, <1>1 DEF OwnerInv, Granted
<1>10. ParkedInv'
  BY <1>0, <1>1, ParkedKept
<1> QED BY <1>5, <1>6, <1>7, <1>8, <1>9, <1>10

\* The locks, the waiters and the stacks of the coroutine mutex always fit
\* together: the spinlock has one owner at most, no coroutine runs twice, no
\* parked coroutine is lost and none is resumed twice.
THEOREM CoroInvariance == Spec => []CoroInv
<1>1. CoroInv /\ [Next]_vars => CoroInv'
  <2> SUFFICES ASSUME CoroInv, [Next]_vars PROVE CoroInv'
    OBVIOUS
  <2>1. CASE UNCHANGED vars
    <3> USE <2>1 DEF vars, mutexVars, stackVars, coroVars
    <3>1. TypeOK' /\ SpinlockOwned'
      BY DEF CoroInv, TypeOK, SpinlockOwned, Holders
    <3>2. OneActivation'
      BY ActivationKept DEF CoroInv, Suspended
    <3>3. GuardInv'
      BY DEF CoroInv, GuardInv, OnTop
    <3>4. OwnerInv' /\ ParkedInv'
      BY ParkedKept DEF CoroInv, OwnerInv, Granted
    <3> QED BY <3>1, <3>2, <3>3, <3>4 DEF CoroInv
  <2>2. ASSUME NEW t \in Threads, NEW c \in Coroutines,
               \/ CoAwait(t, c) \/ AwaitReady(t, c) \/ AwaitResume(t, c)
               \/ Park(t, c) \/ ParkRelease(t, c) \/ ParkReturn(t, c)
               \/ Unlock(t, c) \/ UnlockPop(t, c) \/ UnlockFree(t, c)
               \/ UnlockResume(t, c) \/ UnlockReturn(t, c) \/ Start(t, c)
        PROVE  CoroInv'
    BY <2>2, CoroInvCoAwait, CoroInvAwaitReady, CoroInvAwaitResume, CoroInvPark,
       CoroInvParkRelease, CoroInvParkReturn, CoroInvUnlock, CoroInvUnlockPop,
       CoroInvUnlockFree, CoroInvUnlockResume, CoroInvNextSection, CoroInvEnd, CoroInvStart
  <2> QED BY <2>1, <2>2 DEF Next, ThreadStep
<1> QED BY <1>1, CoroInvInit, PTL DEF Spec

-----------------------------------------------------------------------------

\* The line of the abstract lock is the owner and the waiters behind it.
LEMMA LineFacts ==
    ASSUME TypeOK
    PROVE  /\ owner = NULL => Line = waiters
           /\ owner # NULL => /\ Line = <<owner>> \o waiters
                              /\ Line # <<>> /\ Head(Line) = owner /\ Tail(Line) = waiters
                              /\ Len(Line) = Len(waiters) + 1
                              /\ Line[1] = owner
                              /\ \A i \in 1..Len(waiters) : Line[i + 1] = waiters[i]
<1>1. waiters \in Seq(Coroutines) /\ Len(waiters) \in Nat
  BY LenProperties DEF TypeOK
<1>2. owner = NULL => Line = waiters
  BY <1>1, ConcatEmptySeq DEF Line
<1>3. ASSUME owner # NULL
      PROVE  /\ Line = <<owner>> \o waiters
             /\ Line # <<>> /\ Head(Line) = owner /\ Tail(Line) = waiters
             /\ Len(Line) = Len(waiters) + 1
             /\ Line[1] = owner
             /\ \A i \in 1..Len(waiters) : Line[i + 1] = waiters[i]
  <2>1. Line = <<owner>> \o waiters /\ <<owner>> \in Seq(Coroutines)
        /\ Len(<<owner>>) = 1 /\ <<owner>>[1] = owner
    BY <1>3 DEF TypeOK, Line
  <2>2. /\ Line \in Seq(Coroutines) /\ Len(Line) = Len(waiters) + 1
        /\ \A i \in 1..Len(waiters) + 1 : Line[i] = IF i <= 1 THEN <<owner>>[i] ELSE waiters[i - 1]
    BY <2>1, <1>1, ConcatProperties
  <2>3. Line[1] = owner /\ \A i \in 1..Len(waiters) : Line[i + 1] = waiters[i]
    BY <2>1, <2>2, <1>1
  <2>4. Line # <<>>
    BY <2>2, <1>1, EmptySeq
  <2>5. Head(Line) = owner /\ Tail(Line) \in Seq(Coroutines) /\ Len(Tail(Line)) = Len(waiters)
        /\ \A i \in 1..Len(waiters) : Tail(Line)[i] = waiters[i]
    BY <2>2, <2>3, <2>4, <1>1, TailAt
  <2>6. Tail(Line) = waiters
    BY <2>5, <1>1, SeqEqual
  <2> QED BY <2>1, <2>2, <2>3, <2>4, <2>5, <2>6
<1> QED BY <1>2, <1>3

\* A coroutine inside is the owner, and alone.
LEMMA InsideIsOwner ==
    ASSUME CoroInv, NEW c \in Coroutines
    PROVE  /\ pc[c] \in {"section", "unlock"} => owner = c /\ c # NULL /\ Inside = {c}
           /\ pc[c] = "granted" => owner = c /\ c # NULL /\ Inside = {}
BY CoroMutexAssumption DEF CoroInv, OwnerInv, Granted, Inside

\* A step that does not hand the mutex over is not seen in the line.
LEMMA LineKept ==
    ASSUME UNCHANGED <<owner, waiters>>,
           \A c \in Coroutines : pc'[c] \in {"section", "unlock"} <=> pc[c] \in {"section", "unlock"}
    PROVE  UNCHANGED Fifo!vars
BY DEF Fifo!vars, Line, Inside

\* await_ready joins an empty line.
LEMMA AwaitReadyAsks ==
    ASSUME CoroInv, NEW t \in Threads, NEW c \in Coroutines, AwaitReady(t, c)
    PROVE  Fifo!Ask(c)
<1>1. /\ ~lock_flag /\ owner' = c /\ pc[c] = "ready" /\ Goto(c, "granted") /\ waiters' = waiters
  BY DEF AwaitReady, TryLock
<1>2. pc'[c] = "granted" /\ \A d \in Coroutines : d # c => pc'[d] = pc[d]
  BY <1>1, GotoFacts DEF CoroInv
<1>3. owner = NULL /\ waiters = <<>> /\ c # NULL
  BY <1>1, CoroMutexAssumption DEF CoroInv, OwnerInv
<1>4. Line = <<>> /\ Len(Line) = 0
  BY <1>3, LineFacts, EmptySeq DEF CoroInv
<1>5. Line' = <<c>>
  BY <1>1, <1>3, ConcatEmptySeq DEF Line
<1>6. Line' = Append(Line, c)
  BY <1>4, <1>5
<1>7. Inside' = Inside
  BY <1>1, <1>2 DEF Inside
<1> QED BY <1>4, <1>6, <1>7 DEF Fifo!Ask

\* await_suspend joins the line at its end.
LEMMA ParkAsks ==
    ASSUME CoroInv, NEW t \in Threads, NEW c \in Coroutines, Park(t, c)
    PROVE  Fifo!Ask(c)
<1>1. /\ lock_flag /\ owner' = owner /\ pc[c] = "ready" /\ Goto(c, "parked")
      /\ waiters' = Append(waiters, c)
  BY DEF Park
<1>2. pc'[c] = "parked" /\ \A d \in Coroutines : d # c => pc'[d] = pc[d]
  BY <1>1, GotoFacts DEF CoroInv
<1>3. owner # NULL /\ owner # c /\ owner \in Coroutines
  BY <1>1, CoroMutexAssumption DEF CoroInv, OwnerInv, ParkedInv, Granted, TypeOK
<1>4. waiters \in Seq(Coroutines) /\ <<owner>> \in Seq(Coroutines) /\ <<c>> \in Seq(Coroutines)
  BY <1>3 DEF CoroInv, TypeOK
<1>5. Line = <<owner>> \o waiters /\ Line' = <<owner>> \o Append(waiters, c)
  BY <1>1, <1>3 DEF Line
<1>6. Line \in Seq(Coroutines)
  BY <1>4, <1>5, ConcatProperties
<1>7. Line' = Append(Line, c)
  BY <1>4, <1>5, <1>6, ConcatAssociative, AppendIsConcat
<1>8. Inside' = Inside
  BY <1>1, <1>2 DEF Inside
<1>9. \A i \in 1..Len(waiters) : waiters[i] # c
  BY <1>1 DEF CoroInv, ParkedInv
<1>10. \A i \in 1..Len(Line) : Line[i] # c
  <2> SUFFICES ASSUME NEW i \in 1..Len(Line) PROVE Line[i] # c
    OBVIOUS
  <2>0. Len(Line) = Len(waiters) + 1 /\ Len(waiters) \in Nat /\ Line[1] = owner
        /\ \A j \in 1..Len(waiters) : Line[j + 1] = waiters[j]
    BY <1>3, <1>4, LineFacts, LenProperties DEF CoroInv
  <2>1. CASE i = 1
    BY <2>0, <2>1, <1>3
  <2>2. CASE i # 1
    <3>1. i - 1 \in 1..Len(waiters) /\ (i - 1) + 1 = i
      BY <2>0, <2>2
    <3> QED BY <3>1, <2>0, <1>9
  <2> QED BY <2>1, <2>2
<1> QED BY <1>7, <1>8, <1>10 DEF Fifo!Ask

\* The return of co_await enters.
LEMMA AwaitResumeEnters ==
    ASSUME CoroInv, NEW t \in Threads, NEW c \in Coroutines, AwaitResume(t, c)
    PROVE  Fifo!Enter
<1>1. owner' = owner /\ waiters' = waiters /\ pc[c] = "granted" /\ Goto(c, "section")
  BY DEF AwaitResume
<1>2. pc'[c] = "section" /\ \A d \in Coroutines : d # c => pc'[d] = pc[d]
  BY <1>1, GotoFacts DEF CoroInv
<1>3. owner = c /\ c # NULL /\ Inside = {}
  BY <1>1, InsideIsOwner
<1>4. Inside' = {c}
  BY <1>2, <1>3 DEF Inside
<1>5. Line # <<>> /\ Head(Line) = c
  BY <1>3, LineFacts DEF CoroInv
<1>6. Line' = Line
  BY <1>1 DEF Line
<1> QED BY <1>3, <1>4, <1>5, <1>6 DEF Fifo!Enter

\* Unlock leaves: the next in the line is the first waiter, or there is none.
LEMMA UnlockLeaves ==
    ASSUME CoroInv, NEW t \in Threads, NEW c \in Coroutines, UnlockPop(t, c) \/ UnlockFree(t, c)
    PROVE  Fifo!Leave
<1>1. pc[c] = "unlock" /\ (Goto(c, "resume") \/ Goto(c, "unlocked"))
  BY DEF UnlockPop, UnlockFree
<1>2. pc'[c] \in {"resume", "unlocked"} /\ \A d \in Coroutines : d # c => pc'[d] = pc[d]
  BY <1>1, GotoFacts DEF CoroInv
<1>3. owner = c /\ c # NULL /\ Inside = {c}
  BY <1>1, InsideIsOwner
<1>4. Inside' = {}
  BY <1>2, <1>3 DEF Inside
<1>5. Line # <<>> /\ Head(Line) = c /\ Tail(Line) = waiters
  BY <1>3, LineFacts DEF CoroInv
<1>6. Line' = waiters
  <2>1. CASE UnlockFree(t, c)
    <3>1. waiters = <<>> /\ waiters' = <<>> /\ owner' = NULL
      BY <2>1 DEF UnlockFree
    <3> QED BY <3>1, ConcatEmptySeq, EmptySeq DEF Line
  <2>2. CASE UnlockPop(t, c)
    <3>1. waiters # <<>> /\ waiters' = Tail(waiters) /\ owner' = Head(waiters)
      BY <2>2 DEF UnlockPop
    <3>2. /\ waiters \in Seq(Coroutines) /\ Len(waiters) \in Nat \ {0}
          /\ Head(waiters) = waiters[1] /\ Head(waiters) \in Coroutines
          /\ Tail(waiters) \in Seq(Coroutines) /\ Len(Tail(waiters)) = Len(waiters) - 1
          /\ \A i \in 1..Len(waiters) - 1 : Tail(waiters)[i] = waiters[i + 1]
      BY <3>1, TailAt DEF CoroInv, TypeOK
    <3>3. owner' # NULL
      BY <3>1, <3>2, CoroMutexAssumption
    <3>4. /\ Line' = <<owner'>> \o waiters' /\ <<owner'>> \in Seq(Coroutines)
          /\ Len(<<owner'>>) = 1 /\ <<owner'>>[1] = owner' /\ waiters' \in Seq(Coroutines)
          /\ Len(waiters') \in Nat
      BY <3>1, <3>2, <3>3 DEF Line
    <3>5. /\ Line' \in Seq(Coroutines) /\ Len(Line') = 1 + Len(waiters')
          /\ \A i \in 1..1 + Len(waiters') :
                 Line'[i] = IF i <= 1 THEN <<owner'>>[i] ELSE waiters'[i - 1]
      BY <3>4, ConcatProperties
    <3>6. Line'[1] = owner' /\ \A i \in 1..Len(waiters') : Line'[i + 1] = waiters'[i]
      BY <3>4, <3>5
    <3>7. Len(Line') = Len(waiters)
      BY <3>1, <3>2, <3>5
    <3>8. ASSUME NEW i \in 1..Len(Line')
          PROVE  Line'[i] = waiters[i]
      <4>1. CASE i = 1
        BY <4>1, <3>1, <3>2, <3>6
      <4>2. CASE i # 1
        <5>1. i - 1 \in 1..Len(waiters') /\ i - 1 \in 1..Len(waiters) - 1 /\ (i - 1) + 1 = i
          BY <4>2, <3>1, <3>2, <3>7
        <5> QED BY <5>1, <3>1, <3>2, <3>6
      <4> QED BY <4>1, <4>2
    <3> QED BY <3>2, <3>5, <3>7, <3>8, SeqEqual
  <2> QED BY <2>1, <2>2
<1> QED BY <1>3, <1>4, <1>5, <1>6 DEF Fifo!Leave

\* The coroutine mutex is a lock that is granted in the order of asking: one
\* coroutine at a time is between its co_await and its unlock, and a newcomer
\* does not overtake those that are parked.
THEOREM FifoRefinement == Spec => ImplementsFifoLock
<1>1. Init => Fifo!Init
  BY ConcatEmptySeq, EmptySeq DEF Init, Fifo!Init, Line, Inside
<1>2. CoroInv /\ [Next]_vars => [Fifo!Next]_(Fifo!vars)
  <2> SUFFICES ASSUME CoroInv, [Next]_vars PROVE [Fifo!Next]_(Fifo!vars)
    OBVIOUS
  <2>1. CASE UNCHANGED vars
    BY <2>1 DEF vars, mutexVars, coroVars, Fifo!vars, Line, Inside
  <2>2. ASSUME NEW t \in Threads, NEW c \in Coroutines, Start(t, c)
        PROVE  UNCHANGED Fifo!vars
    BY <2>2, LineKept, GotoFacts DEF Start, mutexVars, CoroInv
  <2>3. ASSUME NEW t \in Threads, NEW c \in Coroutines, CoAwait(t, c)
        PROVE  UNCHANGED Fifo!vars
    BY <2>3, LineKept, GotoFacts DEF CoAwait, CoroInv
  <2>4. ASSUME NEW t \in Threads, NEW c \in Coroutines, ParkRelease(t, c) \/ ParkReturn(t, c)
        PROVE  UNCHANGED Fifo!vars
    BY <2>4, LineKept DEF ParkRelease, ParkReturn, mutexVars, coroVars
  <2>5. ASSUME NEW t \in Threads, NEW c \in Coroutines, Unlock(t, c)
        PROVE  UNCHANGED Fifo!vars
    BY <2>5, LineKept, GotoFacts DEF Unlock, CoroInv
  <2>6. ASSUME NEW t \in Threads, NEW c \in Coroutines, UnlockResume(t, c)
        PROVE  UNCHANGED Fifo!vars
    <3>1. PICK w \in Coroutines : w = waiter[c] /\ pc[w] = "parked" /\ w # c
      BY <2>6, CoroMutexAssumption DEF UnlockResume, CoroInv, TypeOK, ParkedInv
    <3>2. pc[c] = "resume" /\ pc' = [pc EXCEPT ![c] = "unlocked", ![w] = "granted"]
      BY <2>6, <3>1 DEF UnlockResume
    <3>3. \A d \in Coroutines : pc'[d] \in {"section", "unlock"} <=> pc[d] \in {"section", "unlock"}
      BY <3>1, <3>2 DEF CoroInv, TypeOK
    <3> QED BY <2>6, <3>3, LineKept DEF UnlockResume, mutexVars
  <2>7. ASSUME NEW t \in Threads, NEW c \in Coroutines, UnlockReturn(t, c)
        PROVE  UNCHANGED Fifo!vars
    <3>1. pc[c] = "unlocked" /\ (Goto(c, "lock") \/ Goto(c, "done"))
      BY <2>7 DEF UnlockReturn
    <3>2. \A d \in Coroutines : pc'[d] \in {"section", "unlock"} <=> pc[d] \in {"section", "unlock"}
      BY <3>1, GotoFacts DEF CoroInv
    <3> QED BY <2>7, <3>2, LineKept DEF UnlockReturn, mutexVars
  <2>8. ASSUME NEW t \in Threads, NEW c \in Coroutines,
               \/ AwaitReady(t, c) \/ Park(t, c) \/ AwaitResume(t, c)
               \/ UnlockPop(t, c) \/ UnlockFree(t, c)
        PROVE  Fifo!Next
    BY <2>8, AwaitReadyAsks, ParkAsks, AwaitResumeEnters, UnlockLeaves DEF Fifo!Next
  <2> QED BY <2>1, <2>2, <2>3, <2>4, <2>5, <2>6, <2>7, <2>8 DEF Next, ThreadStep
<1> QED BY <1>1, <1>2, CoroInvariance, PTL DEF Spec, ImplementsFifoLock, Fifo!Spec

-----------------------------------------------------------------------------
(* The benchmark.                                                          *)

\* A step of coroutine c on thread t.
StepOf(t, c) ==
    \/ CoAwait(t, c) \/ AwaitReady(t, c) \/ AwaitResume(t, c)
    \/ Park(t, c) \/ ParkRelease(t, c) \/ ParkReturn(t, c)
    \/ Unlock(t, c) \/ UnlockPop(t, c) \/ UnlockFree(t, c)
    \/ UnlockResume(t, c) \/ UnlockReturn(t, c)

\* A step of a coroutine starts none, ends no other one and is taken on top of
\* the stack of its thread.
LEMMA StepFacts ==
    ASSUME CoroInv, NEW t \in Threads, NEW c \in Coroutines, StepOf(t, c)
    PROVE  /\ stack[t] # <<>> /\ stack[t][Len(stack[t])] = c
           /\ \A s \in Threads : s # t => stack'[s] = stack[s]
           /\ \A d \in Coroutines : pc'[d] = "new" <=> pc[d] = "new"
           /\ \A d \in Coroutines : pc[d] = "done" => pc'[d] = "done"
           /\ \A d \in Coroutines : pc[d] # "done" /\ pc'[d] = "done" => d = c
<1>1. OnTop(t, c) /\ \A s \in Threads : s # t => stack'[s] = stack[s]
  BY DEF CoroInv, TypeOK, StepOf, CoAwait, AwaitReady, AwaitResume, Park, ParkRelease, ParkReturn,
     Unlock, UnlockPop, UnlockFree, UnlockResume, UnlockReturn, Runs, stackVars
<1>2. CASE \/ CoAwait(t, c) \/ AwaitReady(t, c) \/ AwaitResume(t, c)
           \/ Park(t, c) \/ Unlock(t, c) \/ UnlockPop(t, c) \/ UnlockFree(t, c)
           \/ UnlockReturn(t, c)
  <2>1. /\ pc[c] \notin {"new", "done"}
        /\ \E to \in {"ready", "granted", "section", "parked", "unlock", "resume", "unlocked",
                      "lock", "done"} : Goto(c, to)
    BY <1>2 DEF CoAwait, AwaitReady, AwaitResume, Park, Unlock, UnlockPop, UnlockFree, UnlockReturn
  <2>2. pc'[c] # "new" /\ \A d \in Coroutines : d # c => pc'[d] = pc[d]
    BY <2>1, GotoFacts DEF CoroInv
  <2> QED BY <1>1, <2>1, <2>2 DEF OnTop
<1>3. CASE ParkRelease(t, c) \/ ParkReturn(t, c)
  <2>1. pc' = pc
    BY <1>3 DEF ParkRelease, ParkReturn, coroVars
  <2> QED BY <1>1, <2>1 DEF OnTop
<1>4. CASE UnlockResume(t, c)
  <2>1. PICK w \in Coroutines : w = waiter[c] /\ pc[w] = "parked" /\ w # c
    BY <1>4, CoroMutexAssumption DEF UnlockResume, CoroInv, TypeOK, ParkedInv
  <2>2. pc[c] = "resume" /\ pc' = [pc EXCEPT ![c] = "unlocked", ![w] = "granted"]
    BY <1>4, <2>1 DEF UnlockResume
  <2>3. /\ pc'[c] = "unlocked" /\ pc'[w] = "granted"
        /\ \A d \in Coroutines : d # c /\ d # w => pc'[d] = pc[d]
    BY <2>1, <2>2 DEF CoroInv, TypeOK
  <2> QED BY <1>1, <2>1, <2>2, <2>3 DEF OnTop
<1> QED BY <1>2, <1>3, <1>4 DEF StepOf

\* While StartAll() holds cv_wait nothing else runs, and it is not suspended.
LEMMA StarterStep ==
    ASSUME CoroInv, GateInv, cv_wait # NULL,
           NEW t \in Threads, NEW c \in Coroutines, StepOf(t, c)
    PROVE  /\ t = Main /\ c = Starter
           /\ tpc'[Main] = "run"
           /\ pc'[Starter] # "done" => stack' = stack
<1>1. /\ stack[Main] = <<Starter>> /\ tpc[Main] = "run"
      /\ \A s \in JThreads : stack[s] = <<>>
      /\ \A d \in Coroutines : d # Starter => pc[d] = "new"
  BY DEF GateInv
<1>2. t = Main
  BY <1>1, StepFacts DEF JThreads
<1>3. c = Starter
  <2>1. stack[Main][Len(stack[Main])] = c
    BY <1>2, StepFacts
  <2> QED BY <2>1, <1>1
<1>4. \A d \in Coroutines : pc[d] = "parked" => d = c
  BY <1>1, <1>3
<1>5. ~ParkRelease(t, c) /\ ~ParkReturn(t, c)
  BY <1>1, <1>2 DEF ParkRelease, ParkReturn
<1>6. ~Park(t, c)
  <2> SUFFICES ASSUME Park(t, c) PROVE FALSE
    OBVIOUS
  <2>1. lock_flag /\ pc[c] = "ready"
    BY DEF Park
  <2>2. owner # NULL /\ owner \in Coroutines
    BY <2>1 DEF CoroInv, OwnerInv, TypeOK
  <2>3. \A d \in Coroutines : waiter[d] = NULL
    BY <1>1, <1>3, <2>1 DEF CoroInv, ParkedInv
  <2>4. Granted(owner)
    BY <2>2, <2>3 DEF CoroInv, OwnerInv
  <2> QED BY <1>1, <1>3, <2>1, <2>2, <2>4 DEF Granted
<1>7. ~UnlockPop(t, c)
  <2> SUFFICES ASSUME UnlockPop(t, c) PROVE FALSE
    OBVIOUS
  <2>1. waiters # <<>> /\ pc[c] = "unlock"
    BY DEF UnlockPop
  <2>2. 1 \in 1..Len(waiters) /\ waiters[1] \in Coroutines
    BY <2>1, TailAt DEF CoroInv, TypeOK
  <2>3. pc[waiters[1]] = "parked"
    BY <2>2 DEF CoroInv, ParkedInv
  <2> QED BY <1>4, <2>1, <2>2, <2>3
<1>8. ~UnlockResume(t, c)
  <2> SUFFICES ASSUME UnlockResume(t, c) PROVE FALSE
    OBVIOUS
  <2>1. PICK w \in Coroutines : w = waiter[c] /\ pc[w] = "parked" /\ w # c
    BY CoroMutexAssumption DEF UnlockResume, CoroInv, TypeOK, ParkedInv
  <2> QED BY <1>4, <2>1
<1>9. tpc' = tpc
  BY <1>5, <1>6, <1>7, <1>8 DEF StepOf, CoAwait, AwaitReady, AwaitResume, Unlock, UnlockFree,
     UnlockReturn, stackVars
<1>10. ASSUME pc'[Starter] # "done"
       PROVE  stack' = stack
  <2>1. CASE UnlockReturn(t, c)
    BY <1>3, <1>10, <2>1, GotoFacts DEF UnlockReturn, CoroInv
  <2>2. CASE ~UnlockReturn(t, c)
    BY <2>2, <1>5, <1>6, <1>7, <1>8 DEF StepOf, CoAwait, AwaitReady, AwaitResume, Unlock,
       UnlockFree, stackVars
  <2> QED BY <2>1, <2>2
<1> QED BY <1>1, <1>2, <1>3, <1>9, <1>10

\* Every step of the benchmark is one of the mutex, or leaves it alone.
LEMMA BenchStepIsMutexStep == NextBench => [Next]_vars
<1> SUFFICES ASSUME NextBench PROVE [Next]_vars
  OBVIOUS
<1>1. CASE \E t \in Threads : CoroutineStep(t)
  BY <1>1 DEF CoroutineStep, Next
<1>2. CASE StartAll
  BY <1>2, BenchAssumption DEF StartAll, Next
<1>3. CASE \E t \in JThreads : GatePass(t)
  BY <1>3, BenchAssumption DEF GatePass, Next, JThreads
<1>4. CASE \/ (\E t \in JThreads : CreateThread(t) \/ GateSleep(t))
           \/ MainReturns \/ MainWaits \/ MainJoins \/ Terminated
  BY <1>4 DEF CreateThread, GateSleep, MainReturns, MainWaits, MainJoins, Terminated, allVars
<1> QED BY <1>1, <1>2, <1>3, <1>4, BenchAssumption DEF NextBench, MainStep, JThreadStep, JThreads

\* The program only uses the mutex as its coroutines and threads may: what holds
\* of every use of the mutex holds of this one.
THEOREM BenchRefinesMutex == FairSpecBench => Spec
<1>1. InitBench => Init
  BY DEF InitBench
<1>2. [NextBench]_allVars => [Next]_vars
  BY BenchStepIsMutexStep DEF allVars
<1> QED BY <1>1, <1>2, PTL DEF FairSpecBench, Spec

\* The set that the latch counts is finite.
LEMMA RunningFinite == IsFiniteSet(Running) /\ Cardinality(Running) \in Nat
<1>1. Running \subseteq Coroutines
  BY DEF Running
<1> QED BY <1>1, FS_Subset, FS_CardinalityType, CoroMutexAssumption

\* As many coroutines run() as jthreads.
LEMMA OneRunPerThread == Cardinality(JThreads) = Cardinality(Coroutines \ {Starter})
<1>1. RunOf \in Injection(JThreads, Coroutines \ {Starter})
  BY BenchAssumption DEF Injection, IsInjective
<1>2. RunOf \in Surjection(JThreads, Coroutines \ {Starter})
  BY BenchAssumption DEF Surjection
<1>3. IsFiniteSet(Coroutines \ {Starter})
  BY FS_RemoveElement, CoroMutexAssumption
<1> QED BY <1>1, <1>2, <1>3, FS_Injection

\* The initial state of the benchmark.
LEMMA BenchInvInit == InitBench => BenchInv
<1> SUFFICES ASSUME InitBench PROVE BenchInv
  OBVIOUS
<1>1. GateInv
  BY BenchAssumption DEF InitBench, Init, GateInv
<1>2. Running = Coroutines \ {Starter}
  BY DEF InitBench, Init, Running
<1>3. EndInv
  BY <1>2, OneRunPerThread DEF InitBench, EndInv
<1> QED BY <1>1, <1>3 DEF BenchInv

\* main creates a jthread, or a jthread falls asleep at the gate.
LEMMA BenchInvGate ==
    ASSUME BenchInv, NEW t \in JThreads, CreateThread(t) \/ GateSleep(t)
    PROVE  BenchInv'
<1>1. /\ gate[t] # "in" /\ \E to \in {"lock", "asleep"} : gate' = [gate EXCEPT ![t] = to]
      /\ UNCHANGED <<pc, stack, tpc, lock_flag, spinlock, waiters, cv_wait, wait_flag, latch, mpc>>
  BY DEF CreateThread, GateSleep, vars, mutexVars, stackVars, coroVars
<1>2. /\ gate' \in [JThreads -> {"new", "lock", "asleep", "in"}]
      /\ \A s \in JThreads : gate'[s] = "in" <=> gate[s] = "in"
  BY <1>1 DEF BenchInv, GateInv
<1>3. GateInv'
  BY <1>1, <1>2 DEF BenchInv, GateInv
<1>4. EndInv'
  BY <1>1 DEF BenchInv, EndInv, Running
<1> QED BY <1>3, <1>4 DEF BenchInv

\* A jthread passes the gate.
LEMMA BenchInvGatePass ==
    ASSUME CoroInv, BenchInv, NEW t \in JThreads, GatePass(t)
    PROVE  BenchInv'
<1> DEFINE c == RunOf[t]
<1>1. /\ gate[t] = "lock" /\ cv_wait = NULL /\ wait_flag
      /\ stack[t] = <<>> /\ pc[c] = "new" /\ Goto(c, "lock")
      /\ stack' = [stack EXCEPT ![t] = <<c>>]
      /\ gate' = [gate EXCEPT ![t] = "in"]
      /\ UNCHANGED <<tpc, lock_flag, spinlock, waiters, cv_wait, wait_flag, latch, mpc>>
  BY DEF GatePass, Start, mutexVars
<1>2. t \in Threads /\ t # Main /\ c \in Coroutines /\ c # Starter
  BY BenchAssumption DEF JThreads
<1>3. pc'[c] = "lock" /\ \A d \in Coroutines : d # c => pc'[d] = pc[d]
  BY <1>1, <1>2, GotoFacts DEF CoroInv
<1>4. stack'[Main] = stack[Main]
  BY <1>1, <1>2, BenchAssumption DEF CoroInv, TypeOK
<1>5. mpc # "create" /\ mpc # "destroyed"
  BY <1>1, <1>2 DEF BenchInv, GateInv, EndInv
<1>6. GateInv'
  <2>1. ASSUME NEW s \in JThreads
        PROVE  gate'[s] = "in" <=> pc'[RunOf[s]] # "new"
    <3>1. CASE s = t
      BY <3>1, <1>1, <1>3 DEF BenchInv, GateInv
    <3>2. CASE s # t
      <4>1. RunOf[s] \in Coroutines /\ RunOf[s] # c
        BY <3>2, BenchAssumption
      <4> QED BY <3>2, <4>1, <1>1, <1>3 DEF BenchInv, GateInv
    <3> QED BY <3>1, <3>2
  <2>2. gate' \in [JThreads -> {"new", "lock", "asleep", "in"}]
    BY <1>1 DEF BenchInv, GateInv
  <2>3. Starter \in Coroutines /\ pc'[Starter] = pc[Starter]
    BY <1>2, <1>3, BenchAssumption
  <2> QED BY <1>1, <1>5, <2>1, <2>2, <2>3 DEF BenchInv, GateInv
<1>7. Running' = Running
  BY <1>1, <1>2, <1>3 DEF Running
<1>8. EndInv'
  BY <1>1, <1>4, <1>5, <1>7 DEF BenchInv, EndInv
<1> QED BY <1>6, <1>8 DEF BenchInv

\* main calls StartAll().
LEMMA BenchInvStartAll ==
    ASSUME CoroInv, BenchInv, StartAll
    PROVE  BenchInv'
<1>1. /\ mpc = "create" /\ cv_wait = NULL /\ cv_wait' = Main /\ wait_flag' = TRUE
      /\ gate' = [t \in JThreads |-> IF gate[t] = "asleep" THEN "lock" ELSE gate[t]]
      /\ Goto(Starter, "lock")
      /\ stack' = [stack EXCEPT ![Main] = <<Starter>>]
      /\ mpc' = "start" /\ latch' = latch
      /\ UNCHANGED tpc
  BY DEF StartAll, Start
<1>2. Main \in Threads /\ Main # NULL /\ Starter \in Coroutines
  BY BenchAssumption
<1>3. pc'[Starter] = "lock" /\ \A d \in Coroutines : d # Starter => pc'[d] = pc[d]
  BY <1>1, <1>2, GotoFacts DEF CoroInv
<1>4. /\ \A t \in Threads : stack[t] = <<>>
      /\ \A d \in Coroutines : pc[d] = "new"
  BY <1>1 DEF BenchInv, GateInv
<1>5. stack'[Main] = <<Starter>> /\ \A t \in JThreads : stack'[t] = <<>>
  BY <1>1, <1>2, <1>4 DEF CoroInv, TypeOK, JThreads
<1>6. tpc'[Main] = "run"
  BY <1>1, <1>2, <1>4 DEF CoroInv, GuardInv
<1>7. \A t \in JThreads : RunOf[t] \in Coroutines /\ RunOf[t] # Starter
  BY BenchAssumption
<1>8. /\ gate' \in [JThreads -> {"new", "lock", "asleep", "in"}]
      /\ \A t \in JThreads : gate'[t] = "in" <=> gate[t] = "in"
  BY <1>1 DEF BenchInv, GateInv
<1>9. GateInv'
  BY <1>1, <1>2, <1>3, <1>4, <1>5, <1>6, <1>7, <1>8 DEF BenchInv, GateInv
<1>10. Running' = Running
  BY <1>3, <1>4 DEF Running
<1>11. EndInv'
  BY <1>1, <1>10 DEF BenchInv, EndInv
<1> QED BY <1>9, <1>11 DEF BenchInv

\* A coroutine goes on.
LEMMA BenchInvCoroutineStep ==
    ASSUME CoroInv, BenchInv, NEW t \in Threads, CoroutineStep(t)
    PROVE  BenchInv'
<1> DEFINE ended == {d \in Coroutines : pc[d] # "done" /\ pc'[d] = "done"}
<1>1. PICK c \in Coroutines : StepOf(t, c)
  BY DEF CoroutineStep, ThreadStep, StepOf
<1>2. /\ latch' = latch - Cardinality(ended \ {Starter})
      /\ cv_wait' = IF Starter \in ended THEN NULL ELSE cv_wait
      /\ UNCHANGED <<wait_flag, gate, mpc>>
  BY DEF CoroutineStep
<1>3. /\ stack[t] # <<>> /\ stack[t][Len(stack[t])] = c
      /\ \A s \in Threads : s # t => stack'[s] = stack[s]
      /\ \A d \in Coroutines : pc'[d] = "new" <=> pc[d] = "new"
      /\ \A d \in Coroutines : pc[d] = "done" => pc'[d] = "done"
      /\ \A d \in Coroutines : pc[d] # "done" /\ pc'[d] = "done" => d = c
  BY <1>1, StepFacts
<1>4. Starter \in Coroutines /\ Main \in Threads
  BY BenchAssumption
<1>5. mpc # "create" /\ mpc # "destroyed"
  BY <1>3 DEF BenchInv, GateInv, EndInv
<1>6. CASE cv_wait # NULL
  <2>1. /\ mpc = "start" /\ stack[Main] = <<Starter>> /\ pc[Starter] \notin {"new", "done"}
        /\ \A s \in JThreads : stack[s] = <<>>
        /\ \A d \in Coroutines : d # Starter => pc[d] = "new"
    BY <1>6 DEF BenchInv, GateInv
  <2>2. t = Main /\ c = Starter /\ tpc'[Main] = "run" /\ (pc'[Starter] # "done" => stack' = stack)
    BY <1>1, <1>6, StarterStep DEF BenchInv
  <2>3. /\ cv_wait' # NULL => cv_wait' = cv_wait /\ pc'[Starter] # "done"
        /\ cv_wait' = NULL => pc'[Starter] = "done"
    BY <1>2, <1>4, <1>6, <2>1
  <2>4. \A d \in Coroutines : d # Starter => pc'[d] = "new"
    BY <1>3, <2>1
  <2>5. \A s \in JThreads : stack'[s] = <<>>
    BY <1>3, <2>1, <2>2 DEF JThreads
  <2>6. \A s \in JThreads : RunOf[s] \in Coroutines
    BY BenchAssumption
  <2>7. GateInv'
    BY <1>2, <1>3, <1>4, <2>1, <2>2, <2>3, <2>4, <2>5, <2>6 DEF BenchInv, GateInv
  <2>8. Running' = Running /\ ended \ {Starter} = {}
    BY <2>1, <2>4 DEF Running
  <2>9. latch' = latch
    <3>1. Cardinality(ended \ {Starter}) = 0
      BY <2>8, FS_EmptySet
    <3>2. latch \in Nat
      BY RunningFinite DEF BenchInv, EndInv
    <3> QED BY <3>1, <3>2, <1>2
  <2>10. EndInv'
    BY <1>2, <2>1, <2>8, <2>9 DEF BenchInv, EndInv
  <2> QED BY <2>7, <2>10 DEF BenchInv
<1>7. CASE cv_wait = NULL
  <2>1. pc[Starter] = "done" /\ pc'[Starter] = "done" /\ Starter \notin ended /\ cv_wait' = NULL
    BY <1>2, <1>3, <1>4, <1>5, <1>7 DEF BenchInv, GateInv
  <2>2. \A s \in JThreads : RunOf[s] \in Coroutines
    BY BenchAssumption
  <2>3. GateInv'
    BY <1>2, <1>3, <1>5, <2>1, <2>2 DEF BenchInv, GateInv
  <2>4. latch' = Cardinality(Running')
    <3>1. CASE ended = {}
      <4>1. Running' = Running /\ ended \ {Starter} = {}
        BY <3>1, <1>3 DEF Running
      <4>2. Cardinality(ended \ {Starter}) = 0
        BY <4>1, FS_EmptySet
      <4>3. latch \in Nat /\ latch = Cardinality(Running)
        BY RunningFinite DEF BenchInv, EndInv
      <4> QED BY <4>1, <4>2, <4>3, <1>2
    <3>2. CASE ended # {}
      <4>1. ended \ {Starter} = {c} /\ Running' = Running \ {c} /\ c \in Running
        BY <3>2, <1>3, <2>1 DEF Running
      <4>2. Cardinality(Running \ {c}) = Cardinality(Running) - 1
        BY <4>1, FS_RemoveElement, RunningFinite
      <4> QED BY <4>1, <4>2, <1>2, FS_Singleton DEF BenchInv, EndInv
    <3> QED BY <3>1, <3>2
  <2>5. ASSUME mpc \in {"latch", "join"}
        PROVE  stack'[Main] = <<>>
    BY <2>5, <1>3, <1>4 DEF BenchInv, EndInv
  <2>6. ASSUME mpc = "join"
        PROVE  latch' = 0
    <3>1. Running = {}
      BY <2>6, FS_EmptySet, RunningFinite DEF BenchInv, EndInv
    <3>2. Running' = {}
      BY <3>1, <1>3 DEF Running
    <3> QED BY <2>4, <3>2, FS_EmptySet
  <2>7. EndInv'
    BY <1>2, <1>5, <2>1, <2>4, <2>5, <2>6 DEF BenchInv, EndInv
  <2> QED BY <2>3, <2>7 DEF BenchInv
<1> QED BY <1>6, <1>7

\* StartAll() returns to main, and main waits for the latch.
LEMMA BenchInvMain ==
    ASSUME BenchInv, MainReturns \/ MainWaits
    PROVE  BenchInv'
<1>1. UNCHANGED <<pc, stack, tpc, lock_flag, spinlock, waiters, cv_wait, wait_flag, gate, latch>>
  BY DEF MainReturns, MainWaits, vars, mutexVars, stackVars, coroVars
<1>2. \/ mpc = "start" /\ mpc' = "latch" /\ stack[Main] = <<>>
      \/ mpc = "latch" /\ mpc' = "join" /\ latch = 0
  BY DEF MainReturns, MainWaits
<1>3. cv_wait = NULL
  BY <1>2 DEF BenchInv, GateInv, EndInv
<1>4. GateInv'
  BY <1>1, <1>2, <1>3 DEF BenchInv, GateInv
<1>5. Running' = Running
  BY <1>1 DEF Running
<1>6. EndInv'
  BY <1>1, <1>2, <1>3, <1>5 DEF BenchInv, EndInv
<1> QED BY <1>4, <1>6 DEF BenchInv

\* main joins, and destroys the mutex.
LEMMA BenchInvJoins ==
    ASSUME CoroInv, BenchInv, MainJoins
    PROVE  BenchInv'
<1>1. UNCHANGED <<pc, stack, tpc, lock_flag, spinlock, waiters, cv_wait, wait_flag, gate, latch>>
  BY DEF MainJoins, vars, mutexVars, stackVars, coroVars
<1>2. mpc = "join" /\ mpc' = "destroyed" /\ \A t \in JThreads : stack[t] = <<>>
  BY DEF MainJoins
<1>3. cv_wait = NULL /\ stack[Main] = <<>> /\ latch = 0 /\ pc[Starter] = "done"
  BY <1>2 DEF BenchInv, GateInv, EndInv
<1>4. \A t \in Threads : stack[t] = <<>>
  BY <1>2, <1>3 DEF JThreads
<1>5. Running = {}
  BY <1>3, FS_EmptySet, RunningFinite DEF BenchInv, EndInv
<1>6. \A c \in Coroutines : pc[c] = "done"
  BY <1>3, <1>5 DEF Running
<1>7. owner = NULL /\ ~lock_flag /\ waiters = <<>>
  <2>1. \A c \in Coroutines : ~Granted(c) /\ waiter[c] = NULL
    BY <1>6 DEF CoroInv, Granted, ParkedInv
  <2>2. owner = NULL
    BY <2>1 DEF CoroInv, OwnerInv, TypeOK
  <2> QED BY <2>2 DEF CoroInv, OwnerInv
<1>8. ~spinlock
  <2>1. \A c \in Coroutines : <<"frame", c>> \notin guards /\ <<"list", c>> \notin guards
    BY <1>4, <1>6 DEF CoroInv, GuardInv, OnTop
  <2>2. guards = {}
    <3> SUFFICES ASSUME NEW g \in guards PROVE FALSE
      OBVIOUS
    <3>1. PICK k \in {"frame", "list"}, c \in Coroutines : g = <<k, c>>
      BY DEF CoroInv, TypeOK
    <3> QED BY <2>1, <3>1
  <2>3. Holders = {}
    BY <1>6, <2>2 DEF Holders
  <2> QED BY <2>3 DEF CoroInv, SpinlockOwned
<1>9. GateInv'
  BY <1>1, <1>2, <1>3 DEF BenchInv, GateInv
<1>10. Running' = Running
  BY <1>1 DEF Running
<1>11. EndInv'
  BY <1>1, <1>2, <1>3, <1>4, <1>6, <1>7, <1>8, <1>10 DEF BenchInv, EndInv
<1> QED BY <1>9, <1>11 DEF BenchInv

\* StartAll() unlocks cv_wait on the thread that has locked it, and when the
\* mutex is destroyed every coroutine is done and every stack is empty, for any
\* number of jthreads and sections.
THEOREM BenchInvariance == FairSpecBench => []BenchInv
<1>1. CoroInv /\ BenchInv /\ [NextBench]_allVars => BenchInv'
  <2> SUFFICES ASSUME CoroInv, BenchInv, [NextBench]_allVars PROVE BenchInv'
    OBVIOUS
  <2>1. CASE UNCHANGED allVars
    BY <2>1 DEF allVars, vars, mutexVars, stackVars, coroVars, benchVars, BenchInv, GateInv,
       EndInv, Running
  <2>2. CASE \E t \in Threads : CoroutineStep(t)
    BY <2>2, BenchInvCoroutineStep
  <2>3. CASE \E t \in JThreads : CreateThread(t) \/ GateSleep(t)
    BY <2>3, BenchInvGate
  <2>4. CASE \E t \in JThreads : GatePass(t)
    BY <2>4, BenchInvGatePass
  <2>5. CASE StartAll
    BY <2>5, BenchInvStartAll
  <2>6. CASE MainReturns \/ MainWaits \/ MainJoins
    BY <2>6, BenchInvMain, BenchInvJoins
  <2> QED BY <2>1, <2>2, <2>3, <2>4, <2>5, <2>6, BenchAssumption
          DEF NextBench, MainStep, JThreadStep, Terminated, JThreads
<1> QED BY <1>1, BenchInvInit, BenchRefinesMutex, CoroInvariance, PTL DEF FairSpecBench

-----------------------------------------------------------------------------
(* The event and the wait group of the fibers.  First, how the calls of    *)
(* Add and Done are counted.                                               *)

\* The calls of that name that are to come if fiber f is at its call a[f].
Pairs(a, call) == UNION {{<<f, i>> : i \in Later(f, a[f], call)} : f \in Fibers}

\* Those calls of Done without the current ones of the fibers in W.
PairsBut(a, W) == {fi \in Pairs(a, "Done") : ~(fi[2] = a[fi[1]] /\ fi[1] \in W)}

\* The code of a fiber is a finite sequence, and Later a finite set.
LEMMA LaterFacts ==
    ASSUME NEW f \in Fibers, NEW i \in Nat, NEW call
    PROVE  /\ Len(Code[f]) \in Nat
           /\ IsFiniteSet(Later(f, i, call)) /\ Later(f, i, call) \subseteq Nat
           /\ \A k : k \in Later(f, i, call) <=> k \in i..Len(Code[f]) /\ Code[f][k] = call
<1>1. Len(Code[f]) \in Nat
  BY ExecutorAssumption, LenProperties
<1>2. Later(f, i, call) \subseteq i..Len(Code[f]) /\ i..Len(Code[f]) \subseteq Nat
  BY <1>1 DEF Later
<1>3. IsFiniteSet(i..Len(Code[f]))
  BY <1>1, FS_Interval
<1>4. IsFiniteSet(Later(f, i, call))
  BY <1>2, <1>3, FS_Subset
<1> QED BY <1>1, <1>2, <1>4 DEF Later

\* From one call to the next.
LEMMA LaterNext ==
    ASSUME NEW f \in Fibers, NEW i \in Nat, NEW call, i <= Len(Code[f])
    PROVE  \A k : k \in Later(f, i + 1, call) <=> k \in Later(f, i, call) /\ k # i
<1>1. Len(Code[f]) \in Nat
  BY LaterFacts
<1>2. \A k : k \in (i + 1)..Len(Code[f]) <=> k \in i..Len(Code[f]) /\ k # i
  BY <1>1
<1> QED BY <1>2 DEF Later

\* What is in Pairs.
LEMMA InPairs ==
    ASSUME NEW a, NEW call
    PROVE  /\ \A f, i : <<f, i>> \in Pairs(a, call) <=> f \in Fibers /\ i \in Later(f, a[f], call)
           /\ \A x \in Pairs(a, call) : x = <<x[1], x[2]>>
BY DEF Pairs

\* There are finitely many calls.
LEMMA PairsFinite ==
    ASSUME NEW a \in [Fibers -> Nat \ {0}], NEW call
    PROVE  IsFiniteSet(Pairs(a, call))
<1> DEFINE Of(f) == {<<f, i>> : i \in Later(f, a[f], call)}
           All == {Of(f) : f \in Fibers}
<1>1. ASSUME NEW f \in Fibers PROVE IsFiniteSet(Of(f))
  <2>1. IsFiniteSet(Later(f, a[f], call))
    BY LaterFacts
  <2> DEFINE s == [i \in Later(f, a[f], call) |-> <<f, i>>]
  <2>3. s \in [Later(f, a[f], call) -> Of(f)] /\ \A x \in Of(f) : \E i \in Later(f, a[f], call) : s[i] = x
    OBVIOUS
  <2>2. s \in Surjection(Later(f, a[f], call), Of(f))
    BY <2>3 DEF Surjection
  <2> HIDE DEF s
  <2> QED BY <2>1, <2>2, FS_Surjection
<1>2. IsFiniteSet(All)
  <2> DEFINE s == [f \in Fibers |-> Of(f)]
  <2>0. s \in [Fibers -> All] /\ \A T \in All : \E f \in Fibers : s[f] = T
    <3> HIDE DEF Of
    <3> QED OBVIOUS
  <2>1. s \in Surjection(Fibers, All)
    BY <2>0 DEF Surjection
  <2> HIDE DEF s, All
  <2> QED BY <2>1, FS_Surjection, ExecutorAssumption
<1>3. \A T \in All : IsFiniteSet(T)
  BY <1>1
<1>4. Pairs(a, call) = UNION All
  BY DEF Pairs
<1> HIDE DEF All
<1> QED BY <1>2, <1>3, <1>4, FS_UNION

\* The calls of Done of fiber f from i on, without the current one if f is in W.
LaterBut(f, i, W) == {k \in Later(f, i, "Done") : ~(k = i /\ f \in W)}

\* Function j from S to T, with different values for different arguments.
OneToOne(j, S, T) == j \in [S -> T] /\ \A x, y \in S : j[x] = j[y] => x = y

\* A set that is not larger can be mapped into the other, one to one.
LEMMA InjectionExists ==
    ASSUME NEW S, NEW T, IsFiniteSet(S), IsFiniteSet(T), Cardinality(S) <= Cardinality(T)
    PROVE  \E j : OneToOne(j, S, T)
<1> DEFINE m == Cardinality(S)
           n == Cardinality(T)
<1>1. m \in Nat /\ n \in Nat /\ ExistsBijection(1..m, S) /\ ExistsBijection(1..n, T)
  BY FS_CardinalityType
<1>2. ExistsBijection(S, 1..m)
  BY <1>1, Fun_ExistsBijSymmetric
<1>3. PICK b : b \in Bijection(S, 1..m)
  BY <1>2 DEF ExistsBijection
<1>4. PICK t : t \in Bijection(1..n, T)
  BY <1>1 DEF ExistsBijection
<1>5. b \in [S -> 1..m] /\ \A x, y \in S : b[x] = b[y] => x = y
  BY <1>3 DEF Bijection, Injection, IsInjective
<1>6. t \in [1..n -> T] /\ \A x, y \in 1..n : t[x] = t[y] => x = y
  BY <1>4 DEF Bijection, Injection, IsInjective
<1>7. \A x \in S : b[x] \in 1..n
  BY <1>1, <1>5
<1> DEFINE j == [x \in S |-> t[b[x]]]
<1>8. j \in [S -> T]
  BY <1>6, <1>7
<1>9. \A x, y \in S : j[x] = j[y] => x = y
  BY <1>5, <1>6, <1>7
<1> HIDE DEF j
<1> QED BY <1>8, <1>9 DEF OneToOne

\* The Done of every Add is still to come.
LEMMA DoneForAdd ==
    ASSUME NEW a \in [Fibers -> Nat \ {0}], NEW W, NEW f \in Fibers,
           f \in W => a[f] <= Len(Code[f]) /\ Code[f][a[f]] = "Done"
    PROVE  \E j : OneToOne(j, Later(f, a[f], "Add"), LaterBut(f, a[f], W))
<1> USE DEF LaterBut
<1> DEFINE A == Later(f, a[f], "Add")
           U == LaterBut(f, a[f], W)
<1>0. a[f] \in Nat \ {0} /\ Len(Code[f]) \in Nat
  BY LaterFacts
<1>1. \E k \in Nat \ {0} : A = Later(f, k, "Add") /\ U = Later(f, k, "Done")
  <2>1. CASE f \notin W
    <3>1. U = Later(f, a[f], "Done")
      BY <2>1
    <3> QED BY <1>0, <3>1
  <2>2. CASE f \in W
    <3>0. a[f] + 1 \in Nat \ {0}
      BY <1>0
    <3>1. \A i : i \in Later(f, a[f] + 1, "Add") <=> i \in A /\ i # a[f]
      BY <1>0, <2>2, LaterNext
    <3>2. \A i : i \in Later(f, a[f] + 1, "Done") <=> i \in Later(f, a[f], "Done") /\ i # a[f]
      BY <1>0, <2>2, LaterNext
    <3>3. a[f] \notin A
      BY <2>2 DEF Later
    <3>4. A = Later(f, a[f] + 1, "Add")
      BY <3>1, <3>3
    <3>5. U = Later(f, a[f] + 1, "Done")
      BY <2>2, <3>2
    <3> HIDE DEF A, U
    <3> QED BY <3>0, <3>4, <3>5
  <2> QED BY <2>1, <2>2
<1> HIDE DEF A, U
<1>2. PICK k \in Nat \ {0} : A = Later(f, k, "Add") /\ U = Later(f, k, "Done")
  BY <1>1
<1>3. IsFiniteSet(A) /\ IsFiniteSet(U)
  BY <1>2, LaterFacts
<1>4. Cardinality(A) <= Cardinality(U)
  <2>1. CASE k <= Len(Code[f])
    <3>1. k \in 1..Len(Code[f])
      BY <1>0, <2>1
    <3> QED BY <1>2, <3>1, WaitGroupAssumption
  <2>2. CASE ~(k <= Len(Code[f]))
    <3>1. k..Len(Code[f]) = {}
      BY <1>0, <2>2
    <3>2. A = {} /\ U = {}
      BY <1>2, <3>1 DEF Later
    <3>3. Cardinality(A) = 0 /\ Cardinality(U) = 0
      BY <3>2, FS_EmptySet
    <3> QED BY <3>3
  <2> QED BY <2>1, <2>2
<1>5. \E j : OneToOne(j, A, U)
  BY <1>3, <1>4, InjectionExists
<1> QED BY <1>5 DEF A, U

\* There are never more Adds than Dones to come; and if there are as many, then
\* all that is to come belongs to fibers that add.
LEMMA CountedCalls ==
    ASSUME NEW a \in [Fibers -> Nat \ {0}], NEW W,
           \A f \in Fibers : f \in W => a[f] <= Len(Code[f]) /\ Code[f][a[f]] = "Done"
    PROVE  /\ IsFiniteSet(Pairs(a, "Add")) /\ IsFiniteSet(PairsBut(a, W))
           /\ Cardinality(Pairs(a, "Add")) <= Cardinality(PairsBut(a, W))
           /\ Cardinality(Pairs(a, "Add")) = Cardinality(PairsBut(a, W))
                => \A fi \in PairsBut(a, W) : Later(fi[1], 1, "Add") # {}
<1> DEFINE P == Pairs(a, "Add")
           Q == PairsBut(a, W)
           A(f) == Later(f, a[f], "Add")
           U(f) == LaterBut(f, a[f], W)
           One(f, j) == OneToOne(j, A(f), U(f))
           inj == [f \in Fibers |-> CHOOSE j : One(f, j)]
           J == [x \in P |-> <<x[1], inj[x[1]][x[2]]>>]
<1>1. IsFiniteSet(P) /\ IsFiniteSet(Q)
  <2>1. Q \subseteq Pairs(a, "Done")
    BY DEF PairsBut
  <2> QED BY <2>1, PairsFinite, FS_Subset
<1>2. \A f \in Fibers : One(f, inj[f])
  <2> SUFFICES ASSUME NEW f \in Fibers PROVE One(f, inj[f])
    OBVIOUS
  <2>0. f \in W => a[f] <= Len(Code[f]) /\ Code[f][a[f]] = "Done"
    OBVIOUS
  <2>1. \E j : One(f, j)
    BY <2>0, DoneForAdd
  <2>2. inj[f] = CHOOSE j : One(f, j)
    OBVIOUS
  <2> HIDE DEF One, inj
  <2> QED BY <2>1, <2>2
<1>3. \A f \in Fibers : /\ \A i \in A(f) : inj[f][i] \in U(f)
                        /\ \A i, k \in A(f) : inj[f][i] = inj[f][k] => i = k
  <2> HIDE DEF A, U, inj
  <2> QED BY <1>2 DEF OneToOne
<1> HIDE DEF inj
<1>4. \A x \in P : x = <<x[1], x[2]>> /\ x[1] \in Fibers /\ x[2] \in A(x[1])
  BY InPairs
<1>5. \A f, i : f \in Fibers /\ i \in U(f) => <<f, i>> \in Q
  BY InPairs DEF PairsBut, LaterBut
<1>6. J \in [P -> Q]
  BY <1>3, <1>4, <1>5
<1>7. \A x, y \in P : J[x] = J[y] => x = y
  <2> SUFFICES ASSUME NEW x \in P, NEW y \in P, J[x] = J[y] PROVE x = y
    OBVIOUS
  <2>1. x[1] = y[1] /\ inj[x[1]][x[2]] = inj[y[1]][y[2]]
    OBVIOUS
  <2>2. x[2] = y[2]
    BY <1>3, <1>4, <2>1
  <2> QED BY <1>4, <2>1, <2>2
<1>8. J \in Injection(P, Q)
  BY <1>6, <1>7 DEF Injection, IsInjective
<1>9. ASSUME J \in Surjection(P, Q), NEW fi \in Q
      PROVE  Later(fi[1], 1, "Add") # {}
  <2>1. PICK x \in P : J[x] = fi
    BY <1>9 DEF Surjection
  <2>2. fi[1] = x[1] /\ x[1] \in Fibers /\ x[2] \in A(x[1])
    BY <1>4, <2>1
  <2>3. x[2] \in a[x[1]]..Len(Code[x[1]]) /\ Code[x[1]][x[2]] = "Add"
    BY <2>2 DEF Later
  <2>4. Len(Code[x[1]]) \in Nat
    BY <2>2, LaterFacts
  <2>5. x[2] \in 1..Len(Code[x[1]])
    BY <2>2, <2>3, <2>4
  <2>6. x[2] \in Later(x[1], 1, "Add")
    BY <2>3, <2>5 DEF Later
  <2> QED BY <2>2, <2>6
<1> HIDE DEF J, P, Q
<1>10. /\ Cardinality(P) <= Cardinality(Q)
       /\ Cardinality(P) = Cardinality(Q) => J \in Surjection(P, Q)
  BY <1>1, <1>8, FS_Injection
<1>11. \A fi \in Q : J \in Surjection(P, Q) => Later(fi[1], 1, "Add") # {}
  BY <1>9
<1> QED BY <1>1, <1>10, <1>11 DEF P, Q

-----------------------------------------------------------------------------
(* The steps of the fibers and of their workers.                           *)

\* The inductive invariant: every part of the state is tied to some other.
SyncInv == WaiterInv /\ GroupInv /\ NoDanglingWaiter

\* Fiber f belongs to worker w alone.
OnlyFor(w, f) == \A v \in Workers : v # w => run[v] # f

\* A fiber runs on its home worker only.
LEMMA RunsForOne ==
    ASSUME ExecTypeOK, RunInv, NEW w \in Workers, NEW f \in Fibers, run[w] = f \/ home[f] = w
    PROVE  OnlyFor(w, f) /\ f # nullptr /\ w # nullptr
<1>1. f # nullptr /\ w # nullptr
  BY ExecutorAssumption
<1>2. home[f] = w
  BY <1>1 DEF RunInv
<1>3. \A v \in Workers : run[v] = f => v = w
  BY <1>1, <1>2 DEF RunInv
<1> QED BY <1>1, <1>3 DEF OnlyFor

\* On a sticky executor, who takes a fiber finds it with no worker.
LEMMA TakeAlone ==
    ASSUME Sticky, ExecTypeOK, RunInv, NEW w \in Workers, NEW f \in Fibers, Take(w, f)
    PROVE  /\ \A v \in Workers : run[v] # f
           /\ wpc[w] = "idle" /\ run[w] = nullptr
           /\ wpc' = [wpc EXCEPT ![w] = "fiber"] /\ run' = [run EXCEPT ![w] = f]
           /\ home' = [home EXCEPT ![f] = w] /\ ready' = ready \ {f} /\ f \in ready
<1>1. f # nullptr /\ w # nullptr /\ nullptr \notin Workers
  BY ExecutorAssumption
<1>2. wpc[w] = "idle" /\ run[w] = nullptr /\ home[f] \in {nullptr, w}
  BY DEF Take, RunInv
<1>3. ASSUME NEW v \in Workers, run[v] = f PROVE FALSE
  <2>1. home[f] = v
    BY <1>1, <1>3 DEF RunInv
  <2>2. v = w
    BY <1>1, <1>2, <2>1
  <2> QED BY <1>1, <1>2, <1>3, <2>2
<1> QED BY <1>2, <1>3 DEF Take

\* What a step of worker w for fiber f leaves alone.
Moves(w, f) ==
    /\ ExecTypeOK'
    /\ \A v \in Workers : v # w => wpc'[v] = wpc[v] /\ run'[v] = run[v]
    /\ \A g \in Fibers : g # f => fpc'[g] = fpc[g] /\ at'[g] = at[g] /\ home'[g] = home[g]
    /\ OnlyFor(w, f)
    /\ run[w] \in {f, nullptr} /\ run'[w] \in {f, nullptr}

\* What it establishes.
Lands(w, f) ==
    /\ run'[w] = nullptr <=> wpc'[w] = "idle"
    /\ run'[w] = f => home'[f] = w
    /\ wpc'[w] = "fiber" => fpc'[f] \in FiberRuns
    /\ wpc'[w] = "await" => fpc'[f] \in {"event_suspending", "group_suspending"}
    /\ wpc'[w] \in {"event_unlock", "event_disown"} => fpc'[f] = "event_parked"
    /\ wpc'[w] \in {"group_release", "group_disown"} => fpc'[f] = "group_parked"
    /\ wpc'[w] \in {"fiber", "await"} => f \notin ready'
    /\ f \in ready' => f \in ready /\ fpc'[f] \in {"start", "event_parked", "group_parked"}
    /\ \A g \in ready' : g # f => g \in ready \/ fpc[g] \in {"event_parked", "group_parked"}

\* A step that lands well keeps the relation of workers and fibers.
LEMMA MovesKeepRuns ==
    ASSUME ExecTypeOK, RunInv, NEW w \in Workers, NEW f \in Fibers, Moves(w, f), Lands(w, f)
    PROVE  RunInv'
<1>1. f # nullptr /\ f \in Fibers /\ nullptr \notin Fibers
  BY ExecutorAssumption
<1>2. ASSUME NEW v \in Workers
      PROVE  /\ run'[v] = nullptr <=> wpc'[v] = "idle"
             /\ run'[v] # nullptr => home'[run'[v]] = v
             /\ wpc'[v] = "fiber" => fpc'[run'[v]] \in FiberRuns
             /\ wpc'[v] = "await" => fpc'[run'[v]] \in {"event_suspending", "group_suspending"}
             /\ wpc'[v] \in {"event_unlock", "event_disown"} => fpc'[run'[v]] = "event_parked"
             /\ wpc'[v] \in {"group_release", "group_disown"} => fpc'[run'[v]] = "group_parked"
             /\ wpc'[v] \in {"fiber", "await"} => run'[v] \notin ready'
  <2>1. CASE v = w
    BY <1>1, <2>1 DEF Moves, Lands
  <2>2. CASE v # w
    <3>1. wpc'[v] = wpc[v] /\ run'[v] = run[v] /\ run[v] # f
      BY <2>2 DEF Moves, OnlyFor
    <3>2. run[v] \in Fibers \/ run[v] = nullptr
      BY DEF ExecTypeOK
    <3>3. CASE run[v] = nullptr
      BY <3>1, <3>3 DEF RunInv
    <3>4. CASE run[v] \in Fibers
      <4>1. fpc'[run[v]] = fpc[run[v]] /\ home'[run[v]] = home[run[v]] /\ run[v] # nullptr
        BY <1>1, <3>1, <3>4 DEF Moves
      <4>2. wpc[v] \in {"fiber", "await"} =>
              run[v] \notin ready /\ fpc[run[v]] \notin {"event_parked", "group_parked"}
        BY DEF RunInv, FiberRuns
      <4>3. wpc[v] \in {"fiber", "await"} => run[v] \notin ready'
        BY <3>1, <4>2 DEF Lands
      <4> QED BY <3>1, <4>1, <4>3 DEF RunInv
    <3> QED BY <3>2, <3>3, <3>4
  <2> QED BY <2>1, <2>2
<1>3. ASSUME NEW g \in ready' PROVE fpc'[g] \in {"start", "event_parked", "group_parked"}
  <2>1. g \in Fibers
    BY DEF Moves, ExecTypeOK
  <2> QED BY <2>1 DEF Moves, Lands, RunInv
<1> QED BY <1>2, <1>3 DEF RunInv

\* What a fiber that has moved is in.
LEMMA MovesKeepCalls ==
    ASSUME CallInv, NEW w \in Workers, NEW f \in Fibers, Moves(w, f),
           \/ fpc'[f] \in {"start", "end"}
           \/ /\ at'[f] = at[f]
              /\ fpc'[f] \in {"event_suspending", "event_parked", "event_dtor"} => Within(f, "Event::Wait")
              /\ fpc'[f] = "fire_loop" => Within(f, "Fire")
              /\ fpc'[f] = "add" => Within(f, "Add")
              /\ fpc'[f] \in {"done", "walk"} => Within(f, "Done")
              /\ fpc'[f] \in {"wait", "group_suspending", "group_parked", "group_dtor"}
                   => Within(f, "WaitGroup::Wait")
    PROVE  CallInv'
<1> SUFFICES ASSUME NEW g \in Fibers
             PROVE  /\ fpc'[g] \in {"event_suspending", "event_parked", "event_dtor"} => Within(g, "Event::Wait")'
                    /\ fpc'[g] = "fire_loop" => Within(g, "Fire")'
                    /\ fpc'[g] = "add" => Within(g, "Add")'
                    /\ fpc'[g] \in {"done", "walk"} => Within(g, "Done")'
                    /\ fpc'[g] \in {"wait", "group_suspending", "group_parked", "group_dtor"}
                         => Within(g, "WaitGroup::Wait")'
  BY DEF CallInv
<1>1. CASE g # f
  BY <1>1 DEF Moves, CallInv, Within
<1>2. CASE g = f
  BY <1>2 DEF Within
<1> QED BY <1>1, <1>2

\* The step of worker w for fiber f keeps what the executor promises.
Kept(w, f) == Moves(w, f) /\ RunInv' /\ CallInv'

\* Fiber f may go to y in its call.
MayGo(f, y) ==
    \/ y \in {"start", fpc[f]}
    \/ y = "fire_loop" /\ Within(f, "Fire")
    \/ y = "add" /\ Within(f, "Add")
    \/ y \in {"done", "walk"} /\ Within(f, "Done")
    \/ y \in {"wait", "group_dtor"} /\ Within(f, "WaitGroup::Wait")

\* Only parked fibers are scheduled.
ParkedScheduled ==
    /\ \A g \in ready : g \in ready'
    /\ \A g \in ready' : g \in Fibers /\ (g \in ready \/ fpc[g] \in {"event_parked", "group_parked"})

\* The fiber runs on.
LEMMA FiberStepKept ==
    ASSUME ExecTypeOK, RunInv, CallInv, NEW w \in Workers, NEW f \in Fibers, Executes(w, f),
           NEW y \in FiberRuns,
           fpc' = [fpc EXCEPT ![f] = y],
           UNCHANGED <<wpc, run, home>>, ParkedScheduled,
           \/ y = "start" /\ at' = [at EXCEPT ![f] = @ + 1]
           \/ MayGo(f, y) /\ at' = at
    PROVE  Kept(w, f)
<1>1. OnlyFor(w, f) /\ f # nullptr /\ home[f] = w
  BY RunsForOne, ExecutorAssumption DEF Executes, RunInv
<1>2. ExecTypeOK'
  <2>1. at' \in [Fibers -> Nat \ {0}]
    BY DEF ExecTypeOK
  <2>2. ready' \subseteq Fibers
    BY DEF ParkedScheduled
  <2> QED BY <2>1, <2>2 DEF ExecTypeOK
<1>3. Moves(w, f)
  BY <1>1, <1>2 DEF Moves, ExecTypeOK, Executes
<1>4. f \notin ready /\ fpc[f] \in FiberRuns /\ run[w] = f /\ wpc[w] = "fiber"
  BY DEF Executes, RunInv
<1>5. f \notin ready'
  BY <1>4 DEF FiberRuns, ParkedScheduled
<1>6. fpc'[f] = y
  BY DEF ExecTypeOK
<1>7. Lands(w, f)
  BY <1>1, <1>4, <1>5, <1>6 DEF Lands, ParkedScheduled
<1>8. RunInv'
  BY <1>3, <1>7, MovesKeepRuns
<1>9. CallInv'
  <2>1. CASE y = "start"
    BY <1>3, <1>6, <2>1, MovesKeepCalls
  <2>2. CASE y # "start"
    <3>1. at' = at /\ at'[f] = at[f]
      BY <2>2
    <3> QED BY <1>3, <1>6, <2>2, <3>1, MovesKeepCalls DEF CallInv, MayGo
  <2> QED BY <2>1, <2>2
<1> QED BY <1>3, <1>8, <1>9 DEF Kept

\* The worker goes on in Run: SwitchOut and the parts of AwaitSuspend.
LEMMA AwaitStepKept ==
    ASSUME ExecTypeOK, RunInv, CallInv, NEW w \in Workers, NEW f \in Fibers, run[w] = f,
           NEW x, NEW y,
           wpc' = [wpc EXCEPT ![w] = x], fpc' = [fpc EXCEPT ![f] = y],
           UNCHANGED <<run, home, ready, at>>,
           \/ /\ x = "await" /\ wpc[w] = "fiber"
              /\ \/ y = "event_suspending" /\ Within(f, "Event::Wait")
                 \/ y = "group_suspending" /\ Within(f, "WaitGroup::Wait")
           \/ x = "event_unlock" /\ y = "event_parked" /\ fpc[f] = "event_suspending"
           \/ x = "event_disown" /\ y = "event_parked" /\ fpc[f] = "event_parked"
           \/ x = "group_release" /\ y = "group_parked" /\ fpc[f] = "group_suspending"
           \/ x = "group_disown" /\ y = "group_parked" /\ fpc[f] = "group_parked"
    PROVE  Kept(w, f)
<1>1. OnlyFor(w, f) /\ f # nullptr /\ home[f] = w /\ wpc[w] # "idle"
  BY RunsForOne, ExecutorAssumption DEF RunInv
<1>2. ExecTypeOK'
  BY DEF ExecTypeOK
<1>3. Moves(w, f)
  BY <1>1, <1>2 DEF Moves, ExecTypeOK
<1>4. fpc'[f] = y /\ wpc'[w] = x
  BY DEF ExecTypeOK
<1>5. wpc[w] \in {"fiber", "await"} => f \notin ready
  BY DEF RunInv
<1>6. f \in ready => y \in {"start", "event_parked", "group_parked"}
  BY <1>5 DEF RunInv
<1>7. Lands(w, f)
  BY <1>1, <1>4, <1>5, <1>6 DEF Lands
<1>8. RunInv'
  BY <1>3, <1>7, MovesKeepRuns
<1>9. CallInv'
  BY <1>3, <1>4, MovesKeepCalls DEF CallInv
<1> QED BY <1>3, <1>8, <1>9 DEF Kept

\* Run returns.
LEMMA ReturnStepKept ==
    ASSUME ExecTypeOK, RunInv, CallInv, NEW w \in Workers, NEW f \in Fibers, run[w] = f,
           RunReturns(w),
           at' = at,
           \/ fpc' = fpc /\ wpc[w] \notin {"fiber", "await"}
           \/ fpc' = [fpc EXCEPT ![f] = "end"] /\ wpc[w] = "fiber"
    PROVE  Kept(w, f)
<1>1. OnlyFor(w, f) /\ f # nullptr /\ home[f] = w
  BY RunsForOne, ExecutorAssumption DEF RunInv
<1>2. ExecTypeOK'
  BY DEF ExecTypeOK, RunReturns
<1>3. Moves(w, f)
  BY <1>1, <1>2 DEF Moves, ExecTypeOK, RunReturns
<1>4. wpc'[w] = "idle" /\ run'[w] = nullptr /\ ready' = ready
  BY DEF ExecTypeOK, RunReturns
<1>5. f \in ready => fpc'[f] \in {"start", "event_parked", "group_parked"}
  BY DEF RunInv
<1>7. Lands(w, f)
  BY <1>1, <1>4, <1>5 DEF Lands
<1>8. RunInv'
  BY <1>3, <1>7, MovesKeepRuns
<1>9. CallInv'
  <2>1. fpc'[f] = "end" \/ fpc'[f] = fpc[f]
    BY DEF ExecTypeOK
  <2> QED BY <1>3, <2>1, MovesKeepCalls DEF CallInv
<1> QED BY <1>3, <1>8, <1>9 DEF Kept

\* A worker takes the fiber.
LEMMA TakeStepKept ==
    ASSUME Sticky, ExecTypeOK, RunInv, CallInv, NEW w \in Workers, NEW f \in Fibers, Take(w, f),
           NEW y,
           at' = at, fpc' = [fpc EXCEPT ![f] = y],
           \/ y = "start" /\ fpc[f] = "start"
           \/ y = "event_dtor" /\ fpc[f] = "event_parked"
           \/ y = "group_dtor" /\ fpc[f] = "group_parked"
    PROVE  Kept(w, f)
<1>0. f # nullptr /\ w # nullptr
  BY ExecutorAssumption
<1>1. /\ OnlyFor(w, f) /\ run[w] = nullptr /\ f \in ready
      /\ wpc' = [wpc EXCEPT ![w] = "fiber"] /\ run' = [run EXCEPT ![w] = f]
      /\ home' = [home EXCEPT ![f] = w] /\ ready' = ready \ {f}
  BY TakeAlone DEF OnlyFor
<1>2. ExecTypeOK'
  BY <1>1 DEF ExecTypeOK, FiberRuns
<1>3. Moves(w, f)
  BY <1>1, <1>2 DEF Moves, ExecTypeOK
<1>4. wpc'[w] = "fiber" /\ run'[w] = f /\ home'[f] = w /\ fpc'[f] = y
  BY <1>1 DEF ExecTypeOK
<1>7. Lands(w, f)
  BY <1>0, <1>1, <1>4 DEF Lands, FiberRuns
<1>8. RunInv'
  BY <1>3, <1>7, MovesKeepRuns
<1>9. CallInv'
  BY <1>3, <1>4, MovesKeepCalls DEF CallInv
<1> QED BY <1>3, <1>8, <1>9 DEF Kept

\* A call that fiber f is about to make.
LEMMA CallsWithin ==
    ASSUME NEW f, NEW call, Calls(f, call)
    PROVE  Within(f, call) /\ fpc[f] = "start"
BY DEF Calls, Within

\* The fibers that Fire and Done schedule are parked.
LEMMA PoppedParked ==
    ASSUME SyncInv
    PROVE  /\ event_waiters_ # <<>> =>
                /\ Head(event_waiters_) = event_waiters_[1] /\ event_waiters_[1] \in Fibers
                /\ fpc[event_waiters_[1]] = "event_parked" /\ event_waiters_[1] \notin ready
           /\ \A f \in Fibers : wg_waiter[f] # nullptr =>
                /\ walk[f] # <<>> /\ wg_waiter[f] = walk[f][1] /\ wg_waiter[f] \in Fibers
                /\ Ahead(f, wg_waiter[f])
                /\ fpc[wg_waiter[f]] = "group_parked" /\ wg_waiter[f] \notin ready
<1>1. ASSUME event_waiters_ # <<>>
      PROVE  /\ Head(event_waiters_) = event_waiters_[1] /\ event_waiters_[1] \in Fibers
             /\ fpc[event_waiters_[1]] = "event_parked" /\ event_waiters_[1] \notin ready
  <2>1. event_waiters_ \in Seq(Fibers)
    BY DEF SyncInv, WaiterInv, EventTypeOK
  <2>2. Len(event_waiters_) \in Nat \ {0} /\ Head(event_waiters_) = event_waiters_[1]
        /\ event_waiters_[1] \in Fibers
    BY <1>1, <2>1, TailAt
  <2>3. InEventList(event_waiters_[1])
    <3>1. 1 \in 1..Len(event_waiters_)
      BY <2>2
    <3> QED BY <3>1 DEF InEventList
  <2> QED BY <2>2, <2>3 DEF SyncInv, WaiterInv, ParkedOnce, EventParkedOnce
<1>2. ASSUME NEW f \in Fibers, wg_waiter[f] # nullptr
      PROVE  /\ walk[f] # <<>> /\ wg_waiter[f] = walk[f][1] /\ wg_waiter[f] \in Fibers
             /\ Ahead(f, wg_waiter[f])
             /\ fpc[wg_waiter[f]] = "group_parked" /\ wg_waiter[f] \notin ready
  <2>1. walk[f] \in Seq(Fibers)
    BY DEF SyncInv, WaiterInv, GroupTypeOK
  <2>2. walk[f] # <<>> /\ wg_waiter[f] = walk[f][1]
    BY <1>2 DEF SyncInv, WaiterInv, ParkedOnce, GroupParkedOnce, LinkInv
  <2>3. Len(walk[f]) \in Nat \ {0} /\ walk[f][1] \in Fibers
    BY <2>1, <2>2, TailAt
  <2>4. Ahead(f, wg_waiter[f])
    <3>1. 1 \in 1..Len(walk[f])
      BY <2>3
    <3> QED BY <2>2, <3>1 DEF Ahead
  <2> QED BY <2>2, <2>3, <2>4 DEF SyncInv, WaiterInv, ParkedOnce, GroupParkedOnce
<1> QED BY <1>1, <1>2

\* A function that is changed where it has the value already.
LEMMA SameValue ==
    ASSUME NEW S, NEW T, NEW h \in [S -> T], NEW s \in S
    PROVE  h = [h EXCEPT ![s] = h[s]]
OBVIOUS

\* A fiber runs for the first time, or comes to its end.
LEMMA ExecStepsKept ==
    ASSUME Sticky, SyncInv, NEW w \in Workers, NEW f \in Fibers, Begin(w, f) \/ End(w, f)
    PROVE  Kept(w, f)
<1>0. ExecTypeOK /\ RunInv /\ CallInv
  BY DEF SyncInv, WaiterInv
<1>1. CASE Begin(w, f)
  <2>1. fpc' = [fpc EXCEPT ![f] = "start"] /\ fpc[f] = "start" /\ at' = at /\ Take(w, f)
    BY <1>0, <1>1, SameValue DEF Begin, fiberVars, ExecTypeOK
  <2> QED BY <1>0, <2>1, TakeStepKept
<1>2. CASE End(w, f)
  BY <1>0, <1>2, ReturnStepKept DEF End, Executes, FiberGoto
<1> QED BY <1>1, <1>2

\* The steps of Event::Wait and Event::Fire.
LEMMA EventStepsKept ==
    ASSUME Sticky, SyncInv, NEW w \in Workers, NEW f \in Fibers, EventStep(w, f)
    PROVE  Kept(w, f)
<1>0. ExecTypeOK /\ RunInv /\ CallInv
  BY DEF SyncInv, WaiterInv
<1>a. fpc = [fpc EXCEPT ![f] = fpc[f]]
  BY <1>0, SameValue DEF ExecTypeOK
<1>1. CASE EventWait(w, f)
  <2>1. Within(f, "Event::Wait")
    BY <1>1, CallsWithin DEF EventWait
  <2> QED BY <1>0, <1>1, <2>1, AwaitStepKept DEF EventWait, Executes, FiberGoto, SwitchOut
<1>2. CASE EventPark(w, f)
  BY <1>0, <1>2, AwaitStepKept DEF EventPark, FiberGoto, AwaitGoto
<1>3. CASE EventUnlock(w, f)
  <2>1. fpc[f] = "event_parked" /\ fpc' = [fpc EXCEPT ![f] = "event_parked"] /\ at' = at
    BY <1>0, <1>a, <1>3 DEF EventUnlock, RunInv, fiberVars
  <2> QED BY <1>0, <1>3, <2>1, AwaitStepKept DEF EventUnlock, AwaitGoto
<1>4. CASE EventDisown(w, f)
  BY <1>0, <1>4, ReturnStepKept DEF EventDisown, fiberVars
<1>5. CASE EventResume(w, f)
  BY <1>0, <1>5, TakeStepKept DEF EventResume, FiberGoto
<1>6. CASE EventWaitReturn(w, f)
  <2>1. "start" \in FiberRuns /\ UNCHANGED <<wpc, run, home, ready>>
    BY <1>6 DEF FiberRuns, EventWaitReturn, workerVars
  <2>2. ParkedScheduled
    BY <1>0, <2>1 DEF ExecTypeOK, ParkedScheduled
  <2> QED BY <1>0, <1>6, <2>1, <2>2, FiberStepKept DEF MayGo, EventWaitReturn, Return
<1>7. CASE Fire(w, f)
  <2>1. "fire_loop" \in FiberRuns /\ UNCHANGED <<wpc, run, home, ready>> /\ Within(f, "Fire")
    BY <1>7, CallsWithin DEF FiberRuns, Fire, workerVars
  <2>2. ParkedScheduled
    BY <1>0, <2>1 DEF ExecTypeOK, ParkedScheduled
  <2> QED BY <1>0, <1>7, <2>1, <2>2, FiberStepKept DEF MayGo, Fire, FiberGoto
<1>8. CASE FirePop(w, f)
  <2>1. /\ "fire_loop" \in FiberRuns /\ UNCHANGED <<wpc, run, home, at>>
        /\ fpc[f] = "fire_loop" /\ fpc' = [fpc EXCEPT ![f] = "fire_loop"]
        /\ ready' = ready \union {event_waiters_[1]}
    BY <1>a, <1>8, PoppedParked DEF FiberRuns, FirePop, fiberVars, Schedule
  <2>2. ParkedScheduled
    BY <1>0, <1>8, <2>1, PoppedParked DEF ExecTypeOK, ParkedScheduled, FirePop
  <2> QED BY <1>0, <1>8, <2>1, <2>2, FiberStepKept DEF MayGo, FirePop
<1>9. CASE FireReturn(w, f)
  <2>1. "start" \in FiberRuns /\ UNCHANGED <<wpc, run, home, ready>>
    BY <1>9 DEF FiberRuns, FireReturn, workerVars
  <2>2. ParkedScheduled
    BY <1>0, <2>1 DEF ExecTypeOK, ParkedScheduled
  <2> QED BY <1>0, <1>9, <2>1, <2>2, FiberStepKept DEF MayGo, FireReturn, Return
<1> QED BY <1>1, <1>2, <1>3, <1>4, <1>5, <1>6, <1>7, <1>8, <1>9 DEF EventStep

\* The destructor of a guard that finds is_owner set holds the spinlock.
LEMMA DtorReleasesOnce ==
    ASSUME SyncInv, NEW w \in Workers, NEW f \in Fibers, GroupWaitReturn(w, f)
    PROVE  /\ holder' = (IF is_owner[f] THEN nullptr ELSE holder)
           /\ is_owner' = [is_owner EXCEPT ![f] = FALSE]
           /\ Return(f)
           /\ is_owner[f] <=> holder = f
<1>1. fpc[f] = "group_dtor" /\ run[w] = f /\ wpc[w] = "fiber"
  BY DEF GroupWaitReturn, Executes
<1>2. OnlyFor(w, f)
  BY <1>1, RunsForOne DEF SyncInv, WaiterInv
<1>3. \A v \in Workers : run[v] = f => wpc[v] = "fiber"
  BY <1>1, <1>2 DEF OnlyFor
<1>4. (holder = f <=> Holds(f)) /\ (Holds(f) <=> is_owner[f])
  BY <1>1, <1>3 DEF SyncInv, WaiterInv, GuardExclusive, Holds
<1> QED BY <1>4 DEF GroupWaitReturn

\* The steps of the methods of WaitGroup.
LEMMA GroupStepsKept ==
    ASSUME Sticky, SyncInv, NEW w \in Workers, NEW f \in Fibers, GroupStep(w, f)
    PROVE  Kept(w, f)
<1>0. ExecTypeOK /\ RunInv /\ CallInv
  BY DEF SyncInv, WaiterInv
<1>a. fpc = [fpc EXCEPT ![f] = fpc[f]]
  BY <1>0, SameValue DEF ExecTypeOK
<1>b. {"start", "add", "done", "wait", "walk", "group_dtor"} \subseteq FiberRuns
  BY DEF FiberRuns
<1>c. ASSUME ready' = ready PROVE ParkedScheduled
  BY <1>0, <1>c DEF ExecTypeOK, ParkedScheduled
<1>1. CASE Guard(w, f)
  <2>1. UNCHANGED <<wpc, run, home, ready>> /\ Executes(w, f)
    BY <1>1 DEF Guard, workerVars
  <2>2. \/ fpc' = [fpc EXCEPT ![f] = "add"] /\ at' = at /\ Within(f, "Add")
        \/ fpc' = [fpc EXCEPT ![f] = "done"] /\ at' = at /\ Within(f, "Done")
        \/ fpc' = [fpc EXCEPT ![f] = "wait"] /\ at' = at /\ Within(f, "WaitGroup::Wait")
    BY <1>1, CallsWithin DEF Guard, FiberGoto
  <2>3. CASE fpc' = [fpc EXCEPT ![f] = "add"] /\ at' = at /\ Within(f, "Add")
    BY <1>0, <1>b, <1>c, <2>1, <2>3, FiberStepKept DEF MayGo
  <2>4. CASE fpc' = [fpc EXCEPT ![f] = "done"] /\ at' = at /\ Within(f, "Done")
    BY <1>0, <1>b, <1>c, <2>1, <2>4, FiberStepKept DEF MayGo
  <2>5. CASE fpc' = [fpc EXCEPT ![f] = "wait"] /\ at' = at /\ Within(f, "WaitGroup::Wait")
    BY <1>0, <1>b, <1>c, <2>1, <2>5, FiberStepKept DEF MayGo
  <2> QED BY <2>2, <2>3, <2>4, <2>5
<1>2. CASE Add(w, f)
  <2>1. UNCHANGED <<wpc, run, home, ready>> /\ Executes(w, f)
    BY <1>2 DEF Add, workerVars
  <2> QED BY <1>0, <1>b, <1>c, <1>2, <2>1, FiberStepKept DEF MayGo, Add, Return
<1>3. CASE Done(w, f)
  <2>1. /\ UNCHANGED <<wpc, run, home, ready, at>> /\ Executes(w, f) /\ Within(f, "Done")
        /\ fpc' = [fpc EXCEPT ![f] = "walk"]
    BY <1>0, <1>3 DEF Done, workerVars, CallInv, FiberGoto
  <2> QED BY <1>0, <1>b, <1>c, <2>1, FiberStepKept DEF MayGo
<1>4. CASE DoneSchedule(w, f)
  <2>1. /\ UNCHANGED <<wpc, run, home, at>> /\ Executes(w, f) /\ fpc[f] = "walk"
        /\ fpc' = [fpc EXCEPT ![f] = "walk"] /\ wg_waiter[f] # nullptr
        /\ ready' = ready \union {wg_waiter[f]}
    BY <1>a, <1>4 DEF DoneSchedule, fiberVars, Schedule
  <2>2. ParkedScheduled
    BY <1>0, <2>1, PoppedParked DEF ExecTypeOK, ParkedScheduled
  <2> QED BY <1>0, <1>b, <2>1, <2>2, FiberStepKept DEF MayGo
<1>5. CASE DoneReturn(w, f)
  <2>1. UNCHANGED <<wpc, run, home, ready>> /\ Executes(w, f)
    BY <1>5 DEF DoneReturn, workerVars
  <2> QED BY <1>0, <1>b, <1>c, <1>5, <2>1, FiberStepKept DEF MayGo, DoneReturn, Return
<1>6. CASE GroupWaitNot(w, f)
  <2>1. /\ UNCHANGED <<wpc, run, home, ready, at>> /\ Executes(w, f)
        /\ Within(f, "WaitGroup::Wait") /\ fpc' = [fpc EXCEPT ![f] = "group_dtor"]
    BY <1>0, <1>6 DEF GroupWaitNot, workerVars, CallInv, FiberGoto
  <2> QED BY <1>0, <1>b, <1>c, <2>1, FiberStepKept DEF MayGo
<1>7. CASE GroupWait(w, f)
  <2>1. Within(f, "WaitGroup::Wait")
    BY <1>0, <1>7 DEF GroupWait, CallInv
  <2> QED BY <1>0, <1>7, <2>1, AwaitStepKept DEF GroupWait, Executes, FiberGoto, SwitchOut
<1>8. CASE GroupPark(w, f)
  BY <1>0, <1>8, AwaitStepKept DEF GroupPark, FiberGoto, AwaitGoto
<1>9. CASE GroupRelease(w, f)
  <2>1. fpc[f] = "group_parked" /\ fpc' = [fpc EXCEPT ![f] = "group_parked"] /\ at' = at
    BY <1>0, <1>a, <1>9 DEF GroupRelease, RunInv, fiberVars
  <2> QED BY <1>0, <1>9, <2>1, AwaitStepKept DEF GroupRelease, AwaitGoto
<1>10. CASE GroupDisown(w, f)
  BY <1>0, <1>10, ReturnStepKept DEF GroupDisown, fiberVars
<1>11. CASE GroupResume(w, f)
  BY <1>0, <1>11, TakeStepKept DEF GroupResume, FiberGoto
<1>12. CASE GroupWaitReturn(w, f)
  <2>1. UNCHANGED <<wpc, run, home, ready>> /\ Executes(w, f)
    BY <1>12 DEF GroupWaitReturn, workerVars
  <2> QED BY <1>0, <1>b, <1>c, <1>12, <2>1, FiberStepKept, DtorReleasesOnce DEF MayGo, Return
<1> QED BY <1>1, <1>2, <1>3, <1>4, <1>5, <1>6, <1>7, <1>8, <1>9, <1>10, <1>11, <1>12 DEF GroupStep

-----------------------------------------------------------------------------
(* The event.                                                              *)

\* The part of the invariant that the event is about.
EventInv == EventTypeOK /\ SpinlockExclusive /\ EventParkedOnce

\* The other workers and fibers are where they were.
LEMMA OthersInside ==
    ASSUME SyncInv, NEW w \in Workers, NEW f \in Fibers, Kept(w, f)
    PROVE  /\ \A v \in Workers : v # w => (InsideEvent(v)' <=> InsideEvent(v))
           /\ \A v \in Workers, g \in Fibers : v # w => (Unlocks(v, g)' <=> Unlocks(v, g))
           /\ \A g \in Fibers : g # f => ~Unlocks(w, g) /\ ~Unlocks(w, g)'
           /\ \A v \in Workers : v # w => ~Unlocks(v, f)
<1>0. nullptr \notin Fibers
  BY ExecutorAssumption
<1>1. ASSUME NEW v \in Workers, v # w
      PROVE  /\ wpc'[v] = wpc[v] /\ run'[v] = run[v] /\ run[v] # f
             /\ run[v] = nullptr => wpc[v] = "idle"
             /\ run[v] # nullptr => run[v] \in Fibers /\ fpc'[run[v]] = fpc[run[v]]
  BY <1>1 DEF SyncInv, WaiterInv, ExecTypeOK, RunInv, Kept, Moves, OnlyFor
<1>2. ASSUME NEW v \in Workers, v # w PROVE InsideEvent(v)' <=> InsideEvent(v)
  BY <1>1, <1>2 DEF InsideEvent
<1>3. ASSUME NEW v \in Workers, v # w, NEW g \in Fibers
      PROVE  (Unlocks(v, g)' <=> Unlocks(v, g)) /\ ~Unlocks(v, f)
  BY <1>0, <1>1, <1>3 DEF Unlocks
<1>4. ASSUME NEW g \in Fibers, g # f PROVE ~Unlocks(w, g) /\ ~Unlocks(w, g)'
  BY <1>0, <1>4 DEF Kept, Moves, Unlocks
<1> QED BY <1>2, <1>3, <1>4

\* The SpinLock is taken, given up, or left alone.
LEMMA SpinlockKept ==
    ASSUME SyncInv, NEW w \in Workers, NEW f \in Fibers, Kept(w, f), EventTypeOK',
           owns'[f] <=> Unlocks(w, f)',
           \A g \in Fibers : g # f => owns'[g] = owns[g],
           \/ lock_' = lock_ /\ (InsideEvent(w)' <=> InsideEvent(w))
           \/ ~lock_ /\ lock_' /\ InsideEvent(w)'
           \/ InsideEvent(w) /\ ~lock_' /\ ~InsideEvent(w)'
    PROVE  SpinlockExclusive'
<1>0. /\ lock_ <=> \E v \in Workers : InsideEvent(v)
      /\ \A u, v \in Workers : InsideEvent(u) /\ InsideEvent(v) => u = v
      /\ \A g \in Fibers : owns[g] <=> \E v \in Workers : Unlocks(v, g)
      /\ lock_ \in BOOLEAN /\ lock_' \in BOOLEAN
  BY DEF SyncInv, WaiterInv, SpinlockExclusive, EventTypeOK
<1>1. \A v \in Workers : v # w => (InsideEvent(v)' <=> InsideEvent(v))
  BY OthersInside
<1>2. lock_' <=> \E v \in Workers : InsideEvent(v)'
  BY <1>0, <1>1
<1>3. \A u, v \in Workers : InsideEvent(u)' /\ InsideEvent(v)' => u = v
  BY <1>0, <1>1
<1>4. ASSUME NEW g \in Fibers PROVE owns'[g] <=> \E v \in Workers : Unlocks(v, g)'
  <2>1. CASE g # f
    BY <1>0, <2>1, OthersInside
  <2>2. CASE g = f
    BY <2>2, OthersInside
  <2> QED BY <2>1, <2>2
<1> QED BY <1>2, <1>3, <1>4 DEF SpinlockExclusive

\* The list of waiters is left alone.
LEMMA EventListKept ==
    ASSUME SyncInv, NEW w \in Workers, NEW f \in Fibers, Kept(w, f),
           event_waiters_' = event_waiters_,
           fpc[f] = "event_parked" /\ f \notin ready <=> fpc'[f] = "event_parked" /\ f \notin ready',
           \A g \in Fibers : g # f /\ fpc[g] = "event_parked" => (g \in ready' <=> g \in ready)
    PROVE  EventParkedOnce'
<1>1. \A g \in Fibers : fpc[g] = "event_parked" /\ g \notin ready
                          <=> fpc'[g] = "event_parked" /\ g \notin ready'
  BY DEF Kept, Moves
<1>2. \A g \in Fibers : InEventList(g)' <=> InEventList(g)
  BY DEF InEventList
<1> QED BY <1>1, <1>2 DEF SyncInv, WaiterInv, ParkedOnce, EventParkedOnce

\* A step that is none of the event's.
LEMMA EventFrame ==
    ASSUME SyncInv, NEW w \in Workers, NEW f \in Fibers, Kept(w, f), UNCHANGED eventVars,
           ~InsideEvent(w), ~InsideEvent(w)', ~Unlocks(w, f), ~Unlocks(w, f)',
           fpc[f] # "event_parked", fpc'[f] # "event_parked",
           \A g \in Fibers : fpc[g] = "event_parked" => (g \in ready' <=> g \in ready)
    PROVE  EventInv'
<1>1. UNCHANGED <<lock_, owns, event_waiters_>>
  BY DEF eventVars
<1>2. EventTypeOK'
  BY <1>1 DEF SyncInv, WaiterInv, EventTypeOK
<1>3. ~owns[f]
  BY OthersInside DEF SyncInv, WaiterInv, SpinlockExclusive
<1>4. SpinlockExclusive'
  BY <1>1, <1>2, <1>3, SpinlockKept
<1>5. EventParkedOnce'
  BY <1>1, EventListKept
<1> QED BY <1>2, <1>4, <1>5 DEF EventInv

\* What the worker of a running fiber, or of one in AwaitSuspend, is doing.
LEMMA EventStepFacts ==
    ASSUME SyncInv, NEW w \in Workers, NEW f \in Fibers, Kept(w, f)
    PROVE  /\ DOMAIN wpc = Workers /\ DOMAIN fpc = Fibers
           /\ owns \in [Fibers -> BOOLEAN] /\ lock_ \in BOOLEAN /\ event_waiters_ \in Seq(Fibers)
           /\ owns[f] <=> Unlocks(w, f)
           /\ InsideEvent(w) => lock_
           /\ Executes(w, f) => ~Unlocks(w, f) /\ f \notin ready
<1>1. DOMAIN wpc = Workers /\ DOMAIN fpc = Fibers
  BY DEF SyncInv, WaiterInv, ExecTypeOK
<1>2. owns \in [Fibers -> BOOLEAN] /\ lock_ \in BOOLEAN /\ event_waiters_ \in Seq(Fibers)
  BY DEF SyncInv, WaiterInv, EventTypeOK
<1>3. (owns[f] <=> Unlocks(w, f)) /\ (InsideEvent(w) => lock_)
  BY OthersInside DEF SyncInv, WaiterInv, SpinlockExclusive
<1>4. Executes(w, f) => ~Unlocks(w, f) /\ f \notin ready
  BY DEF SyncInv, WaiterInv, RunInv, Executes, Unlocks
<1> QED BY <1>1, <1>2, <1>3, <1>4

\* Park puts a fiber into the list that was in no list.
LEMMA EventParkKept ==
    ASSUME SyncInv, NEW w \in Workers, NEW f \in Fibers, Kept(w, f), EventPark(w, f)
    PROVE  EventParkedOnce'
<1>1. /\ event_waiters_ \in Seq(Fibers) /\ event_waiters_' = Append(event_waiters_, f)
      /\ ready' = ready /\ fpc[f] = "event_suspending" /\ f \notin ready
      /\ \A i, j \in 1..Len(event_waiters_) : event_waiters_[i] = event_waiters_[j] => i = j
      /\ \A g \in Fibers : InEventList(g) <=> fpc[g] = "event_parked" /\ g \notin ready
      /\ fpc'[f] = "event_parked" /\ \A g \in Fibers : g # f => fpc'[g] = fpc[g]
  BY DEF EventPark, AwaitGoto, FiberGoto, SyncInv, WaiterInv, EventTypeOK, ParkedOnce,
         EventParkedOnce, RunInv, ExecTypeOK
<1>2. /\ Len(event_waiters_) \in Nat /\ Len(event_waiters_') = Len(event_waiters_) + 1
      /\ event_waiters_'[Len(event_waiters_) + 1] = f
      /\ \A i \in 1..Len(event_waiters_) : event_waiters_'[i] = event_waiters_[i]
  BY <1>1, AppendAt
<1>3. \A i \in 1..Len(event_waiters_) : event_waiters_[i] # f
  BY <1>1 DEF InEventList
<1>4. \A i, j \in 1..Len(event_waiters_') : event_waiters_'[i] = event_waiters_'[j] => i = j
  BY <1>1, <1>2, <1>3
<1>5. \A g \in Fibers : InEventList(g)' <=> InEventList(g) \/ g = f
  <2> SUFFICES ASSUME NEW g \in Fibers PROVE InEventList(g)' <=> InEventList(g) \/ g = f
    OBVIOUS
  <2>1. \A i \in 1..Len(event_waiters_') : i \in 1..Len(event_waiters_) \/ i = Len(event_waiters_) + 1
    BY <1>2
  <2>2. Len(event_waiters_) + 1 \in 1..Len(event_waiters_')
        /\ \A i \in 1..Len(event_waiters_) : i \in 1..Len(event_waiters_')
    BY <1>2
  <2> QED BY <1>2, <2>1, <2>2 DEF InEventList
<1> QED BY <1>1, <1>4, <1>5 DEF EventParkedOnce

\* Fire moves the first waiter from the list to the executor.
LEMMA FirePopKept ==
    ASSUME SyncInv, NEW w \in Workers, NEW f \in Fibers, Kept(w, f), FirePop(w, f)
    PROVE  EventParkedOnce' /\ event_waiters_' \in Seq(Fibers)
<1> DEFINE g == event_waiters_[1]
<1>1. /\ event_waiters_ \in Seq(Fibers) /\ event_waiters_ # <<>> /\ event_waiters_' = Tail(event_waiters_)
      /\ \A i, j \in 1..Len(event_waiters_) : event_waiters_[i] = event_waiters_[j] => i = j
      /\ \A h \in Fibers : InEventList(h) <=> fpc[h] = "event_parked" /\ h \notin ready
      /\ fpc' = fpc
  BY DEF FirePop, fiberVars, SyncInv, WaiterInv, EventTypeOK, ParkedOnce, EventParkedOnce
<1>2. /\ Len(event_waiters_) \in Nat \ {0} /\ event_waiters_' \in Seq(Fibers)
      /\ Len(event_waiters_') = Len(event_waiters_) - 1
      /\ \A i \in 1..Len(event_waiters_) - 1 : event_waiters_'[i] = event_waiters_[i + 1]
  BY <1>1, TailAt
<1>3. ready' = ready \union {g}
  BY <1>1, PoppedParked DEF FirePop, Schedule
<1> HIDE DEF g
<1>4. /\ \A i \in 1..Len(event_waiters_') : i + 1 \in 1..Len(event_waiters_)
      /\ \A i \in 1..Len(event_waiters_) : i = 1 \/ i - 1 \in 1..Len(event_waiters_')
      /\ 1 \in 1..Len(event_waiters_)
  BY <1>2
<1>5. \A i, j \in 1..Len(event_waiters_') : event_waiters_'[i] = event_waiters_'[j] => i = j
  BY <1>1, <1>2, <1>4
<1>6. ASSUME NEW h \in Fibers PROVE InEventList(h)' <=> InEventList(h) /\ h # g
  <2>1. ASSUME NEW i \in 1..Len(event_waiters_'), event_waiters_'[i] = h
        PROVE  InEventList(h) /\ h # g
    <3>1. event_waiters_[i + 1] = h /\ i + 1 \in 1..Len(event_waiters_) /\ i + 1 # 1
      BY <1>2, <1>4, <2>1
    <3> QED BY <1>1, <1>4, <3>1 DEF InEventList, g
  <2>2. ASSUME NEW i \in 1..Len(event_waiters_), event_waiters_[i] = h, h # g
        PROVE  InEventList(h)'
    <3>1. i - 1 \in 1..Len(event_waiters_')
      BY <1>4, <2>2 DEF g
    <3>2. event_waiters_'[i - 1] = event_waiters_[(i - 1) + 1] /\ (i - 1) + 1 = i
      BY <1>2, <3>1
    <3> QED BY <2>2, <3>1, <3>2 DEF InEventList
  <2> QED BY <2>1, <2>2 DEF InEventList
<1> QED BY <1>1, <1>2, <1>3, <1>5, <1>6 DEF EventParkedOnce

\* Every step of the event keeps the part of the event.
LEMMA EventStepsInv ==
    ASSUME Sticky, SyncInv, NEW w \in Workers, NEW f \in Fibers, EventStep(w, f)
    PROVE  EventInv'
<1>0. Kept(w, f)
  BY EventStepsKept
<1>a. /\ DOMAIN wpc = Workers /\ DOMAIN fpc = Fibers
      /\ owns \in [Fibers -> BOOLEAN] /\ lock_ \in BOOLEAN /\ event_waiters_ \in Seq(Fibers)
      /\ owns[f] <=> Unlocks(w, f)
      /\ InsideEvent(w) => lock_
      /\ Executes(w, f) => ~Unlocks(w, f) /\ f \notin ready
  BY <1>0, EventStepFacts
<1>1. CASE EventWait(w, f)
  <2>1. /\ owns' = [owns EXCEPT ![f] = TRUE] /\ event_waiters_' = event_waiters_ /\ ~lock_ /\ lock_'
        /\ lock_' \in BOOLEAN
        /\ run'[w] = f /\ wpc'[w] = "await" /\ fpc'[f] = "event_suspending" /\ fpc[f] = "start"
        /\ ready' = ready
    BY <1>1, <1>a DEF EventWait, Executes, Calls, SpinLockLock, FiberGoto, SwitchOut
  <2>2. EventTypeOK'
    BY <1>a, <2>1 DEF EventTypeOK
  <2>3. SpinlockExclusive'
    BY <1>0, <1>a, <2>1, <2>2, SpinlockKept DEF InsideEvent, Unlocks
  <2>4. EventParkedOnce'
    BY <1>0, <2>1, EventListKept
  <2> QED BY <2>2, <2>3, <2>4 DEF EventInv
<1>2. CASE EventPark(w, f)
  <2>1. /\ UNCHANGED <<lock_, owns>> /\ event_waiters_' = Append(event_waiters_, f)
        /\ run[w] = f /\ wpc[w] = "await" /\ fpc[f] = "event_suspending"
        /\ run'[w] = f /\ wpc'[w] = "event_unlock" /\ fpc'[f] = "event_parked"
    BY <1>2, <1>a DEF EventPark, FiberGoto, AwaitGoto
  <2>2. EventTypeOK'
    BY <1>a, <2>1, AppendAt DEF EventTypeOK
  <2>3. SpinlockExclusive'
    BY <1>0, <1>a, <2>1, <2>2, SpinlockKept DEF InsideEvent, Unlocks
  <2> QED BY <1>0, <1>2, <2>2, <2>3, EventParkKept DEF EventInv
<1>3. CASE EventUnlock(w, f)
  <2>1. /\ UNCHANGED <<owns, event_waiters_, fpc, ready>> /\ lock_' = FALSE
        /\ run[w] = f /\ wpc[w] = "event_unlock"
        /\ run'[w] = f /\ wpc'[w] = "event_disown"
    BY <1>3, <1>a DEF EventUnlock, AwaitGoto, fiberVars
  <2>2. EventTypeOK'
    BY <1>a, <2>1 DEF EventTypeOK
  <2>3. SpinlockExclusive'
    BY <1>0, <1>a, <2>1, <2>2, SpinlockKept DEF InsideEvent, Unlocks
  <2>4. EventParkedOnce'
    BY <1>0, <2>1, EventListKept
  <2> QED BY <2>2, <2>3, <2>4 DEF EventInv
<1>4. CASE EventDisown(w, f)
  <2>1. /\ UNCHANGED <<lock_, event_waiters_, fpc, ready>> /\ owns' = [owns EXCEPT ![f] = FALSE]
        /\ run[w] = f /\ wpc[w] = "event_disown"
        /\ wpc'[w] = "idle"
    BY <1>4, <1>a DEF EventDisown, RunReturns, fiberVars
  <2>2. EventTypeOK'
    BY <1>a, <2>1 DEF EventTypeOK
  <2>3. SpinlockExclusive'
    BY <1>0, <1>a, <2>1, <2>2, SpinlockKept DEF InsideEvent, Unlocks
  <2>4. EventParkedOnce'
    BY <1>0, <2>1, EventListKept
  <2> QED BY <2>2, <2>3, <2>4 DEF EventInv
<1>5. CASE EventResume(w, f)
  <2>1. /\ UNCHANGED <<lock_, owns, event_waiters_>> /\ ready' = ready \ {f} /\ f \in ready
        /\ wpc[w] = "idle" /\ wpc'[w] = "fiber" /\ fpc[f] = "event_parked" /\ fpc'[f] = "event_dtor"
    BY <1>5, <1>a DEF EventResume, Take, FiberGoto, eventVars
  <2>a. run'[w] = f
    <3>1. run'[w] = f \/ wpc'[w] = "idle"
      BY <1>5 DEF EventResume, Take, SyncInv, WaiterInv, ExecTypeOK
    <3> QED BY <2>1, <3>1
  <2>2. EventTypeOK'
    BY <1>a, <2>1 DEF EventTypeOK
  <2>3. SpinlockExclusive'
    BY <1>0, <1>a, <2>1, <2>2, <2>a, SpinlockKept DEF InsideEvent, Unlocks
  <2>4. EventParkedOnce'
    BY <1>0, <2>1, EventListKept
  <2> QED BY <2>2, <2>3, <2>4 DEF EventInv
<1>6. CASE EventWaitReturn(w, f)
  <2>1. /\ UNCHANGED <<wpc, run, ready, lock_, event_waiters_>> /\ owns' = [owns EXCEPT ![f] = FALSE]
        /\ run[w] = f /\ wpc[w] = "fiber" /\ fpc[f] = "event_dtor" /\ fpc'[f] = "start"
    BY <1>6, <1>a DEF EventWaitReturn, Executes, Return, workerVars
  <2>2. EventTypeOK'
    BY <1>a, <2>1 DEF EventTypeOK
  <2>3. SpinlockExclusive'
    BY <1>0, <1>a, <2>1, <2>2, SpinlockKept DEF InsideEvent, Unlocks
  <2>4. EventParkedOnce'
    BY <1>0, <2>1, EventListKept
  <2> QED BY <2>2, <2>3, <2>4 DEF EventInv
<1>7. CASE Fire(w, f)
  <2>1. /\ UNCHANGED <<wpc, run, ready, owns, event_waiters_>> /\ ~lock_ /\ lock_'
        /\ lock_' \in BOOLEAN
        /\ run[w] = f /\ wpc[w] = "fiber" /\ fpc[f] = "start" /\ fpc'[f] = "fire_loop"
    BY <1>7, <1>a DEF Fire, Executes, Calls, SpinLockLock, FiberGoto, workerVars
  <2>2. EventTypeOK'
    BY <1>a, <2>1 DEF EventTypeOK
  <2>3. SpinlockExclusive'
    BY <1>0, <1>a, <2>1, <2>2, SpinlockKept DEF InsideEvent, Unlocks
  <2>4. EventParkedOnce'
    BY <1>0, <2>1, EventListKept
  <2> QED BY <2>2, <2>3, <2>4 DEF EventInv
<1>8. CASE FirePop(w, f)
  <2>1. /\ UNCHANGED <<wpc, run, lock_, owns, fpc>>
        /\ run[w] = f /\ wpc[w] = "fiber" /\ fpc[f] = "fire_loop"
    BY <1>8, <1>a DEF FirePop, Executes, fiberVars, Schedule
  <2>2. EventTypeOK' /\ EventParkedOnce'
    BY <1>0, <1>8, <1>a, <2>1, FirePopKept DEF EventTypeOK
  <2>3. SpinlockExclusive'
    BY <1>0, <1>a, <2>1, <2>2, SpinlockKept DEF InsideEvent, Unlocks
  <2> QED BY <2>2, <2>3 DEF EventInv
<1>9. CASE FireReturn(w, f)
  <2>1. /\ UNCHANGED <<wpc, run, ready, owns, event_waiters_>> /\ lock_' = FALSE
        /\ run[w] = f /\ wpc[w] = "fiber" /\ fpc[f] = "fire_loop" /\ fpc'[f] = "start"
    BY <1>9, <1>a DEF FireReturn, Executes, Return, workerVars
  <2>2. EventTypeOK'
    BY <1>a, <2>1 DEF EventTypeOK
  <2>3. SpinlockExclusive'
    BY <1>0, <1>a, <2>1, <2>2, SpinlockKept DEF InsideEvent, Unlocks
  <2>4. EventParkedOnce'
    BY <1>0, <2>1, EventListKept
  <2> QED BY <2>2, <2>3, <2>4 DEF EventInv
<1> QED BY <1>1, <1>2, <1>3, <1>4, <1>5, <1>6, <1>7, <1>8, <1>9 DEF EventStep

-----------------------------------------------------------------------------
(* The wait group: what is left to count.                                  *)

\* A fiber goes on to its next call, or begins the walk of its Done.
LEMMA PairsStep ==
    ASSUME NEW a \in [Fibers -> Nat \ {0}], NEW b \in [Fibers -> Nat \ {0}], NEW W, NEW V,
           NEW f \in Fibers,
           \A g \in Fibers : g # f => b[g] = a[g] /\ (g \in W <=> g \in V)
    PROVE  /\ b[f] = a[f] /\ (f \in W <=> f \in V) =>
                /\ \A call : Pairs(b, call) = Pairs(a, call)
                /\ PairsBut(b, V) = PairsBut(a, W)
           /\ b[f] = a[f] + 1 /\ a[f] <= Len(Code[f]) /\ f \notin V
              /\ (Code[f][a[f]] = "Done" <=> f \in W) =>
                /\ Pairs(b, "Add") = Pairs(a, "Add") \ {<<f, a[f]>>}
                /\ PairsBut(b, V) = PairsBut(a, W)
           /\ b[f] = a[f] /\ f \in V /\ f \notin W =>
                /\ Pairs(b, "Add") = Pairs(a, "Add")
                /\ PairsBut(b, V) = PairsBut(a, W) \ {<<f, a[f]>>}
<1>1. \A c, call : /\ \A g, i : <<g, i>> \in Pairs(c, call) <=> g \in Fibers /\ i \in Later(g, c[g], call)
                   /\ \A x \in Pairs(c, call) : x = <<x[1], x[2]>>
  BY InPairs
<1>2. \A c, X : /\ \A g, i : <<g, i>> \in PairsBut(c, X) <=>
                     g \in Fibers /\ i \in Later(g, c[g], "Done") /\ ~(i = c[g] /\ g \in X)
                /\ \A x \in PairsBut(c, X) : x = <<x[1], x[2]>>
  <2> SUFFICES ASSUME NEW c, NEW X
               PROVE  /\ \A g, i : <<g, i>> \in PairsBut(c, X) <=>
                           g \in Fibers /\ i \in Later(g, c[g], "Done") /\ ~(i = c[g] /\ g \in X)
                      /\ \A x \in PairsBut(c, X) : x = <<x[1], x[2]>>
    OBVIOUS
  <2> QED BY <1>1 DEF PairsBut
<1>a. a[f] \in Nat \ {0}
  OBVIOUS
<1>3. ASSUME b[f] = a[f], f \in W <=> f \in V
      PROVE  /\ \A call : Pairs(b, call) = Pairs(a, call)
             /\ PairsBut(b, V) = PairsBut(a, W)
  <2>1. \A g \in Fibers : b[g] = a[g] /\ (g \in W <=> g \in V)
    BY <1>3
  <2>2. \A call : \A g, i : <<g, i>> \in Pairs(b, call) <=> <<g, i>> \in Pairs(a, call)
    BY <1>1, <2>1
  <2>3. ASSUME NEW call PROVE Pairs(b, call) = Pairs(a, call)
    <3>1. \A x \in Pairs(b, call) : x \in Pairs(a, call)
      BY <1>1, <2>2
    <3>2. \A x \in Pairs(a, call) : x \in Pairs(b, call)
      BY <1>1, <2>2
    <3> QED BY <3>1, <3>2
  <2>4. \A g, i : <<g, i>> \in PairsBut(b, V) <=> <<g, i>> \in PairsBut(a, W)
    BY <1>2, <2>1
  <2>5. PairsBut(b, V) = PairsBut(a, W)
    <3>1. \A x \in PairsBut(b, V) : x \in PairsBut(a, W)
      BY <1>2, <2>4
    <3>2. \A x \in PairsBut(a, W) : x \in PairsBut(b, V)
      BY <1>2, <2>4
    <3> QED BY <3>1, <3>2
  <2> QED BY <2>3, <2>5
<1>4. ASSUME b[f] = a[f] + 1, a[f] <= Len(Code[f]), f \notin V, Code[f][a[f]] = "Done" <=> f \in W
      PROVE  /\ Pairs(b, "Add") = Pairs(a, "Add") \ {<<f, a[f]>>}
             /\ PairsBut(b, V) = PairsBut(a, W)
  <2>1. \A call : \A k : k \in Later(f, b[f], call) <=> k \in Later(f, a[f], call) /\ k # a[f]
    BY <1>4, <1>a, LaterNext
  <2>2. a[f] \in Later(f, a[f], "Done") => f \in W
    BY <1>4 DEF Later
  <2>3. \A g, i : <<g, i>> \in Pairs(b, "Add") <=> <<g, i>> \in Pairs(a, "Add") /\ <<g, i>> # <<f, a[f]>>
    <3> SUFFICES ASSUME NEW g, NEW i
                 PROVE  <<g, i>> \in Pairs(b, "Add")
                          <=> <<g, i>> \in Pairs(a, "Add") /\ <<g, i>> # <<f, a[f]>>
      OBVIOUS
    <3>1. CASE g = f
      BY <1>1, <2>1, <3>1
    <3>2. CASE g # f
      BY <1>1, <3>2
    <3> QED BY <3>1, <3>2
  <2>4. \A g, i : <<g, i>> \in PairsBut(b, V) <=> <<g, i>> \in PairsBut(a, W)
    <3> SUFFICES ASSUME NEW g, NEW i
                 PROVE  <<g, i>> \in PairsBut(b, V) <=> <<g, i>> \in PairsBut(a, W)
      OBVIOUS
    <3>1. CASE g = f
      BY <1>2, <1>4, <2>1, <2>2, <3>1
    <3>2. CASE g # f
      BY <1>2, <3>2
    <3> QED BY <3>1, <3>2
  <2>5. Pairs(b, "Add") = Pairs(a, "Add") \ {<<f, a[f]>>}
    <3>1. \A x \in Pairs(b, "Add") : x \in Pairs(a, "Add") \ {<<f, a[f]>>}
      BY <1>1, <2>3
    <3>2. \A x \in Pairs(a, "Add") \ {<<f, a[f]>>} : x \in Pairs(b, "Add")
      BY <1>1, <2>3
    <3> QED BY <3>1, <3>2
  <2>6. PairsBut(b, V) = PairsBut(a, W)
    <3>1. \A x \in PairsBut(b, V) : x \in PairsBut(a, W)
      BY <1>2, <2>4
    <3>2. \A x \in PairsBut(a, W) : x \in PairsBut(b, V)
      BY <1>2, <2>4
    <3> QED BY <3>1, <3>2
  <2> QED BY <2>5, <2>6
<1>5. ASSUME b[f] = a[f], f \in V, f \notin W
      PROVE  /\ Pairs(b, "Add") = Pairs(a, "Add")
             /\ PairsBut(b, V) = PairsBut(a, W) \ {<<f, a[f]>>}
  <2>1. b = a
    BY <1>5
  <2>4. \A g, i : <<g, i>> \in PairsBut(b, V) <=> <<g, i>> \in PairsBut(a, W) /\ <<g, i>> # <<f, a[f]>>
    <3> SUFFICES ASSUME NEW g, NEW i
                 PROVE  <<g, i>> \in PairsBut(b, V)
                          <=> <<g, i>> \in PairsBut(a, W) /\ <<g, i>> # <<f, a[f]>>
      OBVIOUS
    <3>1. CASE g = f
      BY <1>2, <1>5, <3>1
    <3>2. CASE g # f
      BY <1>2, <2>1, <3>2
    <3> QED BY <3>1, <3>2
  <2>6. PairsBut(b, V) = PairsBut(a, W) \ {<<f, a[f]>>}
    <3>1. \A x \in PairsBut(b, V) : x \in PairsBut(a, W) \ {<<f, a[f]>>}
      BY <1>2, <2>4
    <3>2. \A x \in PairsBut(a, W) \ {<<f, a[f]>>} : x \in PairsBut(b, V)
      BY <1>2, <2>4
    <3> QED BY <3>1, <3>2
  <2> QED BY <2>1, <2>6
<1> QED BY <1>3, <1>4, <1>5

\* The fibers whose Done has decreased the counter.
Walkers == {f \in Fibers : fpc[f] = "walk"}

\* What is to come, and what is not done, in the terms of the lemmas above.
LEMMA CountedState ==
    /\ \A call : ToCome(call) = Pairs(at, call)
    /\ Undone = PairsBut(at, Walkers)
    /\ ToCome("Add")' = Pairs(at', "Add")
    /\ Undone' = PairsBut(at', Walkers')
<1>1. /\ \A call : ToCome(call) = Pairs(at, call)
      /\ \A call : ToCome(call)' = Pairs(at', call)
  BY DEF ToCome, Pairs
<1>2. /\ \A x \in Pairs(at, "Done") : x[1] \in Fibers
      /\ \A x \in Pairs(at', "Done") : x[1] \in Fibers
  BY InPairs
<1>3. Undone = PairsBut(at, Walkers)
  BY <1>1, <1>2 DEF Undone, PairsBut, Walkers
<1>4. Undone' = PairsBut(at', Walkers')
  BY <1>1, <1>2 DEF Undone, PairsBut, Walkers
<1>5. ToCome("Add")' = Pairs(at', "Add")
  BY <1>1
<1> QED BY <1>1, <1>3, <1>4, <1>5

\* The finite sets that are counted.
LEMMA CountedFinite ==
    ASSUME ExecTypeOK, CallInv
    PROVE  /\ IsFiniteSet(ToCome("Add")) /\ IsFiniteSet(Undone)
           /\ Cardinality(ToCome("Add")) \in Nat /\ Cardinality(Undone) \in Nat
           /\ Cardinality(ToCome("Add")) <= Cardinality(Undone)
           /\ Cardinality(ToCome("Add")) = Cardinality(Undone) => AllDone
<1>1. at \in [Fibers -> Nat \ {0}]
  BY DEF ExecTypeOK
<1>2. \A f \in Fibers : f \in Walkers => at[f] <= Len(Code[f]) /\ Code[f][at[f]] = "Done"
  BY DEF Walkers, CallInv, Within
<1>3. /\ IsFiniteSet(Pairs(at, "Add")) /\ IsFiniteSet(PairsBut(at, Walkers))
      /\ Cardinality(Pairs(at, "Add")) <= Cardinality(PairsBut(at, Walkers))
      /\ Cardinality(Pairs(at, "Add")) = Cardinality(PairsBut(at, Walkers))
           => \A fi \in PairsBut(at, Walkers) : Later(fi[1], 1, "Add") # {}
  BY <1>1, <1>2, CountedCalls
<1>4. ToCome("Add") = Pairs(at, "Add") /\ Undone = PairsBut(at, Walkers)
  BY CountedState
<1>5. IsFiniteSet(ToCome("Add")) /\ IsFiniteSet(Undone)
  BY <1>3, <1>4
<1>6. Cardinality(ToCome("Add")) \in Nat /\ Cardinality(Undone) \in Nat
  BY <1>5, FS_CardinalityType
<1> QED BY <1>3, <1>4, <1>5, <1>6 DEF AllDone

\* The same in the next state.
LEMMA CountedFiniteNext ==
    ASSUME NEW w, NEW f, Kept(w, f)
    PROVE  /\ Cardinality(ToCome("Add"))' \in Nat /\ Cardinality(Undone)' \in Nat
           /\ Cardinality(ToCome("Add"))' <= Cardinality(Undone)'
           /\ Cardinality(ToCome("Add"))' = Cardinality(Undone)' => AllDone'
<1>1. at' \in [Fibers -> Nat \ {0}]
  BY DEF Kept, Moves, ExecTypeOK
<1>2. \A g \in Fibers : g \in Walkers' => at'[g] <= Len(Code[g]) /\ Code[g][at'[g]] = "Done"
  BY DEF Walkers, Kept, CallInv, Within
<1>3. /\ IsFiniteSet(Pairs(at', "Add")) /\ IsFiniteSet(PairsBut(at', Walkers'))
      /\ Cardinality(Pairs(at', "Add")) <= Cardinality(PairsBut(at', Walkers'))
      /\ Cardinality(Pairs(at', "Add")) = Cardinality(PairsBut(at', Walkers'))
           => \A fi \in PairsBut(at', Walkers') : Later(fi[1], 1, "Add") # {}
  BY <1>1, <1>2, CountedCalls
<1>4. ToCome("Add")' = Pairs(at', "Add") /\ Undone' = PairsBut(at', Walkers')
  BY CountedState
<1>5. IsFiniteSet(ToCome("Add")') /\ IsFiniteSet(Undone')
  BY <1>3, <1>4
<1>6. Cardinality(ToCome("Add")') \in Nat /\ Cardinality(Undone') \in Nat
  BY <1>5, FS_CardinalityType
<1>7. AllDone' <=> \A fi \in Undone' : Later(fi[1], 1, "Add") # {}
  BY DEF AllDone, Later
<1> QED BY <1>3, <1>4, <1>6, <1>7

\* How a step changes the sets.
LEMMA CountedStep ==
    ASSUME SyncInv, NEW w \in Workers, NEW f \in Fibers, Kept(w, f)
    PROVE  /\ at'[f] = at[f] /\ (fpc[f] = "walk" <=> fpc'[f] = "walk") =>
                ToCome("Add")' = ToCome("Add") /\ Undone' = Undone
           /\ at'[f] = at[f] + 1 /\ fpc'[f] # "walk" /\ at[f] <= Len(Code[f])
              /\ (Code[f][at[f]] = "Done" <=> fpc[f] = "walk") =>
                ToCome("Add")' = ToCome("Add") \ {<<f, at[f]>>} /\ Undone' = Undone
           /\ at'[f] = at[f] /\ fpc'[f] = "walk" /\ fpc[f] # "walk" =>
                ToCome("Add")' = ToCome("Add") /\ Undone' = Undone \ {<<f, at[f]>>}
           /\ <<f, at[f]>> \in ToCome("Add") <=> at[f] <= Len(Code[f]) /\ Code[f][at[f]] = "Add"
           /\ <<f, at[f]>> \in Undone <=>
                at[f] <= Len(Code[f]) /\ Code[f][at[f]] = "Done" /\ fpc[f] # "walk"
<1>1. at \in [Fibers -> Nat \ {0}] /\ at' \in [Fibers -> Nat \ {0}]
  BY DEF SyncInv, WaiterInv, Kept, Moves, ExecTypeOK
<1>2. \A g \in Fibers : g # f => at'[g] = at[g] /\ (g \in Walkers <=> g \in Walkers')
  BY DEF Kept, Moves, Walkers
<1>3. (f \in Walkers <=> fpc[f] = "walk") /\ (f \in Walkers' <=> fpc'[f] = "walk")
  BY DEF Walkers
<1>4. /\ at'[f] = at[f] /\ (f \in Walkers <=> f \in Walkers') =>
           /\ \A call : Pairs(at', call) = Pairs(at, call)
           /\ PairsBut(at', Walkers') = PairsBut(at, Walkers)
      /\ at'[f] = at[f] + 1 /\ at[f] <= Len(Code[f]) /\ f \notin Walkers'
         /\ (Code[f][at[f]] = "Done" <=> f \in Walkers) =>
           /\ Pairs(at', "Add") = Pairs(at, "Add") \ {<<f, at[f]>>}
           /\ PairsBut(at', Walkers') = PairsBut(at, Walkers)
      /\ at'[f] = at[f] /\ f \in Walkers' /\ f \notin Walkers =>
           /\ Pairs(at', "Add") = Pairs(at, "Add")
           /\ PairsBut(at', Walkers') = PairsBut(at, Walkers) \ {<<f, at[f]>>}
  BY <1>1, <1>2, PairsStep
<1>5. /\ ToCome("Add")' = Pairs(at', "Add") /\ Undone' = PairsBut(at', Walkers')
      /\ ToCome("Add") = Pairs(at, "Add") /\ Undone = PairsBut(at, Walkers)
  BY CountedState
<1>6. Len(Code[f]) \in Nat /\ at[f] \in Nat \ {0}
  BY <1>1, LaterFacts
<1>7. \A call : at[f] \in Later(f, at[f], call) <=> at[f] <= Len(Code[f]) /\ Code[f][at[f]] = call
  BY <1>6 DEF Later
<1>8. <<f, at[f]>> \in ToCome("Add") <=> at[f] <= Len(Code[f]) /\ Code[f][at[f]] = "Add"
  BY <1>5, <1>7, InPairs
<1>9. <<f, at[f]>> \in Undone <=>
        at[f] <= Len(Code[f]) /\ Code[f][at[f]] = "Done" /\ fpc[f] # "walk"
  <2>1. <<f, at[f]>> \in Pairs(at, "Done") <=> at[f] <= Len(Code[f]) /\ Code[f][at[f]] = "Done"
    BY <1>7, InPairs
  <2> QED BY <1>3, <1>5, <2>1 DEF PairsBut
<1> QED BY <1>3, <1>4, <1>5, <1>8, <1>9

-----------------------------------------------------------------------------
(* The wait group: what a step leaves as it is.                            *)

\* The part of the invariant that the group is about.
GroupPart == GroupTypeOK /\ GuardExclusive /\ GroupParkedOnce /\ GroupInv /\ NoDanglingWaiter

\* Fiber f knows that the counter was 0.
Knows(f) ==
    \/ fpc[f] = "group_dtor"
    \/ fpc[f] = "group_parked" /\ f \in ready
    \/ walk[f] # <<>>

\* Every step of the group but Add and Done leaves the count alone.
LEMMA CountKept ==
    ASSUME SyncInv, NEW w \in Workers, NEW f \in Fibers, Kept(w, f), counter_' = counter_,
           \/ at'[f] = at[f] /\ (fpc[f] = "walk" <=> fpc'[f] = "walk")
           \/ /\ at'[f] = at[f] + 1 /\ fpc'[f] # "walk" /\ at[f] <= Len(Code[f])
              /\ Code[f][at[f]] # "Add" /\ (Code[f][at[f]] = "Done" <=> fpc[f] = "walk"),
           counter_ = 0 => wg_waiters_' = wg_waiters_,
           fpc'[f] = "group_suspending" => counter_ > 0
    PROVE  CounterMatches' /\ Undone' = Undone
<1>1. ToCome("Add")' = ToCome("Add") /\ Undone' = Undone
  <2>1. CASE at'[f] = at[f] /\ (fpc[f] = "walk" <=> fpc'[f] = "walk")
    BY <2>1, CountedStep
  <2>2. CASE /\ at'[f] = at[f] + 1 /\ fpc'[f] # "walk" /\ at[f] <= Len(Code[f])
             /\ Code[f][at[f]] # "Add" /\ (Code[f][at[f]] = "Done" <=> fpc[f] = "walk")
    <3>1. ToCome("Add")' = ToCome("Add") \ {<<f, at[f]>>} /\ Undone' = Undone
          /\ <<f, at[f]>> \notin ToCome("Add")
      BY <2>2, CountedStep
    <3> QED BY <3>1
  <2> QED BY <2>1, <2>2
<1>2. counter_' + Cardinality(ToCome("Add"))' = Cardinality(Undone)'
  BY <1>1 DEF SyncInv, GroupInv, CounterMatches
<1>3. counter_' = 0 => wg_waiters_' = <<>> /\ \A g \in Fibers : fpc'[g] # "group_suspending"
  <2> SUFFICES ASSUME counter_' = 0
               PROVE  wg_waiters_' = <<>> /\ \A g \in Fibers : fpc'[g] # "group_suspending"
    OBVIOUS
  <2>1. wg_waiters_ = <<>> /\ \A g \in Fibers : fpc[g] # "group_suspending"
    BY DEF SyncInv, GroupInv, CounterMatches
  <2>2. fpc'[f] # "group_suspending"
    OBVIOUS
  <2> QED BY <2>1, <2>2 DEF Kept, Moves
<1> QED BY <1>1, <1>2, <1>3 DEF CounterMatches

\* Who is told that all are done is told the truth.
LEMMA WaitKept ==
    ASSUME SyncInv, Undone' \subseteq Undone,
           \A g \in Fibers : Knows(g)' => AllDone' \/ \E h \in Fibers : Knows(h)
    PROVE  WaitMeansDone'
<1>1. (\E h \in Fibers : Knows(h)) => AllDone
  BY DEF SyncInv, GroupInv, WaitMeansDone, Knows
<1>2. AllDone => AllDone'
  BY DEF AllDone, Later
<1>3. \A g \in Fibers : Knows(g)' => AllDone'
  BY <1>1, <1>2
<1> QED BY <1>3 DEF WaitMeansDone, Knows

\* Which guards hold the spinlock.
LEMMA HoldsFacts ==
    ASSUME SyncInv, NEW w \in Workers, NEW f \in Fibers, Kept(w, f)
    PROVE  /\ Holds(f) <=>
                \/ fpc[f] \in {"add", "done", "wait", "group_suspending"}
                \/ run[w] = f /\ wpc[w] = "group_release"
                \/ fpc[f] = "group_dtor" /\ is_owner[f]
           /\ Holds(f)' <=>
                \/ fpc'[f] \in {"add", "done", "wait", "group_suspending"}
                \/ run'[w] = f /\ wpc'[w] = "group_release"
                \/ fpc'[f] = "group_dtor" /\ is_owner'[f]
           /\ \A g \in Fibers : g # f =>
                /\ is_owner'[g] = is_owner[g] => (Holds(g)' <=> Holds(g))
                /\ (\E v \in Workers : run'[v] = g /\ wpc'[v] = "group_disown")
                     <=> \E v \in Workers : run[v] = g /\ wpc[v] = "group_disown"
           /\ (\E v \in Workers : run'[v] = f /\ wpc'[v] = "group_disown")
                <=> run'[w] = f /\ wpc'[w] = "group_disown"
           /\ (\E v \in Workers : run[v] = f /\ wpc[v] = "group_disown")
                <=> run[w] = f /\ wpc[w] = "group_disown"
<1>0. nullptr \notin Fibers
  BY ExecutorAssumption
<1>1. ASSUME NEW v \in Workers, v # w
      PROVE  wpc'[v] = wpc[v] /\ run'[v] = run[v] /\ run[v] # f /\ run'[v] # f
  BY <1>1 DEF Kept, Moves, OnlyFor
<1>2. \A g \in Fibers : g # f => run[w] # g /\ run'[w] # g /\ fpc'[g] = fpc[g]
  BY <1>0 DEF Kept, Moves
<1>3. Holds(f) <=>
         \/ fpc[f] \in {"add", "done", "wait", "group_suspending"}
         \/ run[w] = f /\ wpc[w] = "group_release"
         \/ fpc[f] = "group_dtor" /\ is_owner[f]
  BY <1>1 DEF Holds
<1>4. Holds(f)' <=>
         \/ fpc'[f] \in {"add", "done", "wait", "group_suspending"}
         \/ run'[w] = f /\ wpc'[w] = "group_release"
         \/ fpc'[f] = "group_dtor" /\ is_owner'[f]
  BY <1>1 DEF Holds
<1>5. ASSUME NEW g \in Fibers, g # f
      PROVE  /\ is_owner'[g] = is_owner[g] => (Holds(g)' <=> Holds(g))
             /\ (\E v \in Workers : run'[v] = g /\ wpc'[v] = "group_disown")
                  <=> \E v \in Workers : run[v] = g /\ wpc[v] = "group_disown"
  BY <1>1, <1>2, <1>5 DEF Holds
<1>6. /\ (\E v \in Workers : run'[v] = f /\ wpc'[v] = "group_disown")
           <=> run'[w] = f /\ wpc'[w] = "group_disown"
      /\ (\E v \in Workers : run[v] = f /\ wpc[v] = "group_disown")
           <=> run[w] = f /\ wpc[w] = "group_disown"
  BY <1>1
<1> QED BY <1>3, <1>4, <1>5, <1>6

\* The spinlock is taken, given up, or left alone.
LEMMA GuardKept ==
    ASSUME SyncInv, NEW w \in Workers, NEW f \in Fibers, Kept(w, f),
           \A g \in Fibers : g # f => is_owner'[g] = is_owner[g],
           is_owner'[f] <=> Holds(f)' \/ (run'[w] = f /\ wpc'[w] = "group_disown"),
           \/ holder' = holder /\ (Holds(f)' <=> Holds(f))
           \/ holder = nullptr /\ holder' = f /\ Holds(f)'
           \/ holder = f /\ holder' = nullptr /\ ~Holds(f)'
    PROVE  GuardExclusive'
<1>0. nullptr \notin Fibers
  BY ExecutorAssumption
<1>1. ASSUME NEW g \in Fibers
      PROVE  /\ Holds(g)' <=> holder' = g
             /\ is_owner'[g] <=> Holds(g)' \/ \E v \in Workers : run'[v] = g /\ wpc'[v] = "group_disown"
  <2>1. (Holds(g) <=> holder = g) /\ (Holds(f) <=> holder = f)
    BY DEF SyncInv, WaiterInv, GuardExclusive
  <2>2. is_owner[g] <=> Holds(g) \/ \E v \in Workers : run[v] = g /\ wpc[v] = "group_disown"
    BY DEF SyncInv, WaiterInv, GuardExclusive
  <2>3. CASE g = f
    <3>1. Holds(f)' <=> holder' = f
      BY <1>0, <2>1
    <3>2. (\E v \in Workers : run'[v] = f /\ wpc'[v] = "group_disown")
             <=> run'[w] = f /\ wpc'[w] = "group_disown"
      BY HoldsFacts
    <3>3. is_owner'[f] <=> Holds(f)' \/ \E v \in Workers : run'[v] = f /\ wpc'[v] = "group_disown"
      BY <3>2
    <3> QED BY <2>3, <3>1, <3>3, Zenon
  <2>4. CASE g # f
    <3>1. /\ is_owner'[g] = is_owner[g] /\ (Holds(g)' <=> Holds(g))
          /\ (\E v \in Workers : run'[v] = g /\ wpc'[v] = "group_disown")
               <=> \E v \in Workers : run[v] = g /\ wpc[v] = "group_disown"
      BY <2>4, HoldsFacts
    <3>2. holder' = g <=> holder = g
      BY <1>0, <2>1, <2>4
    <3> QED BY <2>1, <2>2, <3>1, <3>2
  <2> QED BY <2>3, <2>4
<1> QED BY <1>1 DEF GuardExclusive

\* Who is in a list of the group is parked.
LEMMA ListedParked ==
    ASSUME SyncInv
    PROVE  /\ \A i \in 1..Len(wg_waiters_) :
                /\ wg_waiters_[i] \in Fibers /\ InGroupList(wg_waiters_[i])
                /\ fpc[wg_waiters_[i]] = "group_parked" /\ wg_waiters_[i] \notin ready
           /\ \A h \in Fibers : \A i \in 1..Len(walk[h]) :
                /\ walk[h][i] \in Fibers /\ Ahead(h, walk[h][i])
                /\ fpc[walk[h][i]] = "group_parked" /\ walk[h][i] \notin ready
<1>1. wg_waiters_ \in Seq(Fibers) /\ \A h \in Fibers : walk[h] \in Seq(Fibers)
  BY DEF SyncInv, WaiterInv, GroupTypeOK
<1>2. \A i \in 1..Len(wg_waiters_) : wg_waiters_[i] \in Fibers /\ InGroupList(wg_waiters_[i])
  BY <1>1, ElementOfSeq DEF InGroupList
<1>3. \A h \in Fibers : \A i \in 1..Len(walk[h]) : walk[h][i] \in Fibers /\ Ahead(h, walk[h][i])
  BY <1>1, ElementOfSeq DEF Ahead
<1> QED BY <1>2, <1>3 DEF SyncInv, WaiterInv, ParkedOnce, GroupParkedOnce

\* The lists are left alone, and what changes is an awaiter in none of them.
LEMMA LinksMoved ==
    ASSUME SyncInv, NEW w \in Workers, NEW f \in Fibers, Kept(w, f),
           UNCHANGED <<wg_waiters_, wg_waiter, walk>>,
           \A g \in Fibers : g # f => next_'[g] = next_[g] /\ (g \in alive' <=> g \in alive),
           next_'[f] = next_[f] \/ fpc[f] # "group_parked",
           f \in alive' <=> fpc'[f] \in {"group_suspending", "group_parked"},
           walk[f] # <<>> => fpc'[f] = "walk",
           fpc'[f] = "group_suspending" => next_'[f] = nullptr,
           fpc[f] = "group_parked" /\ f \notin ready <=> fpc'[f] = "group_parked" /\ f \notin ready',
           \A g \in Fibers : g # f /\ fpc[g] = "group_parked" => (g \in ready' <=> g \in ready)
    PROVE  GroupParkedOnce'
<1>1. \A g \in Fibers : fpc[g] = "group_parked" /\ g \notin ready
                          <=> fpc'[g] = "group_parked" /\ g \notin ready'
  BY DEF Kept, Moves
<1>2. \A g, h \in Fibers : (InGroupList(g)' <=> InGroupList(g)) /\ (Ahead(h, g)' <=> Ahead(h, g))
  BY DEF InGroupList, Ahead
<1>3. /\ \A i \in 1..Len(wg_waiters_) : next_'[wg_waiters_[i]] = next_[wg_waiters_[i]]
      /\ \A h \in Fibers : \A i \in 1..Len(walk[h]) : next_'[walk[h][i]] = next_[walk[h][i]]
  BY ListedParked
<1>4. Linked(wg_waiters_)'
  BY <1>3 DEF Linked, SyncInv, WaiterInv, ParkedOnce, GroupParkedOnce, LinkInv
<1>5. \A g \in Fibers : Linked(walk[g])'
  BY <1>3 DEF Linked, SyncInv, WaiterInv, ParkedOnce, GroupParkedOnce, LinkInv
<1>6. \A g \in Fibers :
         /\ wg_waiter'[g] = IF walk'[g] = <<>> THEN nullptr ELSE walk'[g][1]
         /\ walk'[g] # <<>> => fpc'[g] = "walk"
         /\ fpc'[g] = "group_suspending" => next_'[g] = nullptr
         /\ g \in alive' <=> fpc'[g] \in {"group_suspending", "group_parked"}
  BY DEF Kept, Moves, SyncInv, WaiterInv, ParkedOnce, GroupParkedOnce, LinkInv
<1>7. LinkInv'
  BY <1>4, <1>5, <1>6 DEF LinkInv
<1> QED BY <1>1, <1>2, <1>7 DEF SyncInv, WaiterInv, ParkedOnce, GroupParkedOnce

\* The lists and the awaiters are left alone.
LEMMA LinksKept ==
    ASSUME SyncInv, NEW w \in Workers, NEW f \in Fibers, Kept(w, f),
           UNCHANGED <<wg_waiters_, next_, alive, wg_waiter, walk>>,
           walk[f] # <<>> => fpc'[f] = "walk",
           fpc[f] \in {"group_suspending", "group_parked"}
             <=> fpc'[f] \in {"group_suspending", "group_parked"},
           fpc'[f] = "group_suspending" => fpc[f] = "group_suspending",
           fpc[f] = "group_parked" /\ f \notin ready <=> fpc'[f] = "group_parked" /\ f \notin ready',
           \A g \in Fibers : g # f /\ fpc[g] = "group_parked" => (g \in ready' <=> g \in ready)
    PROVE  GroupParkedOnce'
<1>1. /\ f \in alive <=> fpc[f] \in {"group_suspending", "group_parked"}
      /\ fpc[f] = "group_suspending" => next_[f] = nullptr
  BY DEF SyncInv, WaiterInv, ParkedOnce, GroupParkedOnce, LinkInv
<1> QED BY <1>1, LinksMoved

\* A step that is none of the group's.
LEMMA GroupFrame ==
    ASSUME SyncInv, NEW w \in Workers, NEW f \in Fibers, Kept(w, f), UNCHANGED groupVars,
           \A y \in {fpc[f], fpc'[f]} :
             y \notin {"add", "done", "walk", "wait", "group_suspending", "group_parked", "group_dtor"},
           wpc[w] \notin {"group_release", "group_disown"},
           wpc'[w] \notin {"group_release", "group_disown"},
           \/ at'[f] = at[f]
           \/ at'[f] = at[f] + 1 /\ at[f] <= Len(Code[f]) /\ Code[f][at[f]] \notin {"Add", "Done"},
           \A g \in Fibers : fpc[g] = "group_parked" => (g \in ready' <=> g \in ready)
    PROVE  GroupPart'
<1>1. UNCHANGED <<counter_, holder, is_owner, wg_waiters_, next_, alive, wg_waiter, walk, dangling>>
  BY DEF groupVars
<1>2. GroupTypeOK' /\ NoDanglingWaiter'
  BY <1>1 DEF SyncInv, WaiterInv, GroupTypeOK, NoDanglingWaiter
<1>3. GuardExclusive'
  <2>1. ~Holds(f) /\ ~Holds(f)'
    BY HoldsFacts
  <2>2. ~is_owner[f]
    BY <2>1, HoldsFacts DEF SyncInv, WaiterInv, GuardExclusive
  <2> QED BY <1>1, <2>1, <2>2, GuardKept
<1>4. walk[f] = <<>>
  BY DEF SyncInv, WaiterInv, ParkedOnce, GroupParkedOnce, LinkInv
<1>5. GroupParkedOnce'
  BY <1>1, <1>4, LinksKept
<1>6. CounterMatches' /\ Undone' = Undone
  BY <1>1, CountKept
<1>7. \A g \in Fibers : Knows(g)' => Knows(g)
  BY <1>1, <1>4 DEF Knows, Kept, Moves
<1>8. WaitMeansDone'
  BY <1>6, <1>7, WaitKept
<1> QED BY <1>2, <1>3, <1>5, <1>6, <1>8 DEF GroupPart, GroupInv

\* What is known before a step of worker w for fiber f.
LEMMA GroupStepFacts ==
    ASSUME SyncInv, NEW w \in Workers, NEW f \in Fibers, Kept(w, f)
    PROVE  /\ DOMAIN wpc = Workers /\ DOMAIN run = Workers /\ DOMAIN fpc = Fibers
           /\ at \in [Fibers -> Nat \ {0}]
           /\ counter_ \in Nat /\ holder \in Fibers \union {nullptr} /\ is_owner \in [Fibers -> BOOLEAN]
           /\ wg_waiters_ \in Seq(Fibers) /\ next_ \in [Fibers -> Fibers \union {nullptr}]
           /\ alive \subseteq Fibers /\ wg_waiter \in [Fibers -> Fibers \union {nullptr}]
           /\ walk \in [Fibers -> Seq(Fibers)] /\ dangling = FALSE
           /\ holder = f <=> Holds(f)
           /\ is_owner[f] <=> (Holds(f) \/ (run[w] = f /\ wpc[w] = "group_disown"))
           /\ walk[f] # <<>> => fpc[f] = "walk"
           /\ Executes(w, f) => f \notin ready
           /\ f # nullptr
<1>1. /\ DOMAIN wpc = Workers /\ DOMAIN run = Workers /\ DOMAIN fpc = Fibers
      /\ at \in [Fibers -> Nat \ {0}]
  BY DEF SyncInv, WaiterInv, ExecTypeOK
<1>2. /\ counter_ \in Nat /\ holder \in Fibers \union {nullptr} /\ is_owner \in [Fibers -> BOOLEAN]
      /\ wg_waiters_ \in Seq(Fibers) /\ next_ \in [Fibers -> Fibers \union {nullptr}]
      /\ alive \subseteq Fibers /\ wg_waiter \in [Fibers -> Fibers \union {nullptr}]
      /\ walk \in [Fibers -> Seq(Fibers)] /\ dangling = FALSE
  BY DEF SyncInv, WaiterInv, GroupTypeOK, NoDanglingWaiter
<1>3. (holder = f <=> Holds(f)) /\ (is_owner[f] <=> (Holds(f) \/ (run[w] = f /\ wpc[w] = "group_disown")))
  BY HoldsFacts DEF SyncInv, WaiterInv, GuardExclusive
<1>4. walk[f] # <<>> => fpc[f] = "walk"
  BY DEF SyncInv, WaiterInv, ParkedOnce, GroupParkedOnce, LinkInv
<1>5. Executes(w, f) => f \notin ready
  BY DEF SyncInv, WaiterInv, RunInv, Executes
<1> QED BY <1>1, <1>2, <1>3, <1>4, <1>5, ExecutorAssumption

\* The steps of the guard that leave lists and count alone.
LEMMA GuardSteps ==
    ASSUME SyncInv, NEW w \in Workers, NEW f \in Fibers, Kept(w, f),
           Guard(w, f) \/ GroupRelease(w, f) \/ GroupDisown(w, f)
    PROVE  GroupPart'
<1>a. /\ DOMAIN wpc = Workers /\ DOMAIN run = Workers /\ DOMAIN fpc = Fibers
      /\ is_owner \in [Fibers -> BOOLEAN]
      /\ holder = f <=> Holds(f)
      /\ is_owner[f] <=> (Holds(f) \/ (run[w] = f /\ wpc[w] = "group_disown"))
      /\ walk[f] # <<>> => fpc[f] = "walk"
      /\ Executes(w, f) => f \notin ready
      /\ f # nullptr
  BY GroupStepFacts
<1>1. /\ UNCHANGED <<counter_, wg_waiters_, next_, alive, wg_waiter, walk, dangling, at, ready>>
      /\ \/ /\ Executes(w, f) /\ holder = nullptr /\ holder' = f
            /\ is_owner' = [is_owner EXCEPT ![f] = TRUE]
            /\ UNCHANGED <<wpc, run>> /\ fpc[f] = "start" /\ fpc'[f] \in {"add", "done", "wait"}
         \/ /\ wpc[w] = "group_release" /\ run[w] = f /\ holder' = nullptr /\ is_owner' = is_owner
            /\ run'[w] = f /\ wpc'[w] = "group_disown" /\ fpc' = fpc
         \/ /\ wpc[w] = "group_disown" /\ run[w] = f /\ holder' = holder
            /\ is_owner' = [is_owner EXCEPT ![f] = FALSE]
            /\ wpc'[w] = "idle" /\ fpc' = fpc
  <2>1. CASE Guard(w, f)
    BY <1>a, <2>1 DEF Guard, Calls, FiberGoto, workerVars
  <2>2. CASE GroupRelease(w, f)
    BY <1>a, <2>2 DEF GroupRelease, AwaitGoto, fiberVars
  <2>3. CASE GroupDisown(w, f)
    BY <1>a, <2>3 DEF GroupDisown, RunReturns, fiberVars
  <2> QED BY <2>1, <2>2, <2>3
<1>2. wpc[w] \in {"group_release", "group_disown"} => fpc[run[w]] = "group_parked"
  BY DEF SyncInv, WaiterInv, RunInv
<1>3. GroupTypeOK' /\ NoDanglingWaiter'
  BY <1>1 DEF SyncInv, WaiterInv, GroupTypeOK, NoDanglingWaiter
<1>4. GuardExclusive'
  <2>0. \A g \in Fibers : g # f => is_owner'[g] = is_owner[g]
    BY <1>1, <1>a
  <2>1. CASE Executes(w, f) /\ holder = nullptr /\ holder' = f
             /\ is_owner' = [is_owner EXCEPT ![f] = TRUE]
             /\ fpc'[f] \in {"add", "done", "wait"}
    <3>0. is_owner'[f] = TRUE
      BY <1>a, <2>1
    <3>1. Holds(f)' /\ is_owner'[f]
      BY <2>1, <3>0, HoldsFacts
    <3> QED BY <2>0, <2>1, <3>1, GuardKept
  <2>2. CASE wpc[w] = "group_release" /\ run[w] = f /\ holder' = nullptr /\ is_owner' = is_owner
             /\ run'[w] = f /\ wpc'[w] = "group_disown" /\ fpc' = fpc
    <3>1. Holds(f) /\ ~Holds(f)' /\ is_owner'[f] /\ holder = f
      BY <1>a, <1>2, <2>2, HoldsFacts
    <3> QED BY <2>0, <2>2, <3>1, GuardKept
  <2>3. CASE wpc[w] = "group_disown" /\ run[w] = f /\ holder' = holder
             /\ is_owner' = [is_owner EXCEPT ![f] = FALSE]
             /\ wpc'[w] = "idle" /\ fpc' = fpc
    <3>0. is_owner'[f] = FALSE
      BY <1>a, <2>3
    <3>1. ~Holds(f) /\ ~Holds(f)' /\ ~is_owner'[f]
      BY <1>2, <2>3, <3>0, HoldsFacts
    <3> QED BY <2>0, <2>3, <3>1, GuardKept
  <2> QED BY <1>1, <2>1, <2>2, <2>3
<1>5. GroupParkedOnce'
  BY <1>1, <1>a, LinksKept
<1>6. CounterMatches' /\ Undone' = Undone
  <2>1. at'[f] = at[f] /\ fpc[f] # "walk" /\ fpc'[f] \notin {"walk", "group_suspending"}
    BY <1>1, <1>2
  <2> QED BY <1>1, <2>1, CountKept
<1>7. \A g \in Fibers : Knows(g)' => Knows(g)
  BY <1>1 DEF Knows, Kept, Moves
<1>8. WaitMeansDone'
  BY <1>6, <1>7, WaitKept
<1> QED BY <1>3, <1>4, <1>5, <1>6, <1>8 DEF GroupPart, GroupInv

\* The steps of a fiber that returns, and of a Wait that finds the counter at 0.
LEMMA ReturnSteps ==
    ASSUME SyncInv, NEW w \in Workers, NEW f \in Fibers, Kept(w, f),
           DoneReturn(w, f) \/ GroupWaitNot(w, f) \/ GroupWaitReturn(w, f)
    PROVE  GroupPart'
<1>a. /\ DOMAIN fpc = Fibers /\ at \in [Fibers -> Nat \ {0}]
      /\ is_owner \in [Fibers -> BOOLEAN] /\ counter_ \in Nat
      /\ holder \in Fibers \union {nullptr}
      /\ holder = f <=> Holds(f)
      /\ is_owner[f] <=> (Holds(f) \/ (run[w] = f /\ wpc[w] = "group_disown"))
      /\ walk[f] # <<>> => fpc[f] = "walk"
      /\ Executes(w, f) => f \notin ready
      /\ f # nullptr
  BY GroupStepFacts
<1>1. /\ UNCHANGED <<counter_, wg_waiters_, next_, alive, wg_waiter, walk, dangling, wpc, run, ready>>
      /\ wpc[w] = "fiber" /\ run[w] = f
      /\ \/ /\ UNCHANGED <<holder, is_owner>> /\ fpc[f] = "walk" /\ fpc'[f] = "start"
            /\ at'[f] = at[f] + 1 /\ wg_waiter[f] = nullptr
         \/ /\ UNCHANGED <<holder, is_owner, at>> /\ fpc[f] = "wait" /\ fpc'[f] = "group_dtor"
            /\ counter_ = 0
         \/ /\ holder' = (IF is_owner[f] THEN nullptr ELSE holder)
            /\ is_owner' = [is_owner EXCEPT ![f] = FALSE]
            /\ fpc[f] = "group_dtor" /\ fpc'[f] = "start" /\ at'[f] = at[f] + 1
  <2>1. CASE DoneReturn(w, f)
    BY <1>a, <2>1 DEF DoneReturn, Executes, Return, workerVars, groupVars
  <2>2. CASE GroupWaitNot(w, f)
    BY <1>a, <2>2 DEF GroupWaitNot, Executes, FiberGoto, workerVars, groupVars
  <2>3. CASE GroupWaitReturn(w, f)
    BY <1>a, <2>3, DtorReleasesOnce DEF GroupWaitReturn, Executes, Return, workerVars
  <2> QED BY <2>1, <2>2, <2>3
<1>2. GroupTypeOK' /\ NoDanglingWaiter'
  BY <1>1 DEF SyncInv, WaiterInv, GroupTypeOK, NoDanglingWaiter
<1>3. walk[f] = <<>>
  <2>1. CASE fpc[f] = "walk"
    <3>1. wg_waiter[f] = nullptr
      BY <1>1, <2>1
    <3>2. walk[f] \in Seq(Fibers) /\ nullptr \notin Fibers
      BY GroupStepFacts, ExecutorAssumption
    <3>3. walk[f] # <<>> => walk[f][1] \in Fibers
      BY <3>2, TailAt
    <3> QED BY <3>1, <3>2, <3>3 DEF SyncInv, WaiterInv, ParkedOnce, GroupParkedOnce, LinkInv
  <2> QED BY <1>a, <2>1
<1>4. GuardExclusive'
  <2>0. \A g \in Fibers : g # f => is_owner'[g] = is_owner[g]
    BY <1>1, <1>a
  <2>a. wpc'[w] = "fiber" /\ run'[w] = f
    BY <1>1
  <2>1. CASE UNCHANGED <<holder, is_owner>> /\ fpc[f] = "walk" /\ fpc'[f] = "start"
    <3>1. ~Holds(f) /\ ~Holds(f)' /\ ~is_owner'[f]
      BY <1>a, <1>1, <2>1, <2>a, HoldsFacts
    <3> QED BY <2>0, <2>1, <2>a, <3>1, GuardKept
  <2>2. CASE UNCHANGED <<holder, is_owner>> /\ fpc[f] = "wait" /\ fpc'[f] = "group_dtor"
    <3>1. Holds(f) /\ Holds(f)' /\ is_owner'[f]
      BY <1>a, <1>1, <2>2, <2>a, HoldsFacts
    <3> QED BY <2>0, <2>2, <3>1, GuardKept
  <2>3. CASE /\ holder' = (IF is_owner[f] THEN nullptr ELSE holder)
             /\ is_owner' = [is_owner EXCEPT ![f] = FALSE]
             /\ fpc[f] = "group_dtor" /\ fpc'[f] = "start"
    <3>0. is_owner'[f] = FALSE
      BY <1>a, <2>3
    <3>1. ~Holds(f)' /\ ~is_owner'[f] /\ (Holds(f) <=> is_owner[f])
      BY <1>1, <2>3, <2>a, <3>0, HoldsFacts
    <3>2. CASE is_owner[f]
      BY <1>a, <2>0, <2>3, <2>a, <3>1, <3>2, GuardKept
    <3>3. CASE ~is_owner[f]
      BY <2>0, <2>3, <2>a, <3>1, <3>3, GuardKept
    <3> QED BY <3>2, <3>3
  <2> QED BY <1>1, <2>1, <2>2, <2>3
<1>5. GroupParkedOnce'
  BY <1>1, <1>3, <1>a, LinksKept
<1>6. CounterMatches' /\ Undone' = Undone
  <2>1. /\ fpc[f] = "walk" => Within(f, "Done")
        /\ fpc[f] = "group_dtor" => Within(f, "WaitGroup::Wait")
    BY DEF SyncInv, WaiterInv, CallInv
  <2> QED BY <1>1, <2>1, CountKept DEF Within
<1>7. ASSUME NEW g \in Fibers, Knows(g)' PROVE AllDone' \/ \E h \in Fibers : Knows(h)
  <2>1. CASE counter_ = 0
    <3>1. /\ counter_' + Cardinality(ToCome("Add"))' = Cardinality(Undone)' /\ counter_' = 0
      BY <1>1, <1>6, <2>1 DEF CounterMatches
    <3>2. Cardinality(ToCome("Add"))' = Cardinality(Undone)'
      BY <3>1, CountedFiniteNext
    <3> QED BY <3>2, CountedFiniteNext
  <2>2. CASE counter_ # 0
    <3>1. Knows(g)
      BY <1>1, <1>7, <2>2 DEF Knows, Kept, Moves
    <3> QED BY <3>1
  <2> QED BY <2>1, <2>2
<1>8. WaitMeansDone'
  BY <1>6, <1>7, WaitKept
<1> QED BY <1>2, <1>4, <1>5, <1>6, <1>8 DEF GroupPart, GroupInv

\* Add counts one Done more.
LEMMA AddStep ==
    ASSUME SyncInv, NEW w \in Workers, NEW f \in Fibers, Kept(w, f), Add(w, f)
    PROVE  GroupPart'
<1>a. /\ DOMAIN fpc = Fibers /\ at \in [Fibers -> Nat \ {0}]
      /\ is_owner \in [Fibers -> BOOLEAN] /\ counter_ \in Nat
      /\ holder = f <=> Holds(f)
      /\ walk[f] # <<>> => fpc[f] = "walk"
      /\ f # nullptr
  BY GroupStepFacts
<1>1. /\ UNCHANGED <<wg_waiters_, next_, alive, wg_waiter, walk, dangling, wpc, run, ready>>
      /\ wpc[w] = "fiber" /\ run[w] = f /\ holder' = nullptr
      /\ is_owner' = [is_owner EXCEPT ![f] = FALSE]
      /\ fpc[f] = "add" /\ fpc'[f] = "start" /\ at'[f] = at[f] + 1
      /\ counter_' = counter_ + 1
  BY <1>a DEF Add, Executes, Return, workerVars
<1>2. GroupTypeOK' /\ NoDanglingWaiter'
  BY <1>1, <1>a DEF SyncInv, WaiterInv, GroupTypeOK, NoDanglingWaiter
<1>3. GuardExclusive'
  <2>0. is_owner'[f] = FALSE /\ \A g \in Fibers : g # f => is_owner'[g] = is_owner[g]
    BY <1>1, <1>a
  <2>1. wpc'[w] = "fiber" /\ run'[w] = f
    BY <1>1
  <2>2. Holds(f) /\ ~Holds(f)'
    BY <1>1, <2>0, <2>1, HoldsFacts
  <2> QED BY <1>1, <1>a, <2>0, <2>1, <2>2, GuardKept
<1>4. GroupParkedOnce'
  BY <1>1, <1>a, LinksKept
<1>5. /\ ToCome("Add")' = ToCome("Add") \ {<<f, at[f]>>} /\ <<f, at[f]>> \in ToCome("Add")
      /\ Undone' = Undone
  <2>1. at[f] <= Len(Code[f]) /\ Code[f][at[f]] = "Add"
    BY <1>1 DEF SyncInv, WaiterInv, CallInv, Within
  <2> QED BY <1>1, <2>1, CountedStep
<1>6. IsFiniteSet(ToCome("Add")) /\ Cardinality(ToCome("Add")) \in Nat /\ Cardinality(Undone) \in Nat
  BY CountedFinite DEF SyncInv, WaiterInv
<1>7. Cardinality(ToCome("Add"))' = Cardinality(ToCome("Add")) - 1
  BY <1>5, <1>6, FS_RemoveElement
<1>8. CounterMatches'
  <2>1. counter_ + Cardinality(ToCome("Add")) = Cardinality(Undone)
    BY DEF SyncInv, GroupInv, CounterMatches
  <2>2. Cardinality(Undone)' = Cardinality(Undone)
    BY <1>5
  <2>3. counter_' + Cardinality(ToCome("Add"))' = Cardinality(Undone)' /\ counter_' # 0
    BY <1>1, <1>6, <1>7, <1>a, <2>1, <2>2
  <2> QED BY <2>3 DEF CounterMatches
<1>9. \A g \in Fibers : Knows(g)' => Knows(g)
  BY <1>1 DEF Knows, Kept, Moves
<1>10. WaitMeansDone'
  BY <1>5, <1>9, WaitKept
<1> QED BY <1>2, <1>3, <1>4, <1>8, <1>10 DEF GroupPart, GroupInv

\* An awaiter is created, or destroyed.
LEMMA AwaiterSteps ==
    ASSUME Sticky, SyncInv, NEW w \in Workers, NEW f \in Fibers, Kept(w, f),
           GroupWait(w, f) \/ GroupResume(w, f)
    PROVE  GroupPart'
<1>a. /\ DOMAIN wpc = Workers /\ DOMAIN run = Workers /\ DOMAIN fpc = Fibers
      /\ is_owner \in [Fibers -> BOOLEAN] /\ counter_ \in Nat
      /\ next_ \in [Fibers -> Fibers \union {nullptr}] /\ alive \subseteq Fibers
      /\ holder = f <=> Holds(f)
      /\ is_owner[f] <=> (Holds(f) \/ (run[w] = f /\ wpc[w] = "group_disown"))
      /\ walk[f] # <<>> => fpc[f] = "walk"
      /\ Executes(w, f) => f \notin ready
      /\ f # nullptr
  BY GroupStepFacts
<1>1. /\ UNCHANGED <<counter_, holder, is_owner, wg_waiters_, wg_waiter, walk, dangling, at>>
      /\ run'[w] = f
      /\ \/ /\ wpc[w] = "fiber" /\ run[w] = f /\ wpc'[w] = "await" /\ ready' = ready /\ f \notin ready
            /\ fpc[f] = "wait" /\ fpc'[f] = "group_suspending" /\ counter_ > 0
            /\ alive' = alive \union {f} /\ next_' = [next_ EXCEPT ![f] = nullptr]
         \/ /\ wpc[w] = "idle" /\ run[w] = nullptr /\ wpc'[w] = "fiber"
            /\ ready' = ready \ {f} /\ f \in ready
            /\ fpc[f] = "group_parked" /\ fpc'[f] = "group_dtor"
            /\ alive' = alive \ {f} /\ next_' = next_
  <2>1. CASE GroupWait(w, f)
    BY <1>a, <2>1 DEF GroupWait, Executes, FiberGoto, SwitchOut
  <2>2. CASE GroupResume(w, f)
    <3>1. /\ wpc[w] = "idle" /\ run[w] = nullptr
          /\ wpc' = [wpc EXCEPT ![w] = "fiber"] /\ run' = [run EXCEPT ![w] = f]
          /\ ready' = ready \ {f} /\ f \in ready
      BY <2>2, TakeAlone DEF GroupResume, SyncInv, WaiterInv
    <3> QED BY <1>a, <2>2, <3>1 DEF GroupResume, FiberGoto
  <2> QED BY <2>1, <2>2
<1>2. GroupTypeOK' /\ NoDanglingWaiter'
  BY <1>1, <1>a DEF SyncInv, WaiterInv, GroupTypeOK, NoDanglingWaiter
<1>3. GuardExclusive'
  <2>1. CASE wpc[w] = "fiber" /\ wpc'[w] = "await" /\ fpc[f] = "wait" /\ fpc'[f] = "group_suspending"
    <3>1. Holds(f) /\ Holds(f)' /\ is_owner'[f]
      BY <1>a, <1>1, <2>1, HoldsFacts
    <3> QED BY <1>1, <2>1, <3>1, GuardKept
  <2>2. CASE wpc[w] = "idle" /\ wpc'[w] = "fiber" /\ fpc[f] = "group_parked" /\ fpc'[f] = "group_dtor"
    <3>1. ~Holds(f) /\ ~is_owner[f]
      BY <1>a, <2>2, HoldsFacts
    <3>2. ~Holds(f)' /\ ~is_owner'[f]
      BY <1>1, <2>2, <3>1, HoldsFacts
    <3> QED BY <1>1, <2>2, <3>1, <3>2, GuardKept
  <2> QED BY <1>1, <2>1, <2>2
<1>4. GroupParkedOnce'
  <2>1. \A g \in Fibers : g # f => next_'[g] = next_[g] /\ (g \in alive' <=> g \in alive)
    BY <1>1, <1>a
  <2>2. /\ next_'[f] = next_[f] \/ fpc[f] # "group_parked"
        /\ fpc'[f] = "group_suspending" => next_'[f] = nullptr
        /\ f \in alive' <=> fpc'[f] \in {"group_suspending", "group_parked"}
    BY <1>1, <1>a
  <2>3. walk[f] = <<>>
    BY <1>1, <1>a
  <2> QED BY <1>1, <2>1, <2>2, <2>3, LinksMoved
<1>5. CounterMatches' /\ Undone' = Undone
  <2>1. at'[f] = at[f] /\ fpc[f] # "walk" /\ fpc'[f] # "walk"
        /\ (fpc'[f] = "group_suspending" => counter_ > 0)
    BY <1>1
  <2> QED BY <1>1, <2>1, CountKept
<1>6. \A g \in Fibers : Knows(g)' => Knows(g)
  BY <1>1 DEF Knows, Kept, Moves
<1>7. WaitMeansDone'
  BY <1>5, <1>6, WaitKept
<1> QED BY <1>2, <1>3, <1>4, <1>5, <1>7 DEF GroupPart, GroupInv

\* The awaiter of f is linked behind the last one.
LEMMA ParkLinks ==
    ASSUME SyncInv, NEW w \in Workers, NEW f \in Fibers, Kept(w, f), GroupPark(w, f)
    PROVE  GroupParkedOnce' /\ wg_waiters_' \in Seq(Fibers) /\ next_' \in [Fibers -> Fibers \union {nullptr}]
<1> DEFINE n == Len(wg_waiters_)
<1>a. /\ DOMAIN fpc = Fibers /\ wg_waiters_ \in Seq(Fibers)
      /\ next_ \in [Fibers -> Fibers \union {nullptr}]
      /\ walk \in [Fibers -> Seq(Fibers)]
      /\ walk[f] # <<>> => fpc[f] = "walk"
      /\ f # nullptr
  BY GroupStepFacts
<1>1. /\ wg_waiters_' = Append(wg_waiters_, f)
      /\ next_' = IF wg_waiters_ = <<>> THEN next_ ELSE [next_ EXCEPT ![wg_waiters_[n]] = f]
      /\ fpc[f] = "group_suspending" /\ fpc'[f] = "group_parked" /\ wpc[w] = "await" /\ run[w] = f
      /\ UNCHANGED <<alive, wg_waiter, walk, ready>>
  BY <1>a DEF GroupPark, ListPush, FiberGoto, AwaitGoto
<1>b. f \notin ready
  BY <1>1 DEF SyncInv, WaiterInv, RunInv
<1>c. /\ LinkInv
      /\ \A g \in Fibers :
           /\ InGroupList(g) \/ (\E h \in Fibers : Ahead(h, g)) <=> fpc[g] = "group_parked" /\ g \notin ready
           /\ \A h \in Fibers : ~(InGroupList(g) /\ Ahead(h, g))
           /\ \A k, h \in Fibers : Ahead(k, g) /\ Ahead(h, g) => k = h
  BY DEF SyncInv, WaiterInv, ParkedOnce, GroupParkedOnce
<1>2. /\ n \in Nat /\ Len(wg_waiters_') = n + 1 /\ wg_waiters_'[n + 1] = f
      /\ \A i \in 1..n : wg_waiters_'[i] = wg_waiters_[i]
      /\ wg_waiters_' \in Seq(Fibers)
  BY <1>1, <1>a, AppendAt
<1>3. wg_waiters_ # <<>> => n \in 1..n
  BY <1>2, <1>a, TailAt
<1> HIDE DEF n
<1>4. /\ \A i, j \in 1..n : wg_waiters_[i] = wg_waiters_[j] => i = j
      /\ \A i \in 1..n : next_[wg_waiters_[i]] = IF i = n THEN nullptr ELSE wg_waiters_[i + 1]
  BY <1>c DEF LinkInv, Linked, n
<1>5. /\ \A i \in 1..n : wg_waiters_[i] \in Fibers /\ wg_waiters_[i] # f
      /\ \A h \in Fibers : \A i \in 1..Len(walk[h]) : walk[h][i] # f /\ walk[h][i] \in Fibers
  BY <1>1, ListedParked DEF n
<1>6. next_' \in [Fibers -> Fibers \union {nullptr}]
  BY <1>1, <1>3, <1>5, <1>a
<1>7. next_[f] = nullptr /\ next_'[f] = nullptr
  <2>1. next_[f] = nullptr
    BY <1>1, <1>c DEF LinkInv
  <2> QED BY <1>1, <1>3, <1>5, <1>a, <2>1
<1>8. \A i \in 1..n : next_'[wg_waiters_[i]] = wg_waiters_'[i + 1]
  <2> SUFFICES ASSUME NEW i \in 1..n PROVE next_'[wg_waiters_[i]] = wg_waiters_'[i + 1]
    OBVIOUS
  <2>1. wg_waiters_ # <<>> /\ n \in 1..n
    <3>1. wg_waiters_ = <<>> => n = 0
      BY DEF n
    <3> QED BY <1>2, <1>3, <3>1
  <2>2. next_' = [next_ EXCEPT ![wg_waiters_[n]] = f]
    BY <1>1, <2>1
  <2>3. CASE i = n
    BY <1>2, <1>5, <1>a, <2>1, <2>2, <2>3
  <2>4. CASE i # n
    <3>1. wg_waiters_[i] # wg_waiters_[n]
      BY <1>4, <2>1, <2>4
    <3>2. next_'[wg_waiters_[i]] = wg_waiters_[i + 1]
      BY <1>4, <1>5, <1>a, <2>2, <2>4, <3>1
    <3>3. i + 1 \in 1..n
      BY <1>2, <2>4
    <3> QED BY <1>2, <3>2, <3>3
  <2> QED BY <2>3, <2>4
<1>9. Linked(wg_waiters_)'
  <2>1. \A i, j \in 1..(n + 1) : wg_waiters_'[i] = wg_waiters_'[j] => i = j
    BY <1>2, <1>4, <1>5
  <2>2. ASSUME NEW i \in 1..(n + 1)
        PROVE  next_'[wg_waiters_'[i]] = IF i = n + 1 THEN nullptr ELSE wg_waiters_'[i + 1]
    <3>1. CASE i = n + 1
      BY <1>2, <1>7, <3>1
    <3>2. CASE i # n + 1
      <4>1. i \in 1..n
        BY <1>2, <3>2
      <4> QED BY <1>2, <1>8, <3>2, <4>1
    <3> QED BY <3>1, <3>2
  <2> QED BY <1>2, <2>1, <2>2 DEF Linked
<1>10. ASSUME NEW h \in Fibers PROVE Linked(walk[h])'
  <2>1. \A i \in 1..Len(walk[h]) : next_'[walk[h][i]] = next_[walk[h][i]]
    <3> SUFFICES ASSUME NEW i \in 1..Len(walk[h]) PROVE next_'[walk[h][i]] = next_[walk[h][i]]
      OBVIOUS
    <3>1. Ahead(h, walk[h][i]) /\ walk[h][i] \in Fibers
      BY <1>5 DEF Ahead
    <3>2. ~InGroupList(walk[h][i])
      BY <1>c, <3>1
    <3>3. n \in 1..n => walk[h][i] # wg_waiters_[n]
      BY <3>2 DEF InGroupList, n
    <3> QED BY <1>1, <1>3, <1>5, <1>a, <3>1, <3>3
  <2> QED BY <1>1, <1>c, <2>1 DEF LinkInv, Linked
<1>11. LinkInv'
  <2>1. \A g \in Fibers :
         /\ wg_waiter'[g] = IF walk'[g] = <<>> THEN nullptr ELSE walk'[g][1]
         /\ walk'[g] # <<>> => fpc'[g] = "walk"
         /\ g \in alive' <=> fpc'[g] \in {"group_suspending", "group_parked"}
    <3>1. UNCHANGED <<wg_waiter, walk, alive>>
      BY <1>1
    <3>2. \A g \in Fibers :
            /\ wg_waiter[g] = IF walk[g] = <<>> THEN nullptr ELSE walk[g][1]
            /\ walk[g] # <<>> => fpc[g] = "walk"
            /\ g \in alive <=> fpc[g] \in {"group_suspending", "group_parked"}
      BY <1>c DEF LinkInv
    <3>3. \A g \in Fibers : g # f => fpc'[g] = fpc[g]
      BY DEF Kept, Moves
    <3>4. fpc[f] = "group_suspending" /\ fpc'[f] = "group_parked"
      BY <1>1
    <3> QED BY <3>1, <3>2, <3>3, <3>4
  <2>2. ASSUME NEW g \in Fibers, fpc'[g] = "group_suspending" PROVE next_'[g] = nullptr
    <3>1. g # f /\ fpc[g] = "group_suspending"
      BY <1>1, <2>2 DEF Kept, Moves
    <3>2. n \in 1..n => wg_waiters_[n] # g
      BY <3>1, ListedParked DEF n
    <3> QED BY <1>1, <1>3, <1>5, <1>a, <1>c, <3>1, <3>2 DEF LinkInv
  <2> QED BY <1>9, <1>10, <2>1, <2>2 DEF LinkInv
<1>12. \A g \in Fibers : InGroupList(g)' <=> InGroupList(g) \/ g = f
  <2> SUFFICES ASSUME NEW g \in Fibers PROVE InGroupList(g)' <=> InGroupList(g) \/ g = f
    OBVIOUS
  <2>1. \A i \in 1..Len(wg_waiters_') : i \in 1..n \/ i = n + 1
    BY <1>2
  <2>2. n + 1 \in 1..Len(wg_waiters_') /\ \A i \in 1..n : i \in 1..Len(wg_waiters_')
    BY <1>2
  <2>3. \A i \in 1..Len(wg_waiters_') : wg_waiters_'[i] = g => InGroupList(g) \/ g = f
    BY <1>2, <2>1 DEF InGroupList, n
  <2>4. InGroupList(g) \/ g = f => \E i \in 1..Len(wg_waiters_') : wg_waiters_'[i] = g
    BY <1>2, <2>2 DEF InGroupList, n
  <2> QED BY <2>3, <2>4 DEF InGroupList
<1>13. \A g, h \in Fibers : (Ahead(h, g)' <=> Ahead(h, g)) /\ ~Ahead(h, f)
  BY <1>1, <1>5 DEF Ahead
<1>14. \A g \in Fibers : g # f => fpc'[g] = fpc[g]
  BY DEF Kept, Moves
<1>15. \A g \in Fibers :
         InGroupList(g)' \/ (\E h \in Fibers : Ahead(h, g)') <=> fpc'[g] = "group_parked" /\ g \notin ready'
  BY <1>1, <1>b, <1>c, <1>12, <1>13, <1>14
<1>16. \A g, h \in Fibers : ~(InGroupList(g)' /\ Ahead(h, g)')
  BY <1>c, <1>12, <1>13
<1>17. \A g, k, h \in Fibers : Ahead(k, g)' /\ Ahead(h, g)' => k = h
  BY <1>c, <1>13
<1>18. GroupParkedOnce'
  BY <1>11, <1>15, <1>16, <1>17 DEF GroupParkedOnce
<1> QED BY <1>2, <1>6, <1>18

\* Park puts the awaiter into the list, under the guard.
LEMMA ParkStep ==
    ASSUME SyncInv, NEW w \in Workers, NEW f \in Fibers, Kept(w, f), GroupPark(w, f)
    PROVE  GroupPart'
<1>a. /\ DOMAIN wpc = Workers /\ DOMAIN fpc = Fibers
      /\ is_owner \in [Fibers -> BOOLEAN] /\ counter_ \in Nat
      /\ holder = f <=> Holds(f)
      /\ is_owner[f] <=> (Holds(f) \/ (run[w] = f /\ wpc[w] = "group_disown"))
  BY GroupStepFacts
<1>1. /\ UNCHANGED <<counter_, holder, is_owner, alive, wg_waiter, walk, dangling, at, ready>>
      /\ wpc[w] = "await" /\ run[w] = f /\ wpc'[w] = "group_release" /\ run'[w] = f
      /\ fpc[f] = "group_suspending" /\ fpc'[f] = "group_parked"
  BY <1>a DEF GroupPark, FiberGoto, AwaitGoto
<1>b. f \notin ready
  BY <1>1 DEF SyncInv, WaiterInv, RunInv
<1>2. GroupTypeOK' /\ NoDanglingWaiter' /\ GroupParkedOnce'
  BY <1>1, ParkLinks DEF SyncInv, WaiterInv, GroupTypeOK, NoDanglingWaiter
<1>3. GuardExclusive'
  <2>1. Holds(f) /\ Holds(f)' /\ is_owner'[f]
    BY <1>a, <1>1, HoldsFacts
  <2> QED BY <1>1, <2>1, GuardKept
<1>4. counter_ # 0
  BY <1>1 DEF SyncInv, GroupInv, CounterMatches
<1>5. CounterMatches' /\ Undone' = Undone
  <2>1. at'[f] = at[f] /\ fpc[f] # "walk" /\ fpc'[f] # "walk" /\ fpc'[f] # "group_suspending"
    BY <1>1
  <2> QED BY <1>1, <1>4, <2>1, CountKept
<1>6. \A g \in Fibers : Knows(g)' => Knows(g)
  BY <1>1, <1>b DEF Knows, Kept, Moves
<1>7. WaitMeansDone'
  BY <1>5, <1>6, WaitKept
<1> QED BY <1>2, <1>3, <1>5, <1>7 DEF GroupPart, GroupInv

\* The links in the function link lead through s, which names nobody twice.
Chained(link, s) ==
    /\ \A i, j \in 1..Len(s) : s[i] = s[j] => i = j
    /\ \A i \in 1..Len(s) : link[s[i]] = IF i = Len(s) THEN nullptr ELSE s[i + 1]

\* Fiber x is in the list s.
Occurs(s, x) == \E i \in 1..Len(s) : s[i] = x

\* The rest of a list that is linked.
LEMMA TailLinked ==
    ASSUME NEW link, NEW s \in Seq(Fibers), s # <<>>, NEW t, t = Tail(s), Chained(link, s)
    PROVE  /\ link[s[1]] = IF t = <<>> THEN nullptr ELSE t[1]
           /\ Chained(link, t)
<1> USE DEF Chained
<1>1. /\ Len(s) \in Nat \ {0} /\ t \in Seq(Fibers) /\ Len(t) = Len(s) - 1 /\ Len(t) \in Nat
      /\ \A i \in 1..Len(s) - 1 : t[i] = s[i + 1]
  BY TailAt, LenProperties
<1>2. PICK n \in Nat \ {0} : n = Len(s)
  BY <1>1
<1>3. /\ Len(t) = n - 1 /\ \A i \in 1..(n - 1) : t[i] = s[i + 1]
      /\ \A i, j \in 1..n : s[i] = s[j] => i = j
      /\ \A i \in 1..n : link[s[i]] = IF i = n THEN nullptr ELSE s[i + 1]
  BY <1>1, <1>2
<1>4. t = <<>> <=> n = 1
  <2>1. t = <<>> <=> Len(t) = 0
    BY <1>1, EmptySeq
  <2> QED BY <1>3, <2>1
<1>5. link[s[1]] = IF t = <<>> THEN nullptr ELSE t[1]
  <2>1. 1 \in 1..n
    OBVIOUS
  <2>2. link[s[1]] = IF n = 1 THEN nullptr ELSE s[1 + 1]
    BY <1>3, <2>1
  <2>3. n # 1 => t[1] = s[1 + 1]
    BY <1>3
  <2> QED BY <1>4, <2>2, <2>3
<1>6. ASSUME NEW i \in 1..(n - 1), NEW j \in 1..(n - 1), t[i] = t[j] PROVE i = j
  <2>1. i + 1 \in 1..n /\ j + 1 \in 1..n /\ s[i + 1] = s[j + 1]
    BY <1>3, <1>6
  <2>2. i + 1 = j + 1
    BY <1>3, <2>1
  <2> QED BY <2>2
<1>7. ASSUME NEW i \in 1..(n - 1)
      PROVE  link[t[i]] = IF i = n - 1 THEN nullptr ELSE t[i + 1]
  <2>1. i + 1 \in 1..n /\ t[i] = s[i + 1]
    BY <1>3
  <2>2. link[s[i + 1]] = IF i + 1 = n THEN nullptr ELSE s[(i + 1) + 1]
    BY <1>3, <2>1
  <2>3. i = n - 1 <=> i + 1 = n
    OBVIOUS
  <2>4. i # n - 1 => i + 1 \in 1..(n - 1)
    OBVIOUS
  <2>5. i # n - 1 => t[i + 1] = s[(i + 1) + 1]
    BY <1>3, <2>4
  <2> QED BY <2>1, <2>2, <2>3, <2>5
<1> QED BY <1>2, <1>3, <1>5, <1>6, <1>7

\* ... its links,
LEMMA TailChained ==
    ASSUME NEW link, NEW s \in Seq(Fibers), s # <<>>, NEW t, t = Tail(s), Chained(link, s)
    PROVE  Chained(link, t)
<1> QED BY TailLinked

\* ... the link that leads to it,
LEMMA TailFirst ==
    ASSUME NEW link, NEW s \in Seq(Fibers), s # <<>>, NEW t, t = Tail(s), Chained(link, s)
    PROVE  link[s[1]] = IF t = <<>> THEN nullptr ELSE t[1]
<1> QED BY TailLinked

\* ... and its members.
LEMMA TailMembers ==
    ASSUME NEW link, NEW s \in Seq(Fibers), s # <<>>, NEW t, t = Tail(s), Chained(link, s), NEW x
    PROVE  Occurs(t, x) <=> Occurs(s, x) /\ x # s[1]
<1>1. /\ Len(s) \in Nat \ {0} /\ Len(t) = Len(s) - 1
      /\ \A i \in 1..Len(s) - 1 : t[i] = s[i + 1]
  BY TailAt
<1>2. PICK n \in Nat \ {0} : n = Len(s)
  BY <1>1
<1>3. /\ Len(t) = n - 1 /\ \A i \in 1..(n - 1) : t[i] = s[i + 1]
      /\ \A i, j \in 1..n : s[i] = s[j] => i = j
  BY <1>1, <1>2 DEF Chained
<1>8. (\E i \in 1..(n - 1) : t[i] = x) <=> (\E i \in 1..n : s[i] = x) /\ x # s[1]
  <2>1. ASSUME NEW i \in 1..(n - 1), t[i] = x PROVE (\E k \in 1..n : s[k] = x) /\ x # s[1]
    <3>1. i + 1 \in 1..n /\ s[i + 1] = x /\ 1 \in 1..n /\ i + 1 # 1
      BY <1>3, <2>1
    <3> QED BY <1>3, <3>1
  <2>2. ASSUME NEW i \in 1..n, s[i] = x, x # s[1] PROVE \E j \in 1..(n - 1) : t[j] = x
    <3>1. i # 1
      BY <2>2
    <3>2. i - 1 \in 1..(n - 1) /\ (i - 1) + 1 = i
      BY <3>1
    <3>3. t[i - 1] = s[(i - 1) + 1]
      BY <1>3, <3>2
    <3> QED BY <2>2, <3>2, <3>3
  <2> QED BY <2>1, <2>2
<1> QED BY <1>2, <1>3, <1>8 DEF Occurs

\* The first fiber ahead of the walk leaves it and is scheduled.
LEMMA ScheduleLinks ==
    ASSUME SyncInv, NEW w \in Workers, NEW f \in Fibers, Kept(w, f), DoneSchedule(w, f)
    PROVE  /\ GroupParkedOnce' /\ dangling' = FALSE
           /\ walk' \in [Fibers -> Seq(Fibers)] /\ wg_waiter' \in [Fibers -> Fibers \union {nullptr}]
<1>s. PICK s, g : s = walk[f] /\ g = wg_waiter[f]
  OBVIOUS
<1>a. /\ DOMAIN fpc = Fibers /\ walk \in [Fibers -> Seq(Fibers)]
      /\ next_ \in [Fibers -> Fibers \union {nullptr}]
      /\ wg_waiter \in [Fibers -> Fibers \union {nullptr}] /\ dangling = FALSE
      /\ f # nullptr
  BY GroupStepFacts
<1>1. /\ fpc' = fpc /\ fpc[f] = "walk" /\ g # nullptr
      /\ dangling' = (dangling \/ g \notin alive)
      /\ wg_waiter' = [wg_waiter EXCEPT ![f] = next_[g]]
      /\ walk' = [walk EXCEPT ![f] = Tail(s)]
      /\ ready' = ready \union {g}
      /\ UNCHANGED <<wg_waiters_, next_, alive>>
  BY <1>s DEF DoneSchedule, Schedule, fiberVars
<1>b. /\ LinkInv
      /\ \A x \in Fibers :
           /\ InGroupList(x) \/ (\E h \in Fibers : Ahead(h, x)) <=> fpc[x] = "group_parked" /\ x \notin ready
           /\ \A h \in Fibers : ~(InGroupList(x) /\ Ahead(h, x))
           /\ \A k, h \in Fibers : Ahead(k, x) /\ Ahead(h, x) => k = h
  BY DEF SyncInv, WaiterInv, ParkedOnce, GroupParkedOnce
<1>2. /\ s # <<>> /\ g = s[1] /\ g \in Fibers /\ Ahead(f, g)
      /\ fpc[g] = "group_parked" /\ g \notin ready
  BY <1>s, <1>1, PoppedParked
<1>3. g \in alive
  BY <1>2, <1>b DEF LinkInv
<1>4. /\ s \in Seq(Fibers) /\ Len(s) \in Nat \ {0} /\ Tail(s) \in Seq(Fibers) /\ Len(Tail(s)) = Len(s) - 1
      /\ \A i \in 1..Len(s) - 1 : Tail(s)[i] = s[i + 1]
  BY <1>s, <1>2, <1>a, TailAt
<1>5. Chained(next_, s)
  BY <1>s, <1>b DEF LinkInv, Linked, Chained
<1>6. /\ walk'[f] = Tail(s) /\ wg_waiter'[f] = next_[g]
      /\ \A h \in Fibers : h # f => walk'[h] = walk[h] /\ wg_waiter'[h] = wg_waiter[h]
  BY <1>1, <1>a
<1>7. walk' \in [Fibers -> Seq(Fibers)] /\ wg_waiter' \in [Fibers -> Fibers \union {nullptr}]
  BY <1>1, <1>2, <1>4, <1>a
<1>t. PICK t : t = Tail(s)
  OBVIOUS
<1>8. /\ next_[s[1]] = IF t = <<>> THEN nullptr ELSE t[1]
      /\ Chained(next_, t)
      /\ \A x : Occurs(t, x) <=> Occurs(s, x) /\ x # s[1]
  <2>1. s \in Seq(Fibers) /\ s # <<>>
    BY <1>2, <1>4
  <2>2. next_[s[1]] = IF t = <<>> THEN nullptr ELSE t[1]
    BY <1>t, <1>5, <2>1, TailFirst
  <2>4. Chained(next_, t)
    BY <1>t, <1>5, <2>1, TailChained
  <2>3. ASSUME NEW x
        PROVE  Occurs(t, x) <=> Occurs(s, x) /\ x # s[1]
    BY <1>t, <1>5, <2>1, TailMembers
  <2> QED BY <2>2, <2>3, <2>4
<1>w. walk'[f] = t
  BY <1>t, <1>6
<1>9. Linked(walk[f])'
  <2>1. next_' = next_
    BY <1>1
  <2> QED BY <1>w, <1>8, <2>1 DEF Linked, Chained
<1>10. ASSUME NEW h \in Fibers, h # f PROVE Linked(walk[h])'
  <2>1. next_' = next_ /\ walk'[h] = walk[h]
    BY <1>1, <1>6, <1>10
  <2>2. Linked(walk[h])
    BY <1>b DEF LinkInv
  <2> QED BY <2>1, <2>2 DEF Linked
<1>11. Linked(wg_waiters_)'
  <2>1. next_' = next_ /\ wg_waiters_' = wg_waiters_
    BY <1>1
  <2>2. Linked(wg_waiters_)
    BY <1>b DEF LinkInv
  <2> QED BY <2>1, <2>2 DEF Linked
<1>12. ASSUME NEW h \in Fibers
       PROVE  /\ wg_waiter'[h] = IF walk'[h] = <<>> THEN nullptr ELSE walk'[h][1]
              /\ walk'[h] # <<>> => fpc'[h] = "walk"
              /\ fpc'[h] = "group_suspending" => next_'[h] = nullptr
              /\ h \in alive' <=> fpc'[h] \in {"group_suspending", "group_parked"}
  <2>1. wg_waiter'[h] = IF walk'[h] = <<>> THEN nullptr ELSE walk'[h][1]
    <3>1. CASE h = f
      BY <1>2, <1>6, <1>8, <1>w, <3>1
    <3>2. CASE h # f
      BY <1>6, <1>b, <3>2 DEF LinkInv
    <3> QED BY <3>1, <3>2
  <2>2. walk'[h] # <<>> => fpc'[h] = "walk"
    BY <1>1, <1>6, <1>b DEF LinkInv
  <2> QED BY <1>1, <1>b, <2>1, <2>2 DEF LinkInv
<1>13. LinkInv'
  BY <1>9, <1>10, <1>11, <1>12 DEF LinkInv
<1>14. \A x \in Fibers : Ahead(f, x)' <=> Ahead(f, x) /\ x # g
  <2>1. \A x \in Fibers : Ahead(f, x)' <=> Occurs(t, x)
    BY <1>w DEF Ahead, Occurs
  <2>2. \A x \in Fibers : Ahead(f, x) <=> Occurs(s, x)
    BY <1>s DEF Ahead, Occurs
  <2> QED BY <1>2, <1>8, <2>1, <2>2
<1>15. \A x, h \in Fibers : h # f => (Ahead(h, x)' <=> Ahead(h, x))
  BY <1>6 DEF Ahead
<1>16. \A x \in Fibers : InGroupList(x)' <=> InGroupList(x)
  BY <1>1 DEF InGroupList
<1>17. ASSUME NEW x \in Fibers
       PROVE  InGroupList(x)' \/ (\E h \in Fibers : Ahead(h, x)')
                <=> fpc'[x] = "group_parked" /\ x \notin ready'
  <2>1. CASE x = g
    <3>1. ~InGroupList(x)
      BY <1>2, <1>b, <2>1
    <3>2. \A h \in Fibers : h # f => ~Ahead(h, x)
      BY <1>2, <1>b, <2>1
    <3> QED BY <1>1, <1>14, <1>15, <1>16, <2>1, <3>1, <3>2
  <2>2. CASE x # g
    <3>1. \A h \in Fibers : Ahead(h, x)' <=> Ahead(h, x)
      BY <1>14, <1>15, <2>2
    <3>2. x \in ready' <=> x \in ready
      BY <1>1, <2>2
    <3> QED BY <1>1, <1>16, <1>b, <3>1, <3>2
  <2> QED BY <2>1, <2>2
<1>18. \A x, h \in Fibers : Ahead(h, x)' => Ahead(h, x)
  BY <1>14, <1>15
<1>19. \A x, h \in Fibers : ~(InGroupList(x)' /\ Ahead(h, x)')
  BY <1>16, <1>18, <1>b
<1>20. \A x, k, h \in Fibers : Ahead(k, x)' /\ Ahead(h, x)' => k = h
  BY <1>18, <1>b
<1>21. GroupParkedOnce'
  BY <1>13, <1>17, <1>19, <1>20 DEF GroupParkedOnce
<1>22. dangling' = FALSE
  BY <1>1, <1>3, <1>a
<1> QED BY <1>7, <1>21, <1>22

\* One turn of the walk of Done.
LEMMA ScheduleStep ==
    ASSUME SyncInv, NEW w \in Workers, NEW f \in Fibers, Kept(w, f), DoneSchedule(w, f)
    PROVE  GroupPart'
<1>a. /\ is_owner \in [Fibers -> BOOLEAN] /\ counter_ \in Nat /\ walk \in [Fibers -> Seq(Fibers)]
      /\ holder = f <=> Holds(f)
      /\ is_owner[f] <=> (Holds(f) \/ (run[w] = f /\ wpc[w] = "group_disown"))
  BY GroupStepFacts
<1>1. /\ UNCHANGED <<counter_, holder, is_owner, wg_waiters_, next_, alive, wpc, run, fpc, at>>
      /\ wpc[w] = "fiber" /\ run[w] = f /\ fpc[f] = "walk" /\ wg_waiter[f] # nullptr
      /\ ready' = ready \union {wg_waiter[f]}
      /\ walk' = [walk EXCEPT ![f] = Tail(@)]
  BY DEF DoneSchedule, Executes, Schedule, fiberVars
<1>2. GroupTypeOK' /\ NoDanglingWaiter' /\ GroupParkedOnce'
  BY <1>1, ScheduleLinks DEF SyncInv, WaiterInv, GroupTypeOK, NoDanglingWaiter
<1>3. GuardExclusive'
  <2>1. ~Holds(f) /\ ~Holds(f)' /\ ~is_owner'[f]
    BY <1>a, <1>1, HoldsFacts
  <2> QED BY <1>1, <2>1, GuardKept
<1>4. CounterMatches' /\ Undone' = Undone
  <2>1. at'[f] = at[f] /\ fpc[f] = "walk" /\ fpc'[f] = "walk"
    BY <1>1
  <2> QED BY <1>1, <2>1, CountKept
<1>5. Knows(f)
  BY <1>1, PoppedParked DEF Knows
<1>6. WaitMeansDone'
  BY <1>4, <1>5, WaitKept
<1> QED BY <1>2, <1>3, <1>4, <1>6 DEF GroupPart, GroupInv

\* The last Done takes the list over.
LEMMA TakeLinks ==
    ASSUME SyncInv, NEW w \in Workers, NEW f \in Fibers, Kept(w, f), Done(w, f), counter_ = 1
    PROVE  /\ GroupParkedOnce'
           /\ wg_waiters_' = <<>>
           /\ walk' \in [Fibers -> Seq(Fibers)] /\ wg_waiter' \in [Fibers -> Fibers \union {nullptr}]
           /\ \A h \in Fibers : h # f => walk'[h] = walk[h]
<1>s. PICK s : s = wg_waiters_
  OBVIOUS
<1>a. /\ DOMAIN fpc = Fibers /\ walk \in [Fibers -> Seq(Fibers)] /\ s \in Seq(Fibers)
      /\ next_ \in [Fibers -> Fibers \union {nullptr}]
      /\ wg_waiter \in [Fibers -> Fibers \union {nullptr}]
      /\ f # nullptr
      /\ walk[f] # <<>> => fpc[f] = "walk"
  BY <1>s, GroupStepFacts
<1>1. /\ fpc[f] = "done" /\ fpc' = [fpc EXCEPT ![f] = "walk"]
      /\ wg_waiter' = [wg_waiter EXCEPT ![f] = IF s = <<>> THEN nullptr ELSE Head(s)]
      /\ walk' = [walk EXCEPT ![f] = s]
      /\ wg_waiters_' = <<>>
      /\ UNCHANGED <<next_, alive, ready>>
  BY <1>s DEF Done, Popped, FiberGoto, workerVars
<1>b. /\ LinkInv
      /\ \A x \in Fibers :
           /\ InGroupList(x) \/ (\E h \in Fibers : Ahead(h, x)) <=> fpc[x] = "group_parked" /\ x \notin ready
           /\ \A h \in Fibers : ~(InGroupList(x) /\ Ahead(h, x))
           /\ \A k, h \in Fibers : Ahead(k, x) /\ Ahead(h, x) => k = h
  BY DEF SyncInv, WaiterInv, ParkedOnce, GroupParkedOnce
<1>2. s # <<>> => Head(s) = s[1] /\ s[1] \in Fibers
  BY <1>a
<1>3. walk[f] = <<>>
  BY <1>1, <1>a
<1>4. /\ fpc'[f] = "walk" /\ walk'[f] = s
      /\ wg_waiter'[f] = IF s = <<>> THEN nullptr ELSE s[1]
      /\ \A h \in Fibers : h # f => walk'[h] = walk[h] /\ wg_waiter'[h] = wg_waiter[h] /\ fpc'[h] = fpc[h]
  BY <1>1, <1>2, <1>a
<1>5. walk' \in [Fibers -> Seq(Fibers)] /\ wg_waiter' \in [Fibers -> Fibers \union {nullptr}]
  BY <1>1, <1>2, <1>a
<1>6. Linked(walk[f])'
  <2>1. Linked(s)
    BY <1>s, <1>b DEF LinkInv
  <2> QED BY <1>1, <1>4, <2>1 DEF Linked
<1>7. ASSUME NEW h \in Fibers, h # f PROVE Linked(walk[h])'
  <2>1. next_' = next_ /\ walk'[h] = walk[h]
    BY <1>1, <1>4, <1>7
  <2>2. Linked(walk[h])
    BY <1>b DEF LinkInv
  <2> QED BY <2>1, <2>2 DEF Linked
<1>8. Linked(wg_waiters_)'
  BY <1>1 DEF Linked
<1>9. ASSUME NEW h \in Fibers
      PROVE  /\ wg_waiter'[h] = IF walk'[h] = <<>> THEN nullptr ELSE walk'[h][1]
             /\ walk'[h] # <<>> => fpc'[h] = "walk"
             /\ fpc'[h] = "group_suspending" => next_'[h] = nullptr
             /\ h \in alive' <=> fpc'[h] \in {"group_suspending", "group_parked"}
  BY <1>1, <1>4, <1>b DEF LinkInv
<1>10. LinkInv'
  BY <1>6, <1>7, <1>8, <1>9 DEF LinkInv
<1>11. \A x \in Fibers : ~InGroupList(x)' /\ ~Ahead(f, x)
  <2>1. wg_waiters_' = <<>> /\ walk[f] = <<>>
    BY <1>1, <1>3
  <2> QED BY <2>1 DEF InGroupList, Ahead
<1>12. \A x \in Fibers : Ahead(f, x)' <=> InGroupList(x)
  BY <1>s, <1>4 DEF InGroupList, Ahead
<1>13. \A x, h \in Fibers : h # f => (Ahead(h, x)' <=> Ahead(h, x))
  BY <1>4 DEF Ahead
<1>14. ASSUME NEW x \in Fibers
       PROVE  (\E h \in Fibers : Ahead(h, x)') <=> fpc'[x] = "group_parked" /\ x \notin ready'
  <2>1. (\E h \in Fibers : Ahead(h, x)') <=> InGroupList(x) \/ (\E h \in Fibers : Ahead(h, x))
    BY <1>11, <1>12, <1>13
  <2>2. fpc'[x] = "group_parked" <=> fpc[x] = "group_parked"
    BY <1>1, <1>4
  <2> QED BY <1>1, <1>b, <2>1, <2>2
<1>15. ASSUME NEW x \in Fibers, NEW k \in Fibers, NEW h \in Fibers, Ahead(k, x)', Ahead(h, x)'
       PROVE  k = h
  BY <1>12, <1>13, <1>15, <1>b
<1>16. GroupParkedOnce'
  BY <1>10, <1>11, <1>14, <1>15 DEF GroupParkedOnce
<1> QED BY <1>1, <1>4, <1>5, <1>16

\* Done counts its call.
LEMMA DoneCounts ==
    ASSUME SyncInv, NEW w \in Workers, NEW f \in Fibers, Kept(w, f), Done(w, f)
    PROVE  /\ counter_' \in Nat
           /\ counter_' + Cardinality(ToCome("Add"))' = Cardinality(Undone)'
           /\ Undone' \subseteq Undone
           /\ counter_' = 0 => AllDone'
<1>a. DOMAIN fpc = Fibers /\ counter_ \in Nat
  BY GroupStepFacts
<1>1. /\ fpc[f] = "done" /\ fpc'[f] = "walk" /\ at'[f] = at[f]
      /\ counter_' = counter_ - 1
  BY <1>a DEF Done, FiberGoto
<1>2. /\ ToCome("Add")' = ToCome("Add") /\ Undone' = Undone \ {<<f, at[f]>>}
      /\ <<f, at[f]>> \in Undone
  <2>1. at[f] <= Len(Code[f]) /\ Code[f][at[f]] = "Done"
    BY <1>1 DEF SyncInv, WaiterInv, CallInv, Within
  <2> QED BY <1>1, <2>1, CountedStep
<1>3. IsFiniteSet(Undone) /\ Cardinality(ToCome("Add")) \in Nat /\ Cardinality(Undone) \in Nat
  BY CountedFinite DEF SyncInv, WaiterInv
<1>4. Cardinality(Undone)' = Cardinality(Undone) - 1
  BY <1>2, <1>3, FS_RemoveElement
<1>5. Cardinality(ToCome("Add"))' = Cardinality(ToCome("Add"))
  BY <1>2
<1>6. counter_ + Cardinality(ToCome("Add")) = Cardinality(Undone)
  BY DEF SyncInv, GroupInv, CounterMatches
<1>7. /\ Cardinality(ToCome("Add"))' \in Nat /\ Cardinality(Undone)' \in Nat
      /\ Cardinality(ToCome("Add"))' <= Cardinality(Undone)'
      /\ Cardinality(ToCome("Add"))' = Cardinality(Undone)' => AllDone'
  BY CountedFiniteNext
<1>8. counter_' + Cardinality(ToCome("Add"))' = Cardinality(Undone)' /\ counter_' \in Nat
  BY <1>1, <1>3, <1>4, <1>5, <1>6, <1>7, <1>a
<1>9. counter_' = 0 => Cardinality(ToCome("Add"))' = Cardinality(Undone)'
  BY <1>7, <1>8
<1> QED BY <1>2, <1>7, <1>8, <1>9

\* Done, up to the walk.
LEMMA DoneStep ==
    ASSUME SyncInv, NEW w \in Workers, NEW f \in Fibers, Kept(w, f), Done(w, f)
    PROVE  GroupPart'
<1>a. /\ DOMAIN fpc = Fibers
      /\ is_owner \in [Fibers -> BOOLEAN] /\ counter_ \in Nat
      /\ holder = f <=> Holds(f)
      /\ walk[f] # <<>> => fpc[f] = "walk"
      /\ f # nullptr
  BY GroupStepFacts
<1>1. /\ UNCHANGED <<next_, alive, dangling, wpc, run, ready>>
      /\ wpc[w] = "fiber" /\ run[w] = f /\ holder' = nullptr
      /\ is_owner' = [is_owner EXCEPT ![f] = FALSE]
      /\ fpc[f] = "done" /\ fpc'[f] = "walk"
      /\ counter_' = counter_ - 1
      /\ counter_ # 1 => UNCHANGED <<wg_waiter, walk, wg_waiters_>>
  BY <1>a DEF Done, Executes, FiberGoto, workerVars
<1>2. GuardExclusive' /\ holder = f
  <2>0. is_owner'[f] = FALSE /\ \A g \in Fibers : g # f => is_owner'[g] = is_owner[g]
    BY <1>1, <1>a
  <2>1. wpc'[w] = "fiber" /\ run'[w] = f
    BY <1>1
  <2>2. Holds(f) /\ ~Holds(f)'
    BY <1>1, <2>0, <2>1, HoldsFacts
  <2> QED BY <1>1, <1>a, <2>0, <2>1, <2>2, GuardKept
<1>3. /\ counter_' \in Nat
      /\ counter_' + Cardinality(ToCome("Add"))' = Cardinality(Undone)'
      /\ Undone' \subseteq Undone
      /\ counter_' = 0 => AllDone'
  BY DoneCounts
<1>4. \A g \in Fibers : fpc'[g] # "group_suspending"
  <2>1. \A g \in Fibers : fpc[g] = "group_suspending" => g = f
    BY <1>2 DEF SyncInv, WaiterInv, GuardExclusive, Holds
  <2> QED BY <1>1, <2>1 DEF Kept, Moves
<1>5. /\ GroupParkedOnce'
      /\ counter_ = 1 => wg_waiters_' = <<>>
      /\ walk' \in [Fibers -> Seq(Fibers)] /\ wg_waiter' \in [Fibers -> Fibers \union {nullptr}]
      /\ wg_waiters_' \in Seq(Fibers)
      /\ counter_ # 1 => walk' = walk
      /\ \A h \in Fibers : h # f => walk'[h] = walk[h]
  <2>1. CASE counter_ = 1
    <3>1. /\ GroupParkedOnce' /\ wg_waiters_' = <<>>
          /\ walk' \in [Fibers -> Seq(Fibers)] /\ wg_waiter' \in [Fibers -> Fibers \union {nullptr}]
          /\ \A h \in Fibers : h # f => walk'[h] = walk[h]
      BY <2>1, TakeLinks
    <3>2. wg_waiters_' \in Seq(Fibers)
      BY <3>1
    <3> QED BY <2>1, <3>1, <3>2
  <2>2. CASE counter_ # 1
    <3>1. GroupParkedOnce'
      BY <1>1, <1>a, <2>2, LinksKept
    <3> QED BY <1>1, <2>2, <3>1 DEF SyncInv, WaiterInv, GroupTypeOK
  <2> QED BY <2>1, <2>2
<1>6. GroupTypeOK' /\ NoDanglingWaiter'
  BY <1>1, <1>3, <1>5, <1>a DEF SyncInv, WaiterInv, GroupTypeOK, NoDanglingWaiter
<1>7. CounterMatches'
  <2>1. counter_' = 0 => counter_ = 1
    BY <1>1, <1>a
  <2> QED BY <1>3, <1>4, <1>5, <2>1 DEF CounterMatches
<1>8. WaitMeansDone'
  <2>1. counter_ = 1 => AllDone'
    BY <1>1, <1>3
  <2>2. ASSUME NEW g \in Fibers, Knows(g)', counter_ # 1 PROVE Knows(g)
    BY <1>1, <1>5, <2>2 DEF Knows, Kept, Moves
  <2>3. \A g \in Fibers : Knows(g)' => AllDone' \/ \E h \in Fibers : Knows(h)
    BY <2>1, <2>2
  <2> QED BY <1>3, <2>3, WaitKept
<1> QED BY <1>2, <1>5, <1>6, <1>7, <1>8 DEF GroupPart, GroupInv

-----------------------------------------------------------------------------
(* All steps together.                                                     *)

\* A step of a fiber that is not in a call of the event keeps the event's part.
LEMMA OutsideEvent ==
    ASSUME SyncInv, NEW w \in Workers, NEW f \in Fibers, Kept(w, f), UNCHANGED eventVars,
           fpc[f] \notin {"event_suspending", "event_parked", "fire_loop"},
           fpc'[f] \notin {"event_suspending", "event_parked", "fire_loop"},
           \A g \in Fibers : fpc[g] = "event_parked" => (g \in ready' <=> g \in ready)
    PROVE  EventInv'
<1>0. f # nullptr
  BY ExecutorAssumption
<1>1. RunInv /\ RunInv' /\ run[w] \in {f, nullptr} /\ run'[w] \in {f, nullptr}
  BY DEF SyncInv, WaiterInv, Kept, Moves
<1>2. ~InsideEvent(w) /\ ~Unlocks(w, f)
  BY <1>0, <1>1 DEF InsideEvent, Unlocks, RunInv
<1>3. ~InsideEvent(w)' /\ ~Unlocks(w, f)'
  BY <1>0, <1>1 DEF InsideEvent, Unlocks, RunInv
<1> QED BY <1>2, <1>3, EventFrame

\* A step of a fiber that is not in a call of the group keeps the group's part.
LEMMA OutsideGroup ==
    ASSUME SyncInv, NEW w \in Workers, NEW f \in Fibers, Kept(w, f), UNCHANGED groupVars,
           fpc[f] \in {"start", "event_suspending", "event_parked", "event_dtor", "fire_loop"},
           fpc'[f] \in {"start", "end", "event_suspending", "event_parked", "event_dtor", "fire_loop"},
           \/ at'[f] = at[f]
           \/ at'[f] = at[f] + 1 /\ (Within(f, "Event::Wait") \/ Within(f, "Fire")),
           \A g \in Fibers : fpc[g] = "group_parked" => (g \in ready' <=> g \in ready)
    PROVE  GroupPart'
<1>0. f # nullptr
  BY ExecutorAssumption
<1>1. RunInv /\ RunInv' /\ run[w] \in {f, nullptr} /\ run'[w] \in {f, nullptr}
  BY DEF SyncInv, WaiterInv, Kept, Moves
<1>2. wpc[w] \notin {"group_release", "group_disown"}
  BY <1>0, <1>1 DEF RunInv
<1>3. wpc'[w] \notin {"group_release", "group_disown"}
  BY <1>0, <1>1 DEF RunInv
<1>4. \/ at'[f] = at[f]
      \/ at'[f] = at[f] + 1 /\ at[f] <= Len(Code[f]) /\ Code[f][at[f]] \notin {"Add", "Done"}
  BY DEF Within
<1>5. \A y \in {fpc[f], fpc'[f]} :
        y \notin {"add", "done", "walk", "wait", "group_suspending", "group_parked", "group_dtor"}
  OBVIOUS
<1> QED BY <1>2, <1>3, <1>4, <1>5, GroupFrame

\* Where the steps of the event take a fiber.
LEMMA EventStepsMove ==
    ASSUME Sticky, SyncInv, NEW w \in Workers, NEW f \in Fibers, EventStep(w, f)
    PROVE  /\ fpc[f] \in {"start", "event_suspending", "event_parked", "event_dtor", "fire_loop"}
           /\ fpc'[f] \in {"start", "end", "event_suspending", "event_parked", "event_dtor", "fire_loop"}
           /\ \/ at'[f] = at[f]
              \/ at'[f] = at[f] + 1 /\ (Within(f, "Event::Wait") \/ Within(f, "Fire"))
           /\ \A g \in Fibers : fpc[g] = "group_parked" => (g \in ready' <=> g \in ready)
<1>a. DOMAIN fpc = Fibers /\ at \in [Fibers -> Nat \ {0}] /\ RunInv /\ CallInv
  BY DEF SyncInv, WaiterInv, ExecTypeOK
<1>1. CASE EventWait(w, f)
  BY <1>a, <1>1 DEF EventWait, Calls, FiberGoto, SwitchOut
<1>2. CASE EventPark(w, f)
  BY <1>a, <1>2 DEF EventPark, FiberGoto, AwaitGoto
<1>3. CASE EventUnlock(w, f)
  <2>1. fpc[f] = "event_parked"
    BY <1>a, <1>3 DEF EventUnlock, RunInv
  <2> QED BY <1>3, <2>1 DEF EventUnlock, AwaitGoto, fiberVars
<1>4. CASE EventDisown(w, f)
  <2>1. fpc[f] = "event_parked"
    BY <1>a, <1>4 DEF EventDisown, RunInv
  <2> QED BY <1>4, <2>1 DEF EventDisown, RunReturns, fiberVars
<1>5. CASE EventResume(w, f)
  BY <1>a, <1>5 DEF EventResume, Take, FiberGoto
<1>6. CASE EventWaitReturn(w, f)
  <2>1. Within(f, "Event::Wait")
    BY <1>a, <1>6 DEF EventWaitReturn, CallInv
  <2> QED BY <1>a, <1>6, <2>1 DEF EventWaitReturn, Return, workerVars
<1>7. CASE Fire(w, f)
  BY <1>a, <1>7 DEF Fire, Calls, FiberGoto, workerVars
<1>8. CASE FirePop(w, f)
  <2>1. fpc[Head(event_waiters_)] = "event_parked"
    BY <1>8, PoppedParked DEF FirePop
  <2> QED BY <1>8, <2>1 DEF FirePop, Schedule, fiberVars
<1>9. CASE FireReturn(w, f)
  <2>1. Within(f, "Fire")
    BY <1>a, <1>9 DEF FireReturn, CallInv
  <2> QED BY <1>a, <1>9, <2>1 DEF FireReturn, Return, workerVars
<1> QED BY <1>1, <1>2, <1>3, <1>4, <1>5, <1>6, <1>7, <1>8, <1>9 DEF EventStep

\* Where the steps of the group take a fiber.
LEMMA GroupStepsMove ==
    ASSUME Sticky, SyncInv, NEW w \in Workers, NEW f \in Fibers, GroupStep(w, f)
    PROVE  /\ fpc[f] \notin {"event_suspending", "event_parked", "fire_loop"}
           /\ fpc'[f] \notin {"event_suspending", "event_parked", "fire_loop"}
           /\ \A g \in Fibers : fpc[g] = "event_parked" => (g \in ready' <=> g \in ready)
<1>a. DOMAIN fpc = Fibers /\ RunInv
  BY DEF SyncInv, WaiterInv, ExecTypeOK
<1>1. CASE Guard(w, f)
  BY <1>a, <1>1 DEF Guard, Calls, FiberGoto, workerVars
<1>2. CASE Add(w, f)
  BY <1>a, <1>2 DEF Add, Return, workerVars
<1>3. CASE Done(w, f)
  BY <1>a, <1>3 DEF Done, FiberGoto, workerVars
<1>4. CASE DoneSchedule(w, f)
  <2>1. fpc[wg_waiter[f]] = "group_parked"
    BY <1>4, PoppedParked DEF DoneSchedule
  <2> QED BY <1>4, <2>1 DEF DoneSchedule, Schedule, fiberVars
<1>5. CASE DoneReturn(w, f)
  BY <1>a, <1>5 DEF DoneReturn, Return, workerVars
<1>6. CASE GroupWaitNot(w, f)
  BY <1>a, <1>6 DEF GroupWaitNot, FiberGoto, workerVars
<1>7. CASE GroupWait(w, f)
  BY <1>a, <1>7 DEF GroupWait, FiberGoto, SwitchOut
<1>8. CASE GroupPark(w, f)
  BY <1>a, <1>8 DEF GroupPark, FiberGoto, AwaitGoto
<1>9. CASE GroupRelease(w, f)
  <2>1. fpc[f] = "group_parked"
    BY <1>a, <1>9 DEF GroupRelease, RunInv
  <2> QED BY <1>9, <2>1 DEF GroupRelease, AwaitGoto, fiberVars
<1>10. CASE GroupDisown(w, f)
  <2>1. fpc[f] = "group_parked"
    BY <1>a, <1>10 DEF GroupDisown, RunInv
  <2> QED BY <1>10, <2>1 DEF GroupDisown, RunReturns, fiberVars
<1>11. CASE GroupResume(w, f)
  BY <1>a, <1>11 DEF GroupResume, Take, FiberGoto
<1>12. CASE GroupWaitReturn(w, f)
  <2>1. Return(f) /\ fpc[f] = "group_dtor" /\ ready' = ready
    BY <1>12, DtorReleasesOnce DEF GroupWaitReturn, workerVars
  <2> QED BY <1>a, <2>1 DEF Return
<1> QED BY <1>1, <1>2, <1>3, <1>4, <1>5, <1>6, <1>7, <1>8, <1>9, <1>10, <1>11, <1>12 DEF GroupStep

\* The parts make up the invariant.
LEMMA SyncParts ==
    ASSUME NEW w \in Workers, NEW f \in Fibers, Kept(w, f), EventInv', GroupPart'
    PROVE  SyncInv'
<1>1. ExecTypeOK' /\ RunInv' /\ CallInv'
  BY DEF Kept, Moves
<1>2. EventTypeOK' /\ SpinlockExclusive' /\ EventParkedOnce'
  BY DEF EventInv
<1>3. GroupTypeOK' /\ GuardExclusive' /\ GroupParkedOnce' /\ GroupInv' /\ NoDanglingWaiter'
  BY DEF GroupPart
<1> QED BY <1>1, <1>2, <1>3 DEF SyncInv, WaiterInv, ParkedOnce

\* Every step of every worker keeps the invariant.
LEMMA SyncStep ==
    ASSUME Sticky, SyncInv, NEW w \in Workers, NEW f \in Fibers, WorkerStep(w, f)
    PROVE  SyncInv'
<1>1. CASE (Begin(w, f) \/ End(w, f)) /\ UNCHANGED <<eventVars, groupVars>>
  <2>1. Kept(w, f)
    BY <1>1, ExecStepsKept
  <2>a. DOMAIN fpc = Fibers
    BY DEF SyncInv, WaiterInv, ExecTypeOK
  <2>2. /\ fpc[f] = "start" /\ fpc'[f] \in {"start", "end"} /\ at'[f] = at[f]
        /\ \A g \in Fibers : g # f => (g \in ready' <=> g \in ready)
    <3>1. CASE Begin(w, f)
      BY <3>1 DEF Begin, Take, fiberVars
    <3>2. CASE End(w, f)
      BY <2>a, <3>2 DEF End, FiberGoto, RunReturns
    <3> QED BY <1>1, <3>1, <3>2
  <2>3. \A g \in Fibers : fpc[g] # "start" => (g \in ready' <=> g \in ready)
    BY <2>2
  <2>4. UNCHANGED eventVars /\ UNCHANGED groupVars
    BY <1>1
  <2>5. EventInv'
    BY <2>1, <2>2, <2>3, <2>4, OutsideEvent
  <2>6. GroupPart'
    BY <2>1, <2>2, <2>3, <2>4, OutsideGroup
  <2> QED BY <2>1, <2>5, <2>6, SyncParts
<1>2. CASE EventStep(w, f) /\ UNCHANGED groupVars
  <2>1. Kept(w, f)
    BY <1>2, EventStepsKept
  <2>2. EventInv'
    BY <1>2, EventStepsInv
  <2>3. GroupPart'
    BY <1>2, <2>1, EventStepsMove, OutsideGroup
  <2> QED BY <2>1, <2>2, <2>3, SyncParts
<1>3. CASE GroupStep(w, f) /\ UNCHANGED eventVars
  <2>1. Kept(w, f)
    BY <1>3, GroupStepsKept
  <2>2. EventInv'
    BY <1>3, <2>1, GroupStepsMove, OutsideEvent
  <2>3. GroupPart'
    BY <1>3, <2>1, GuardSteps, ReturnSteps, AddStep, AwaiterSteps, ParkStep, ScheduleStep, DoneStep
       DEF GroupStep
  <2> QED BY <2>1, <2>2, <2>3, SyncParts
<1> QED BY <1>1, <1>2, <1>3 DEF WorkerStep

\* The invariant holds initially, ...
LEMMA SyncStart ==
    ASSUME SyncInit
    PROVE  SyncInv
<1>1. ExecTypeOK /\ EventTypeOK
  <2>1. /\ wpc \in [Workers -> {"idle", "fiber", "await", "event_unlock", "event_disown",
                                "group_release", "group_disown"}]
        /\ run \in [Workers -> Fibers \union {nullptr}]
        /\ home \in [Fibers -> Workers \union {nullptr}]
        /\ ready \subseteq Fibers
    BY DEF SyncInit, ExecInit
  <2>2. /\ fpc \in [Fibers -> FiberRuns \union {"end", "event_suspending", "event_parked",
                                          "group_suspending", "group_parked"}]
        /\ at \in [Fibers -> Nat \ {0}]
    BY DEF SyncInit, ExecInit, FiberRuns
  <2>3. event_waiters_ \in Seq(Fibers)
    BY DEF SyncInit, EventInit
  <2>4. lock_ \in BOOLEAN /\ owns \in [Fibers -> BOOLEAN]
    BY Zenon DEF SyncInit, EventInit
  <2> QED BY <2>1, <2>2, <2>3, <2>4 DEF ExecTypeOK, EventTypeOK
<1>2. RunInv /\ CallInv
  BY ExecutorAssumption DEF SyncInit, ExecInit, RunInv, CallInv
<1>3. Undone = ToCome("Done")
  <2>1. \A fi \in ToCome("Done") : fi[1] \in Fibers
    BY CountedState, InPairs
  <2> QED BY <2>1 DEF Undone, SyncInit, ExecInit
<1>4. counter_ \in Nat /\ counter_ + Cardinality(ToCome("Add")) = Cardinality(Undone)
  <2>1. /\ Cardinality(ToCome("Add")) \in Nat /\ Cardinality(Undone) \in Nat
        /\ Cardinality(ToCome("Add")) <= Cardinality(Undone)
    BY <1>1, <1>2, CountedFinite
  <2>2. counter_ = Cardinality(Undone) - Cardinality(ToCome("Add"))
    BY <1>3 DEF SyncInit, GroupInit
  <2> QED BY <2>1, <2>2
<1>5. GroupTypeOK /\ NoDanglingWaiter
  <2>1. is_owner \in [Fibers -> BOOLEAN]
    BY Zenon DEF SyncInit, GroupInit
  <2>2. walk \in [Fibers -> Seq(Fibers)] /\ wg_waiters_ \in Seq(Fibers)
    BY DEF SyncInit, GroupInit
  <2> QED BY <1>4, <2>1, <2>2 DEF SyncInit, GroupInit, GroupTypeOK, NoDanglingWaiter
<1>6. SpinlockExclusive
  BY DEF SyncInit, ExecInit, EventInit, SpinlockExclusive, InsideEvent, Unlocks
<1>7. GuardExclusive
  BY ExecutorAssumption DEF SyncInit, ExecInit, GroupInit, GuardExclusive, Holds
<1>8. EventParkedOnce
  BY DEF SyncInit, ExecInit, EventInit, EventParkedOnce, InEventList
<1>9. GroupParkedOnce
  BY DEF SyncInit, ExecInit, GroupInit, GroupParkedOnce, LinkInv, Linked, InGroupList, Ahead
<1>10. CounterMatches
  BY <1>4 DEF CounterMatches, SyncInit, ExecInit, GroupInit
<1>11. WaitMeansDone
  BY DEF WaitMeansDone, SyncInit, ExecInit, GroupInit
<1> QED BY <1>1, <1>2, <1>5, <1>6, <1>7, <1>8, <1>9, <1>10, <1>11
        DEF SyncInv, WaiterInv, ParkedOnce, GroupInv

\* ... and is kept when nothing changes, ...
LEMMA SyncStutter ==
    ASSUME SyncInv, UNCHANGED syncVars
    PROVE  SyncInv'
<1>1. /\ UNCHANGED <<wpc, run, home, ready, fpc, at, lock_, owns, event_waiters_>>
      /\ UNCHANGED <<counter_, holder, is_owner, wg_waiters_, next_, alive, wg_waiter, walk, dangling>>
  BY DEF syncVars, execVars, workerVars, fiberVars, eventVars, groupVars
<1>2. ExecTypeOK' /\ EventTypeOK' /\ GroupTypeOK' /\ NoDanglingWaiter'
  BY <1>1 DEF SyncInv, WaiterInv, ExecTypeOK, EventTypeOK, GroupTypeOK, NoDanglingWaiter
<1>3. RunInv'
  BY <1>1 DEF SyncInv, WaiterInv, RunInv
<1>4. CallInv'
  BY <1>1 DEF SyncInv, WaiterInv, CallInv, Within
<1>5. SpinlockExclusive'
  BY <1>1 DEF SyncInv, WaiterInv, SpinlockExclusive, InsideEvent, Unlocks
<1>6. GuardExclusive'
  BY <1>1 DEF SyncInv, WaiterInv, GuardExclusive, Holds
<1>7. EventParkedOnce'
  BY <1>1 DEF SyncInv, WaiterInv, ParkedOnce, EventParkedOnce, InEventList
<1>8. GroupParkedOnce'
  BY <1>1 DEF SyncInv, WaiterInv, ParkedOnce, GroupParkedOnce, LinkInv, Linked, InGroupList, Ahead
<1>9. Undone' = Undone /\ ToCome("Add")' = ToCome("Add")
  BY <1>1 DEF Undone, ToCome, Later
<1>10. CounterMatches'
  BY <1>1, <1>9 DEF SyncInv, GroupInv, CounterMatches
<1>11. WaitMeansDone'
  BY <1>1, <1>9 DEF SyncInv, GroupInv, WaitMeansDone, AllDone, Later
<1> QED BY <1>2, <1>3, <1>4, <1>5, <1>6, <1>7, <1>8, <1>10, <1>11
        DEF SyncInv, WaiterInv, ParkedOnce, GroupInv

\* ... so it always holds, on an executor that resumes a fiber where it ran.
LEMMA SyncAlways ==
    ASSUME Sticky
    PROVE  SyncSpec => []SyncInv
<1>1. SyncInit => SyncInv
  BY SyncStart
<1>2. SyncInv /\ [SyncNext]_syncVars => SyncInv'
  <2> SUFFICES ASSUME SyncInv, [SyncNext]_syncVars PROVE SyncInv'
    OBVIOUS
  <2>1. CASE SyncNext
    BY <2>1, SyncStep DEF SyncNext
  <2>2. CASE UNCHANGED syncVars
    BY <2>2, SyncStutter
  <2> QED BY <2>1, <2>2
<1> QED BY <1>1, <1>2, PTL DEF SyncSpec

-----------------------------------------------------------------------------
(* Results about Event and WaitGroup.                                      *)

\* On a sticky executor (DistributedPool) Event::Wait, Event::Fire and the
\* methods of WaitGroup change their lists of waiters under their locks only,
\* no guard gives up a lock that is not its own although AwaitSuspend gives it
\* up on the worker, and a fiber that waits is in exactly one place: no wakeup
\* is lost and none is given twice.
THEOREM WaitersAreSafe ==
    ASSUME Sticky
    PROVE  SyncSpec => []WaiterInv
<1>1. SyncInv => WaiterInv
  BY DEF SyncInv
<1> QED BY <1>1, SyncAlways, PTL

\* WaitGroup::counter_ is always the number of Done calls that are added and
\* still to come, so it never wraps, and nobody comes back from
\* WaitGroup::Wait, nor is woken by Done, before they are made.
THEOREM WaitGroupCounts ==
    ASSUME Sticky
    PROVE  SyncSpec => []GroupInv
<1>1. SyncInv => GroupInv
  BY DEF SyncInv
<1> QED BY <1>1, SyncAlways, PTL

\* The walk of WaitGroup::Done over the awaiters, without the lock, never
\* reads the link of one that is gone.
THEOREM WalkIsSafe ==
    ASSUME Sticky
    PROVE  SyncSpec => []NoDanglingWaiter
<1>1. SyncInv => NoDanglingWaiter
  BY DEF SyncInv
<1> QED BY <1>1, SyncAlways, PTL

\* When Event::Fire returns, every fiber that was parked in the event is in
\* the queues of the executor.
THEOREM FireIsComplete ==
    ASSUME Sticky
    PROVE  SyncSpec => FireWakesAll
<1>1. ASSUME SyncInv, NEW w \in Workers, NEW f \in Fibers, WorkerStep(w, f),
             fpc[f] = "fire_loop", fpc'[f] # "fire_loop",
             NEW g \in Fibers, fpc[g] = "event_parked"
      PROVE  g \in ready
  <2>1. event_waiters_ = <<>>
    <3>1. EventStep(w, f)
      BY <1>1, GroupStepsMove DEF WorkerStep, Begin, End
    <3>2. fpc' # fpc
      BY <1>1
    <3> QED BY <1>1, <3>1, <3>2 DEF EventStep, EventWait, EventPark, EventUnlock, EventDisown, EventResume,
              EventWaitReturn, Fire, FirePop, FireReturn, Calls, fiberVars
  <2>2. ~InEventList(g)
    BY <2>1 DEF InEventList
  <2> QED BY <1>1, <2>2 DEF SyncInv, WaiterInv, ParkedOnce, EventParkedOnce
<1>2. ASSUME SyncInv, NEW w \in Workers, NEW f \in Fibers, WorkerStep(w, f)
      PROVE  \A h \in Fibers : h # f => fpc'[h] = fpc[h]
  <2>1. Kept(w, f)
    BY <1>2, ExecStepsKept, EventStepsKept, GroupStepsKept DEF WorkerStep
  <2> QED BY <2>1 DEF Kept, Moves
<1>3. SyncInv /\ [SyncNext]_syncVars
        => [\A f \in Fibers :
              fpc[f] = "fire_loop" /\ fpc'[f] # "fire_loop"
                => \A g \in Fibers : fpc[g] = "event_parked" => g \in ready]_execVars
  <2> SUFFICES ASSUME SyncInv, [SyncNext]_syncVars, ~UNCHANGED execVars,
                      NEW f \in Fibers, fpc[f] = "fire_loop", fpc'[f] # "fire_loop",
                      NEW g \in Fibers, fpc[g] = "event_parked"
               PROVE  g \in ready
    OBVIOUS
  <2>1. SyncNext
    BY DEF syncVars
  <2>2. PICK w \in Workers, h \in Fibers : WorkerStep(w, h)
    BY <2>1 DEF SyncNext
  <2>3. h = f
    BY <1>2, <2>2
  <2> QED BY <1>1, <2>2, <2>3
<1> QED BY <1>3, SyncAlways, PTL DEF SyncSpec, FireWakesAll

=============================================================================
