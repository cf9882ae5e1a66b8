-------------------------- MODULE FiberMutexProofs --------------------------
(***************************************************************************)
(* The fiber mutex on a sticky executor (DistributedPool), for any number  *)
(* of fibers, workers and sections.                                        *)
(*                                                                         *)
(*  - StickyGuardNotShared: the guard that a worker releases in            *)
(*    AwaitSuspend is never destroyed by the resumed fiber at the same     *)
(*    time.  HomeInv alone is enough: only the worker that is inside       *)
(*    guard.Release() could resume the fiber, and it is not idle.          *)
(*  - ParkInvariance: no waiter is lost, none is handed the mutex twice    *)
(*    (ParkInv), from what every fiber and every worker is in the middle   *)
(*    of, including the invariant of the spin lock inside the mutex.       *)
(*  - GuardRefinement: the guards inside Lock, Unlock and AwaitSuspend are *)
(*    used as QueueSpinLock expects, one actor per guard.                  *)
(*  - FifoRefinement: the mutex is a first-come-first-served lock.         *)
(***************************************************************************)
EXTENDS FiberMutex, SequenceTheorems, TLAPS

\* The two parts of the invariant.
StickyInv == HomeInv /\ GuardNotShared

\* The initial state satisfies it: no worker runs a fiber.
LEMMA StickyInvInit == Init => StickyInv
BY DEF Init, StickyInv, HomeInv, GuardNotShared, FiberPC, WorkerPC

\* The executor resumes a fiber on its home worker.
LEMMA StickyInvResume ==
    ASSUME Sticky, StickyInv, NEW w \in Workers, NEW f \in Fibers, Resume(w, f)
    PROVE  StickyInv'
<1> USE MutexAssumption DEF StickyInv, FiberGoto
<1>1. wpc[w] = "idle" /\ home[f] \in {NULL, w} /\ home' = [home EXCEPT ![f] = w]
  BY DEF Resume
<1>2. \A v \in Workers : wpc[v] # "idle" => v # w /\ run[v] # f
  BY <1>1 DEF HomeInv
<1>3. HomeInv'
  BY <1>1, <1>2 DEF Resume, HomeInv, FiberPC, WorkerPC
<1>4. GuardNotShared'
  BY <1>1, <1>2 DEF Resume, HomeInv, GuardNotShared
<1> QED BY <1>3, <1>4

\* While a worker executes a fiber nobody else has to do with the fiber.
LEMMA StickyInvExecutes ==
    ASSUME StickyInv, NEW w \in Workers, NEW f \in Fibers, Executes(w, f),
           home' = home,
           fpc' \in [Fibers -> FiberPC],
           \A g \in Fibers : g # f => fpc'[g] = fpc[g],
           \/ wpc' = wpc /\ run' = run
           \/ wpc' = [wpc EXCEPT ![w] = "await"] /\ run' = run
           \/ wpc' = [wpc EXCEPT ![w] = "idle"] /\ run' = [run EXCEPT ![w] = NULL]
    PROVE  StickyInv'
<1> USE DEF StickyInv
<1>1. \A v \in Workers : wpc[v] = "release" => v # w /\ run[v] # f
  BY DEF HomeInv, Executes
<1>2. HomeInv'
  BY DEF HomeInv, Executes, WorkerPC
<1>3. GuardNotShared'
  BY <1>1 DEF HomeInv, GuardNotShared, Executes
<1> QED BY <1>2, <1>3

\* Every step of a worker keeps the invariant.
LEMMA StickyInvStep ==
    ASSUME Sticky, StickyInv, NEW w \in Workers, NEW f \in Fibers, WorkerStep(w, f)
    PROVE  StickyInv'
<1> USE DEF StickyInv, FiberGoto
<1>1. CASE Resume(w, f)
  BY <1>1, StickyInvResume
<1>2. CASE Park(w, f)
  <2>1. \A v \in Workers : wpc[v] = "release" => v # w /\ run[v] # f
    BY <1>2 DEF Park, HomeInv
  <2>2. HomeInv'
    BY <1>2 DEF Park, HomeInv, WorkerPC, FiberPC
  <2>3. GuardNotShared'
    BY <1>2, <2>1 DEF Park, HomeInv, GuardNotShared
  <2> QED BY <2>2, <2>3
<1>3. CASE AwaitRelease(w, f)
  BY <1>3 DEF AwaitRelease, fiberVars, execVars, HomeInv, GuardNotShared
<1>4. CASE AwaitReturn(w, f)
  BY <1>4 DEF AwaitReturn, fiberVars, HomeInv, GuardNotShared, WorkerPC
<1>5. CASE \/ LockGuard(w, f) \/ GuardAcquire(w, f) \/ GuardDestroy(w, f)
           \/ LockFree(w, f) \/ LockReturn(w, f)
           \/ UnlockGuard(w, f) \/ UnlockPop(w, f) \/ UnlockFree(w, f)
  <2>1. /\ Executes(w, f) /\ home' = home /\ wpc' = wpc /\ run' = run
        /\ fpc' \in [Fibers -> FiberPC]
        /\ \A g \in Fibers : g # f => fpc'[g] = fpc[g]
    BY <1>5 DEF LockGuard, GuardAcquire, GuardDestroy, LockFree, LockReturn,
                UnlockGuard, UnlockPop, UnlockFree, HomeInv, execVars, fiberVars, FiberPC
  <2> QED BY <2>1, StickyInvExecutes
<1>6. CASE LockSuspend(w, f)
  <2>1. /\ Executes(w, f) /\ home' = home /\ run' = run
        /\ wpc' = [wpc EXCEPT ![w] = "await"]
        /\ fpc' \in [Fibers -> FiberPC]
        /\ \A g \in Fibers : g # f => fpc'[g] = fpc[g]
    BY <1>6 DEF LockSuspend, HomeInv, FiberPC
  <2> QED BY <2>1, StickyInvExecutes
<1>7. CASE UnlockReturn(w, f)
  <2>1. /\ Executes(w, f) /\ home' = home
        /\ fpc' \in [Fibers -> FiberPC]
        /\ \A g \in Fibers : g # f => fpc'[g] = fpc[g]
    BY <1>7 DEF UnlockReturn, HomeInv, FiberPC
  <2>2. CASE sections[f] + 1 < Sections
    <3>1. wpc' = wpc /\ run' = run
      BY <1>7, <2>1, <2>2 DEF UnlockReturn, Executes, HomeInv
    <3> QED BY <2>1, <3>1, StickyInvExecutes
  <2>3. CASE ~(sections[f] + 1 < Sections)
    <3>1. wpc' = [wpc EXCEPT ![w] = "idle"] /\ run' = [run EXCEPT ![w] = NULL]
      BY <1>7, <2>3 DEF UnlockReturn
    <3> QED BY <2>1, <3>1, StickyInvExecutes
  <2> QED BY <2>2, <2>3
<1> QED BY <1>1, <1>2, <1>3, <1>4, <1>5, <1>6, <1>7 DEF WorkerStep

\* On DistributedPool no worker is inside guard.Release() of AwaitSuspend while
\* the fiber already destroys the guard on another worker.
THEOREM StickyGuardNotShared ==
    ASSUME Sticky
    PROVE  Spec => []GuardNotShared
<1>1. Init => StickyInv
  BY StickyInvInit
<1>2. StickyInv /\ [Next]_vars => StickyInv'
  <2> SUFFICES ASSUME StickyInv, [Next]_vars PROVE StickyInv'
    OBVIOUS
  <2>1. CASE Next
    BY <2>1, StickyInvStep DEF Next
  <2>2. CASE UNCHANGED vars
    BY <2>2 DEF vars, fiberVars, execVars, StickyInv, HomeInv, GuardNotShared
  <2> QED BY <2>1, <2>2
<1>3. StickyInv => GuardNotShared
  BY DEF StickyInv
<1> QED BY <1>1, <1>2, <1>3, PTL DEF Spec


-----------------------------------------------------------------------------
(* The whole invariant, on a sticky executor.                              *)

GuardP ==
    INSTANCE QueueSpinLockProofs
        WITH Guards <- Fibers, Actors <- Fibers,
             lpc <- GuardPC, ancestor <- GuardAncestor, in_dtor <- GuardDtor

\* The results about the queue spinlock are about the guards of the fibers.
LEMMA SameLock ==
    /\ Guard!LockInv <=> GuardP!LockInv
    /\ Guard!LockInv' <=> GuardP!LockInv'
BY DEF Guard!LockInv, Guard!TypeOK, Guard!LineInv, Guard!LinkInv, Guard!PCs,
       GuardP!LockInv, GuardP!TypeOK, GuardP!LineInv, GuardP!LinkInv, GuardP!PCs

\* So are the results about its steps.
LEMMA SameNext ==
    ASSUME Guard!Next \/ UNCHANGED Guard!vars
    PROVE  GuardP!Next \/ UNCHANGED GuardP!vars
BY DEF Guard!Next, Guard!ThreadStep, Guard!Exchange, Guard!AcquireStep, Guard!SetOwner, Guard!Link,
       Guard!Spin, Guard!CallRelease, Guard!Destroy, Guard!ReleaseStep, Guard!HasNext,
       Guard!CasSucceeds, Guard!CasFails, Guard!SetNextOwner, Guard!Clear, Guard!Goto, Guard!Leave,
       Guard!vars,
       GuardP!Next, GuardP!ThreadStep, GuardP!Exchange, GuardP!AcquireStep, GuardP!SetOwner, GuardP!Link,
       GuardP!Spin, GuardP!CallRelease, GuardP!Destroy, GuardP!ReleaseStep, GuardP!HasNext,
       GuardP!CasSucceeds, GuardP!CasFails, GuardP!SetNextOwner, GuardP!Clear, GuardP!Goto, GuardP!Leave,
       GuardP!vars

\* What a step of worker w with fiber f leaves alone.
Frame(w, f) ==
    /\ \A v \in Workers : v # w => /\ wpc'[v] = wpc[v] /\ run'[v] = run[v]
                                   /\ lpc'[v] = lpc[v] /\ in_dtor'[v] = in_dtor[v]
    /\ \A g \in Fibers : g # f => /\ fpc'[g] = fpc[g] /\ home'[g] = home[g]
                                  /\ sections'[g] = sections[g]
                                  /\ lpc'[g] = lpc[g] /\ in_dtor'[g] = in_dtor[g]
    /\ wpc[w] = "idle" \/ run[w] = f
    /\ wpc'[w] = "idle" \/ run'[w] = f
    /\ home[f] \in {NULL, w}
    /\ home'[f] = w

\* Steps of the lock move the actor that makes them.
LEMMA LockFrame ==
    ASSUME TypeOK, NEW a \in Fibers \union Workers, NEW g \in Fibers,
           \/ Spinlock!Exchange(a, g) \/ Spinlock!AcquireStep(a, g)
           \/ Spinlock!CallRelease(a, g, "out") \/ Spinlock!Destroy(a, g) \/ Spinlock!ReleaseStep(a, g)
    PROVE  \A b \in Fibers \union Workers : b # a => lpc'[b] = lpc[b] /\ in_dtor'[b] = in_dtor[b]
BY DEF TypeOK, Spinlock!TypeOK, Spinlock!Exchange, Spinlock!AcquireStep, Spinlock!SetOwner, Spinlock!Link,
       Spinlock!Spin, Spinlock!CallRelease, Spinlock!Destroy, Spinlock!ReleaseStep, Spinlock!HasNext,
       Spinlock!CasSucceeds, Spinlock!CasFails, Spinlock!SetNextOwner, Spinlock!Clear, Spinlock!Goto

\* No step of a worker touches what belongs to other workers and fibers.
LEMMA StepFrame ==
    ASSUME Sticky, ParkInv, NEW w \in Workers, NEW f \in Fibers, WorkerStep(w, f)
    PROVE  Frame(w, f)
<1> USE MutexAssumption DEF FiberGoto, Executes
<1>1. /\ fpc \in [Fibers -> FiberPC] /\ wpc \in [Workers -> WorkerPC]
      /\ run \in [Workers -> Fibers \union {NULL}] /\ home \in [Fibers -> Workers \union {NULL}]
      /\ sections \in [Fibers -> 0..Sections]
      /\ lpc \in [Fibers \union Workers -> Spinlock!PCs]
      /\ in_dtor \in [Fibers \union Workers -> BOOLEAN]
      /\ w # f /\ (\A v \in Workers : v # f) /\ (\A g \in Fibers : g # w) /\ f # NULL /\ w # NULL
  BY DEF ParkInv, TypeOK, Spinlock!TypeOK
<1>2. wpc[w] # "idle" /\ run[w] = f => home[f] = w
  BY DEF ParkInv, StageInv
<1>3. CASE Resume(w, f)
  BY <1>1, <1>3 DEF Resume, lockVars, Frame
<1>4. CASE \/ LockGuard(w, f) \/ GuardAcquire(w, f) \/ GuardDestroy(w, f) \/ UnlockGuard(w, f)
           \/ AwaitRelease(w, f)
  <2>1. /\ run[w] = f /\ wpc[w] # "idle" /\ UNCHANGED <<wpc, run, home, sections>>
        /\ \A g \in Fibers : g # f => fpc'[g] = fpc[g]
    BY <1>1, <1>4 DEF LockGuard, GuardAcquire, GuardDestroy, UnlockGuard, AwaitRelease, fiberVars, execVars
  <2>2. PICK a \in {w, f} : \A b \in Fibers \union Workers : b # a => lpc'[b] = lpc[b] /\ in_dtor'[b] = in_dtor[b]
    <3>1. CASE AwaitRelease(w, f)
      BY <3>1, LockFrame DEF AwaitRelease, ParkInv
    <3>2. CASE LockGuard(w, f) \/ GuardAcquire(w, f) \/ GuardDestroy(w, f) \/ UnlockGuard(w, f)
      BY <3>2, LockFrame DEF LockGuard, GuardAcquire, GuardDestroy, UnlockGuard, ParkInv
    <3> QED BY <1>4, <3>1, <3>2
  <2> QED BY <1>1, <1>2, <2>1, <2>2 DEF Frame
<1>5. CASE LockFree(w, f) \/ LockSuspend(w, f) \/ LockReturn(w, f) \/ UnlockPop(w, f) \/ UnlockFree(w, f)
  BY <1>1, <1>2, <1>5 DEF LockFree, LockSuspend, LockReturn, UnlockPop, UnlockFree, lockVars, execVars, Frame
<1>6. CASE Park(w, f)
  <2>1. \A b \in Fibers \union Workers : b # w => lpc'[b] = lpc[b] /\ in_dtor'[b] = in_dtor[b]
    BY <1>6, LockFrame DEF Park, ParkInv
  <2> QED BY <1>1, <1>2, <1>6, <2>1 DEF Park, Frame
<1>7. CASE AwaitReturn(w, f)
  BY <1>1, <1>2, <1>7 DEF AwaitReturn, fiberVars, Frame
<1>8. CASE UnlockReturn(w, f)
  BY <1>1, <1>2, <1>8 DEF UnlockReturn, lockVars, Frame
<1> QED BY <1>3, <1>4, <1>5, <1>6, <1>7, <1>8 DEF WorkerStep

\* Every step keeps the types of the spinlock.
LEMMA LockTypes ==
    ASSUME TypeOK, NEW a \in Fibers \union Workers, NEW g \in Fibers,
           \/ Spinlock!Exchange(a, g) \/ Spinlock!AcquireStep(a, g)
           \/ Spinlock!CallRelease(a, g, "out") \/ Spinlock!Destroy(a, g) \/ Spinlock!ReleaseStep(a, g)
    PROVE  Spinlock!TypeOK'
<1> USE DEF TypeOK, Spinlock!TypeOK, Spinlock!PCs, Spinlock!Goto
<1>1. CASE Spinlock!Exchange(a, g)
  BY <1>1, AppendProperties DEF Spinlock!Exchange
<1>2. CASE Spinlock!AcquireStep(a, g)
  <2>1. CASE Spinlock!SetOwner(a, g)
    BY <2>1 DEF Spinlock!SetOwner
  <2>2. CASE Spinlock!Link(a, g)
    BY <2>2 DEF Spinlock!Link
  <2>3. CASE Spinlock!Spin(a, g)
    BY <2>3 DEF Spinlock!Spin
  <2> QED BY <1>2, <2>1, <2>2, <2>3 DEF Spinlock!AcquireStep
<1>3. CASE Spinlock!CallRelease(a, g, "out") \/ Spinlock!Destroy(a, g)
  BY <1>3 DEF Spinlock!CallRelease, Spinlock!Destroy
<1>4. CASE Spinlock!ReleaseStep(a, g)
  <2>1. line # <<>> => Tail(line) \in Seq(Fibers)
    BY HeadTailProperties
  <2>2. CASE Spinlock!HasNext(a, g) \/ Spinlock!CasFails(a, g) \/ Spinlock!Clear(a, g)
    BY <2>2 DEF Spinlock!HasNext, Spinlock!CasFails, Spinlock!Clear
  <2>3. CASE Spinlock!CasSucceeds(a, g)
    BY <2>1, <2>3 DEF Spinlock!CasSucceeds, Spinlock!Leave
  <2>4. CASE Spinlock!SetNextOwner(a, g)
    BY <2>1, <2>4 DEF Spinlock!SetNextOwner, Spinlock!Leave
  <2> QED BY <1>4, <2>2, <2>3, <2>4 DEF Spinlock!ReleaseStep
<1> QED BY <1>1, <1>2, <1>3, <1>4

\* A step keeps the types.
LEMMA TypeStep ==
    ASSUME Sticky, ParkInv, NEW w \in Workers, NEW f \in Fibers, WorkerStep(w, f)
    PROVE  TypeOK'
<1> USE MutexAssumption DEF FiberGoto
<1>0. TypeOK /\ StageInv
  BY DEF ParkInv
<1>1. CASE Resume(w, f)
  BY <1>0, <1>1 DEF Resume, lockVars, mutexVars, TypeOK, Spinlock!TypeOK, FiberPC, WorkerPC
<1>2. CASE LockGuard(w, f) \/ GuardAcquire(w, f) \/ GuardDestroy(w, f) \/ UnlockGuard(w, f)
  <2>1. Spinlock!TypeOK'
    BY <1>0, <1>2, LockTypes DEF LockGuard, GuardAcquire, GuardDestroy, UnlockGuard
  <2> QED BY <1>0, <1>2, <2>1 DEF LockGuard, GuardAcquire, GuardDestroy, UnlockGuard,
             mutexVars, fiberVars, execVars, TypeOK, FiberPC
<1>3. CASE LockFree(w, f) \/ LockSuspend(w, f) \/ LockReturn(w, f) \/ UnlockFree(w, f)
  BY <1>0, <1>3 DEF LockFree, LockSuspend, LockReturn, UnlockFree, lockVars, mutexVars, execVars,
     TypeOK, Spinlock!TypeOK, FiberPC, WorkerPC
<1>4. CASE UnlockPop(w, f)
  <2>1. Head(waiters_) \in Fibers /\ Tail(waiters_) \in Seq(Fibers)
    BY <1>0, <1>4, HeadTailProperties DEF UnlockPop, TypeOK
  <2> QED BY <1>0, <1>4, <2>1 DEF UnlockPop, lockVars, execVars, TypeOK, Spinlock!TypeOK, FiberPC
<1>5. CASE Park(w, f)
  <2>1. Spinlock!TypeOK'
    BY <1>0, <1>5, LockTypes DEF Park
  <2>2. waiters_' \in Seq(Fibers)
    BY <1>0, <1>5, AppendProperties DEF Park, TypeOK
  <2> QED BY <1>0, <1>5, <2>1, <2>2 DEF Park, TypeOK, FiberPC, WorkerPC
<1>6. CASE AwaitRelease(w, f)
  <2>1. Spinlock!TypeOK'
    BY <1>0, <1>6, LockTypes DEF AwaitRelease
  <2> QED BY <1>0, <1>6, <2>1 DEF AwaitRelease, mutexVars, fiberVars, execVars, TypeOK
<1>7. CASE AwaitReturn(w, f)
  BY <1>0, <1>7 DEF AwaitReturn, mutexVars, fiberVars, TypeOK, Spinlock!TypeOK, Spinlock!PCs, WorkerPC
<1>8. CASE UnlockReturn(w, f)
  <2>1. Executes(w, f) /\ fpc[f] = "unlock_dtor" /\ sections[f] < Sections /\ sections[f] \in 0..Sections
    BY <1>0, <1>8 DEF UnlockReturn, StageInv, TypeOK
  <2>2. sections[f] + 1 \in 0..Sections
    BY <2>1
  <2>3. sections' \in [Fibers -> 0..Sections]
    BY <1>0, <1>8, <2>2 DEF UnlockReturn, TypeOK
  <2>4. /\ next_waiter' \in [Fibers -> Fibers \union {NULL}] /\ ready' \subseteq Fibers
        /\ fpc' \in [Fibers -> FiberPC] /\ wpc' \in [Workers -> WorkerPC]
        /\ run' \in [Workers -> Fibers \union {NULL}]
    BY <1>0, <1>8 DEF UnlockReturn, TypeOK, FiberPC, WorkerPC
  <2> QED BY <1>0, <1>8, <2>3, <2>4 DEF UnlockReturn, lockVars, mutexVars, TypeOK, Spinlock!TypeOK
<1> QED BY <1>1, <1>2, <1>3, <1>4, <1>5, <1>6, <1>7, <1>8 DEF WorkerStep

\* A step that leaves its worker and its fiber in agreement keeps StageInv.
LEMMA StageMoves ==
    ASSUME TypeOK, StageInv, NEW w \in Workers, NEW f \in Fibers, Frame(w, f),
           wpc'[w] = "fiber" <=> fpc'[f] \in InCode,
           wpc'[w] = "await" <=> fpc'[f] = "suspending",
           wpc'[w] = "release" => fpc'[f] = "parked",
           wpc'[w] # "idle" => run'[w] = f,
           fpc'[f] # "new",
           fpc'[f] # "done" => sections'[f] < Sections
    PROVE  StageInv'
<1>1. w # NULL /\ \A v \in Workers : v # NULL
  BY MutexAssumption
<1>2. ASSUME NEW v \in Workers, v # w, wpc[v] # "idle"
      PROVE  run[v] \in Fibers /\ run[v] # f
  BY <1>2, <1>1 DEF StageInv, Frame
<1>3. ASSUME NEW v \in Workers
      PROVE  /\ wpc'[v] # "idle" => run'[v] \in Fibers /\ home'[run'[v]] = v
             /\ wpc'[v] = "fiber" => fpc'[run'[v]] \in InCode
             /\ wpc'[v] = "await" => fpc'[run'[v]] = "suspending"
             /\ wpc'[v] = "release" => fpc'[run'[v]] = "parked"
  <2>1. CASE v = w
    BY <2>1 DEF Frame, InCode
  <2>2. CASE v # w
    BY <2>2, <1>2 DEF Frame, StageInv
  <2> QED BY <2>1, <2>2
<1>4. ASSUME NEW g \in Fibers, g # f, fpc[g] \in InCode \union {"suspending"}
      PROVE  home[g] \in Workers /\ home[g] # w
  <2>1. home[g] # NULL /\ run[home[g]] = g /\ wpc[home[g]] # "idle"
    BY <1>4 DEF StageInv, InCode, Executes
  <2> QED BY <2>1, <1>4 DEF Frame, TypeOK
<1>5. ASSUME NEW g \in Fibers
      PROVE  /\ fpc'[g] = "new" <=> home'[g] = NULL
             /\ fpc'[g] \in InCode => wpc'[home'[g]] = "fiber" /\ run'[home'[g]] = g
             /\ fpc'[g] = "suspending" => wpc'[home'[g]] = "await" /\ run'[home'[g]] = g
             /\ fpc'[g] # "done" => sections'[g] < Sections
  <2>1. CASE g = f
    BY <2>1, <1>1 DEF Frame
  <2>2. CASE g # f
    BY <2>2, <1>4 DEF Frame, StageInv, Executes
  <2> QED BY <2>1, <2>2
<1> QED BY <1>3, <1>5 DEF StageInv, Executes

\* A step keeps what fibers and workers are in the middle of.
LEMMA StageStep ==
    ASSUME Sticky, ParkInv, NEW w \in Workers, NEW f \in Fibers, WorkerStep(w, f)
    PROVE  StageInv'
<1> USE DEF FiberGoto
<1>0. TypeOK /\ StageInv /\ GuardInv /\ Frame(w, f) /\ ParkedOnce
  BY StepFrame DEF ParkInv
<1>1. /\ fpc \in [Fibers -> FiberPC] /\ wpc \in [Workers -> WorkerPC]
      /\ run \in [Workers -> Fibers \union {NULL}] /\ sections \in [Fibers -> 0..Sections]
      /\ fpc[f] # "done" => sections[f] < Sections
      /\ wpc[w] # "idle" /\ run[w] = f => /\ wpc[w] = "fiber" => fpc[f] \in InCode
                                          /\ wpc[w] = "await" => fpc[f] = "suspending"
                                          /\ wpc[w] = "release" => fpc[f] = "parked"
  BY <1>0 DEF TypeOK, StageInv
<1>2. CASE Resume(w, f)
  <2>1. fpc[f] \in {"new", "parked"}
    BY <1>0, <1>2 DEF Resume, ParkedOnce
  <2>2. wpc'[w] = "fiber" /\ run'[w] = f /\ fpc'[f] \in {"lock", "lock_dtor"} /\ sections' = sections
    BY <1>1, <1>2 DEF Resume
  <2> QED BY <1>0, <1>1, <2>1, <2>2, StageMoves DEF InCode
<1>3. CASE \/ LockGuard(w, f) \/ GuardAcquire(w, f) \/ GuardDestroy(w, f) \/ UnlockGuard(w, f)
           \/ LockFree(w, f) \/ LockReturn(w, f) \/ UnlockPop(w, f) \/ UnlockFree(w, f)
  <2>1. wpc[w] = "fiber" /\ run[w] = f /\ fpc[f] \in InCode
    BY <1>1, <1>3 DEF LockGuard, GuardAcquire, GuardDestroy, UnlockGuard, LockFree, LockReturn,
       UnlockPop, UnlockFree, Executes
  <2>2. wpc' = wpc /\ run' = run /\ sections' = sections /\ fpc'[f] \in InCode
    BY <1>1, <1>3, <2>1 DEF LockGuard, GuardAcquire, GuardDestroy, UnlockGuard, LockFree, LockReturn,
       UnlockPop, UnlockFree, execVars, fiberVars, InCode
  <2> QED BY <1>0, <1>1, <2>1, <2>2, StageMoves DEF InCode
<1>4. CASE LockSuspend(w, f)
  <2>1. /\ wpc'[w] = "await" /\ run'[w] = f /\ fpc'[f] = "suspending" /\ sections' = sections
        /\ fpc[f] # "done"
    BY <1>1, <1>4 DEF LockSuspend, Executes
  <2> QED BY <1>0, <1>1, <2>1, StageMoves DEF InCode
<1>5. CASE Park(w, f)
  <2>1. /\ wpc'[w] = "release" /\ run'[w] = f /\ fpc'[f] = "parked" /\ sections' = sections
        /\ fpc[f] # "done"
    BY <1>1, <1>5 DEF Park
  <2> QED BY <1>0, <1>1, <2>1, StageMoves DEF InCode
<1>6. CASE AwaitRelease(w, f)
  <2>1. /\ wpc'[w] = "release" /\ run'[w] = f /\ fpc'[f] = "parked" /\ sections' = sections
        /\ fpc[f] # "done"
    BY <1>1, <1>6 DEF AwaitRelease, execVars, fiberVars
  <2> QED BY <1>0, <1>1, <2>1, StageMoves DEF InCode
<1>7. CASE AwaitReturn(w, f)
  <2>1. /\ wpc'[w] = "idle" /\ fpc'[f] = "parked" /\ sections' = sections
        /\ fpc[f] # "done"
    BY <1>1, <1>7 DEF AwaitReturn, fiberVars
  <2> QED BY <1>0, <1>1, <2>1, StageMoves DEF InCode
<1>8. CASE UnlockReturn(w, f)
  <2>1. /\ IF sections[f] + 1 < Sections
           THEN wpc'[w] = "fiber" /\ run'[w] = f /\ fpc'[f] = "lock"
           ELSE wpc'[w] = "idle" /\ fpc'[f] = "done"
        /\ sections'[f] = sections[f] + 1
    BY <1>1, <1>8 DEF UnlockReturn
  <2> QED BY <1>0, <2>1, StageMoves DEF InCode
<1> QED BY <1>2, <1>3, <1>4, <1>5, <1>6, <1>7, <1>8 DEF WorkerStep

\* A step disturbs the guards of its own fiber and of its own worker only.
LEMMA GuardInvMoves ==
    ASSUME GuardInv, NEW w \in Workers, NEW f \in Fibers, Frame(w, f), FiberGuard(f)', WorkerGuard(w)'
    PROVE  GuardInv'
<1>1. ASSUME NEW g \in Fibers, g # f PROVE FiberGuard(g)'
  BY <1>1 DEF GuardInv, FiberGuard, Frame
<1>2. ASSUME NEW v \in Workers, v # w PROVE WorkerGuard(v)'
  BY <1>2 DEF GuardInv, WorkerGuard, Frame
<1> QED BY <1>1, <1>2 DEF GuardInv

\* A step keeps where fibers and workers are in the operations of the guards.
LEMMA GuardInvStep ==
    ASSUME Sticky, ParkInv, NEW w \in Workers, NEW f \in Fibers, WorkerStep(w, f)
    PROVE  GuardInv'
<1> USE DEF FiberGoto, ReleasePC
<1>0. /\ GuardInv /\ StageInv /\ Frame(w, f) /\ FiberGuard(f) /\ WorkerGuard(w) /\ ParkedOnce
      /\ fpc \in [Fibers -> FiberPC] /\ wpc \in [Workers -> WorkerPC]
      /\ lpc \in [Fibers \union Workers -> Spinlock!PCs]
      /\ in_dtor \in [Fibers \union Workers -> BOOLEAN]
      /\ w # f /\ w \in Fibers \union Workers /\ f \in Fibers \union Workers
  BY StepFrame, MutexAssumption DEF ParkInv, GuardInv, TypeOK, Spinlock!TypeOK
<1>1. CASE Resume(w, f)
  <2>1. fpc[f] \in {"new", "parked"}
    BY <1>0, <1>1 DEF Resume, ParkedOnce
  <2>2. FiberGuard(f)' /\ WorkerGuard(w)'
    BY <1>0, <1>1, <2>1 DEF Resume, lockVars, FiberGuard, WorkerGuard
  <2> QED BY <1>0, <2>2, GuardInvMoves
<1>2. CASE LockGuard(w, f) \/ UnlockGuard(w, f)
  <2>1. /\ wpc[w] = "fiber" /\ wpc' = wpc /\ fpc'[f] \in {"lock_guard", "unlock_guard"}
        /\ lpc'[f] \in {"own", "link"} /\ lpc'[w] = lpc[w] /\ in_dtor' = in_dtor
    BY <1>0, <1>2 DEF LockGuard, UnlockGuard, Executes, execVars, Spinlock!Exchange, Spinlock!Goto
  <2>2. FiberGuard(f)' /\ WorkerGuard(w)'
    BY <1>0, <2>1 DEF FiberGuard, WorkerGuard
  <2> QED BY <1>0, <2>2, GuardInvMoves
<1>3. CASE GuardAcquire(w, f)
  <2>1. /\ wpc[w] = "fiber" /\ wpc' = wpc /\ fpc' = fpc /\ fpc[f] \in {"lock_guard", "unlock_guard"}
        /\ lpc'[f] \in {"spin", "held"} /\ lpc'[w] = lpc[w] /\ in_dtor' = in_dtor
    BY <1>0, <1>3 DEF GuardAcquire, Executes, fiberVars, execVars, Spinlock!AcquireStep, Spinlock!SetOwner,
       Spinlock!Link, Spinlock!Spin, Spinlock!Goto
  <2>2. FiberGuard(f)' /\ WorkerGuard(w)'
    BY <1>0, <2>1 DEF FiberGuard, WorkerGuard
  <2> QED BY <1>0, <2>2, GuardInvMoves
<1>4. CASE GuardDestroy(w, f)
  <2>1. /\ wpc[w] = "fiber" /\ wpc' = wpc /\ fpc' = fpc /\ fpc[f] \in {"lock_dtor", "unlock_dtor"}
    BY <1>4 DEF GuardDestroy, Executes, fiberVars, execVars
  <2>2. /\ lpc'[f] = "out" \/ (lpc'[f] \in ReleasePC /\ in_dtor'[f])
        /\ lpc'[w] = lpc[w] /\ in_dtor'[w] = in_dtor[w]
    <3>1. CASE Spinlock!Destroy(f, f)
      BY <1>0, <3>1 DEF Spinlock!Destroy, Spinlock!Goto
    <3>2. CASE Spinlock!ReleaseStep(f, f)
      <4>1. lpc[f] \in ReleasePC /\ in_dtor' = in_dtor
        BY <3>2 DEF Spinlock!ReleaseStep, Spinlock!HasNext, Spinlock!CasSucceeds, Spinlock!CasFails,
           Spinlock!SetNextOwner, Spinlock!Clear
      <4>2. in_dtor[f]
        BY <1>0, <2>1, <4>1 DEF FiberGuard
      <4> QED BY <1>0, <3>2, <4>1, <4>2 DEF Spinlock!ReleaseStep, Spinlock!HasNext, Spinlock!CasSucceeds,
                 Spinlock!CasFails, Spinlock!SetNextOwner, Spinlock!Clear, Spinlock!Goto
    <3> QED BY <1>4, <3>1, <3>2 DEF GuardDestroy
  <2>3. FiberGuard(f)' /\ WorkerGuard(w)'
    BY <1>0, <2>1, <2>2 DEF FiberGuard, WorkerGuard
  <2> QED BY <1>0, <2>3, GuardInvMoves
<1>5. CASE LockFree(w, f) \/ LockReturn(w, f) \/ UnlockPop(w, f) \/ UnlockFree(w, f)
  <2>1. FiberGuard(f)' /\ WorkerGuard(w)'
    BY <1>0, <1>5 DEF LockFree, LockReturn, UnlockPop, UnlockFree, Executes, execVars, lockVars,
       FiberGuard, WorkerGuard
  <2> QED BY <1>0, <2>1, GuardInvMoves
<1>6. CASE LockSuspend(w, f)
  <2>1. FiberGuard(f)' /\ WorkerGuard(w)'
    BY <1>0, <1>6 DEF LockSuspend, Executes, lockVars, FiberGuard, WorkerGuard
  <2> QED BY <1>0, <2>1, GuardInvMoves
<1>7. CASE Park(w, f)
  <2>1. fpc[f] = "suspending"
    BY <1>0, <1>7 DEF Park, StageInv
  <2>2. FiberGuard(f)' /\ WorkerGuard(w)'
    BY <1>0, <1>7, <2>1 DEF Park, Spinlock!CallRelease, Spinlock!Goto, FiberGuard, WorkerGuard
  <2> QED BY <1>0, <2>2, GuardInvMoves
<1>8. CASE AwaitRelease(w, f)
  <2>1. wpc[w] = "release" /\ wpc' = wpc /\ fpc' = fpc /\ ~in_dtor[w]
    BY <1>0, <1>8 DEF AwaitRelease, execVars, fiberVars, WorkerGuard
  <2>2. in_dtor' = in_dtor /\ lpc'[f] = lpc[f] /\ lpc'[w] \in ReleasePC \union {"released"}
    BY <1>0, <1>8, <2>1 DEF AwaitRelease, Spinlock!ReleaseStep, Spinlock!HasNext, Spinlock!CasSucceeds,
       Spinlock!CasFails, Spinlock!SetNextOwner, Spinlock!Clear, Spinlock!Goto
  <2>3. FiberGuard(f)' /\ WorkerGuard(w)'
    BY <1>0, <2>1, <2>2 DEF FiberGuard, WorkerGuard
  <2> QED BY <1>0, <2>3, GuardInvMoves
<1>9. CASE AwaitReturn(w, f)
  <2>1. FiberGuard(f)' /\ WorkerGuard(w)'
    BY <1>0, <1>9 DEF AwaitReturn, fiberVars, FiberGuard, WorkerGuard
  <2> QED BY <1>0, <2>1, GuardInvMoves
<1>10. CASE UnlockReturn(w, f)
  <2>1. FiberGuard(f)' /\ WorkerGuard(w)'
    BY <1>0, <1>10 DEF UnlockReturn, Executes, lockVars, FiberGuard, WorkerGuard
  <2> QED BY <1>0, <2>1, GuardInvMoves
<1> QED BY <1>1, <1>2, <1>3, <1>4, <1>5, <1>6, <1>7, <1>8, <1>9, <1>10 DEF WorkerStep

-----------------------------------------------------------------------------
(* The guard of a fiber is used as one thread would use it.                *)

\* Where the guard of a fiber is.
LEMMA GuardPCIs ==
    ASSUME ParkInv, Sticky, NEW f \in Fibers
    PROVE  /\ GuardPC[f] = IF fpc[f] = "parked" /\ Releases(home[f], f) THEN lpc[home[f]]
                           ELSE IF fpc[f] = "parked" \/ Resumed(f) THEN "released" ELSE lpc[f]
           /\ fpc[f] = "parked" => GuardPC[f] \in ReleasePC \union {"released"}
           /\ GuardPC[f] \in {"own", "link", "spin", "held"} => lpc[f] = GuardPC[f]
           /\ GuardPC[f] = "released" => ~is_owner[f]
<1>1. GuardPC[f] = IF fpc[f] = "parked" /\ Releases(home[f], f) THEN lpc[home[f]]
                   ELSE IF fpc[f] = "parked" \/ Resumed(f) THEN "released" ELSE lpc[f]
  BY DEF GuardPC
<1>2. fpc[f] = "parked" => home[f] \in Workers
  BY DEF ParkInv, StageInv, TypeOK
<1>3. fpc[f] = "parked" /\ Releases(home[f], f) => lpc[home[f]] \in ReleasePC \union {"released"}
  BY <1>2 DEF ParkInv, GuardInv, WorkerGuard, Releases
<1>4. GuardPC[f] = "released" => ~is_owner[f]
  BY DEF ParkInv, Guard!LockInv, Guard!LinkInv
<1> QED BY <1>1, <1>3, <1>4 DEF ReleasePC

\* A step moves the guard of its own fiber only.
LEMMA GuardMoves ==
    ASSUME ParkInv, Sticky, NEW w \in Workers, NEW f \in Fibers, Frame(w, f),
           \A g \in Fibers : g # f => is_owner'[g] = is_owner[g] \/ lpc[g] # "held"
    PROVE  /\ GuardPC' = [GuardPC EXCEPT ![f] = GuardPC'[f]]
           /\ GuardDtor' = [GuardDtor EXCEPT ![f] = GuardDtor'[f]]
<1>1. ASSUME NEW g \in Fibers, g # f, fpc[g] = "parked"
      PROVE  Releases(home[g], g) <=> Releases(home[g], g)'
  <2>1. home[g] \in Workers /\ home'[g] = home[g]
    BY <1>1 DEF ParkInv, StageInv, TypeOK, Frame
  <2>2. CASE home[g] = w
    BY <2>1, <2>2, <1>1 DEF Releases, Frame
  <2>3. CASE home[g] # w
    BY <2>1, <2>3 DEF Releases, Frame
  <2> QED BY <2>2, <2>3
<1>2. ASSUME NEW g \in Fibers, g # f, fpc[g] = "parked", Releases(home[g], g)
      PROVE  home[g] \in Workers /\ lpc'[home'[g]] = lpc[home[g]]
  <2>1. home[g] \in Workers /\ home'[g] = home[g]
    BY <1>2 DEF ParkInv, StageInv, TypeOK, Frame
  <2> QED BY <1>2, <2>1 DEF Releases, Frame
<1>3. ASSUME NEW g \in Fibers, g # f
      PROVE  Resumed(g)' <=> Resumed(g)
  BY <1>3 DEF Resumed, Frame
<1>4. ASSUME NEW g \in Fibers, g # f
      PROVE  GuardPC'[g] = GuardPC[g] /\ GuardDtor'[g] = GuardDtor[g]
  <2>1. fpc'[g] = fpc[g] /\ lpc'[g] = lpc[g] /\ in_dtor'[g] = in_dtor[g]
    BY <1>4 DEF Frame
  <2>2. GuardDtor'[g] = GuardDtor[g]
    BY <1>3, <1>4, <2>1 DEF GuardDtor
  <2>3. GuardPC'[g] = GuardPC[g]
    BY <1>1, <1>2, <1>3, <1>4, <2>1 DEF GuardPC
  <2> QED BY <2>2, <2>3
<1>5. GuardPC' = [GuardPC EXCEPT ![f] = GuardPC'[f]]
  BY <1>4 DEF GuardPC
<1>6. GuardDtor' = [GuardDtor EXCEPT ![f] = GuardDtor'[f]]
  BY <1>4 DEF GuardDtor
<1> QED BY <1>5, <1>6

\* A step that leaves the pointers alone and the guard where it is is invisible.
LEMMA GuardStays ==
    ASSUME ParkInv, Sticky, NEW w \in Workers, NEW f \in Fibers, Frame(w, f),
           UNCHANGED <<tail_, next, is_owner, ancestor, line>>,
           GuardPC'[f] = GuardPC[f], GuardDtor'[f] = GuardDtor[f]
    PROVE  UNCHANGED Guard!vars
<1>1. /\ GuardPC' = [GuardPC EXCEPT ![f] = GuardPC'[f]]
      /\ GuardDtor' = [GuardDtor EXCEPT ![f] = GuardDtor'[f]]
  BY GuardMoves
<1>2. GuardPC = [g \in Fibers |-> GuardPC[g]] /\ GuardDtor = [g \in Fibers |-> GuardDtor[g]]
  BY DEF GuardPC, GuardDtor
<1>3. GuardAncestor' = GuardAncestor
  BY DEF GuardAncestor
<1>4. GuardPC' = GuardPC
  BY <1>1, <1>2
<1>5. GuardDtor' = GuardDtor
  BY <1>1, <1>2
<1> QED BY <1>3, <1>4, <1>5 DEF Guard!vars

\* A step of Release on the guard of f, by the fiber or by its worker.
LEMMA ReleaseIsGuardStep ==
    ASSUME ParkInv, Sticky, NEW w \in Workers, NEW f \in Fibers, Frame(w, f), NEW a \in {w, f},
           Spinlock!ReleaseStep(a, f),
           GuardPC[f] = lpc[a], GuardPC'[f] = lpc'[a],
           GuardDtor[f] = in_dtor[a], GuardDtor'[f] = in_dtor'[a]
    PROVE  Guard!ReleaseStep(f, f)
<1>0. /\ lpc \in [Fibers \union Workers -> Spinlock!PCs]
      /\ in_dtor \in [Fibers \union Workers -> BOOLEAN] /\ is_owner \in [Fibers -> BOOLEAN]
      /\ a \in Fibers \union Workers /\ GuardP!LockInv
  BY SameLock DEF ParkInv, TypeOK, Spinlock!TypeOK
<1>1. \A g \in Fibers : g # f => is_owner'[g] = is_owner[g] \/ lpc[g] # "held"
  <2>1. CASE Spinlock!SetNextOwner(a, f)
    <3>1. GuardPC[f] = "handoff" /\ is_owner' = [is_owner EXCEPT ![next[f]] = TRUE]
      BY <2>1 DEF Spinlock!SetNextOwner
    <3>2. next[f] \in Fibers /\ GuardPC[next[f]] = "spin"
      BY <1>0, <3>1, MutexAssumption, GuardP!SuccessorSpins
    <3>3. lpc[next[f]] = "spin"
      BY <3>2, GuardPCIs
    <3> QED BY <1>0, <3>1, <3>3
  <2>2. CASE Spinlock!Clear(a, f)
    BY <1>0, <2>2 DEF Spinlock!Clear
  <2>3. CASE Spinlock!HasNext(a, f) \/ Spinlock!CasSucceeds(a, f) \/ Spinlock!CasFails(a, f)
    BY <2>3 DEF Spinlock!HasNext, Spinlock!CasSucceeds, Spinlock!CasFails
  <2> QED BY <2>1, <2>2, <2>3 DEF Spinlock!ReleaseStep
<1>2. GuardPC' = [GuardPC EXCEPT ![f] = lpc'[a]] /\ GuardDtor' = [GuardDtor EXCEPT ![f] = in_dtor'[a]]
  BY <1>1, GuardMoves
<1>3. in_dtor' = in_dtor /\ ancestor' = ancestor
  BY DEF Spinlock!ReleaseStep, Spinlock!HasNext, Spinlock!CasSucceeds, Spinlock!CasFails,
     Spinlock!SetNextOwner, Spinlock!Clear
<1>4. GuardDtor' = GuardDtor /\ GuardAncestor' = GuardAncestor
  BY <1>2, <1>3 DEF GuardDtor, GuardAncestor
<1>5. CASE Spinlock!HasNext(a, f)
  BY <1>0, <1>2, <1>4, <1>5 DEF Spinlock!HasNext, Spinlock!Goto, Guard!HasNext, Guard!Goto, Guard!ReleaseStep
<1>6. CASE Spinlock!CasSucceeds(a, f)
  BY <1>0, <1>2, <1>4, <1>6 DEF Spinlock!CasSucceeds, Spinlock!Goto, Spinlock!Leave,
     Guard!CasSucceeds, Guard!Goto, Guard!Leave, Guard!ReleaseStep
<1>7. CASE Spinlock!CasFails(a, f)
  BY <1>0, <1>2, <1>4, <1>7 DEF Spinlock!CasFails, Spinlock!Goto, Guard!CasFails, Guard!Goto, Guard!ReleaseStep
<1>8. CASE Spinlock!SetNextOwner(a, f)
  BY <1>0, <1>2, <1>4, <1>8 DEF Spinlock!SetNextOwner, Spinlock!Goto, Spinlock!Leave,
     Guard!SetNextOwner, Guard!Goto, Guard!Leave, Guard!ReleaseStep
<1>9. CASE Spinlock!Clear(a, f)
  BY <1>0, <1>2, <1>4, <1>9 DEF Spinlock!Clear, Spinlock!Goto, Guard!Clear, Guard!Goto, Guard!ReleaseStep
<1> QED BY <1>5, <1>6, <1>7, <1>8, <1>9 DEF Spinlock!ReleaseStep

\* A step of the mutex is a step of the spinlock inside it, or none.
LEMMA GuardStep ==
    ASSUME Sticky, ParkInv, NEW w \in Workers, NEW f \in Fibers, WorkerStep(w, f)
    PROVE  Guard!Next \/ UNCHANGED Guard!vars
<1> USE DEF FiberGoto
<1>0. /\ GuardInv /\ StageInv /\ Frame(w, f) /\ FiberGuard(f) /\ WorkerGuard(w) /\ ParkedOnce
      /\ fpc \in [Fibers -> FiberPC] /\ wpc \in [Workers -> WorkerPC] /\ home'[f] = w
      /\ run \in [Workers -> Fibers \union {NULL}]
      /\ lpc \in [Fibers \union Workers -> Spinlock!PCs]
      /\ in_dtor \in [Fibers \union Workers -> BOOLEAN] /\ is_owner \in [Fibers -> BOOLEAN]
      /\ ancestor \in [Fibers \union Workers -> Fibers \union {NULL}]
      /\ w # f /\ w \in Fibers \union Workers /\ f \in Fibers \union Workers
  BY StepFrame, MutexAssumption DEF ParkInv, GuardInv, TypeOK, Spinlock!TypeOK, Frame
<1>1. /\ GuardPC[f] = IF fpc[f] = "parked" /\ Releases(home[f], f) THEN lpc[home[f]]
                      ELSE IF fpc[f] = "parked" \/ Resumed(f) THEN "released" ELSE lpc[f]
      /\ GuardDtor[f] = (in_dtor[f] /\ fpc[f] # "parked" /\ ~Resumed(f))
      /\ GuardPC'[f] = IF fpc'[f] = "parked" /\ wpc'[w] = "release" /\ run'[w] = f THEN lpc'[w]
                       ELSE IF fpc'[f] = "parked" \/ Resumed(f)' THEN "released" ELSE lpc'[f]
      /\ GuardDtor'[f] = (in_dtor'[f] /\ fpc'[f] # "parked" /\ ~Resumed(f)')
  BY <1>0 DEF GuardPC, GuardDtor, Releases
<1>2. GuardPC[f] = "held" => is_owner[f]
  <2>1. GuardP!LockInv
    BY SameLock DEF ParkInv
  <2> QED BY <2>1, MutexAssumption, GuardP!HolderIsFirst
<1>3. GuardPC[f] = "released" => ~is_owner[f]
  BY GuardPCIs
<1>4. CASE Resume(w, f)
  <2>1. /\ wpc[w] = "idle" /\ wpc'[w] = "fiber" /\ fpc[f] \in {"new", "parked"} /\ home[f] \in {NULL, w}
        /\ fpc'[f] = (IF fpc[f] = "new" THEN "lock" ELSE "lock_dtor")
        /\ UNCHANGED <<tail_, next, is_owner, lpc, ancestor, in_dtor, line>>
    BY <1>0, <1>4 DEF Resume, lockVars, ParkedOnce, Frame
  <2>2. CASE fpc[f] = "new"
    <3>1. GuardPC'[f] = GuardPC[f] /\ GuardDtor'[f] = GuardDtor[f]
      BY <1>1, <2>1, <2>2 DEF Resumed
    <3> QED BY <1>0, <2>1, <3>1, GuardStays
  <2>3. CASE fpc[f] = "parked"
    <3>1. home[f] = w /\ lpc[f] = "held"
      BY <1>0, <2>1, <2>3 DEF StageInv, FiberGuard
    <3>2. GuardPC[f] = "released"
      BY <1>1, <2>1, <2>3, <3>1 DEF Releases
    <3>3. GuardPC'[f] = GuardPC[f] /\ GuardDtor'[f] = GuardDtor[f]
      BY <1>1, <1>3, <2>1, <2>3, <3>1, <3>2 DEF Resumed
    <3> QED BY <1>0, <2>1, <3>3, GuardStays
  <2> QED BY <2>1, <2>2, <2>3
<1>5. CASE LockGuard(w, f) \/ UnlockGuard(w, f)
  <2>1. /\ fpc[f] \in {"lock", "cs"} /\ fpc'[f] \in {"lock_guard", "unlock_guard"} /\ Spinlock!Exchange(f, f)
    BY <1>0, <1>5 DEF LockGuard, UnlockGuard
  <2>2. /\ lpc[f] = "out" /\ GuardPC[f] = "out" /\ GuardPC'[f] = lpc'[f]
        /\ lpc'[f] = (IF tail_ = NULL THEN "own" ELSE "link")
        /\ GuardDtor'[f] = in_dtor'[f] /\ GuardDtor[f] = in_dtor[f] /\ in_dtor' = in_dtor
    BY <1>0, <1>1, <2>1 DEF Resumed, Spinlock!Exchange, Spinlock!Goto
  <2>3. \A g \in Fibers : g # f => is_owner'[g] = is_owner[g]
    BY <1>0, <2>1 DEF Spinlock!Exchange
  <2>4. GuardPC' = [GuardPC EXCEPT ![f] = lpc'[f]] /\ GuardDtor' = [GuardDtor EXCEPT ![f] = in_dtor[f]]
    BY <1>0, <2>2, <2>3, GuardMoves
  <2>5. GuardDtor' = GuardDtor
    BY <2>2, <2>4 DEF GuardDtor
  <2>6. GuardAncestor' = [GuardAncestor EXCEPT ![f] = tail_]
    BY <1>0, <2>1 DEF Spinlock!Exchange, GuardAncestor
  <2>7. Guard!Exchange(f, f)
    BY <2>1, <2>2, <2>4, <2>5, <2>6 DEF Spinlock!Exchange, Guard!Exchange, Guard!Goto
  <2> QED BY <2>7 DEF Guard!Next
<1>6. CASE GuardAcquire(w, f)
  <2>1. fpc[f] \in {"lock_guard", "unlock_guard"} /\ fpc' = fpc /\ Spinlock!AcquireStep(f, f)
    BY <1>0, <1>6 DEF GuardAcquire, fiberVars
  <2>2. /\ GuardPC[f] = lpc[f] /\ GuardPC'[f] = lpc'[f] /\ in_dtor' = in_dtor /\ ancestor' = ancestor
        /\ GuardDtor'[f] = GuardDtor[f] /\ GuardAncestor' = GuardAncestor
    BY <1>0, <1>1, <2>1 DEF Resumed, GuardAncestor, Spinlock!AcquireStep, Spinlock!SetOwner, Spinlock!Link, Spinlock!Spin
  <2>3. \A g \in Fibers : g # f => is_owner'[g] = is_owner[g]
    BY <1>0, <2>1 DEF Spinlock!AcquireStep, Spinlock!SetOwner, Spinlock!Link, Spinlock!Spin
  <2>4. GuardPC' = [GuardPC EXCEPT ![f] = lpc'[f]] /\ GuardDtor' = [GuardDtor EXCEPT ![f] = GuardDtor[f]]
    BY <1>0, <2>2, <2>3, GuardMoves
  <2>5. GuardDtor' = GuardDtor /\ GuardAncestor[f] = ancestor[f]
    BY <2>4 DEF GuardDtor, GuardAncestor
  <2>6. CASE Spinlock!SetOwner(f, f)
    BY <1>0, <2>2, <2>4, <2>5, <2>6 DEF Spinlock!SetOwner, Spinlock!Goto, Guard!SetOwner, Guard!Goto,
       Guard!Next, Guard!ThreadStep, Guard!AcquireStep
  <2>7. CASE Spinlock!Link(f, f)
    BY <1>0, <2>2, <2>4, <2>5, <2>7 DEF Spinlock!Link, Spinlock!Goto, Guard!Link, Guard!Goto,
       Guard!Next, Guard!ThreadStep, Guard!AcquireStep
  <2>8. CASE Spinlock!Spin(f, f)
    BY <1>0, <2>2, <2>4, <2>5, <2>8 DEF Spinlock!Spin, Spinlock!Goto, Guard!Spin, Guard!Goto,
       Guard!Next, Guard!ThreadStep, Guard!AcquireStep
  <2> QED BY <2>1, <2>6, <2>7, <2>8 DEF Spinlock!AcquireStep
<1>7. CASE GuardDestroy(w, f) /\ Spinlock!Destroy(f, f)
  <2>1. /\ fpc[f] \in {"lock_dtor", "unlock_dtor"} /\ fpc' = fpc /\ lpc[f] = "held"
        /\ UNCHANGED <<tail_, next, is_owner, ancestor, line>>
        /\ in_dtor'[f] = TRUE /\ lpc'[f] = (IF is_owner[f] THEN "release" ELSE "out")
    BY <1>0, <1>7 DEF GuardDestroy, fiberVars, Spinlock!Destroy, Spinlock!Goto, FiberGuard, ReleasePC
  <2>2. GuardPC[f] \in {"held", "released"} /\ GuardPC'[f] = lpc'[f] /\ GuardDtor'[f] = TRUE
    BY <1>0, <1>1, <2>1 DEF Resumed
  <2>3. GuardPC' = [GuardPC EXCEPT ![f] = lpc'[f]] /\ GuardDtor' = [GuardDtor EXCEPT ![f] = TRUE]
    BY <1>0, <2>1, <2>2, GuardMoves
  <2>4. GuardAncestor' = GuardAncestor
    BY <2>1 DEF GuardAncestor
  <2>5. Guard!Destroy(f, f)
    BY <2>1, <2>2, <2>3, <2>4 DEF Guard!Destroy, Guard!Goto
  <2> QED BY <2>5 DEF Guard!Next, Guard!ThreadStep
<1>8. CASE GuardDestroy(w, f) /\ Spinlock!ReleaseStep(f, f)
  <2>1. /\ fpc[f] \in {"lock_dtor", "unlock_dtor"} /\ fpc' = fpc /\ lpc[f] \in ReleasePC /\ lpc'[f] # "held"
        /\ in_dtor' = in_dtor
    BY <1>0, <1>8 DEF GuardDestroy, fiberVars, Spinlock!ReleaseStep, Spinlock!HasNext, Spinlock!CasSucceeds,
       Spinlock!CasFails, Spinlock!SetNextOwner, Spinlock!Clear, Spinlock!Goto, ReleasePC
  <2>2. /\ GuardPC[f] = lpc[f] /\ GuardPC'[f] = lpc'[f]
        /\ GuardDtor[f] = in_dtor[f] /\ GuardDtor'[f] = in_dtor'[f]
    BY <1>0, <1>1, <2>1 DEF Resumed, ReleasePC
  <2>3. Guard!ReleaseStep(f, f)
    BY <1>0, <1>8, <2>2, ReleaseIsGuardStep
  <2> QED BY <2>3 DEF Guard!Next, Guard!ThreadStep
<1>9. CASE LockFree(w, f) \/ LockSuspend(w, f) \/ LockReturn(w, f) \/ UnlockPop(w, f) \/ UnlockFree(w, f)
           \/ UnlockReturn(w, f)
  <2>1. UNCHANGED <<tail_, next, is_owner, lpc, ancestor, in_dtor, line>>
    BY <1>9 DEF LockFree, LockSuspend, LockReturn, UnlockPop, UnlockFree, UnlockReturn, lockVars
  <2>2. /\ fpc[f] # "parked" /\ fpc'[f] # "parked"
        /\ \/ fpc[f] = "lock_guard" /\ lpc[f] = "held"
           \/ fpc'[f] # "lock_dtor" /\ ~Resumed(f)
    BY <1>0, <1>9 DEF LockFree, LockSuspend, LockReturn, UnlockPop, UnlockFree, UnlockReturn, Resumed
  <2>3. ~Resumed(f) /\ ~Resumed(f)'
    BY <1>1, <1>2, <2>1, <2>2 DEF Resumed
  <2>4. GuardPC'[f] = GuardPC[f] /\ GuardDtor'[f] = GuardDtor[f]
    BY <1>1, <2>1, <2>2, <2>3
  <2> QED BY <1>0, <2>1, <2>4, GuardStays
<1>10. CASE Park(w, f)
  <2>1. /\ fpc[f] = "suspending" /\ lpc[f] = "held" /\ fpc'[f] = "parked" /\ wpc'[w] = "release" /\ run'[w] = f
        /\ lpc'[w] = "release" /\ UNCHANGED <<tail_, next, is_owner, ancestor, line>>
    BY <1>0, <1>10 DEF Park, Spinlock!CallRelease, Spinlock!Goto, StageInv, FiberGuard
  <2>2. GuardPC[f] = "held" /\ GuardPC'[f] = "release" /\ GuardDtor'[f] = FALSE
    BY <1>1, <2>1 DEF Resumed
  <2>3. GuardPC' = [GuardPC EXCEPT ![f] = "release"] /\ GuardDtor' = [GuardDtor EXCEPT ![f] = FALSE]
    BY <1>0, <2>1, <2>2, GuardMoves
  <2>4. GuardAncestor' = GuardAncestor
    BY <2>1 DEF GuardAncestor
  <2>5. Guard!CallRelease(f, f, "held")
    BY <2>1, <2>2, <2>3, <2>4 DEF Guard!CallRelease, Guard!Goto
  <2> QED BY <2>5 DEF Guard!Next, Guard!ThreadStep
<1>11. CASE AwaitRelease(w, f)
  <2>1. /\ fpc[f] = "parked" /\ fpc' = fpc /\ wpc[w] = "release" /\ run[w] = f /\ wpc' = wpc /\ run' = run
        /\ home[f] = w /\ ~in_dtor[w] /\ in_dtor' = in_dtor
    BY <1>0, <1>11 DEF AwaitRelease, fiberVars, execVars, StageInv, WorkerGuard, Spinlock!ReleaseStep,
       Spinlock!HasNext, Spinlock!CasSucceeds, Spinlock!CasFails, Spinlock!SetNextOwner, Spinlock!Clear
  <2>2. /\ GuardPC[f] = lpc[w] /\ GuardPC'[f] = lpc'[w]
        /\ GuardDtor[f] = in_dtor[w] /\ GuardDtor'[f] = in_dtor'[w]
    BY <1>0, <1>1, <2>1 DEF Releases
  <2>3. Guard!ReleaseStep(f, f)
    BY <1>0, <1>11, <2>2, ReleaseIsGuardStep DEF AwaitRelease
  <2> QED BY <2>3 DEF Guard!Next, Guard!ThreadStep
<1>12. CASE AwaitReturn(w, f)
  <2>1. /\ fpc[f] = "parked" /\ fpc' = fpc /\ wpc[w] = "release" /\ run[w] = f /\ wpc'[w] = "idle"
        /\ home[f] = w /\ lpc[w] = "released" /\ UNCHANGED <<tail_, next, is_owner, ancestor, in_dtor, line>>
    BY <1>0, <1>12 DEF AwaitReturn, fiberVars, StageInv
  <2>2. GuardPC'[f] = GuardPC[f] /\ GuardDtor'[f] = GuardDtor[f]
    BY <1>1, <2>1 DEF Releases
  <2> QED BY <1>0, <2>1, <2>2, GuardStays
<1>13. GuardDestroy(w, f) => Spinlock!Destroy(f, f) \/ Spinlock!ReleaseStep(f, f)
  BY DEF GuardDestroy
<1> QED BY <1>4, <1>5, <1>6, <1>7, <1>8, <1>9, <1>10, <1>11, <1>12, <1>13 DEF WorkerStep

-----------------------------------------------------------------------------
(* The parked fibers and the owner of the mutex.                           *)

\* What is in a list of fibers with one more at its end.
LEMMA AppendAt ==
    ASSUME NEW S, NEW s \in Seq(S), NEW e \in S
    PROVE  /\ Append(s, e) \in Seq(S)
           /\ Len(s) \in Nat
           /\ Len(Append(s, e)) = Len(s) + 1
           /\ Append(s, e)[Len(s) + 1] = e
           /\ \A i \in 1..Len(s) : Append(s, e)[i] = s[i]
           /\ Append(s, e) # <<>>
BY AppendProperties, LenProperties

\* What is in a list without its first.
LEMMA TailAt ==
    ASSUME NEW S, NEW s \in Seq(S), s # <<>>
    PROVE  /\ Len(s) \in Nat \ {0}
           /\ Head(s) = s[1] /\ Head(s) \in S
           /\ Tail(s) \in Seq(S)
           /\ Len(Tail(s)) = Len(s) - 1
           /\ \A i \in 1..Len(s) - 1 : Tail(s)[i] = s[i + 1]
BY EmptySeq, HeadTailProperties

\* Fibers that hold the mutex in their own code.
Owns(f) == fpc[f] \in {"lock_dtor", "cs", "unlock_guard"}

\* A step that moves nobody between the places.
LEMMA PlacesKept ==
    ASSUME ParkedOnce, TypeOK, NEW w \in Workers, NEW f \in Fibers, Frame(w, f),
           UNCHANGED <<waiters_, next_waiter, ready>>,
           fpc'[f] = "parked" <=> fpc[f] = "parked",
           fpc'[f] = "new" <=> fpc[f] = "new",
           fpc[f] = "unlock_dtor" => fpc'[f] = "unlock_dtor"
    PROVE  ParkedOnce'
<1>1. \A g \in Fibers : /\ fpc'[g] = "parked" <=> fpc[g] = "parked"
                        /\ fpc'[g] = "new" <=> fpc[g] = "new"
                        /\ fpc[g] = "unlock_dtor" => fpc'[g] = "unlock_dtor"
  BY DEF Frame
<1>2. \A g : (Waits(g)' <=> Waits(g)) /\ (Popped(g)' <=> Popped(g))
  BY DEF Waits, Popped
<1>3. \A g \in Fibers :
          /\ next_waiter[g] # NULL => fpc'[g] = "unlock_dtor"
          /\ fpc'[g] = "parked" => Waits(g)' \/ Popped(g)' \/ g \in ready
          /\ Waits(g)' => fpc'[g] = "parked" /\ ~Popped(g)' /\ g \notin ready
          /\ Popped(g)' => fpc'[g] = "parked" /\ g \notin ready
          /\ fpc'[g] = "new" => g \in ready
          /\ g \in ready => fpc'[g] \in {"new", "parked"}
  BY <1>1, <1>2 DEF ParkedOnce
<1> HIDE DEF Waits, Popped
<1> QED BY <1>3 DEF ParkedOnce

\* A step that changes neither the mutex nor its waiters.
LEMMA GrantKept ==
    ASSUME GrantInv, TypeOK, NEW w \in Workers, NEW f \in Fibers, Frame(w, f),
           UNCHANGED <<locked_, owner, waiters_>>,
           Owns(f)' \/ (fpc'[f] = "parked" /\ ~Waits(f)) <=> Owns(f) \/ (fpc[f] = "parked" /\ ~Waits(f)),
           fpc'[f] = "suspending" => locked_
    PROVE  GrantInv'
<1>1. \A g : Waits(g)' <=> Waits(g)
  BY DEF Waits
<1>2. \A g \in Fibers :
          Owns(g)' \/ (fpc'[g] = "parked" /\ ~Waits(g)) <=> Owns(g) \/ (fpc[g] = "parked" /\ ~Waits(g))
  BY DEF Frame, Owns
<1>3. \A g \in Fibers : fpc'[g] = "suspending" \/ Waits(g) => locked_
  BY DEF Frame, GrantInv
<1> HIDE DEF Waits
<1> QED BY <1>1, <1>2, <1>3 DEF GrantInv, Owns

\* Two fibers never have the spinlock at the same time.
LEMMA OneHeld ==
    ASSUME Sticky, ParkInv, NEW f \in Fibers, NEW g \in Fibers,
           fpc[f] \in {"lock_guard", "suspending", "unlock_guard"}, lpc[f] = "held",
           fpc[g] \in {"lock_guard", "suspending", "unlock_guard"}, lpc[g] = "held"
    PROVE  f = g
<1>1. GuardPC[f] = "held" /\ GuardPC[g] = "held"
  BY GuardPCIs DEF Resumed
<1>2. GuardP!LockInv
  BY SameLock DEF ParkInv
<1>3. line[1] = f
  BY <1>1, <1>2, MutexAssumption, GuardP!HolderIsFirst
<1>4. line[1] = g
  BY <1>1, <1>2, MutexAssumption, GuardP!HolderIsFirst
<1> QED BY <1>3, <1>4

\* The executor takes a fiber out of its queue.
LEMMA ParkResume ==
    ASSUME Sticky, ParkInv, NEW w \in Workers, NEW f \in Fibers, Resume(w, f)
    PROVE  ParkedOnce' /\ GrantInv'
<1>0. /\ ParkedOnce /\ GrantInv /\ TypeOK /\ Frame(w, f) /\ fpc \in [Fibers -> FiberPC]
  BY StepFrame DEF ParkInv, WorkerStep, TypeOK
<1>1. /\ f \in ready /\ fpc[f] \in {"new", "parked"} /\ ready' = ready \ {f}
      /\ fpc'[f] = (IF fpc[f] = "new" THEN "lock" ELSE "lock_dtor")
      /\ UNCHANGED <<locked_, waiters_, owner, next_waiter>>
  BY <1>0 DEF Resume, FiberGoto, mutexVars, ParkedOnce
<1>2. \A g \in Fibers : g # f => fpc'[g] = fpc[g]
  BY <1>0 DEF Frame
<1>3. \A g : (Waits(g)' <=> Waits(g)) /\ (Popped(g)' <=> Popped(g))
  BY <1>1 DEF Waits, Popped
<1>4. ~Waits(f) /\ ~Popped(f)
  BY <1>0, <1>1 DEF ParkedOnce
<1> HIDE DEF Waits, Popped
<1>5. ParkedOnce'
  BY <1>0, <1>1, <1>2, <1>3, <1>4 DEF ParkedOnce
<1>6. GrantInv'
  BY <1>0, <1>1, <1>4, GrantKept DEF Owns
<1> QED BY <1>5, <1>6

\* AwaitSuspend puts the fiber at the end of the list.
LEMMA ParkPark ==
    ASSUME Sticky, ParkInv, NEW w \in Workers, NEW f \in Fibers, Park(w, f)
    PROVE  ParkedOnce' /\ GrantInv'
<1>0. /\ ParkedOnce /\ GrantInv /\ TypeOK /\ Frame(w, f) /\ fpc \in [Fibers -> FiberPC]
      /\ waiters_ \in Seq(Fibers)
  BY StepFrame DEF ParkInv, WorkerStep, TypeOK
<1>1. /\ fpc[f] = "suspending" /\ fpc'[f] = "parked" /\ waiters_' = Append(waiters_, f)
      /\ UNCHANGED <<locked_, owner, next_waiter, ready>>
  BY <1>0 DEF Park, FiberGoto, ParkInv, StageInv
<1>2. /\ Len(waiters_) \in Nat /\ Len(waiters_') = Len(waiters_) + 1 /\ waiters_'[Len(waiters_) + 1] = f
      /\ \A i \in 1..Len(waiters_) : waiters_'[i] = waiters_[i]
  BY <1>0, <1>1, AppendAt
<1>3. \A g \in Fibers : g # f => fpc'[g] = fpc[g]
  BY <1>0 DEF Frame
<1>4. ~Waits(f) /\ ~Popped(f) /\ f \notin ready /\ next_waiter[f] = NULL
  BY <1>0, <1>1 DEF ParkedOnce
<1>5. \A g \in Fibers : Popped(g)' <=> Popped(g)
  BY <1>1 DEF Popped
<1>6. \A g \in Fibers : Waits(g)' <=> Waits(g) \/ g = f
  BY <1>2 DEF Waits
<1>7. \A i, j \in 1..Len(waiters_') : waiters_'[i] = waiters_'[j] => i = j
  <2>1. \A i \in 1..Len(waiters_) : waiters_[i] # f
    BY <1>4 DEF Waits
  <2>2. \A i \in 1..Len(waiters_') : i = Len(waiters_) + 1 \/ i \in 1..Len(waiters_)
    BY <1>2
  <2> QED BY <1>0, <1>2, <2>1, <2>2 DEF ParkedOnce
<1> HIDE DEF Waits, Popped
<1>8. ParkedOnce'
  BY <1>0, <1>1, <1>3, <1>4, <1>5, <1>6, <1>7 DEF ParkedOnce
<1>9. locked_ /\ owner # f
  BY <1>0, <1>1 DEF GrantInv
<1>10. GrantInv'
  BY <1>0, <1>1, <1>3, <1>6, <1>9 DEF GrantInv
<1> QED BY <1>8, <1>10

\* Unlock takes the longest waiting fiber and makes it the owner.
LEMMA ParkUnlockPop ==
    ASSUME Sticky, ParkInv, NEW w \in Workers, NEW f \in Fibers, UnlockPop(w, f)
    PROVE  ParkedOnce' /\ GrantInv'
<1>0. /\ ParkedOnce /\ GrantInv /\ TypeOK /\ Frame(w, f) /\ fpc \in [Fibers -> FiberPC]
      /\ waiters_ \in Seq(Fibers) /\ next_waiter \in [Fibers -> Fibers \union {NULL}]
  BY StepFrame DEF ParkInv, WorkerStep, TypeOK
<1>1. PICK h : h = Head(waiters_)
  OBVIOUS
<1>2. /\ fpc[f] = "unlock_guard" /\ fpc'[f] = "unlock_dtor" /\ waiters_ # <<>> /\ waiters_' = Tail(waiters_)
      /\ next_waiter' = [next_waiter EXCEPT ![f] = h] /\ owner' = h
      /\ UNCHANGED <<locked_, ready>>
  BY <1>0, <1>1 DEF UnlockPop, FiberGoto, execVars
<1>3. /\ Len(waiters_) \in Nat \ {0} /\ Len(waiters_') = Len(waiters_) - 1
      /\ h = waiters_[1] /\ h \in Fibers
      /\ \A i \in 1..Len(waiters_) - 1 : waiters_'[i] = waiters_[i + 1]
  BY <1>0, <1>1, <1>2, TailAt
<1>4. \A g \in Fibers : g # f => fpc'[g] = fpc[g]
  BY <1>0 DEF Frame
<1>5. 1 \in 1..Len(waiters_) /\ Waits(h)
  BY <1>3 DEF Waits
<1>6. fpc[h] = "parked" /\ ~Popped(h) /\ h \notin ready /\ h # f /\ h # NULL /\ next_waiter[f] = NULL
  BY <1>0, <1>2, <1>3, <1>5, MutexAssumption DEF ParkedOnce
<1>7. \A g \in Fibers : Popped(g)' <=> Popped(g) \/ g = h
  <2>1. \A e \in Fibers : next_waiter'[e] = IF e = f THEN h ELSE next_waiter[e]
    BY <1>0, <1>2
  <2>2. \A g \in Fibers : g # NULL
    BY MutexAssumption
  <2> QED BY <1>6, <2>1, <2>2 DEF Popped
<1>8. \A g \in Fibers : Waits(g)' <=> Waits(g) /\ g # h
  <2>1. ASSUME NEW g \in Fibers, NEW i \in 1..Len(waiters_'), waiters_'[i] = g
        PROVE  Waits(g) /\ g # h
    <3>1. i + 1 \in 1..Len(waiters_) /\ waiters_[i + 1] = g /\ i + 1 # 1
      BY <1>3, <2>1
    <3> QED BY <1>0, <1>3, <1>5, <3>1 DEF Waits, ParkedOnce
  <2>2. ASSUME NEW g \in Fibers, NEW i \in 1..Len(waiters_), waiters_[i] = g, g # h
        PROVE  \E j \in 1..Len(waiters_') : waiters_'[j] = g
    <3>1. i # 1 /\ i - 1 \in 1..Len(waiters_') /\ (i - 1) + 1 = i
      BY <1>3, <2>2
    <3>2. waiters_'[i - 1] = g
      BY <1>3, <2>2, <3>1
    <3> QED BY <3>1, <3>2
  <2> QED BY <2>1, <2>2 DEF Waits
<1>9. \A i, j \in 1..Len(waiters_') : waiters_'[i] = waiters_'[j] => i = j
  <2>1. \A i \in 1..Len(waiters_') : i + 1 \in 1..Len(waiters_) /\ waiters_'[i] = waiters_[i + 1]
    BY <1>3
  <2>2. ASSUME NEW i \in 1..Len(waiters_'), NEW j \in 1..Len(waiters_'), waiters_'[i] = waiters_'[j]
        PROVE  i = j
    <3>1. i + 1 = j + 1
      BY <1>0, <2>1, <2>2 DEF ParkedOnce
    <3> QED BY <3>1
  <2> QED BY <2>2
<1>10. ASSUME NEW d \in Fibers, NEW e \in Fibers, next_waiter'[d] = next_waiter'[e]
       PROVE  next_waiter'[d] = NULL \/ d = e
  <2>1. \A g \in Fibers : next_waiter[g] # h
    BY <1>6 DEF Popped
  <2> QED BY <1>0, <1>2, <1>10, <2>1 DEF ParkedOnce
<1>11. \A g \in Fibers : next_waiter'[g] # NULL => fpc'[g] = "unlock_dtor"
  BY <1>0, <1>2, <1>4 DEF ParkedOnce
<1> HIDE DEF Waits, Popped
<1>12. ParkedOnce'
  <2>1. \A g \in Fibers :
            /\ fpc'[g] = "parked" => Waits(g)' \/ Popped(g)' \/ g \in ready'
            /\ Waits(g)' => fpc'[g] = "parked" /\ ~Popped(g)' /\ g \notin ready'
            /\ Popped(g)' => fpc'[g] = "parked" /\ g \notin ready'
            /\ fpc'[g] = "new" => g \in ready'
            /\ g \in ready' => fpc'[g] \in {"new", "parked"}
    BY <1>0, <1>2, <1>4, <1>6, <1>7, <1>8 DEF ParkedOnce
  <2> QED BY <1>9, <1>10, <1>11, <2>1 DEF ParkedOnce
<1>13. owner = f /\ locked_
  BY <1>0, <1>2, MutexAssumption DEF GrantInv
<1>14. GrantInv'
  BY <1>0, <1>2, <1>3, <1>4, <1>5, <1>6, <1>8, <1>13 DEF GrantInv
<1> QED BY <1>12, <1>14

\* Unlock schedules the fiber it has popped.
LEMMA ParkUnlockReturn ==
    ASSUME Sticky, ParkInv, NEW w \in Workers, NEW f \in Fibers, UnlockReturn(w, f)
    PROVE  ParkedOnce' /\ GrantInv'
<1>0. /\ ParkedOnce /\ GrantInv /\ TypeOK /\ Frame(w, f) /\ fpc \in [Fibers -> FiberPC]
      /\ next_waiter \in [Fibers -> Fibers \union {NULL}]
  BY StepFrame DEF ParkInv, WorkerStep, TypeOK
<1>1. /\ fpc[f] = "unlock_dtor" /\ fpc'[f] \in {"lock", "done"}
      /\ ready' = ready \union ({next_waiter[f]} \ {NULL})
      /\ next_waiter' = [next_waiter EXCEPT ![f] = NULL]
      /\ UNCHANGED <<locked_, waiters_, owner>>
  BY <1>0 DEF UnlockReturn, FiberGoto, mutexVars
<1>2. \A g \in Fibers : g # f => fpc'[g] = fpc[g]
  BY <1>0 DEF Frame
<1>3. \A g : Waits(g)' <=> Waits(g)
  BY <1>1 DEF Waits
<1>4. \A g \in Fibers : g # NULL
  BY MutexAssumption
<1>5. \A g \in Fibers : /\ Popped(g)' <=> Popped(g) /\ g # next_waiter[f]
                        /\ g = next_waiter[f] => Popped(g)
                        /\ g \in ready' <=> g \in ready \/ g = next_waiter[f]
  <2>1. \A e \in Fibers : next_waiter'[e] = IF e = f THEN NULL ELSE next_waiter[e]
    BY <1>0, <1>1
  <2>2. ASSUME NEW g \in Fibers, Popped(g)'
        PROVE  Popped(g) /\ g # next_waiter[f]
    BY <2>1, <2>2, <1>4, <1>0 DEF Popped, ParkedOnce
  <2>3. ASSUME NEW g \in Fibers, Popped(g), g # next_waiter[f]
        PROVE  Popped(g)'
    BY <2>1, <2>3 DEF Popped
  <2>4. \A g \in Fibers : g = next_waiter[f] => Popped(g)
    BY DEF Popped
  <2>5. \A g \in Fibers : g \in ready' <=> g \in ready \/ g = next_waiter[f]
    BY <1>1, <1>4
  <2> QED BY <2>2, <2>3, <2>4, <2>5
<1>6. \A d, e \in Fibers : next_waiter'[d] = next_waiter'[e] => next_waiter'[d] = NULL \/ d = e
  BY <1>0, <1>1 DEF ParkedOnce
<1>7. \A g \in Fibers : next_waiter'[g] # NULL => fpc'[g] = "unlock_dtor"
  BY <1>0, <1>1, <1>2 DEF ParkedOnce
<1> HIDE DEF Waits, Popped
<1>8. ParkedOnce'
  <2>1. \A g \in Fibers :
            /\ fpc'[g] = "parked" => Waits(g)' \/ Popped(g)' \/ g \in ready'
            /\ Waits(g)' => fpc'[g] = "parked" /\ ~Popped(g)' /\ g \notin ready'
            /\ Popped(g)' => fpc'[g] = "parked" /\ g \notin ready'
            /\ fpc'[g] = "new" => g \in ready'
            /\ g \in ready' => fpc'[g] \in {"new", "parked"}
    BY <1>0, <1>1, <1>2, <1>3, <1>5 DEF ParkedOnce
  <2>2. \A i, j \in 1..Len(waiters_') : waiters_'[i] = waiters_'[j] => i = j
    BY <1>0, <1>1 DEF ParkedOnce
  <2> QED BY <1>6, <1>7, <2>1, <2>2 DEF ParkedOnce
<1>9. GrantInv'
  BY <1>0, <1>1, GrantKept DEF Owns
<1> QED BY <1>8, <1>9

\* Every step keeps track of the parked fibers and of the owner.
LEMMA ParkStep ==
    ASSUME Sticky, ParkInv, NEW w \in Workers, NEW f \in Fibers, WorkerStep(w, f)
    PROVE  ParkedOnce' /\ GrantInv'
<1> USE DEF FiberGoto
<1>0. /\ ParkedOnce /\ GrantInv /\ TypeOK /\ Frame(w, f) /\ fpc \in [Fibers -> FiberPC]
      /\ StageInv /\ waiters_ \in Seq(Fibers) /\ owner \in Fibers \union {NULL}
  BY StepFrame DEF ParkInv, TypeOK
<1>1. CASE \/ LockGuard(w, f) \/ GuardAcquire(w, f) \/ GuardDestroy(w, f) \/ UnlockGuard(w, f)
           \/ LockSuspend(w, f) \/ LockReturn(w, f) \/ AwaitRelease(w, f) \/ AwaitReturn(w, f)
  <2>1. /\ UNCHANGED <<locked_, owner, waiters_, next_waiter, ready>>
        /\ fpc'[f] = "suspending" => fpc[f] = "suspending" \/ locked_
        /\ \/ fpc'[f] = fpc[f]
           \/ fpc[f] = "lock" /\ fpc'[f] = "lock_guard"
           \/ fpc[f] = "cs" /\ fpc'[f] = "unlock_guard"
           \/ fpc[f] = "lock_guard" /\ fpc'[f] = "suspending"
           \/ fpc[f] = "lock_dtor" /\ fpc'[f] = "cs"
    BY <1>0, <1>1 DEF LockGuard, GuardAcquire, GuardDestroy, UnlockGuard, LockSuspend, LockReturn,
       AwaitRelease, AwaitReturn, mutexVars, fiberVars, execVars
  <2>2. ParkedOnce'
    BY <1>0, <2>1, PlacesKept
  <2>3. fpc'[f] = "suspending" => locked_
    BY <1>0, <2>1 DEF GrantInv
  <2>4. GrantInv'
    BY <1>0, <2>1, <2>3, GrantKept DEF Owns
  <2> QED BY <2>2, <2>4
<1>2. CASE LockFree(w, f)
  <2>1. /\ fpc[f] = "lock_guard" /\ fpc'[f] = "lock_dtor" /\ ~locked_ /\ locked_' = TRUE /\ owner' = f
        /\ UNCHANGED <<waiters_, next_waiter, ready>>
    BY <1>0, <1>2 DEF LockFree, execVars
  <2>2. ParkedOnce'
    BY <1>0, <2>1, PlacesKept
  <2>3. owner = NULL /\ f # NULL /\ \A g \in Fibers : g # NULL
    BY <1>0, <2>1, MutexAssumption DEF GrantInv
  <2>4. \A g \in Fibers : g # f => fpc'[g] = fpc[g]
    BY <1>0 DEF Frame
  <2>5. \A g : Waits(g)' <=> Waits(g)
    BY <2>1 DEF Waits
  <2> HIDE DEF Waits
  <2>6. GrantInv'
    BY <1>0, <2>1, <2>3, <2>4, <2>5 DEF GrantInv
  <2> QED BY <2>2, <2>6
<1>3. CASE UnlockFree(w, f)
  <2>1. /\ fpc[f] = "unlock_guard" /\ fpc'[f] = "unlock_dtor" /\ lpc[f] = "held" /\ locked_' = FALSE
        /\ owner' = NULL /\ waiters_ = <<>> /\ UNCHANGED <<waiters_, next_waiter, ready>>
    BY <1>0, <1>3 DEF UnlockFree, execVars
  <2>2. ParkedOnce'
    BY <1>0, <2>1, PlacesKept
  <2>3. owner = f /\ \A g \in Fibers : g # NULL
    BY <1>0, <2>1, MutexAssumption DEF GrantInv
  <2>4. \A g \in Fibers : g # f => fpc'[g] = fpc[g]
    BY <1>0 DEF Frame
  <2>5. \A g : ~Waits(g) /\ ~Waits(g)'
    BY <2>1 DEF Waits
  <2>6. ASSUME NEW g \in Fibers, fpc[g] = "suspending"
        PROVE  FALSE
    <3>1. lpc[g] = "held"
      BY <2>6 DEF ParkInv, GuardInv, FiberGuard
    <3>2. f = g
      BY <2>1, <2>6, <3>1, OneHeld
    <3> QED BY <2>1, <2>6, <3>2
  <2> HIDE DEF Waits
  <2>7. GrantInv'
    BY <1>0, <2>1, <2>3, <2>4, <2>5, <2>6 DEF GrantInv
  <2> QED BY <2>2, <2>7
<1> QED BY <1>1, <1>2, <1>3, ParkResume, ParkPark, ParkUnlockPop, ParkUnlockReturn DEF WorkerStep

\* On a sticky executor (DistributedPool), for any number of fibers, workers and
\* sections: parked fibers are accounted for, the mutex is granted to one fiber
\* at a time, and the pointers of the spinlock describe its line.
THEOREM ParkInvariance ==
    ASSUME Sticky
    PROVE  Spec => []ParkInv
<1>1. Init => ParkInv
  <2> SUFFICES ASSUME Init PROVE ParkInv
    OBVIOUS
  <2>1. TypeOK
    <3>1. Spinlock!TypeOK
      BY EmptySeq DEF Init, Spinlock!Init, Spinlock!TypeOK, Spinlock!PCs
    <3>2. 0 \in 0..Sections
      BY MutexAssumption
    <3> QED BY <3>1, <3>2, EmptySeq DEF Init, TypeOK, FiberPC, WorkerPC
  <2>2. ParkedOnce
    BY MutexAssumption, EmptySeq DEF Init, ParkedOnce, Waits, Popped
  <2>3. StageInv
    BY MutexAssumption DEF Init, StageInv, InCode
  <2>4. GuardInv
    BY DEF Init, GuardInv, FiberGuard, WorkerGuard, Spinlock!Init
  <2>5. GrantInv
    BY MutexAssumption, EmptySeq DEF Init, GrantInv, Waits
  <2>6. Guard!LockInv
    <3>1. /\ GuardPC = [f \in Fibers |-> "out"] /\ GuardDtor = [f \in Fibers |-> FALSE]
          /\ GuardAncestor = [f \in Fibers |-> NULL]
      BY DEF Init, Spinlock!Init, GuardPC, GuardDtor, GuardAncestor, Resumed
    <3>2. GuardP!Init
      BY <3>1 DEF Init, Spinlock!Init, GuardP!Init
    <3>3. GuardP!LockInv
      BY <3>2, MutexAssumption, GuardP!LockInvInit
    <3> QED BY <3>3, SameLock
  <2> QED BY <2>1, <2>2, <2>3, <2>4, <2>5, <2>6 DEF ParkInv
<1>2. ParkInv /\ [Next]_vars => ParkInv'
  <2> SUFFICES ASSUME ParkInv, [Next]_vars PROVE ParkInv'
    OBVIOUS
  <2>1. ASSUME NEW w \in Workers, NEW f \in Fibers, WorkerStep(w, f)
        PROVE  ParkInv'
    <3>1. GuardP!Next \/ UNCHANGED GuardP!vars
      BY <2>1, GuardStep, SameNext
    <3>2. GuardP!LockInv'
      BY <3>1, MutexAssumption, SameLock, GuardP!LockInvStep DEF ParkInv
    <3>3. Guard!LockInv'
      BY <3>2, SameLock
    <3> QED BY <2>1, <3>3, TypeStep, StageStep, GuardInvStep, ParkStep DEF ParkInv
  <2>2. CASE UNCHANGED vars
    <3>1. UNCHANGED <<lockVars, mutexVars, fiberVars, execVars>>
      BY <2>2 DEF vars
    <3> USE DEF lockVars, mutexVars, fiberVars, execVars
    <3>2. TypeOK' /\ ParkedOnce' /\ StageInv' /\ GuardInv' /\ GrantInv'
      BY <3>1 DEF ParkInv, TypeOK, Spinlock!TypeOK, ParkedOnce, Waits, Popped, StageInv, Executes,
         GuardInv, FiberGuard, WorkerGuard, GrantInv
    <3>3. UNCHANGED Guard!vars
      BY <3>1 DEF Guard!vars, GuardPC, GuardDtor, GuardAncestor, Releases, Resumed
    <3>4. GuardP!LockInv'
      BY <3>3, SameNext, MutexAssumption, SameLock, GuardP!LockInvStep DEF ParkInv
    <3> QED BY <3>2, <3>4, SameLock DEF ParkInv
  <2> QED BY <2>1, <2>2 DEF Next
<1> QED BY <1>1, <1>2, PTL DEF Spec

\* On a sticky executor the guard that the fiber acquires, the worker releases in
\* AwaitSuspend and the fiber destroys after it is resumed goes through the
\* operations of the queue spinlock as a guard that one thread uses: what is
\* shown of the spinlock among threads holds among fibers.
THEOREM GuardRefinement ==
    ASSUME Sticky
    PROVE  Spec => GuardUsedByOne
<1>1. Init => Guard!Init
  BY DEF Init, Spinlock!Init, Guard!Init, GuardPC, GuardDtor, GuardAncestor, Resumed
<1>2. ParkInv /\ [Next]_vars => [Guard!Next]_(Guard!vars)
  <2> SUFFICES ASSUME ParkInv, [Next]_vars PROVE [Guard!Next]_(Guard!vars)
    OBVIOUS
  <2>1. CASE Next
    BY <2>1, GuardStep DEF Next
  <2>2. CASE UNCHANGED vars
    BY <2>2 DEF vars, lockVars, mutexVars, fiberVars, execVars, Guard!vars, GuardPC, GuardDtor, GuardAncestor, Releases, Resumed
  <2> QED BY <2>1, <2>2
<1> QED BY <1>1, <1>2, ParkInvariance, PTL DEF Spec, GuardUsedByOne, Guard!Spec

-----------------------------------------------------------------------------
(* The mutex is a first-come-first-served lock.                            *)

\* The elements of two lists one after the other.
LEMMA ConcatAt ==
    ASSUME NEW S, NEW a \in Seq(S), NEW b \in Seq(S)
    PROVE  /\ a \o b \in Seq(S) /\ Len(a) \in Nat /\ Len(b) \in Nat
           /\ Len(a \o b) = Len(a) + Len(b)
           /\ \A i \in 1..Len(a) + Len(b) : (a \o b)[i] = IF i <= Len(a) THEN a[i] ELSE b[i - Len(a)]
BY ConcatProperties, LenProperties

\* Nobody is in a concatenation who is in neither part.
LEMMA NotInConcat ==
    ASSUME NEW S, NEW a \in Seq(S), NEW b \in Seq(S), NEW e \in S,
           \A i \in 1..Len(a) : a[i] # e, \A i \in 1..Len(b) : b[i] # e
    PROVE  \A i \in 1..Len(a \o b) : (a \o b)[i] # e
<1>1. /\ Len(a) \in Nat /\ Len(b) \in Nat /\ Len(a \o b) = Len(a) + Len(b)
      /\ \A i \in 1..Len(a) + Len(b) : (a \o b)[i] = IF i <= Len(a) THEN a[i] ELSE b[i - Len(a)]
  BY ConcatAt
<1>2. \A i \in 1..Len(a) + Len(b) : IF i <= Len(a) THEN i \in 1..Len(a) ELSE i - Len(a) \in 1..Len(b)
  BY <1>1
<1> QED BY <1>1, <1>2

\* A list of one in front of another: its head and its tail.
LEMMA ConsAt ==
    ASSUME NEW S, NEW e \in S, NEW b \in Seq(S)
    PROVE  /\ <<e>> \in Seq(S) /\ <<e>> \o b \in Seq(S) /\ <<e>> \o b # <<>>
           /\ Head(<<e>> \o b) = e
           /\ Tail(<<e>> \o b) = b
<1>1. <<e>> \in Seq(S) /\ Len(<<e>>) = 1 /\ <<e>>[1] = e
  OBVIOUS
<1>2. PICK s : s \in Seq(S) /\ s = <<e>> \o b
  BY <1>1, ConcatAt
<1>3. /\ Len(b) \in Nat /\ Len(s) = 1 + Len(b)
      /\ \A i \in 1..1 + Len(b) : s[i] = IF i <= 1 THEN e ELSE b[i - 1]
  BY <1>1, <1>2, ConcatAt
<1>4. s # <<>>
  BY <1>2, <1>3, EmptySeq
<1>5. /\ Head(s) = s[1] /\ Tail(s) \in Seq(S) /\ Len(Tail(s)) = Len(s) - 1
      /\ \A i \in 1..Len(s) - 1 : Tail(s)[i] = s[i + 1]
  BY <1>2, <1>4, TailAt
<1>6. Head(s) = e
  BY <1>3, <1>5
<1>7. \A i \in 1..Len(b) : i + 1 \in 1..1 + Len(b) /\ ~(i + 1 <= 1) /\ (i + 1) - 1 = i
  BY <1>3
<1>8. Len(Tail(s)) = Len(b) /\ \A i \in 1..Len(b) : Tail(s)[i] = b[i]
  BY <1>3, <1>5, <1>7
<1>9. Tail(s) = b
  BY <1>5, <1>8, SeqEqual
<1> QED BY <1>1, <1>2, <1>4, <1>6, <1>9

\* The head of a list in front of the rest of it.
LEMMA HeadFirst ==
    ASSUME NEW S, NEW s \in Seq(S), s # <<>>
    PROVE  s = <<Head(s)>> \o Tail(s) /\ Head(s) \in S /\ Tail(s) \in Seq(S)
<1>1. Head(s) \in S /\ Tail(s) \in Seq(S)
  BY HeadTailProperties
<1> QED BY <1>1, HeadTailProperties, LenProperties, EmptySeq

\* The parts of the line are lists of fibers.
LEMMA LineParts ==
    ASSUME Sticky, ParkInv
    PROVE  /\ Granted \in Seq(Fibers) /\ waiters_ \in Seq(Fibers) /\ Coming \in Seq(Fibers)
           /\ \A f \in Fibers : fpc[f] = "suspending" => Suspending = {f} /\ Coming = <<f>>
           /\ (\A f \in Fibers : fpc[f] # "suspending") => Coming = <<>>
           /\ ~locked_ => Granted = <<>> /\ waiters_ = <<>> /\ Coming = <<>>
<1>0. /\ waiters_ \in Seq(Fibers) /\ owner \in Fibers \union {NULL} /\ GrantInv
  BY DEF ParkInv, TypeOK
<1>1. ASSUME NEW f \in Fibers, fpc[f] = "suspending"
      PROVE  Suspending = {f} /\ Coming = <<f>>
  <2>1. \A g \in Fibers : fpc[g] = "suspending" => lpc[g] = "held"
    BY DEF ParkInv, GuardInv, FiberGuard
  <2>2. \A g \in Fibers : fpc[g] = "suspending" => g = f
    BY <1>1, <2>1, OneHeld
  <2>3. Suspending = {f}
    BY <1>1, <2>2 DEF Suspending
  <2> QED BY <2>3 DEF Coming
<1>2. (\A f \in Fibers : fpc[f] # "suspending") => Coming = <<>>
  BY DEF Coming, Suspending
<1>3. Coming \in Seq(Fibers)
  <2>1. CASE \E f \in Fibers : fpc[f] = "suspending"
    <3>1. PICK f \in Fibers : fpc[f] = "suspending"
      BY <2>1
    <3>2. Coming = <<f>>
      BY <1>1, <3>1
    <3>3. <<f>> \in Seq(Fibers)
      OBVIOUS
    <3> QED BY <3>2, <3>3
  <2>2. CASE \A f \in Fibers : fpc[f] # "suspending"
    <3>1. Coming = <<>>
      BY <1>2, <2>2
    <3>2. <<>> \in Seq(Fibers)
      OBVIOUS
    <3> QED BY <3>1, <3>2
  <2> QED BY <2>1, <2>2
<1>4. Granted \in Seq(Fibers)
  BY <1>0 DEF Granted
<1>5. ASSUME ~locked_
      PROVE  Granted = <<>> /\ waiters_ = <<>> /\ Coming = <<>>
  <2>1. owner = NULL /\ (\A f \in Fibers : fpc[f] # "suspending" /\ ~Waits(f))
    BY <1>0, <1>5 DEF GrantInv
  <2>2. waiters_ = <<>>
    <3>1. SUFFICES ASSUME waiters_ # <<>> PROVE FALSE
      OBVIOUS
    <3>2. 1 \in 1..Len(waiters_) /\ waiters_[1] \in Fibers
      BY <1>0, <3>1, TailAt
    <3> QED BY <2>1, <3>2 DEF Waits
  <2> QED BY <1>2, <2>1, <2>2 DEF Granted
<1> QED BY <1>0, <1>1, <1>2, <1>3, <1>4, <1>5

\* A step that grants nothing and moves nobody to or from the line or the section.
LEMMA LineStays ==
    ASSUME NEW w \in Workers, NEW f \in Fibers, Frame(w, f), UNCHANGED <<owner, waiters_>>,
           fpc'[f] = "suspending" <=> fpc[f] = "suspending",
           fpc'[f] \in {"cs", "unlock_guard"} <=> fpc[f] \in {"cs", "unlock_guard"}
    PROVE  UNCHANGED Fifo!vars
<1>1. \A g \in Fibers : /\ fpc'[g] = "suspending" <=> fpc[g] = "suspending"
                        /\ fpc'[g] \in {"cs", "unlock_guard"} <=> fpc[g] \in {"cs", "unlock_guard"}
  BY DEF Frame
<1>2. Suspending' = Suspending /\ Inside' = Inside
  BY <1>1 DEF Suspending, Inside
<1>3. Coming' = Coming /\ Granted' = Granted
  BY <1>2 DEF Coming, Granted
<1> QED BY <1>2, <1>3 DEF Fifo!vars, Line

\* Every step asks for the mutex, enters it, leaves it or is invisible.
LEMMA FifoStep ==
    ASSUME Sticky, ParkInv, NEW w \in Workers, NEW f \in Fibers, WorkerStep(w, f)
    PROVE  Fifo!Next \/ UNCHANGED Fifo!vars
<1> USE DEF FiberGoto
<1>0. /\ ParkedOnce /\ GrantInv /\ TypeOK /\ Frame(w, f) /\ fpc \in [Fibers -> FiberPC]
      /\ StageInv /\ waiters_ \in Seq(Fibers) /\ owner \in Fibers \union {NULL}
      /\ f # NULL /\ \A g \in Fibers : g # NULL
  BY StepFrame, MutexAssumption DEF ParkInv, TypeOK
<1>1. /\ Granted \in Seq(Fibers) /\ waiters_ \in Seq(Fibers) /\ Coming \in Seq(Fibers)
      /\ \A g \in Fibers : fpc[g] = "suspending" => Suspending = {g} /\ Coming = <<g>>
      /\ (\A g \in Fibers : fpc[g] # "suspending") => Coming = <<>>
      /\ ~locked_ => Granted = <<>> /\ waiters_ = <<>> /\ Coming = <<>>
  BY LineParts
<1>2. \A g \in Fibers : g # f => fpc'[g] = fpc[g]
  BY <1>0 DEF Frame
<1>3. CASE \/ LockGuard(w, f) \/ GuardAcquire(w, f) \/ GuardDestroy(w, f) \/ UnlockGuard(w, f)
           \/ AwaitRelease(w, f) \/ AwaitReturn(w, f) \/ Resume(w, f) \/ UnlockReturn(w, f)
  <2>1. UNCHANGED <<owner, waiters_>>
    BY <1>3 DEF LockGuard, GuardAcquire, GuardDestroy, UnlockGuard, AwaitRelease, AwaitReturn, Resume,
       UnlockReturn, mutexVars
  <2>2. Resume(w, f) => fpc[f] \in {"new", "parked"}
    BY <1>0 DEF Resume, ParkedOnce
  <2>3. /\ fpc'[f] = "suspending" <=> fpc[f] = "suspending"
        /\ fpc'[f] \in {"cs", "unlock_guard"} <=> fpc[f] \in {"cs", "unlock_guard"}
    BY <1>0, <1>3, <2>2 DEF LockGuard, GuardAcquire, GuardDestroy, UnlockGuard, AwaitRelease, AwaitReturn, Resume,
       UnlockReturn, fiberVars
  <2> QED BY <1>0, <2>1, <2>3, LineStays
<1>4. CASE LockFree(w, f)
  <2>1. /\ ~locked_ /\ fpc[f] = "lock_guard" /\ fpc'[f] = "lock_dtor" /\ owner' = f /\ waiters_' = waiters_
    BY <1>0, <1>4 DEF LockFree
  <2>2. Granted = <<>> /\ waiters_ = <<>> /\ Coming = <<>> /\ \A g \in Fibers : fpc[g] # "suspending"
    BY <1>0, <1>1, <2>1 DEF GrantInv
  <2>3. Inside' = Inside
    BY <1>2, <2>1 DEF Inside
  <2>4. Granted' = <<f>> /\ Coming' = <<>>
    <3>1. Suspending' = {}
      BY <1>2, <2>1, <2>2 DEF Suspending
    <3> QED BY <1>0, <2>1, <3>1 DEF Granted, Coming
  <2>5. Line = <<>> /\ Line' = <<f>>
    BY <2>1, <2>2, <2>4, ConcatEmptySeq, EmptySeq DEF Line
  <2>6. Fifo!Ask(f)
    BY <2>3, <2>5, EmptySeq DEF Fifo!Ask
  <2> QED BY <2>6 DEF Fifo!Next
<1>5. CASE LockSuspend(w, f)
  <2>1. /\ fpc[f] = "lock_guard" /\ lpc[f] = "held" /\ fpc'[f] = "suspending" /\ UNCHANGED <<owner, waiters_>>
    BY <1>0, <1>5 DEF LockSuspend, mutexVars
  <2>2. \A g \in Fibers : fpc[g] # "suspending"
    <3>1. \A g \in Fibers : fpc[g] = "suspending" => lpc[g] = "held"
      BY DEF ParkInv, GuardInv, FiberGuard
    <3> QED BY <2>1, <3>1, OneHeld
  <2>3. Coming = <<>> /\ Coming' = <<f>> /\ Granted' = Granted /\ Inside' = Inside
    <3>1. Suspending' = {f} /\ Inside' = Inside
      BY <1>2, <2>1, <2>2 DEF Suspending, Inside
    <3> QED BY <1>1, <2>1, <2>2, <3>1 DEF Granted, Coming
  <2>4. PICK l : l \in Seq(Fibers) /\ l = Granted \o waiters_
    BY <1>1, ConcatProperties
  <2>5. Line = l /\ Line' = Append(l, f)
    BY <2>1, <2>3, <2>4, ConcatEmptySeq, AppendIsConcat DEF Line
  <2>6. (\A i \in 1..Len(Granted) : Granted[i] # f) /\ (\A i \in 1..Len(waiters_) : waiters_[i] # f)
    <3>1. owner # f /\ ~Waits(f)
      BY <1>0, <2>1 DEF GrantInv, ParkedOnce
    <3>2. \A i \in 1..Len(Granted) : Granted[i] # f
      BY <3>1 DEF Granted
    <3> QED BY <3>1, <3>2 DEF Waits
  <2>7. \A i \in 1..Len(l) : l[i] # f
    BY <1>1, <2>4, <2>6, NotInConcat
  <2>8. Fifo!Ask(f)
    BY <2>3, <2>5, <2>7 DEF Fifo!Ask
  <2> QED BY <2>8 DEF Fifo!Next
<1>6. CASE Park(w, f)
  <2>1. /\ fpc[f] = "suspending" /\ fpc'[f] = "parked" /\ owner' = owner /\ waiters_' = Append(waiters_, f)
    BY <1>0, <1>6 DEF Park, StageInv
  <2>2. Suspending = {f} /\ Coming = <<f>>
    BY <1>1, <2>1
  <2>3. Coming' = <<>> /\ Granted' = Granted /\ Inside' = Inside
    <3>1. Suspending' = {} /\ Inside' = Inside
      BY <1>2, <2>1, <2>2 DEF Suspending, Inside
    <3> QED BY <2>1, <3>1 DEF Granted, Coming
  <2>4. PICK l : l \in Seq(Fibers) /\ l = Granted
    BY <1>1
  <2>5. PICK q : q \in Seq(Fibers) /\ q = waiters_
    BY <1>1
  <2>6. <<f>> \in Seq(Fibers) /\ Append(q, f) = q \o <<f>> /\ Append(q, f) \in Seq(Fibers)
    BY <2>5, AppendIsConcat, AppendProperties
  <2>7. (l \o q) \o <<f>> = l \o (q \o <<f>>)
    BY <2>4, <2>5, <2>6, ConcatAssociative
  <2>8. l \o Append(q, f) \in Seq(Fibers)
    BY <2>4, <2>6, ConcatProperties
  <2>9. (l \o Append(q, f)) \o <<>> = l \o Append(q, f)
    BY <2>8, ConcatEmptySeq
  <2>10. Line' = Line
    BY <2>1, <2>2, <2>3, <2>4, <2>5, <2>6, <2>7, <2>9 DEF Line
  <2> QED BY <2>3, <2>10 DEF Fifo!vars
<1>7. PICK rest : rest \in Seq(Fibers) /\ rest = waiters_ \o Coming
  BY <1>1, ConcatProperties
<1>8. ASSUME owner = f
      PROVE  /\ Line = <<f>> \o rest /\ Line # <<>> /\ Head(Line) = f /\ Tail(Line) = rest
             /\ \A g \in Fibers : fpc[g] \in {"lock_dtor", "cs", "unlock_guard"} => g = f
  <2>1. Granted = <<f>> /\ <<f>> \in Seq(Fibers)
    BY <1>0, <1>8 DEF Granted
  <2>2. Line = <<f>> \o rest
    BY <1>1, <1>7, <2>1, ConcatAssociative DEF Line
  <2>3. <<f>> \o rest # <<>> /\ Head(<<f>> \o rest) = f /\ Tail(<<f>> \o rest) = rest
    BY <1>7, ConsAt
  <2>4. \A g \in Fibers : fpc[g] \in {"lock_dtor", "cs", "unlock_guard"} => g = f
    BY <1>0, <1>8 DEF GrantInv
  <2> QED BY <2>2, <2>3, <2>4
<1>9. CASE LockReturn(w, f)
  <2>1. fpc[f] = "lock_dtor" /\ fpc'[f] = "cs" /\ UNCHANGED <<owner, waiters_>>
    BY <1>0, <1>9 DEF LockReturn, mutexVars
  <2>2. owner = f
    BY <1>0, <2>1 DEF GrantInv
  <2>3. Inside = {} /\ Inside' = {f} /\ Suspending' = Suspending
    BY <1>2, <1>8, <2>1, <2>2 DEF Inside, Suspending
  <2>4. Line' = Line
    BY <2>1, <2>3 DEF Line, Granted, Coming
  <2>5. Fifo!Enter
    BY <1>8, <2>2, <2>3, <2>4 DEF Fifo!Enter
  <2> QED BY <2>5 DEF Fifo!Next
<1>10. CASE UnlockPop(w, f) \/ UnlockFree(w, f)
  <2>1. fpc[f] = "unlock_guard" /\ lpc[f] = "held" /\ fpc'[f] = "unlock_dtor"
    BY <1>0, <1>10 DEF UnlockPop, UnlockFree
  <2>2. owner = f
    BY <1>0, <2>1 DEF GrantInv
  <2>3. Inside = {f} /\ Inside' = {} /\ Suspending' = Suspending
    BY <1>2, <1>8, <2>1, <2>2 DEF Inside, Suspending
  <2>4. Coming = <<>> /\ Coming' = <<>>
    <3>1. \A g \in Fibers : fpc[g] = "suspending" => lpc[g] = "held"
      BY DEF ParkInv, GuardInv, FiberGuard
    <3>2. \A g \in Fibers : fpc[g] # "suspending"
      BY <2>1, <3>1, OneHeld
    <3> QED BY <1>1, <2>3, <3>2 DEF Coming
  <2>5. rest = waiters_
    BY <1>1, <1>7, <2>4, ConcatEmptySeq
  <2>6. Line' = waiters_
    <3>1. CASE UnlockPop(w, f)
      <4>1. waiters_ # <<>> /\ owner' = Head(waiters_) /\ waiters_' = Tail(waiters_)
        BY <3>1 DEF UnlockPop
      <4>2. PICK q : q \in Seq(Fibers) /\ q = waiters_ /\ q # <<>>
        BY <1>1, <4>1
      <4>3. q = <<Head(q)>> \o Tail(q) /\ Head(q) \in Fibers /\ Tail(q) \in Seq(Fibers)
        BY <4>2, HeadFirst
      <4>4. Granted' = <<Head(q)>>
        BY <1>0, <4>1, <4>2, <4>3 DEF Granted
      <4>5. q \o <<>> = q
        BY <4>2, ConcatEmptySeq
      <4> QED BY <2>4, <4>1, <4>2, <4>3, <4>4, <4>5 DEF Line
    <3>2. CASE UnlockFree(w, f)
      <4>1. waiters_ = <<>> /\ owner' = NULL /\ waiters_' = waiters_
        BY <3>2 DEF UnlockFree
      <4>2. <<>> \o <<>> = <<>>
        BY ConcatEmptySeq, EmptySeq
      <4> QED BY <2>4, <4>1, <4>2 DEF Line, Granted
    <3> QED BY <1>10, <3>1, <3>2
  <2>7. Fifo!Leave
    BY <1>8, <2>2, <2>3, <2>5, <2>6 DEF Fifo!Leave
  <2> QED BY <2>7 DEF Fifo!Next
<1> QED BY <1>3, <1>4, <1>5, <1>6, <1>9, <1>10 DEF WorkerStep

\* On a sticky executor fibers get the mutex in the order in which Lock found it
\* taken, for any number of fibers, workers and sections: locked_ = true and the
\* decision to wait ask, the return from Lock enters, and the critical part of
\* Unlock leaves.
THEOREM FifoRefinement ==
    ASSUME Sticky
    PROVE  Spec => ImplementsFifoLock
<1>1. Init => Fifo!Init
  <2> SUFFICES ASSUME Init PROVE Fifo!Init
    OBVIOUS
  <2>1. Suspending = {} /\ Inside = {} /\ owner = NULL /\ waiters_ = <<>>
    BY DEF Init, Suspending, Inside
  <2>2. <<>> \o <<>> = <<>>
    BY ConcatEmptySeq, EmptySeq
  <2>3. Line = <<>>
    BY <2>1, <2>2 DEF Line, Granted, Coming
  <2> QED BY <2>1, <2>3 DEF Fifo!Init
<1>2. ParkInv /\ [Next]_vars => [Fifo!Next]_(Fifo!vars)
  <2> SUFFICES ASSUME ParkInv, [Next]_vars PROVE [Fifo!Next]_(Fifo!vars)
    OBVIOUS
  <2>1. CASE Next
    BY <2>1, FifoStep DEF Next
  <2>2. CASE UNCHANGED vars
    BY <2>2 DEF vars, mutexVars, fiberVars, Fifo!vars, Line, Granted, Coming, Suspending, Inside
  <2> QED BY <2>1, <2>2
<1> QED BY <1>1, <1>2, ParkInvariance, PTL DEF Spec, ImplementsFifoLock, Fifo!Spec
=============================================================================
