----------------------------- MODULE CoroMutex -----------------------------
(***************************************************************************)
(* NComponents::AsyncMutex (src/components/async_mutex), the mutex for     *)
(* C++20 coroutines.  co_await mutex.lock() suspends the coroutine while   *)
(* the mutex is taken; unlock() hands the mutex to the first waiter and    *)
(* resumes it inside the call, on the stack of the thread that unlocks.    *)
(* So coroutines move between threads, and the calls of unlock nest.       *)
(*                                                                         *)
(* The awaiter in the frame of the coroutine carries a unique_lock of the  *)
(* SpinLock; ParkAwaiter moves it, lock and all, into the list and unlocks *)
(* it there.  From then on another thread may pop and resume the coroutine *)
(* while this thread still is inside await_suspend.                        *)
(*                                                                         *)
(* Coroutine c runs Sections[c] critical sections and returns, as those of *)
(* test/components/test_async_mutex.cpp do; threads start coroutines.      *)
(***************************************************************************)
EXTENDS Naturals, Sequences, FiniteSets

CONSTANTS Coroutines, Threads, Sections, NULL

ASSUME CoroMutexAssumption ==
    /\ IsFiniteSet(Coroutines)
    /\ Sections \in [Coroutines -> Nat \ {0}]
    /\ NULL \notin Coroutines

VARIABLES
    spinlock,    \* SpinLock::lock_
    lock_flag,
    waiters,     \* std::list<MutexAwaiter>, by coroutine
    guards,      \* the awaiters whose guard owns the spinlock: <<"frame", c>>
                 \* for the one in the frame of c, <<"list", c>> in waiters
    stack,       \* stack[t]: the coroutines that run on thread t, outermost first
    tpc,         \* tpc[t]: "run", or "release" and "return" for the end of
                 \* await_suspend of the innermost coroutine
    pc,          \* pc[c]: where coroutine c is
    waiter,      \* waiter[c]: the local variable of Unlock
    sections,    \* sections[c]: how many sections c has been through
    owner        \* history: the coroutine to which the mutex was granted

mutexVars == <<spinlock, lock_flag, waiters, guards, owner>>
stackVars == <<stack, tpc>>
coroVars  == <<pc, waiter, sections>>
vars == <<mutexVars, stackVars, coroVars>>

Init ==
    /\ spinlock = FALSE
    /\ lock_flag = FALSE
    /\ waiters = <<>>
    /\ guards = {}
    /\ stack = [t \in Threads |-> <<>>]
    /\ tpc = [t \in Threads |-> "run"]
    /\ pc = [c \in Coroutines |-> "new"]
    /\ waiter = [c \in Coroutines |-> NULL]
    /\ sections = [c \in Coroutines |-> 0]
    /\ owner = NULL

Goto(c, to) == pc' = [pc EXCEPT ![c] = to]

Front(s) == SubSeq(s, 1, Len(s) - 1)

\* Coroutine c is the innermost one on the stack of thread t.
OnTop(t, c) == stack[t] # <<>> /\ stack[t][Len(stack[t])] = c

Runs(t, c) == OnTop(t, c) /\ tpc[t] = "run"

-----------------------------------------------------------------------------

\* A thread calls a coroutine, which starts at once (suspend_never).
Start(t, c) ==
    /\ stack[t] = <<>>
    /\ pc[c] = "new"
    /\ stack' = [stack EXCEPT ![t] = <<c>>]
    /\ Goto(c, "lock")
    /\ UNCHANGED <<mutexVars, tpc, waiter, sections>>

\* SpinLock::Lock returns.
Lock == ~spinlock /\ spinlock' = TRUE

\* operator co_await: the awaiter, with the spinlock held.
CoAwait(t, c) ==
    /\ Runs(t, c)
    /\ pc[c] = "lock"
    /\ Lock
    /\ guards' = guards \union {<<"frame", c>>}
    /\ Goto(c, "ready")
    /\ UNCHANGED <<lock_flag, waiters, owner, stackVars, waiter, sections>>

\* TryLock returns true.
TryLock(c) ==
    /\ ~lock_flag
    /\ lock_flag' = TRUE
    /\ owner' = c

\* The move constructor of MutexAwaiter: the guard goes from one to the other.
MoveGuard(from, to) ==
    guards' = IF from \in guards THEN (guards \ {from}) \union {to} ELSE guards

\* await_ready: TryLock succeeds, and the guard is released.
AwaitReady(t, c) ==
    /\ Runs(t, c)
    /\ pc[c] = "ready"
    /\ TryLock(c)
    /\ guards' = guards \ {<<"frame", c>>}
    /\ spinlock' = FALSE
    /\ Goto(c, "granted")
    /\ UNCHANGED <<waiters, stackVars, waiter, sections>>

\* Fault: the move constructor takes the guard and leaves it with its source.
ParkKeepsGuard(t, c) ==
    /\ Runs(t, c)
    /\ pc[c] = "ready"
    /\ lock_flag
    /\ waiters' = Append(waiters, c)
    /\ guards' = guards \union {<<"list", c>>}
    /\ Goto(c, "parked")
    /\ tpc' = [tpc EXCEPT ![t] = "release"]
    /\ UNCHANGED <<spinlock, lock_flag, owner, stack, waiter, sections>>

\* Fault: the awaiter is put in front of the list.
ParkFront(t, c) ==
    /\ Runs(t, c)
    /\ pc[c] = "ready"
    /\ lock_flag
    /\ waiters' = <<c>> \o waiters
    /\ MoveGuard(<<"frame", c>>, <<"list", c>>)
    /\ Goto(c, "parked")
    /\ tpc' = [tpc EXCEPT ![t] = "release"]
    /\ UNCHANGED <<spinlock, lock_flag, owner, stack, waiter, sections>>

\* TryLock fails, the coroutine is suspended, and await_suspend moves the
\* awaiter into the list ...
Park(t, c) ==
    /\ Runs(t, c)
    /\ pc[c] = "ready"
    /\ lock_flag
    /\ waiters' = Append(waiters, c)
    /\ MoveGuard(<<"frame", c>>, <<"list", c>>)
    /\ Goto(c, "parked")
    /\ tpc' = [tpc EXCEPT ![t] = "release"]
    /\ UNCHANGED <<spinlock, lock_flag, owner, stack, waiter, sections>>

\* ... waiters.back().ReleaseLock() ...
ParkRelease(t, c) ==
    /\ OnTop(t, c)
    /\ tpc[t] = "release"
    /\ spinlock' = IF <<"list", c>> \in guards THEN FALSE ELSE spinlock
    /\ guards' = guards \ {<<"list", c>>}
    /\ tpc' = [tpc EXCEPT ![t] = "return"]
    /\ UNCHANGED <<lock_flag, waiters, owner, stack, coroVars>>

\* ... and the thread goes back to whoever has called or resumed c.
ParkReturn(t, c) ==
    /\ OnTop(t, c)
    /\ tpc[t] = "return"
    /\ stack' = [stack EXCEPT ![t] = Front(@)]
    /\ tpc' = [tpc EXCEPT ![t] = "run"]
    /\ UNCHANGED <<mutexVars, coroVars>>

\* await_resume, and the destructor of the awaiter in the frame.
AwaitResume(t, c) ==
    /\ Runs(t, c)
    /\ pc[c] = "granted"
    /\ spinlock' = IF <<"frame", c>> \in guards THEN FALSE ELSE spinlock
    /\ guards' = guards \ {<<"frame", c>>}
    /\ Goto(c, "section")
    /\ UNCHANGED <<lock_flag, waiters, owner, stackVars, waiter, sections>>

\* The coroutine has done its work and calls unlock.
Unlock(t, c) ==
    /\ Runs(t, c)
    /\ pc[c] = "section"
    /\ Lock
    /\ Goto(c, "unlock")
    /\ UNCHANGED <<lock_flag, waiters, guards, owner, stackVars, waiter, sections>>

\* The mutex passes to the first waiter; lock_flag stays set.
UnlockPop(t, c) ==
    /\ Runs(t, c)
    /\ pc[c] = "unlock"
    /\ waiters # <<>>
    /\ waiter' = [waiter EXCEPT ![c] = Head(waiters)]
    /\ waiters' = Tail(waiters)
    /\ owner' = Head(waiters)
    /\ spinlock' = FALSE
    /\ Goto(c, "resume")
    /\ UNCHANGED <<lock_flag, guards, stackVars, sections>>

\* Fault: the waiters are not looked at.
UnlockFreeAlways(t, c) ==
    /\ Runs(t, c)
    /\ pc[c] = "unlock"
    /\ lock_flag' = FALSE
    /\ owner' = NULL
    /\ spinlock' = FALSE
    /\ Goto(c, "unlocked")
    /\ UNCHANGED <<waiters, guards, stackVars, waiter, sections>>

UnlockFree(t, c) ==
    /\ Runs(t, c)
    /\ pc[c] = "unlock"
    /\ waiters = <<>>
    /\ lock_flag' = FALSE
    /\ owner' = NULL
    /\ spinlock' = FALSE
    /\ Goto(c, "unlocked")
    /\ UNCHANGED <<waiters, guards, stackVars, waiter, sections>>

\* waiter.Resume(): the waiter goes on inside this call, which returns when
\* the waiter is suspended again or has ended.
UnlockResume(t, c) ==
    /\ Runs(t, c)
    /\ pc[c] = "resume"
    /\ stack' = [stack EXCEPT ![t] = Append(@, waiter[c])]
    /\ pc' = [pc EXCEPT ![c] = "unlocked", ![waiter[c]] = "granted"]
    /\ waiter' = [waiter EXCEPT ![c] = NULL]
    /\ UNCHANGED <<mutexVars, tpc, sections>>

\* unlock returns; the coroutine goes on to its next section or ends.
UnlockReturn(t, c) ==
    /\ Runs(t, c)
    /\ pc[c] = "unlocked"
    /\ sections' = [sections EXCEPT ![c] = @ + 1]
    /\ IF sections[c] + 1 < Sections[c]
       THEN Goto(c, "lock") /\ UNCHANGED stack
       ELSE Goto(c, "done") /\ stack' = [stack EXCEPT ![t] = Front(@)]
    /\ UNCHANGED <<mutexVars, tpc, waiter>>

-----------------------------------------------------------------------------

ThreadStep(t) ==
    \E c \in Coroutines :
        \/ CoAwait(t, c) \/ AwaitReady(t, c) \/ AwaitResume(t, c)
        \/ Park(t, c) \/ ParkRelease(t, c) \/ ParkReturn(t, c)
        \/ Unlock(t, c) \/ UnlockPop(t, c) \/ UnlockFree(t, c)
        \/ UnlockResume(t, c) \/ UnlockReturn(t, c)

Next == \E t \in Threads : ThreadStep(t) \/ \E c \in Coroutines : Start(t, c)

Spec == Init /\ [][Next]_vars

-----------------------------------------------------------------------------
(* Properties.                                                             *)

\* Every variable has its type.
TypeOK ==
    /\ spinlock \in BOOLEAN /\ lock_flag \in BOOLEAN
    /\ waiters \in Seq(Coroutines)
    /\ guards \subseteq {"frame", "list"} \X Coroutines
    /\ stack \in [Threads -> Seq(Coroutines)]
    /\ tpc \in [Threads -> {"run", "release", "return"}]
    /\ pc \in [Coroutines -> {"new", "lock", "ready", "parked", "granted", "section",
                              "unlock", "resume", "unlocked", "done"}]
    /\ waiter \in [Coroutines -> Coroutines \union {NULL}]
    /\ sections \in [Coroutines -> Nat]
    /\ owner \in Coroutines \union {NULL}

\* Those who hold the spinlock: a unique_lock of an awaiter, or a call of Unlock.
Holders == guards \union {<<"unlock", c>> : c \in {d \in Coroutines : pc[d] = "unlock"}}

\* The spinlock is taken when, and only when, one unique_lock owns it: moving
\* the awaiter between the frame and the list neither loses nor doubles the
\* lock, and nobody unlocks the lock of somebody else.
SpinlockOwned ==
    IF spinlock THEN \E h \in Holders : Holders = {h} ELSE Holders = {}

Suspended(c) == pc[c] \in {"new", "parked", "done"}

\* Thread t runs the coroutine at place i of its stack, if only inside the
\* unlock of that coroutine; it does not run one that it has just parked.
Active(t, i) == i < Len(stack[t]) \/ tpc[t] = "run"

\* A coroutine is resumed only when it is suspended: it runs on one stack, and
\* there once, until it parks or ends.  So calls of unlock nest at most as deep
\* as there are coroutines.
OneActivation ==
    /\ \A t \in Threads : \A i \in 1..Len(stack[t]) :
           Active(t, i) => ~Suspended(stack[t][i])
    /\ \A s, t \in Threads : \A i \in 1..Len(stack[s]), j \in 1..Len(stack[t]) :
           Active(s, i) /\ Active(t, j) /\ stack[s][i] = stack[t][j] => s = t /\ i = j
    /\ \A c \in Coroutines :
           ~Suspended(c) => \E t \in Threads : \E i \in 1..Len(stack[t]) :
                                Active(t, i) /\ stack[t][i] = c

\* A guard is in the frame from the co_await on, and in the list until the
\* thread that parks the coroutine has released it.
GuardInv ==
    /\ \A c \in Coroutines : <<"frame", c>> \in guards <=> pc[c] = "ready"
    /\ \A c \in Coroutines :
           <<"list", c>> \in guards <=> \E t \in Threads : OnTop(t, c) /\ tpc[t] = "release"
    /\ \A t \in Threads : tpc[t] # "run" => stack[t] # <<>>
    /\ \A s, t \in Threads : tpc[s] = "release" /\ tpc[t] = "release" => s = t
    /\ \A t \in Threads : \A i \in 1..Len(stack[t]) - 1 : pc[stack[t][i]] = "unlocked"

\* The mutex was granted to c and c has seen it.
Granted(c) == pc[c] \in {"granted", "section", "unlock"}

\* The mutex is taken when it was granted: to a coroutine that has it, or to
\* one that an Unlock is about to resume.
OwnerInv ==
    /\ lock_flag <=> owner # NULL
    /\ owner = NULL => waiters = <<>>
    /\ \A c \in Coroutines : Granted(c) => owner = c
    /\ \A c \in Coroutines : owner = c => Granted(c) \/ \E d \in Coroutines : waiter[d] = c

\* A parked coroutine is in the list, once, or in the hands of the Unlock that
\* has popped it: none is lost and none is resumed twice.
ParkedInv ==
    /\ \A c \in Coroutines : waiter[c] # NULL <=> pc[c] = "resume"
    /\ \A c \in Coroutines : waiter[c] # NULL => owner = waiter[c] /\ pc[owner] = "parked"
    /\ \A c, d \in Coroutines : waiter[c] # NULL /\ waiter[d] # NULL => c = d
    /\ \A i \in 1..Len(waiters) : pc[waiters[i]] = "parked" /\ waiters[i] # owner
    /\ \A i, j \in 1..Len(waiters) : waiters[i] = waiters[j] => i = j
    /\ \A c \in Coroutines :
           pc[c] = "parked" => \/ \E i \in 1..Len(waiters) : waiters[i] = c
                              \/ \E d \in Coroutines : waiter[d] = c

\* The locks, the list of waiters and the stacks fit the places where the
\* coroutines are: what makes the mutex exclusive, and inductive.
CoroInv ==
    TypeOK /\ SpinlockOwned /\ OneActivation /\ GuardInv /\ OwnerInv /\ ParkedInv

\* The mutex as a lock with a line: the owner, and behind it the waiters.
Line == (IF owner = NULL THEN <<>> ELSE <<owner>>) \o waiters

\* The coroutines whose co_await has returned and whose Unlock has not yet
\* handed the mutex over.
Inside == {c \in Coroutines : pc[c] \in {"section", "unlock"}}

Fifo == INSTANCE FifoLock WITH Guards <- Coroutines, line <- Line, inside <- Inside

\* One coroutine at a time is in its section, from the return of co_await until
\* Unlock has handed the mutex over or cleared the flag; the mutex is handed
\* over in the order in which the waiters were parked, and a newcomer does not
\* overtake them.
ImplementsFifoLock == Fifo!Spec

=============================================================================
