--------------------------- MODULE BenchAsyncMutex ---------------------------
(***************************************************************************)
(* bench/bench_async_mutex.cpp: a full program around the coroutine mutex. *)
(* The main thread starts one jthread per run() and calls StartAll(), both *)
(* of them coroutines; every run() waits at a gate, a condition variable,  *)
(* until StartAll opens it, then goes through its sections and counts a    *)
(* latch down.  main waits for the latch, joins and destroys the mutex.    *)
(*                                                                         *)
(* StartAll holds cv_wait, a std::mutex, across its co_await: if it were   *)
(* suspended there, the thread that resumes it would unlock a std::mutex   *)
(* that it does not own.  A jthread ends when its call of run() returns,   *)
(* at the first suspension at the earliest: the coroutine then goes on on  *)
(* the thread that resumes it.                                             *)
(***************************************************************************)
EXTENDS CoroMutex

CONSTANTS
    Main,     \* the main thread; the others are jthreads
    Starter,  \* the coroutine StartAll()
    RunOf     \* RunOf[t]: the coroutine run() that jthread t calls

JThreads == Threads \ {Main}

ASSUME BenchAssumption ==
    /\ Main \in Threads
    /\ Main # NULL
    /\ RunOf \in [JThreads -> Coroutines \ {Starter}]
    /\ Coroutines = {RunOf[t] : t \in JThreads} \union {Starter}
    /\ \A s, t \in JThreads : RunOf[s] = RunOf[t] => s = t

VARIABLES
    cv_wait,    \* the thread that holds the std::mutex, or NULL
    wait_flag,
    gate,       \* gate[t]: "new", before the "lock" of cv_wait, "asleep" in
                \* cv.wait, or "in" the loop of run() and after it
    latch,
    mpc         \* where main is: "create", "start", "latch", "join", "destroyed"

benchVars == <<cv_wait, wait_flag, gate, latch, mpc>>
allVars == <<vars, benchVars>>

InitBench ==
    /\ Init
    /\ cv_wait = NULL
    /\ wait_flag = FALSE
    /\ gate = [t \in JThreads |-> "new"]
    /\ latch = Cardinality(JThreads)
    /\ mpc = "create"

-----------------------------------------------------------------------------

\* workers.emplace_back(&TestAsyncMutex::run, &worker).
CreateThread(t) ==
    /\ mpc = "create"
    /\ gate[t] = "new"
    /\ gate' = [gate EXCEPT ![t] = "lock"]
    /\ UNCHANGED <<vars, cv_wait, wait_flag, latch, mpc>>

\* run(): lock cv_wait and wait for the flag ...
GateSleep(t) ==
    /\ gate[t] = "lock"
    /\ cv_wait = NULL
    /\ ~wait_flag
    /\ gate' = [gate EXCEPT ![t] = "asleep"]
    /\ UNCHANGED <<vars, cv_wait, wait_flag, latch, mpc>>

\* Fault: the flag is read without the mutex.
GatePassUnlocked(t) ==
    /\ gate[t] = "lock"
    /\ wait_flag
    /\ Start(t, RunOf[t])
    /\ gate' = [gate EXCEPT ![t] = "in"]
    /\ UNCHANGED <<cv_wait, wait_flag, latch, mpc>>

\* ... or find it set, unlock and go on.
GatePass(t) ==
    /\ gate[t] = "lock"
    /\ cv_wait = NULL
    /\ wait_flag
    /\ Start(t, RunOf[t])
    /\ gate' = [gate EXCEPT ![t] = "in"]
    /\ UNCHANGED <<cv_wait, wait_flag, latch, mpc>>

\* main calls StartAll(): lock cv_wait, set the flag, notify_all, and on to
\* the co_await.
StartAll ==
    /\ mpc = "create"
    /\ \A t \in JThreads : gate[t] # "new"
    /\ cv_wait = NULL
    /\ cv_wait' = Main
    /\ wait_flag' = TRUE
    /\ gate' = [t \in JThreads |-> IF gate[t] = "asleep" THEN "lock" ELSE gate[t]]
    /\ Start(Main, Starter)
    /\ mpc' = "start"
    /\ UNCHANGED latch

\* A coroutine goes on.  At its end run() counts the latch down and StartAll()
\* unlocks cv_wait.
CoroutineStep(t) ==
    /\ ThreadStep(t)
    /\ LET ended == {c \in Coroutines : pc[c] # "done" /\ pc'[c] = "done"}
       IN  /\ latch' = latch - Cardinality(ended \ {Starter})
           /\ cv_wait' = IF Starter \in ended THEN NULL ELSE cv_wait
    /\ UNCHANGED <<wait_flag, gate, mpc>>

\* StartAll() has returned to main; then latch.wait(); then the jthreads are
\* joined and the mutex is destroyed.
MainReturns ==
    /\ mpc = "start" /\ stack[Main] = <<>>
    /\ mpc' = "latch"
    /\ UNCHANGED <<vars, cv_wait, wait_flag, gate, latch>>

MainWaits ==
    /\ mpc = "latch" /\ latch = 0
    /\ mpc' = "join"
    /\ UNCHANGED <<vars, cv_wait, wait_flag, gate, latch>>

MainJoins ==
    /\ mpc = "join"
    /\ \A t \in JThreads : gate[t] = "in" /\ stack[t] = <<>>
    /\ mpc' = "destroyed"
    /\ UNCHANGED <<vars, cv_wait, wait_flag, gate, latch>>

-----------------------------------------------------------------------------

JThreadStep(t) == GateSleep(t) \/ GatePass(t) \/ CoroutineStep(t)

MainStep ==
    \/ \E t \in JThreads : CreateThread(t)
    \/ StartAll \/ CoroutineStep(Main) \/ MainReturns \/ MainWaits \/ MainJoins

Terminated == mpc = "destroyed" /\ UNCHANGED allVars

NextBench == MainStep \/ (\E t \in JThreads : JThreadStep(t)) \/ Terminated

\* Threads keep running, main too.
FairSpecBench ==
    /\ InitBench /\ [][NextBench]_allVars
    /\ WF_allVars(MainStep)
    /\ \A t \in JThreads : WF_allVars(JThreadStep(t))

-----------------------------------------------------------------------------
(* Properties.                                                             *)

\* cv_wait is unlocked by the thread that has locked it: no run() passes the
\* gate before StartAll() is through, so StartAll() is never suspended in its
\* co_await and ends on main (bench_async_mutex.cpp:50-57).
GateInv ==
    /\ gate \in [JThreads -> {"new", "lock", "asleep", "in"}]
    /\ \A t \in JThreads : gate[t] = "in" <=> pc[RunOf[t]] # "new"
    /\ mpc = "create" =>
         /\ cv_wait = NULL /\ ~wait_flag
         /\ \A t \in Threads : stack[t] = <<>>
         /\ \A c \in Coroutines : pc[c] = "new"
    /\ cv_wait # NULL =>
         /\ mpc = "start" /\ stack[Main] = <<Starter>> /\ tpc[Main] = "run"
         /\ \A t \in JThreads : stack[t] = <<>>
         /\ pc[Starter] \notin {"new", "done"}
         /\ \A c \in Coroutines : c # Starter => pc[c] = "new"
    /\ mpc # "create" /\ cv_wait = NULL => pc[Starter] = "done"

\* The coroutines run() that have not come to their end.
Running == {c \in Coroutines : c # Starter /\ pc[c] # "done"}

\* When main destroys the mutex nobody is inside it any more: the latch and the
\* joins cover the coroutines, wherever they have moved to.
EndInv ==
    /\ mpc \in {"create", "start", "latch", "join", "destroyed"}
    /\ latch = Cardinality(Running)
    /\ mpc \in {"latch", "join", "destroyed"} => stack[Main] = <<>> /\ cv_wait = NULL
    /\ mpc \in {"join", "destroyed"} => latch = 0
    /\ mpc = "destroyed" =>
         /\ \A c \in Coroutines : pc[c] = "done"
         /\ \A t \in Threads : stack[t] = <<>>
         /\ ~lock_flag /\ ~spinlock /\ waiters = <<>>

\* The gate keeps StartAll() on main, and the mutex outlives its users.
BenchInv == GateInv /\ EndInv

\* The program ends: every run() passes the gate and gets through its sections,
\* and no waiter is left behind in the mutex.
BenchEnds == <>(mpc = "destroyed")

=============================================================================
