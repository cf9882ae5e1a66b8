------------------------------- MODULE MCSync -------------------------------
(* The two programs of the run `sync': the benchmark of the coroutine      *)
(* mutex and the fibers around an event and a wait group.  They share      *)
(* nothing; a behaviour is one of the first or one of the second.          *)
EXTENDS MCBenchAsyncMutex, MCFiberSync

VARIABLE program

progVars == <<program, allVars, syncVars>>

ByBench(step)  == program = "bench" /\ step /\ UNCHANGED <<program, syncVars>>
ByFibers(step) == program = "fibers" /\ step /\ UNCHANGED <<program, allVars>>

InitPrograms ==
    /\ program \in {"bench", "fibers"}
    /\ InitBench
    /\ SyncInit

NextPrograms == ByBench(NextBench) \/ ByFibers(SyncNext)

\* Threads keep running: main and the jthreads of the benchmark, and the workers
\* that run the fibers.
FairPrograms ==
    /\ InitPrograms /\ [][NextPrograms]_progVars
    /\ WF_progVars(ByBench(MainStep))
    /\ \A t \in JThreads : WF_progVars(ByBench(JThreadStep(t)))
    /\ \A w \in Workers : WF_progVars(ByFibers(\E f \in Fibers : WorkerStep(w, f)))

\* BenchEnds, of the behaviours of the benchmark: every run() passes the gate
\* and gets through its sections, and no waiter is left behind in the mutex
\* (bench_async_mutex.cpp).
BenchProgramEnds == program = "bench" => BenchEnds

=============================================================================
