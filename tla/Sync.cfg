SPECIFICATION FairPrograms
CONSTANTS
    c1 = c1
    c2 = c2
    c3 = c3
    t1 = t1
    t2 = t2
    t3 = t3
    Main = Main
    Starter = Starter
    Coroutines <- CoroutineSet
    Threads <- ThreadSet
    RunOf <- RunningOn
    Sections <- InRun
    NULL = NULL
    f1 = f1
    f2 = f2
    f3 = f3
    f4 = f4
    Fibers <- FiberSet
    Code <- Calling
    Workers = {w1, w2}
    Sticky = TRUE
    nullptr = nullptr
INVARIANTS CoroInv BenchInv WaiterInv GroupInv NoDanglingWaiter
PROPERTIES ImplementsFifoLock BenchProgramEnds WaitersReturn
CHECK_DEADLOCK FALSE
