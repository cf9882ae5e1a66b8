SPECIFICATION FairSpec
CONSTANTS
    k1 = k1
    k2 = k2
    k3 = k3
    t1 = t1
    t2 = t2
    t3 = t3
    t4 = t4
    outer = outer
    inner = inner
    Clients <- ClientSet
    Tasks <- TaskSet
    Coroutines <- CoroutineSet
    Script <- Calling
    Body <- Bodies
    Inner <- Driven
    Threads = {w1, w2}
    NoTask = NoTask
    NoCoro = NoCoro
INVARIANTS OneOutcome CurrentIsExecuting
PROPERTIES ServedUntilClosed WaitReturnsOrShared
CHECK_DEADLOCK FALSE
