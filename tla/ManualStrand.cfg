SPECIFICATION FairSpecManual
CONSTANTS
    Tasks = {t1, t2, t3}
    Workers = {w1, w2}
    Runners = {w1, w2}
    Limits = {1}
    NoLimit = NoLimit
    Plain = {u1}
    Closure = Closure
    NULL = NULL
INVARIANTS StrandInv AssertionsHold
PROPERTIES ImplementsSerialExecutor PlannedIsRun DrainRunsAll
CHECK_DEADLOCK FALSE
