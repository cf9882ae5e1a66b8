SPECIFICATION FairSpec
CONSTANTS
    Tasks = {t1, t2}
    Workers = {w1, w2}
    NULL = NULL
INVARIANTS IdleMeansRun
CHECK_DEADLOCK FALSE
