SPECIFICATION FairSpec
CONSTANTS
    Tasks = {t1, t2, t3}
    Workers = {w1, w2}
    MaxStops = 1
    NULL = NULL
INVARIANTS PoolInv
PROPERTIES SubmittedIsServed ShutdownEnds
CHECK_DEADLOCK FALSE
