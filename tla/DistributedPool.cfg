SPECIFICATION FairSpec
CONSTANTS
    Tasks = {t1, t2}
    Workers = {w1, w2}
    Owner = Owner
    Fibers = {t1}
    MaxStops = 1
    NULL = NULL
INVARIANTS PoolInv RunsAtHome ClosedForGood
PROPERTIES SubmittedIsServed WaitsEnd
