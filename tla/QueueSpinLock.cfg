SPECIFICATION FairSpec
CONSTANTS
    Guards = {g1, g2, g3}
    Actors = {g1, g2, g3}
    NULL = NULL
INVARIANTS LockInv NoDanglingGuard
PROPERTIES ImplementsFifoLock NoStarvation
