SPECIFICATION FairSpec
CONSTANTS
    Fibers = {f1, f2, f3}
    Workers = {w1, w2}
    NULL = NULL
    Sticky = TRUE
    Sections = 2
INVARIANTS ParkInv
PROPERTIES ImplementsFifoLock AllSectionsDone
CHECK_DEADLOCK FALSE
