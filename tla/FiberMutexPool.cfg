SPECIFICATION FairSpec
CONSTANTS
    Fibers = {f1, f2}
    Workers = {w1, w2}
    NULL = NULL
    Sticky = FALSE
    Sections = 1
PROPERTIES AllSectionsDone
CHECK_DEADLOCK FALSE
