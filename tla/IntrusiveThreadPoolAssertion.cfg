SPECIFICATION Spec
CONSTANTS
    Tasks = {t1}
    Workers = {w1}
    MaxStops = 0
    NULL = NULL
INVARIANTS ShutdownAssertion
CHECK_DEADLOCK FALSE
