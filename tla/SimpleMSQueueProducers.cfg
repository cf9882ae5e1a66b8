SPECIFICATION QueueSpec
CONSTANTS
    Nodes = {n1, n2, n3, n4}
    Producers = {p1, p2}
    Consumers = {c1}
    MaxPushes = 2
    LimitFreeList = 1
    CollectorLeft = FALSE
    nullptr = nullptr
    None = None
SYMMETRY Symmetry
INVARIANT NoUseAfterFree
