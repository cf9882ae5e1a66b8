SPECIFICATION QueueSpec
CONSTANTS
    Nodes = {n1, n2, n3, n4}
    Producers = {p1, p2, p3}
    Consumers = {c1, c2}
    MaxPushes = 1
    LimitFreeList = 2
    CollectorLeft = TRUE
    nullptr = nullptr
    None = None
SYMMETRY Symmetry
PROPERTY ImplementsFifoQueue
