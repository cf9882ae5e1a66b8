SPECIFICATION QueueSpec
CONSTANTS
    Nodes = {n1, n2, n3, n4}
    Producers = {p1}
    Consumers = {c1}
    MaxPushes = 4
    LimitFreeList = 2
    CollectorLeft = FALSE
    nullptr = nullptr
    None = None
SYMMETRY Symmetry
INVARIANTS ReclaimInv
PROPERTY ImplementsFifoQueue
