SPECIFICATION QueueSpec
CONSTANTS
    Nodes = {n1, n2, n3, n4}
    Producers = {p1}
    Consumers = {c1, c2}
    MaxPushes = 3
    LimitFreeList = 1
    CollectorLeft = FALSE
    nullptr = nullptr
    None = None
SYMMETRY Symmetry
INVARIANT ValueStillThere
