SPECIFICATION Spec
CONSTANTS
    Nodes = {n1, n2, n3}
    Producers = {p1, p2}
    Consumers = {c1}
    MaxPushes = 3
    NULL = NULL
    None = None
SYMMETRY Symmetry
INVARIANTS LinksAtEnd
