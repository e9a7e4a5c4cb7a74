SPECIFICATION Spec
CONSTANTS
    c1 = c1
    c2 = c2
    w1 = w1
    w2 = w2
    Clients <- MCOneClient
    Workers <- MCTwoWorkers
    NPipes = 2
    BufferSize = 4
    BatchSize = 2
    MaxOps = 5
    Boundary = 5
    MaxUpdates = 3
SYMMETRY Symmetry
INVARIANTS OrderInv
PROPERTIES HandlersInOrder
CHECK_DEADLOCK FALSE
