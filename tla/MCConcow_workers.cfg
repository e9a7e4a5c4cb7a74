SPECIFICATION Spec
CONSTANTS
    c1 = c1
    c2 = c2
    w1 = w1
    w2 = w2
    Clients <- MCOneClient
    Workers <- MCTwoWorkers
    NPipes = 1
    BufferSize = 4
    BatchSize = 2
    MaxOps = 3
    Boundary = 0
    MaxUpdates = 4
SYMMETRY Symmetry
INVARIANTS OrderInv RootInv TypeOK TaskHasWorker
PROPERTIES HandlersInOrder RebuildAlone
CHECK_DEADLOCK FALSE
