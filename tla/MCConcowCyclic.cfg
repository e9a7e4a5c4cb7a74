SPECIFICATION Spec
CONSTANTS
    c1 = c1
    w1 = w1
    w2 = w2
    Clients <- MCClients
    Workers <- MCTwoWorkers
    NPipes = 3
    BufferSize = 4
    BatchRounds = 1
    MaxOps = 5
    MaxUpdates = 5
INVARIANTS SlotExclusive TaskHasWorker
PROPERTIES HandlersInOrder
SYMMETRY Symmetry
CHECK_DEADLOCK FALSE
