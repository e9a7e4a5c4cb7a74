SPECIFICATION Spec
CONSTANTS
    c1 = c1
    c2 = c2
    w1 = w1
    w2 = w2
    Clients <- MCTwoClients
    Workers <- MCOneWorker
    NPipes = 2
    BufferSize = 4
    BatchSize = 2
    MaxOps = 3
    Boundary = 0
    MaxUpdates = 4
SYMMETRY Symmetry
INVARIANTS SlotExclusive EntryMeetsInit RootComplete
PROPERTIES OrderedCommitSpec
CHECK_DEADLOCK FALSE
