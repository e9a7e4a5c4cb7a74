SPECIFICATION FairSpec
CONSTANTS
    c1 = c1
    c2 = c2
    w1 = w1
    w2 = w2
    Clients <- MCOneClient
    Workers <- MCOneWorker
    NPipes = 1
    BufferSize = 4
    BatchSize = 2
    MaxOps = 3
    Boundary = 0
    MaxUpdates = 4
PROPERTIES OrderedCommitFair StopTerminatesInBatch
CHECK_DEADLOCK FALSE
