SPECIFICATION FairSpec
CONSTANTS
    c1 = c1
    c2 = c2
    w1 = w1
    w2 = w2
    Clients <- MCOneClient
    Workers <- MCOneWorker
    NPipes = 1
    BufferSize = 4
    BatchSize = 2
    MaxOps = 2
    Boundary = 1
    MaxUpdates = 2
PROPERTIES StopTerminates
CHECK_DEADLOCK FALSE
