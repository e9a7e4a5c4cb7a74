SPECIFICATION FairSpec
CONSTANTS
    c1 = c1
    w1 = w1
    w2 = w2
    Clients <- MCClients
    Workers <- MCOneWorker
    NPipes = 3
    BufferSize = 4
    BatchRounds = 1
    MaxOps = 4
    MaxUpdates = 4
INVARIANTS TypeOK OrderInv
PROPERTIES OrderedCommitFair StopTerminatesInBatch
CHECK_DEADLOCK FALSE
