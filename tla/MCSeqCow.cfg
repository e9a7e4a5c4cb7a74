SPECIFICATION FairSpec
CONSTANTS
    c1 = c1
    c2 = c2
    Clients <- MCClients
    BufferSize = 2
    MaxUpdates = 4
INVARIANTS SeqInv TypeOK
PROPERTIES OrderedCommitFair StopTerminates
CHECK_DEADLOCK FALSE
