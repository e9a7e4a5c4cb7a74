SPECIFICATION Spec
CONSTANTS
    c1 = c1
    c2 = c2
    Clients <- MCClients
    BufferSize = 2
    MaxUpdates = 4
INVARIANTS ReadersGetUpdates
CHECK_DEADLOCK FALSE
