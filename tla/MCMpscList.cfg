SPECIFICATION FairSpec
CONSTANTS
    i1 = i1
    i2 = i2
    i3 = i3
    i4 = i4
    Items <- MCItems
    Stub = Stub
    Null = Null
INVARIANTS ListInv
PROPERTIES QueueSpec QueueFair PopAfterPush
