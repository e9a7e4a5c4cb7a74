\* SPLIT behind a pointer with embedded bits
SPECIFICATION Spec
CONSTANTS
    Structures = {"aert"}
    KeySet <- MCKeySet
    Loads <- MCLoads
    Counts = {2, 9}
    PipeCounts = {1}
    BufferSize = 4
    B = 2
    E = 0
    Unwritten = Unwritten
    ArtRadix = 6
    ArtDigits = 3
    ArtCapacity <- MCCapacity
    AertRadix = 3
    AertDigits = 4
    AertSmall = 2
INVARIANTS SplitGetsNode
