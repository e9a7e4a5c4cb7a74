\* All structures on small data sets
SPECIFICATION Spec
CONSTANTS
    Structures = {"btree", "betree", "art", "aert"}
    KeySet <- MCKeySet
    Loads <- MCLoads
    Counts = {2, 9}
    PipeCounts = {1, 2}
    BufferSize = 4
    B = 2
    E = 0
    Unwritten = Unwritten
    ArtRadix = 6
    ArtDigits = 3
    ArtCapacity <- MCCapacity
    AertRadix = 3
    AertDigits = 4
    AertSmall = 2
INVARIANTS TypeOK VersionsHoldUpdates VersionsWellFormed QueriesAgree HandlersOnNodes GrowthAsksRebuild InPlaceAgrees CowInv
PROPERTIES CommittedFrozen OwnNodesWritten TasksSpec
