SPECIFICATION MCSpec
CONSTANTS
    TREEBIN_SHIFT = 3
    NTREEBINS = 12
    PageSize = 20
    Granularity = 20
    Pages = 3
    MmapThreshold = 8
    TrimThreshold = 16
    ReleaseRate = 2
    Requests <- Sizes
    MaxBlocks = 3
    Chunks = {1, 2, 3, 4}
    LargeSizes = {16, 32, 34, 38, 40, 44}
INVARIANTS
    WellFormed
    Binned
    BlocksHeld
    BestFit
    NoCorruption
