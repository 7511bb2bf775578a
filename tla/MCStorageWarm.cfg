SPECIFICATION StorageSpec
CONSTANTS
    Blocks = {b1, b2, b3}
    Values = {v1, v2}
    MaxSyncs = 1
    MaxFailures = 1
    Types <- TwoTypes
    IdsOf <- FourIds
    Hash <- SmallHash
    BlockUnits = 2
    DictCap = 3
    Target = 1
    MaxSplits = 2
    CompactFloor = 2
    MaxEditChunks = 2
    CacheBudget = 3
    WarmFailures = TRUE
    Setups <- WarmSetup
    MaxBlocks = 16
CHECK_DEADLOCK FALSE
INVARIANT RootRecovers
