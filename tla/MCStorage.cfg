SPECIFICATION StorageSpec
CONSTANTS
    Blocks = {b1, b2, b3}
    Values = {v1, v2}
    MaxSyncs = 1
    MaxFailures = 1
    Types <- TwoTypes
    IdsOf <- FourIds
    Hash <- SmallHash
    BlockUnits = 2
    DictCap = 3
    Target = 1
    MaxSplits = 2
    CompactFloor = 2
    MaxEditChunks = 2
    CacheBudget = 3
    WarmFailures = FALSE
    Setups <- FourSetups
    MaxBlocks = 16
SYMMETRY BlockSymmetry
CHECK_DEADLOCK FALSE
INVARIANTS
    RootsIntact
    RootsHeld
    BlocksAccounted
    ReadsExact
    RecordsInTheirBucket
    SpaceExact
    RootRecovers
PROPERTIES
    RelocatesForward
