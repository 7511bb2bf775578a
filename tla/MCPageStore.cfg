SPECIFICATION Spec
CONSTANTS
    Ids = {1, 2}
    Profiles <- FourProfiles
    CompactAt = 1
    MaxBatches = 3
    MaxJournals = 4
    MaxBlocks = 7
    MaxSyncs = 2
    MaxFailures = 2
INVARIANTS
    ReadsLatest
    NeverCorrupt
    RecoveryLosesOnlySuffix
PROPERTIES
    KeepsRoots
