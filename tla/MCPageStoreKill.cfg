SPECIFICATION Spec
CONSTANTS
    Ids = {1}
    Profiles <- EarlyDeath
    CompactAt = 1
    MaxBatches = 3
    MaxJournals = 4
    MaxBlocks = 6
    MaxSyncs = 2
    MaxFailures = 2
INVARIANT OnlySuffixLost
