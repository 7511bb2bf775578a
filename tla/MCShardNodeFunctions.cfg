SPECIFICATION Spec
CONSTANTS
    a = a  b = b  fn = fn  sync = sync  c1 = c1  c2 = c2
    Conns = {c1, c2}
    Types = {a, b}
    Hashes = {a, b, fn, sync}
    Setups <- WithFunctions
    QueueDepth = 1
    MaintenanceDepth = 3
    LowWater = 1
    HighWater = 2
    ReadsPerMaintenance = 1
    CheckpointAfter = 1
    MaxFaults = 1
    CacheBudget = 2
    JobDepth = 1
    MaxRecords = 2
    MaxSaves = 1
CHECK_DEADLOCK FALSE
INVARIANT IndexMatchesRecords
