SPECIFICATION Spec
CONSTANTS
    Parts = {"catch up"}
    a = a  b = b
    Tasks = {t1, t2}
    MaxSaves = 2
    MaxGets = 1
    MaxFaults = 3
    MaxRivals = 1
    Watches = {1, 2}
    Topics = {a, b}
    Uses <- Shared
    WatchHazards = {"cancel"}
    Records = {r1, r2}
    MaxClock = 3
    MaxLostPolls = 0
    MaxWatches = 1
    ReadHazards = {"remove_between"}
CHECK_DEADLOCK FALSE
INVARIANT CursorCoversDelivered
