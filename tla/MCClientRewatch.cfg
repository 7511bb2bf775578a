SPECIFICATION Spec
CONSTANTS
    Parts = {"watch"}
    a = a  b = b
    Tasks = {t1, t2}
    MaxSaves = 2
    MaxGets = 1
    MaxFaults = 3
    MaxRivals = 1
    Watches = {1, 2, 3}
    Topics = {a, b}
    Uses <- KeptAlive
    WatchHazards = {"rewatch"}
    Records = {r1, r2}
    MaxClock = 3
    MaxLostPolls = 1
    MaxWatches = 2
    ReadHazards = {}
CHECK_DEADLOCK FALSE
INVARIANT NothingMissed
