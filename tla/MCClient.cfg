SPECIFICATION FairSpec
CONSTANTS
    Parts = {"queue", "watch", "catch up"}
    a = a  b = b
    Tasks = {t1, t2}
    MaxSaves = 2
    MaxGets = 1
    MaxFaults = 3
    MaxRivals = 1
    Watches = {1, 2}
    Topics = {a, b}
    Uses <- Shared
    WatchHazards = {"cancel"}
    Records = {r1, r2}
    MaxClock = 3
    MaxLostPolls = 1
    MaxWatches = 2
    ReadHazards = {}
CHECK_DEADLOCK FALSE
INVARIANTS
    AckedSavesSurvive
    RepeatsAreLostAnswers
    NothingMissed
    InOrderOnce
    CursorCoversDelivered
PROPERTIES
    QueueDrains
    EventuallyDelivered
    CursorNeverRegresses
    EventuallySeen
