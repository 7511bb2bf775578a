SPECIFICATION CollectionsSpec
CONSTANTS
    Shapes <- MCShapes
    Payloads = {"p", "q"}
    Field <- MCField
    Bounds <- MCBounds
    Texts <- MCTexts
    Searches <- MCSearches
    Sources <- MCSources
    LenMax = 3
    TypeSetups <- MCTypes
    Keys = {8, 9}
    Fields = {1, 2}
    ClientClocks = {0, 7}
    Chunk = 1
    MaxOwn = 1
    MaxRestarts = 1
CHECK_DEADLOCK FALSE
INVARIANTS ChainsExact TreesExact   MirrorExact PagerMissesNothing
PROPERTIES LogsGrowAtTheTail
