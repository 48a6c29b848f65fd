SPECIFICATION FairSpec
CONSTANTS
    Width = 4
    Radius = 2
    Stride = 5
    Meshers = 1
    Ground = {0, 1, 2, 3}
    Remembered = {0, 1, 2, 3}
    Stale = {}
    Starts = {0}
    MaxMoves = 1
    MaxChanges = 0
CHECK_DEADLOCK FALSE
INVARIANTS
    TypeOK
    FrontierIsQueried
PROPERTIES
    SeenGetsDrawn
