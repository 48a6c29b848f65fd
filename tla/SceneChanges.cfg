SPECIFICATION Spec
CONSTANTS
    Width = 3
    Radius = 1
    Stride = 5
    Meshers = 2
    Ground = {0, 1, 2}
    Remembered = {1}
    Stale = {1}
    Starts = {0}
    MaxMoves = 0
    MaxChanges = 1
CHECK_DEADLOCK FALSE
INVARIANTS
    SeenIsDrawn
