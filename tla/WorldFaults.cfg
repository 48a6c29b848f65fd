SPECIFICATION FairSpec
CONSTANTS
    Columns = {"x"}
    ColumnAdj = {}
    Depth = 3
    Air = "air"
    Solid = {"stone"}
    Custom = {"flower"}
    Generated <- TowerGenerated
    Estimate <- TowerEstimate
    None = None
    MaxWrites = 1
    MaxCrashes = 1
    MaxFaults = 1
INVARIANTS
    HeightCovers
PROPERTIES
    VersionsRise
    OperationsEnd
