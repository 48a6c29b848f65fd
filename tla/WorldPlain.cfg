SPECIFICATION Spec
CONSTANTS
    Columns = {"x", "y"}
    ColumnAdj <- PlainAdj
    Depth = 2
    Air = "air"
    Solid = {"stone"}
    Custom = {}
    Generated <- PlainGenerated
    Estimate <- PlainEstimate
    None = None
    MaxWrites = 2
    MaxCrashes = 1
    MaxFaults = 0
INVARIANTS
    SurfacesFresh
    LightsFit
    CachesCoherent
PROPERTIES
    ImplementsBlockMap
