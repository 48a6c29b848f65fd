SPECIFICATION Spec
CONSTANTS
    Workers = {"w1", "w2"}
    Callers = {"c1", "c2"}
    Tasks = {1, 2, 3, 4}
    NoTask = NoTask
    Keys = {"p", "q", "r", "s"}
    Chunks = {"p", "q"}
    Columns = {"x", "y", "z"}
    Versions = {1, 2}
    Limit = 1
    HeightShare = 2
    Nothing = Nothing
    Positions <- NearPositions
    Radii = {1, 2}
    MaxShrinks = 1
    FadeFrames = 2
    MaxThrows = 1
    Areas = {"heightmap", "waterlevel", "surface", "biomes"}
    Surface = "surface"
    Cached = {"heightmap", "surface"}
    SoilMaps = {"surface", "biomes"}
    MaxFaults = 1
    MaxStarts = 1
    ChunkSize = 2
    MidChunk = 4
    HalfRange = 4
    Spots = {1, 2}
    Soil <- SoilOfSpots
    Levels = {3}
    Given <- SomeHeights
    Chains <- ShortChains
CHECK_DEADLOCK FALSE
INVARIANTS
    TypeOK
    LeftIsEmpty
    ListMapAgree
    CachedIsStored
    UpdateReachesScene
    InItsShell
    ListenersKnow
    LoadingHasGame
    LeavesStopped
    NestingEnds
    MadeOfReal
    EstimateHolds
    SurfaceIsTop
PROPERTIES
    ImplementsTaskBag
    PruneDropsOldest
    KeptInView
    LoadingGoes
    SoilIsWhole
