SPECIFICATION FairSpec
CONSTANTS
    Clients = {"ann", "bob"}
    Peers = {11, 12}
    Entities = {0, 1}
    None = None
    Modes = {"singleplayer", "multiplayer"}
    MaxStarts = 3
    MaxStops = 1
CHECK_DEADLOCK FALSE
INVARIANTS
    MapsAgree
    OneEntityEach
PROPERTIES
    LostToTwinOnly
    LoginEnds
    UpdatesCome
