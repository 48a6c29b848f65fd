SPECIFICATION FairSpec
CONSTANTS
    Clients = {"ann", "bob"}
    Peers = {1, 2}
    Pos = {"sky"}
    HighUp = {"sky"}
    Near = {"sky"}
    None = None
    MaxChanges = 1
    MaxSessions = 2
    MaxVisible = 1
    MaxFailures = 0
CHECK_DEADLOCK FALSE
PROPERTIES
    VisibleGetsCurrent
