SPECIFICATION Spec
CONSTANTS
    Clients = {"ann", "bob"}
    Peers = {1, 2}
    Pos = {"sky"}
    HighUp = {"sky"}
    Near = {}
    None = None
    MaxChanges = 1
    MaxSessions = 3
    MaxVisible = 2
    MaxFailures = 0
CHECK_DEADLOCK FALSE
INVARIANTS
    VisibleIsCurrent
