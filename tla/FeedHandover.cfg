SPECIFICATION Spec
CONSTANTS
    Clients = {"ann", "bob"}
    Peers = {1}
    Pos = {"rock"}
    HighUp = {}
    Near = {"rock"}
    None = None
    MaxChanges = 1
    MaxSessions = 2
    MaxVisible = 2
    MaxFailures = 1
CHECK_DEADLOCK FALSE
INVARIANTS
    VisibleIsCurrent
PROPERTIES
    StoredNeverFalls
