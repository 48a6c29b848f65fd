SPECIFICATION FairSpec
CONSTANTS
    LoginNests <- SendingLogin
    None = None
    MaxTasks = 1
CHECK_DEADLOCK FALSE
INVARIANTS
    NoCircularWait
PROPERTIES
    ServerStops
    JobsAreDone
