SPECIFICATION Spec
CONSTANTS
    N = 2
    Requests = {x, y}
    MaxOp = 2
    MaxView = 1
    CatchUpWindows = 1
    LazyTruncate = FALSE
    Timers = {"primary_idle"}
    Suspicious = {1}
    Loopback = FALSE
    Slow = {0}
    Crashers = {0}
    CrashViews = {1}
    MaxCrashes = 1
    TornWrites = TRUE
    BitRot = FALSE
SYMMETRY Symmetry
INVARIANTS
    CommittedDurable
CHECK_DEADLOCK FALSE
