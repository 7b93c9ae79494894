SPECIFICATION Spec
CONSTANTS
    N = 3
    Requests = {x, y}
    MaxOp = 1
    MaxView = 1
    CatchUpWindows = 1
    LazyTruncate = FALSE
    Timers = {"primary_idle", "repair"}
    Suspicious = {1}
    Loopback = FALSE
    Slow = {}
    Crashers = {2}
    CrashViews = {0}
    MaxCrashes = 1
    TornWrites = FALSE
    BitRot = FALSE
SYMMETRY Symmetry
INVARIANTS
    Agreement
    CommittedDurable
CHECK_DEADLOCK FALSE
