SPECIFICATION CutOffSpec
CONSTANTS
    N = 3
    Requests = {x, y}
    MaxOp = 1
    MaxView = 2
    CatchUpWindows = 1
    LazyTruncate = FALSE
    Timers = {"primary_idle", "view_change_status", "commit"}
    Suspicious = {0,1,2}
    Loopback = FALSE
    Slow = {}
    Crashers = {}
    CrashViews = {}
    MaxCrashes = 0
    TornWrites = FALSE
    BitRot = FALSE
SYMMETRY Symmetry
INVARIANTS
    Agreement
CHECK_DEADLOCK FALSE
