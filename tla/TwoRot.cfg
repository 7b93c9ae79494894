SPECIFICATION Spec
CONSTANTS
    N = 2
    Requests = {x, y}
    MaxOp = 1
    MaxView = 2
    CatchUpWindows = 1
    LazyTruncate = FALSE
    Timers = {"primary_idle", "forfeit", "svc_message", "view_change_status"}
    Suspicious = {0,1}
    Loopback = TRUE
    Slow = {}
    Crashers = {1}
    CrashViews = {0,1}
    MaxCrashes = 1
    TornWrites = FALSE
    BitRot = TRUE
SYMMETRY Symmetry
INVARIANTS
    Agreement
    CommittedDurable
CHECK_DEADLOCK FALSE
