SPECIFICATION Spec
CONSTANTS
    N = 2
    Requests = {x, y}
    MaxOp = 2
    MaxView = 1
    CatchUpWindows = 1
    LazyTruncate = FALSE
    Timers = {"commit", "prepare", "forfeit", "primary_idle", "view_change_status", "svc_message", "dvc_message", "repair"}
    Suspicious = {0,1}
    Loopback = FALSE
    Slow = {0,1}
    Crashers = {}
    CrashViews = {}
    MaxCrashes = 0
    TornWrites = FALSE
    BitRot = FALSE
SYMMETRY Symmetry
INVARIANTS
    TypeOK
    AtMostOnce
PROPERTIES
    LogRefinement
CHECK_DEADLOCK FALSE
