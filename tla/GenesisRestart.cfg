SPECIFICATION Spec
CONSTANTS
    N = 2
    Requests = {x, y}
    MaxOp = 1
    MaxView = 1
    CatchUpWindows = 1
    LazyTruncate = FALSE
    Timers = {}
    Suspicious = {}
    Loopback = FALSE
    Slow = {0}
    Crashers = {0}
    CrashViews = {0}
    MaxCrashes = 1
    TornWrites = FALSE
    BitRot = FALSE
SYMMETRY Symmetry
INVARIANTS
    Agreement
CHECK_DEADLOCK FALSE
