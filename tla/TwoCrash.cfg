SPECIFICATION Spec
CONSTANTS
    N = 2
    Requests = {x, y}
    MaxOp = 1
    MaxView = 2
    CatchUpWindows = 1
    LazyTruncate = TRUE
    Timers = {"commit", "prepare", "forfeit", "primary_idle", "view_change_status", "svc_message", "dvc_message", "repair"}
    Suspicious = {0,1}
    Loopback = FALSE
    Slow = {1}
    Crashers = {1}
    CrashViews = {0,1,2}
    MaxCrashes = 1
    TornWrites = TRUE
    BitRot = FALSE
SYMMETRY Symmetry
INVARIANTS
    Agreement
    CommittedDurable
    DurableViewInv
    DurableViewBeforeParticipate
    NoPanic
PROPERTIES
    VotesAreFinal
CHECK_DEADLOCK FALSE
