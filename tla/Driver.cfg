SPECIFICATION MCSpec
CONSTANTS
    Parts = {"direct", "aggregated", "budget", "frames"}
    Calls = {1, 2, 3}
    CmdCap = 2
    MaxInflight = 2
    MaxLosses = 1
    MaxInstalls = 1
    MayCancel = TRUE
    MayStop = {"Shutdown", "Retire"}
    Callers = {1, 2, 3}
    Weight <- MCWeight
    MaxUnits = 2
    MaxQueued = 4
    Quitters = {1}
    MayStall = TRUE
    Threads = {1, 2, 3}
    MaxCount = 2
    MaxBytes = 4
    Counts = {1}
    Sizes = {1, 2}
    Prefix = 2
    HelloCap = 1
    FrameCap = 2
    StageChunk = 5
    Plans <- MCPlans
INVARIANTS
    TypeOK
    BudgetExact
    OutcomeTruthful
    NoneStranded
    QueueBudgetExact
    VerdictTruthful
    OneInFlight
    HeldWithinBudget
    NoLeak
    FramesWhole
PROPERTIES
    FirstComeFirstPacked
CHECK_DEADLOCK FALSE
