SPECIFICATION ProgressSpec
CONSTANTS
    Parts = {"transfer", "reconfigure", "links", "direct", "aggregated"}
    Budgets <- ProgressBudgets
    CheckpointOps = 1
    WalCapacity = 2
    Retries = 1
    Local = 1
    Scenarios <- ProgressScenarios
    MaxVotingReplicas = 4
    MaxNodes = 5
    LocalMember = 1
    Listener <- MCListener
    MaxConns = 3
    QuarantineLimit = 1
    LinkScenarios <- ProgressLinkScenarios
    MaxConnections = 3
    PerPeerLimit = 2
    QuicScenarios <- MCQuicScenarios
    Calls = {1, 2}
    CmdCap = 1
    MaxInflight = 1
    MaxLosses = 1
    MaxInstalls = 0
    MayCancel = TRUE
    MayStop = {"Shutdown", "Retire"}
    Callers = {1, 2}
    Weight <- ProgressWeight
    MaxUnits = 2
    MaxQueued = 3
    Quitters = {}
    MayStall = TRUE
PROPERTIES
    CallsAnswered
    JobsFinish
    TransfersEnd
    PeersReached
CHECK_DEADLOCK FALSE
