SPECIFICATION NodeSpec
CONSTANTS
    Parts = {"transfer", "reconfigure", "links", "quic"}
    Budgets <- MCBudgets
    CheckpointOps = 1
    WalCapacity = 2
    Retries = 1
    Local = 1
    Scenarios <- MCScenarios
    MaxVotingReplicas = 4
    MaxNodes = 5
    LocalMember = 1
    Listener <- MCListener
    MaxConns = 3
    QuarantineLimit = 1
    LinkScenarios <- MCLinkScenarios
    MaxConnections = 3
    PerPeerLimit = 2
    QuicScenarios <- MCQuicScenarios
INVARIANTS
    NeverPanics
    EndpointInvariants
    Recoverable
    ReconfigurationKept
    AnswersSound
    PlanReachesTarget
    ToleranceKept
    VotesFollowMembers
    SuccessorRemembers
    PromotedHoldsLog
    RoutingSound
    LinkKept
CHECK_DEADLOCK FALSE
