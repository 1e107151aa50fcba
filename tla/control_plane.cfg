\* Two calls at a time under the default policy, the cool-down one tick of the clock;
\* a job of the training worker; two reporting jobs; two deployments; a ladder and
\* windows of alerts scaled down; two API processes that start; and two requests that
\* seed a graph.
CONSTANTS
    c1 = c1
    c2 = c2
    w1 = w1
    w2 = w2
    r1 = r1
    j1 = j1
    j2 = j2
    Calls = {c1, c2}
    Kinds = {"read", "create"}
    FailureThreshold = 4
    CoolDown = 1
    ProbeMax = 2
    MaxRetries = 2
    TrainPayloads <- MCTrainPayloads
    MaxGivenUp = 1
    MaxFailedPosts = 2
    BacktestRequests <- MCBacktestRequests
    OversizedThreshold = 4
    Datasets <- MCDatasets
    ModelConfigs <- MCModelConfigs
    ConfigSlots = {"m1", "m2"}
    TemplatePosts <- MCTemplatePosts
    RunRequests <- MCRunRequests
    SplitWorkers = {w1, w2}
    Intents <- MCIntents
    Placeholders <- MCPlaceholders
    HashOrders <- MCHashOrders
    Shuffles <- MCShuffles
    NoEntity = "none"
    RoundedDown <- MCRoundedDown
    FoldInputs <- MCFoldInputs
    WalkInputs <- MCWalkInputs
    ArtifactRuns = {r1}
    ArtifactTypes = {"backtest", "parameter_sweep"}
    ArtifactJobs = {j1, j2}
    RunMaps <- MCRunMaps
    NoLineage = {j2}
    Checksums = {c1}
    RetentionDays = 1
    LastDay = 2
    MaxFiled = 2
    MaxDeployments = 2
    MaxModelEvents = 5
    Keys = {"k1"}
    Symbols = {"s1"}
    NoSymbol = "none"
    Sizes = {0, 2}
    Caps = {0, 1}
    ConfigQuantity = 2
    ConfigNotional = 4
    OtherRules = {"session"}
    MaxInstances = 1
    MaxOverrides = 2
    MaxDecisions = 2
    AlertIds = {"a1"}
    Messages = {"lag"}
    Levels = {"critical"}
    Ladder <- MCLadder
    Windows <- MCWindows
    MaxAlerts = 4
    MaxRecords = 2
    LastTime = 2
    Apis = {"api", "loopback"}
    LateGroups = {"context", "provenance", "task", "lineage", "determinism", "retention", "governance", "integrity"}
    MaxFalls = 2
    Callers = {c1, c2}
    GraphModels = {"m1"}
    GraphStrategies = {"s1", "s2"}
    NoModel = "none"
    RunIds <- MCRunIds
    MaxDepth = 3
SPECIFICATION ControlSpec
INVARIANTS
    BreakerSound
    CreatedOnce
    AttemptsClean
    AdmissionGuarded
    RunsQualified
    SplitsClean
    
    StatusTraceable
    StartsGuarded
    AlertsOrderly
    SchemaServed
    GraphExact
PROPERTIES
    BreakerMoves
    LegacyIsServed
    TopologyServed
CHECK_DEADLOCK FALSE
