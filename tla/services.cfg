\* A limited strategy and one without an entry, three intents and one stop; two orders
\* and one restart of the adapter; three writes and one restart of the control plane;
\* one order against one event of the market; three executions; four replayed events.
\* The event log under its default policy scaled down (archive before the purge), two
\* streams of ticks, two ingest jobs of one dataset, and two callers of the request API.
CONSTANTS
    momentum = momentum
    unknown = unknown
    a = a
    b = b
    Strategies = {momentum, unknown}
    Limited = {unknown}
    MaxTurnover <- UnknownLimited
    MaxQuantity = 2
    Quantities = {0, 1, 2, 3}
    MaxIntents = 3
    MaxStops = 1
    PaperKeys = {"p1", "p2"}
    OrderSizes = {5, 6, 7}
    QueueAhead = 5
    Slices = 5
    Exact <- MCExact
    NeedsLimit = TRUE
    MaxCalls = 3
    MaxRestarts = 1
    Prices = {2}
    Missing = Missing
    DefaultCash = 3
    FillWindow = 2
    OrderWindow = 1
    MaxWrites = 3
    MaxLives = 1
    OrderQtys = {1, 3}
    Volumes = {0, 2, 3}
    CapHalves <- MCCaps
    Venues = {"lit", "dark"}
    FillChance <- MCChance
    NetFeeBps <- MCFee
    Tickers = {"a", "b"}
    Lots = {1, 2}
    Edges <- MCEdges
    LastStamp = 2
    MaxBooked = 3
    Symbols = {a, b}
    OrderIds = {0, 1}
    FillPrices = {2}
    LimitPrice = 1
    MaxReplayEvents = 4
    c = c
    j1 = j1
    j2 = j2
    c1 = c1
    c2 = c2
    Keys = {a, b, c}
    None = None
    Retention = 2
    ArchiveAfter = 1
    MaxTime = 4
    Ticks <- MCTicks
    StaleAfter = 2
    HeartbeatEvery = 2
    MaxSkew = 1
    SeenLimit = 2
    SeenKept = 1
    FeedMaxClock = 3
    BarJobs = {j1, j2}
    Traded = {0, 2}
    Horizon = 2
    DayLength = 2
    ChunkLength = 1
    RowLimit = 2
    FetchRetries = 1
    Callers = {c1, c2}
    IngestPayloads <- MCPayloads
    Batches <- MCBatches
    Presets <- MCPresets
    Daily = "d"
    UnknownSymbol = "U"
    NoKey = NoKey
    NoPreset = NoPreset
    MaxAnswers = 2
SPECIFICATION ServicesSpec
INVARIANTS
    GuardHeld
    LogKept
    OrdersKept
    RealizedAtOffset
    FillsFair
    AnalyticsTrue
    ReplayTells
    FeedTrusted
    CacheFaithful
    RequestsKept
PROPERTIES
    IntentDecided
    CacheCatchesUp
CHECK_DEADLOCK FALSE
