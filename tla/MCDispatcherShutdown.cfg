SPECIFICATION DispatcherFairSpec
CONSTANTS
    TestLane = "test"
    Lanes = {"test"}
    Versions = {}
    NoVersion = NoVersion
    NoProfile = NoProfile
    MaxRevision = 0
    Intakes = {1}
    Items = {"chat", "history"}
    Deps <- HistoryDeps
    Rank <- HashOrder
    AMKeys = {}
    ExplicitKeys = {}
    NoKey = NoKey
    Hashes = {"h"}
    NoSnapshot = NoSnapshot
    RepeatInterval = 1
    Retention = 1
    RetryDelay = 0
    Limits = {3}
    Batch = 1
    DiskFaults = TRUE
    MaxTime = 1
    MaxAttempts = 1
    MaxOpens = 1
    Workers = {w1, w2}
    Operator = Operator
    Mode = "drain"
    Grace = 1
    WriterLimit = 3
    RecoveryLimit = 3
PROPERTIES
    ShutdownCompletes
    OutageClears
CHECK_DEADLOCK FALSE
