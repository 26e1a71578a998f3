SPECIFICATION SpoolSpec
CONSTANTS
    TestLane = "test"
    Lanes = {"test"}
    Versions = {}
    NoVersion = NoVersion
    NoProfile = NoProfile
    MaxRevision = 0
    Intakes = {1}
    Items = {"chat", "webhook", "history"}
    Deps <- HistoryDeps
    Rank <- HashOrder
    AMKeys = {}
    ExplicitKeys = {}
    NoKey = NoKey
    Hashes = {"h"}
    NoSnapshot = NoSnapshot
    RepeatInterval = 1
    Retention = 2
    RetryDelay = 1
    Limits = {2, 3}
    Batch = 1
    DiskFaults = TRUE
    MaxTime = 1
    MaxAttempts = 1
    MaxOpens = 2
INVARIANTS
    IndexesExact
    HistoryWaitsForOriginal
    SendingIsOwned
CHECK_DEADLOCK FALSE
