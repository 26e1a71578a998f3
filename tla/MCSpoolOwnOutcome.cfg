SPECIFICATION SpoolSpec
CONSTANTS
    TestLane = "test"
    Lanes = {"test", "formal"}
    Versions = {"v1"}
    NoVersion = NoVersion
    NoProfile = NoProfile
    MaxRevision = 4
    Intakes = {1, 2}
    Items = {"chat"}
    Deps <- SingleDeps
    Rank <- HashOrder
    AMKeys = {}
    ExplicitKeys = {}
    NoKey = NoKey
    Hashes = {"h"}
    NoSnapshot = NoSnapshot
    RepeatInterval = 1
    Retention = 1
    RetryDelay = 1
    Limits = {2}
    Batch = 1
    DiskFaults = FALSE
    MaxTime = 1
    MaxAttempts = 2
    MaxOpens = 1
INVARIANTS
    OwnOutcome
CHECK_DEADLOCK FALSE
