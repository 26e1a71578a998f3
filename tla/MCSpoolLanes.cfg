SPECIFICATION LanesSpec
CONSTANTS
    TestLane = "test"
    Lanes = {"test", "formal"}
    Versions = {"v1"}
    NoVersion = NoVersion
    NoProfile = NoProfile
    MaxRevision = 4
    Intakes = {1, 2}
    Items = {"chat", "webhook"}
    Deps <- SingleDeps
    Rank <- HashOrder
    AMKeys = {"am"}
    ExplicitKeys = {"explicit"}
    NoKey = NoKey
    Hashes = {"h"}
    NoSnapshot = NoSnapshot
    RepeatInterval = 1
    Retention = 1
    RetryDelay = 0
    Limits = {2}
    Batch = 1
    DiskFaults = FALSE
    MaxTime = 3
    MaxAttempts = 2
    MaxOpens = 2
INVARIANTS
    CapacityRespected
    IntentsKeepOnePlan
    PauseIsPerLane
PROPERTIES
    ClaimsTakeTheirOwn
CHECK_DEADLOCK FALSE
