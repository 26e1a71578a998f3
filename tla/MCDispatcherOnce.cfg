SPECIFICATION DispatcherSpec
CONSTANTS
    TestLane = "test"
    Lanes = {"test"}
    Versions = {"v1"}
    NoVersion = NoVersion
    NoProfile = NoProfile
    MaxRevision = 4
    Intakes = {1}
    Items = {"chat"}
    Deps <- SingleDeps
    Rank <- HashOrder
    AMKeys = {}
    ExplicitKeys = {}
    NoKey = NoKey
    Hashes = {"h"}
    NoSnapshot = NoSnapshot
    RepeatInterval = 1
    Retention = 0
    RetryDelay = 0
    Limits = {3}
    Batch = 1
    DiskFaults = TRUE
    MaxTime = 0
    MaxAttempts = 2
    MaxOpens = 3
    Workers = {w1, w2}
    Operator = Operator
    Mode = "drain"
    Grace = 0
    WriterLimit = 3
    RecoveryLimit = 3
INVARIANTS
    AtMostOnce
    ClaimsStayValid
PROPERTIES
    PauseQuiesces
    ImplementsLedger
SYMMETRY WorkerSymmetry
CHECK_DEADLOCK FALSE
