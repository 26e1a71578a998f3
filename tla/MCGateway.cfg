SPECIFICATION MCSpec
CONSTANTS
    TestLane = "test"
    Lanes = {"test", "formal"}
    Versions = {"v1", "v2"}
    NoVersion = NoVersion
    NoProfile = NoProfile
    MaxRevision = 5
    Intakes = {1, 2}
    Items = {"chat"}
    Deps <- SingleDeps
    Rank <- HashOrder
    AMKeys <- AlertKeys
    ExplicitKeys <- PlainKeys
    NoKey = NoKey
    Hashes = {"g", "h"}
    NoSnapshot = NoSnapshot
    RepeatInterval = 1
    Retention = 1
    RetryDelay = 0
    Limits = {2}
    Batch = 1
    DiskFaults = TRUE
    MaxTime = 0
    MaxAttempts = 1
    MaxOpens = 2
    Requests = {"r1", "r2", "r3", "r4"}
    Intent <- IntentOf
    Kind <- KindOf
    LaneOf <- LaneByKind
    Operators = {o1, o2}
    Configs <- SameVersion
    Initial = "v1"
SYMMETRY Symmetry
INVARIANTS
    AckedIsStored
    RevisionIdentifiesState
PROPERTIES
    NoAdmissionAcrossControl
    StartupIsSafe
CHECK_DEADLOCK FALSE
