SPECIFICATION ExecutorSpec

CONSTANTS
    Taken = {"relay", "outbox", "card", "lease", "scopes"}
    Nil = Nil
    Deliveries = {d1, d2, big}
    Oversized = {big}
    QueueCap = 1
    GapCap = 1
    RotateAt = 1
    Journal = TRUE
    Receipts = {r1, r2}
    Observed = {r1}
    MaxAttempts = 2
    Capacity = 2
    MaxFaults = 1
    MaxCrashes = 2
    PowerLoss = FALSE
    e1 = e1
    e2 = e2
    b1 = b1
    b2 = b2
    Procs = {e1, e2}
    Stores <- SharedStores
    Requests <- Succession
    Threads = {t1, t2}
    Bindings = {b1, b2}
    MaxCardFaults = 1
    MaxCardCrashes = 1
    CardPowerLoss = TRUE
    ownerA = ownerA
    ownerB = ownerB
    m1 = m1
    m2 = m2
    Identities = {ownerA, ownerB}
    Keys <- ThreeScopes
    Envelopes <- TwoCards
    MaxRestarts = 2
    MaxScopeFaults = 1

INVARIANTS
    RelayAccounts
    ReceiptsAreKept
    CardIsAccounted
    OneOwnerPerDir
    CardsKeepTheirScope
PROPERTIES
    NothingIsUndone
SYMMETRY Symmetry
CHECK_DEADLOCK FALSE
