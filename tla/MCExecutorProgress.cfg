SPECIFICATION ExecutorFairSpec

CONSTANTS
    Taken = {"relay", "stuck", "outbox", "lease"}
    Nil = Nil
    Deliveries = {d1, big}
    Oversized = {big}
    QueueCap = 1
    GapCap = 1
    RotateAt = 1
    Journal = TRUE
    Receipts = {r1, r2}
    Observed = {r1}
    MaxAttempts = 2
    Capacity = 2
    MaxFaults = 0
    MaxCrashes = 1
    PowerLoss = FALSE
    e1 = e1
    e2 = e2
    b1 = b1
    b2 = b2
    Procs = {e1, e2}
    Stores <- SharedStores
    Requests <- OneRequest
    Threads = {t1, t2}
    Bindings = {b1, b2}
    MaxCardFaults = 0
    MaxCardCrashes = 1
    CardPowerLoss = FALSE
    ownerA = ownerA
    ownerB = ownerB
    m1 = m1
    m2 = m2
    Identities = {ownerA, ownerB}
    Keys <- ThreeScopes
    Envelopes <- TwoCards
    MaxRestarts = 2
    MaxScopeFaults = 1

PROPERTIES
    ExecutorGoesOn
CHECK_DEADLOCK FALSE
