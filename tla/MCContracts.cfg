SPECIFICATION ContractSpec

CONSTANTS
    Taken = {"annotation", "identity", "kinds", "settings", "stages", "scoped", "team"}
    Nil = Nil
    Wires <- SomeWires
    SentAlerts <- SomeAlerts
    Names <- SortedNames
    Excluded = {"replica"}
    Fanouts <- SomeFanouts
    MaxDispatches = 2
    Resources <- SomeResources
    Configs <- SomeConfigs
    Options <- SomeOptions
    Bad = Bad
    Global = Global
    Batches <- AllBatches
    Receivers <- SoundReceivers
    Worlds <- ManyWorlds
    prod = prod
    lab = lab
    side = side
    critical = critical
    warning = warning
    infra = infra
    stray = stray
    Lanes = {"test", "formal"}
    Profiles <- SomeProfiles
    Shadow = TRUE
    Scopes <- SomeScopes
    Originals <- SomeReceivers
    Edited <- SomeEdits
    AppConfigs <- AllConfigs
    Apps = {infra, stray}
    Alerts = {critical, warning}
    Critical = {critical}
    History <- HistoryWebhook
    MaxEdits = 2

INVARIANTS
    AnnotationsAreSound
    IdentitiesCorrelate
    AcceptedIsUsable
    StagesAreRight
    PlanIsKept
CHECK_DEADLOCK FALSE
