SPECIFICATION ControlFairSpec

CONSTANTS
    Taken = {"handoff", "controller", "memory"}
    Nil = Nil
    Lagging = {"cr", "orig", "svc"}
    MaxIntents = 2
    MaxFlaps = 1
    Objects <- OneReceiver
    DiscordReceivers = {}
    LabelSets <- Tenants
    Specs <- ByUserOrOrg
    Removable = {"manager", "objects"}
    MaxEdits = 3
    ChannelCapacity = 1
    Handlers = {1, 2}
    Requests <- TwoRequests
    QueueLen = 1
    BatchSize = 2
    Workers = 1
    MaxBatches = 4
    MaxRetries = 0
    c1 = c1
    c2 = c2
    Chats = {c1, c2}
    Receivers <- AnyReceiver
    MaxPosts = 2
    Notifications <- EveryChannel
    Callers = {1, 2, 3}
    Settings <- TwoSettings
    MaxTime = 5
    MaxCalls = 3
    Prompt = FALSE
    Senders = {1, 2}
    MaxAlerts = 3
    Sizes = {1, 2, 3, 4}
    MaxSize = 4
    MaxRecipients = 0
    RecipientLimit <- SmallBatches
    Receiver <- OneApp
    Tokens = {"t1", "t2"}

PROPERTIES
    ControlSettles
CHECK_DEADLOCK FALSE
