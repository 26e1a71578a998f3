SPECIFICATION ManagerSpec

CONSTANTS
    Taken = {"handoff", "controller", "moves", "memory", "feishu", "channels", "throttle", "token", "split"}
    Nil = Nil
    Lagging = {"cr", "orig", "cand", "svc"}
    MaxIntents = 3
    MaxFlaps = 1
    Objects <- TwoKinds
    DiscordReceivers <- Discord
    LabelSets <- AllLabels
    Specs <- ByUser
    Removable = {"objects"}
    MaxEdits = 4
    ChannelCapacity = 1
    Handlers = {1, 2}
    Requests <- TwoRequests
    QueueLen = 1
    BatchSize = 2
    Workers = 1
    MaxBatches = 4
    MaxRetries = 1
    c1 = c1
    c2 = c2
    Chats = {c1, c2}
    Receivers <- AnyReceiver
    MaxPosts = 2
    Notifications <- EveryChannel
    Callers = {1, 2, 3}
    Settings <- TwoSettings
    MaxTime = 5
    MaxCalls = 3
    Prompt = FALSE
    Senders = {1, 2}
    MaxAlerts = 3
    Sizes = {1, 2, 3, 4}
    MaxSize = 4
    MaxRecipients = 3
    RecipientLimit <- SmallBatches
    Receiver <- OneApp
    Tokens = {"t1", "t2"}

INVARIANTS
    ReceiversAreHeld
    AlertsAreKept
    SuccessMeansDelivered
    SentOnce
    RateRespected
    FetchedOnce
    SplitLosesNothing
PROPERTIES
    HandoverKeepsASender
    NeverOlder
CHECK_DEADLOCK FALSE
