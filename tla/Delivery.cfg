SPECIFICATION DeliverySpec
CONSTANTS
    Workers = {w1, w2}
    Nobody = Nobody
    MaxChanges = 1
    MaxFailures = 2
    MaxTurns = 4
    MaxThreads = 5
    HistoryLimit = 2
    MaxThreadFaults = 3
    MaxNews = 1
    Tokens = {"x", "y"}
    Length = 2
    MaxMessages = 2
    MaxTools = 1
    MaxMissing = 2
    Coalesce = 2
    MaxTokens = 4
    MaxCalls = 1
    MaxSteers = 2
    MaxMishaps = 2
    Answers <- SomeAnswers
    BubbleMax = 2
    MessageLimit = 3
    MaxApiErrors = 1
INVARIANTS DeliveryTypeOK OnePoller ContextIsKept ShownIsSaid PartialsAreSound ReplyIsDelivered
PROPERTIES TranscriptRefined BotReachable
CHECK_DEADLOCK FALSE
