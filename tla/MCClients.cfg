CONSTANTS
    Parts = {"broker", "cli", "api", "poller", "qt", "inspector"}
    c1 = c1
    peer = peer
    a = a
    u1 = u1
    u2 = u2
    Clients = {c1, peer}
    Links = {peer}
    Topics = {a, "*", "__SYS_STATS__"}
    Payloads <- EachScope
    Ids = {u1, u2}
    Clusters = {}
    MaxInterestTopics = 1
    MAX_SUBSCRIPTIONS_PER_CLIENT = 2
    MaxRemovalsPerSweep = 1
    MaxHistorySize = 1
    Uuids = {1}
    RouterEndpoints = {"r1"}
    SearchTexts = {"x"}
    Contents <- PacketContents
    MaxPacketHistory = 2
    TrimChunk = 1
    MaxPackets = 3
    MaxPosted = 1
    MaxBeacons = 2
    InboundLimit = 2
    MaxTraffic = 2
    MaxCliFaults = 2
    ApiThreads = {"a", "b"}
    MaxInits = 2
    MaxCallsOf = 2
    MaxStatus = 2
    OutboundLimit = 1
    MaxTopicLength = 6
    SuffixLength = 3
    TopicLengths = {0, 4}
    Capacities = {3, 7}
    ReplySizes = {0, 5}
    PollTopics = {"s", "t"}
    PollUsers = {"u", "v"}
    PollCapacity = 2
    MaxPollCalls = 4
    MaxPolled = 3
    MaxObjects = 2
    MaxQtCalls = 3
    MaxQtMessages = 2
SPECIFICATION PartsSpec
INVARIANTS
    AtMostOnce SuccessIsReal CallsKeepTheirWord WaiterIsWoken PollerIsSound
    QtCallsReachTheLiving WindowShowsAttached
PROPERTIES EveryoneServed SilenceIsSwept ReplaysWhatIsShown SubscriptionComesBack
CHECK_DEADLOCK FALSE
