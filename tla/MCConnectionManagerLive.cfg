CONSTANTS
    Topics = {"*"}
    Instances = {i1}
    Scopes = {{"local"}, {"local", "mesh"}}
    m_maxSize = 1
    ControlLimit = 3
    MaxCalls = 2
    MaxMessages = 1
    MaxFaults = 1
    MaxInits = 1
SPECIFICATION FairSpec
PROPERTIES SubscriptionsSettle ShutdownEnds
CHECK_DEADLOCK FALSE
