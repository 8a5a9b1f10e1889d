CONSTANTS
    Topics = {"*"}
    Instances = {i1, i2}
    Scopes = {{"local"}, {"local", "mesh"}}
    m_maxSize = 1
    ControlLimit = 3
    MaxCalls = 3
    MaxMessages = 1
    MaxFaults = 1
    MaxInits = 1
SYMMETRY InstancesAreAlike
SPECIFICATION Spec
INVARIANTS SettledMatches
PROPERTIES RequestFindsSubscription ScopesAreHonoured
CHECK_DEADLOCK FALSE
