CONSTANTS
    c1 = c1
    c2 = c2
    c3 = c3
    t1 = t1
    t2 = t2
    Clients = {c1, c2, c3}
    Topics = {t1, t2}
    m1 = m1
    m2 = m2
    m3 = m3
    m4 = m4
    m5 = m5
    m6 = m6
    m7 = m7
    Ids = {m1, m2, m3, m4, m5, m6, m7}
    MaxHistorySize = 3
    Parts = {"registry", "windows", "ids", "scopes", "texts", "payloads", "frames", "words", "captures", "mesh"}
    MessageIds = {1, 2, 3, 4, 5, 6}
    Slots = 8
    Rotation = 4
    Empty = 0
    Hash <- MCHash
    MaxText = 6
    MaxClusterName = 3
    Bytes = {0, 1, 2, 10, 13, 18, 116, 127, 129}
    MaxPayload = 5
    WordBits = 16
    MaxShown = 2
    MaxSent = 2
    MaxForeign = 2
    CliWords = {"-h", "-v", "-a", "-n", "--count", "--unknown", "pub", "record", "stats", "-", "1", "7x", "-1", "65536", "--inspector-port"}
    MaxWords = 4
    MaxFrame = 2
    MaxCaptured = 2
    b1 = b1
    b2 = b2
    b3 = b3
    u1 = u1
    Brokers = {b1, b2, b3}
    Shapes <- MCShapes
    Messages = {u1}
    MaxSubscribes = 3
    MaxRefusals = 1
SPECIFICATION PartsSpec
SYMMETRY Symmetry
INVARIANTS
    RegistryIsSound WindowsAsSized AnswersAsSet WireIsUnderstood
    InputIsUnderstood CaptureIsFaithful MeshDeliversOnce InterestCrossesTheMesh
    RoutesAreTaken
PROPERTIES ImplementsSubscriptions
CHECK_DEADLOCK FALSE
