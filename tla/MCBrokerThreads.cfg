CONSTANTS
    Peers = {p1, p2}
    Clusters = {c1, c2}
    MaxDialedPeers = 1
    PeerTimeout = 1
    m_maxSize = 1
    MaxSwaps = 2
    MaxStrays = 1
    MaxStarts = 2
SPECIFICATION FairSpec
INVARIANTS QueueIsSound RosterIsSound StartsAndStopsClean
PROPERTIES WaitsEnd LeavingIsNoticed
CHECK_DEADLOCK FALSE
