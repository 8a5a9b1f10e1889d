CONSTANTS
    p = p
    q = q
    a = a
    b = b
    Links = {p, q}
    Second = q
    AddressOf <- OneAddress
    Topics = {a, b}
    MaxInterestTopics = 1
    MaxChanges = 4
    FewChanges = 1
    MaxDials = 3
    FewDials = 2
    MaxForgets = 1
SPECIFICATION SceneSpec
INVARIANTS PeersAreSound SettledLinksCover
PROPERTIES LinksRecover
CHECK_DEADLOCK FALSE
