CONSTANTS
    p = p
    q = q
    a = a
    b = b
    Links = {p, q}
    Second = q
    AddressOf <- OneAddress
    Topics = {a, b}
    MaxInterestTopics = 1
    MaxChanges = 1
    FewChanges = 1
    MaxDials = 1
    FewDials = 1
    MaxForgets = 0
SPECIFICATION SceneSpec
INVARIANT DialedLinksCover
CHECK_DEADLOCK FALSE
