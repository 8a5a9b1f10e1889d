CONSTANTS
    c1 = c1
    c2 = c2
    link = link
    a = a
    b = b
    Clients = {c1, c2, link}
    Links = {link}
    Topics = {a, b, "*", "__SYS_STATS__"}
    Payloads <- AnyOrLocal
    Ids = {}
    red = red
    blue = blue
    Clusters = {red, blue}
    MaxInterestTopics = 1
    MAX_SUBSCRIPTIONS_PER_CLIENT = 2
    MaxRemovalsPerSweep = 1
    MaxHistorySize = 1
SPECIFICATION Spec
SYMMETRY Symmetry
INVARIANTS SessionsAreSound InterestMatchesSubscriptions UpdatesCarryInterest
