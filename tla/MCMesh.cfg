CONSTANTS
    b1 = b1
    b2 = b2
    b3 = b3
    u1 = u1
    Brokers = {b1, b2, b3}
    Shapes <- MCShapes
    Messages = {u1}
    MaxSubscribes = 1
    MaxRefusals = 0
SPECIFICATION MeshSpec
INVARIANT ScopeFollowsOrigin
CHECK_DEADLOCK FALSE
