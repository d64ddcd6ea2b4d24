CONSTANTS
    n1 = n1
    n2 = n2
    c1 = c1
    c2 = c2
    u1 = u1
    u2 = u2
    Nodes = {n1, n2}
    Channels = {c1, c2}
    Users = {u1, u2}
    NoUser = NoUser
    NoChannel = NoChannel
    NodeOf <- NodeEach
    UserOf <- UserSame
    Versions = {"supported", "unsupported"}
    RedisFails = TRUE
    Crashes = TRUE
SPECIFICATION Spec
INVARIANTS TypeOK MapSound SoleSessionReachable
CHECK_DEADLOCK FALSE
