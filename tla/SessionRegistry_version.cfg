CONSTANTS
    n1 = n1
    n2 = n2
    c1 = c1
    c2 = c2
    u1 = u1
    u2 = u2
    Nodes = {n1}
    Channels = {c1, c2}
    Users = {u1}
    NoUser = NoUser
    NoChannel = NoChannel
    NodeOf <- NodeOne
    UserOf <- UserSame
    Versions = {"supported", "unsupported"}
    RedisFails = FALSE
    Crashes = FALSE
SPECIFICATION Spec
PROPERTIES RejectsOnlyUnsupported
CHECK_DEADLOCK FALSE
