CONSTANTS
    c1 = c1
    c2 = c2
    c3 = c3
    u1 = u1
    u2 = u2
    u3 = u3
    Channels = {c1, c2, c3}
    Users = {u1, u2, u3}
    Rooms = {r10}
    UserOf <- OwnUser
    Ten = r10
    Groups = {g1, g2, g3}
    NoChannel = NoChannel
    NoGroup = NoGroup
SPECIFICATION Spec
SYMMETRY Sym
INVARIANTS TypeOK JoinedStays GroupMessageReaches NoStranger
CHECK_DEADLOCK FALSE
