CONSTANTS
    n1 = n1
    n2 = n2
    c1 = c1
    c2 = c2
    c3 = c3
    Nodes = {n1, n2}
    Channels = {c1, c2, c3}
    NodeOf <- NodeMixed
    NoChannel = NoChannel
    Consumers = 1
    OpenCluster = {TRUE, FALSE}
    Failures = TRUE
SPECIFICATION Spec
SYMMETRY SymUsers
INVARIANTS TypeOK ListComplete NoGhost
CHECK_DEADLOCK FALSE
