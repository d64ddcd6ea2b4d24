CONSTANTS
    n1 = n1
    n2 = n2
    q1 = q1
    q2 = q2
    s1 = s1
    s2 = s2
    m1 = m1
    m2 = m2
    b1 = b1
    Nodes = {n1, n2}
    Queues = {q1}
    QueueOf <- QueueShared
    Sessions = {s1, s2}
    NodeOf <- SessionEach
    Private = {m1, m2}
    Broadcast = {b1}
    From <- FromMixed
    NoSession = NoSession
    Consumers = 1
    OpenCluster = TRUE
    RedisFails = TRUE
    PublishFails = TRUE
    Crashes = TRUE
SPECIFICATION Spec
INVARIANTS TypeOK KeptUntilSwept OneCopyPerQueue
CHECK_DEADLOCK FALSE
