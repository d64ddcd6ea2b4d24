CONSTANTS
    n1 = n1
    n2 = n2
    q1 = q1
    q2 = q2
    s1 = s1
    s2 = s2
    m1 = m1
    m2 = m2
    b1 = b1
    Nodes = {n1, n2}
    Queues = {q1, q2}
    QueueOf <- QueueEach
    Sessions = {s1, s2}
    NodeOf <- SessionEach
    Private = {m1, m2}
    Broadcast = {}
    From <- FromMixed
    NoSession = NoSession
    Consumers = 1
    OpenCluster = TRUE
    RedisFails = FALSE
    PublishFails = FALSE
    Crashes = FALSE
SPECIFICATION Spec
INVARIANTS RemovedOnlyIfSent
CHECK_DEADLOCK FALSE
