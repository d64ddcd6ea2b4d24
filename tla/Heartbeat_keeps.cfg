CONSTANTS
    new = new
    old = old
    Clients = {new, old}
    HasCheck = {old}
    PingCode <- PingOf
    PongCode <- PongOf
    Period = 3
    ScanPeriod = 6
    Limit = 9
    CheckPeriod = 6
    RoundTrip = 6
SPECIFICATION Spec
INVARIANTS TypeOK AnswerersStay SilentGoInTime
