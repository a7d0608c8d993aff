CONSTANTS
    c1 = c1
    c2 = c2
    c3 = c3
    n1 = n1
    n2 = n2
    n3 = n3
    EmptyNick = EmptyNick
    LongNick = LongNick
    NoConn = NoConn
    Conns <- TwoConns
    Nicks <- TwoNicks
    Choices <- OwnNick
    MaxConnections = 2
    Kinds <- PrivatesAndByes
    Faults = {}
    MaxSays = 1
SPECIFICATION Spec
INVARIANTS
    PrivateReportsMissing
CHECK_DEADLOCK FALSE
