CONSTANTS
    c1 = c1
    c2 = c2
    c3 = c3
    n1 = n1
    n2 = n2
    n3 = n3
    EmptyNick = EmptyNick
    LongNick = LongNick
    NoConn = NoConn
    Conns <- TwoConns
    Nicks <- TwoNicks
    Choices <- OwnNick
    MaxConnections = 2
    Kinds <- TextsAndPings
    Faults = {"fin"}
    MaxSays = 1
SPECIFICATION FairSpec
PROPERTIES
    LeaverRemoved
    PingAnswered
CHECK_DEADLOCK FALSE
