CONSTANTS
    c1 = c1
    c2 = c2
    c3 = c3
    n1 = n1
    n2 = n2
    n3 = n3
    EmptyNick = EmptyNick
    LongNick = LongNick
    NoConn = NoConn
    Conns <- TwoConns
    Nicks <- TwoNicks
    Choices <- OwnNick
    MaxConnections = 2
    Kinds <- OneWhispers
    Faults = {"fin"}
    MaxSays = 2
SPECIFICATION Spec
INVARIANTS
    SenderOrder
    DepartureAnnounced
CHECK_DEADLOCK FALSE
