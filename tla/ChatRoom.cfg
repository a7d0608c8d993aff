CONSTANTS
    c1 = c1
    c2 = c2
    c3 = c3
    n1 = n1
    n2 = n2
    n3 = n3
    EmptyNick = EmptyNick
    LongNick = LongNick
    NoConn = NoConn
    Conns <- ThreeConns
    Nicks <- ThreeNicks
    Choices <- AnyName
    MaxConnections = 1
    Kinds <- Silent
    Faults = {"fin", "abort"}
    MaxSays = 0
SPECIFICATION Spec
INVARIANTS
    TypeOK
    Audience
    NoStaleEntry
    SeatKept
    CapacitySlack
    WelcomeIsEarned
SYMMETRY Symmetry
CHECK_DEADLOCK FALSE
