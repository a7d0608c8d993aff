CONSTANTS
    c1 = c1
    c2 = c2
    c3 = c3
    n1 = n1
    n2 = n2
    n3 = n3
    EmptyNick = EmptyNick
    LongNick = LongNick
    NoConn = NoConn
    Conns <- TwoConns
    Nicks <- OneNick
    Choices <- AnyNick
    MaxConnections = 2
    Kinds <- Silent
    Faults = {}
    MaxSays = 0
SPECIFICATION Spec
INVARIANTS
    UniqueNick
CHECK_DEADLOCK FALSE
