CONSTANTS
    c1 = c1
    c2 = c2
    w1 = w1
    w2 = w2
    w3 = w3
    ann = ann
    noname = noname
    NULL = NULL
    EmptyNick = noname
    Conns <- TwoConns
    Workers <- ThreeWorkers
    Names <- TwoNames
    Widths = {1, 2}
    Choices <- OneRival
    Kinds <- Talker
    Faults <- OneBreaks
    Failures = {1}
    MaxSays = 2
SPECIFICATION FairSpec
INVARIANTS
    TypeOK
    ListMatches
    RoomBound
    NamesAreLive
    SenderOrder
    DepartureAnnounced
PROPERTIES
    LoginAnswered
CHECK_DEADLOCK FALSE
