CONSTANTS
    c1 = c1
    c2 = c2
    w1 = w1
    w2 = w2
    w3 = w3
    ann = ann
    noname = noname
    NULL = NULL
    EmptyNick = noname
    Conns <- TwoConns
    Workers <- ThreeWorkers
    Names <- TwoNames
    Widths = {2}
    Choices <- OneRival
    Kinds <- Polite
    Faults <- NoneBreaks
    Failures = {}
    MaxSays = 2
SPECIFICATION Spec
INVARIANT RoomSurvives
CHECK_DEADLOCK FALSE
