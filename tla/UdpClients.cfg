CONSTANTS
    h1 = h1
    h2 = h2
    NoHost = NoHost
    Hosts <- TwoHosts
    Faults = {"lose", "duplicate", "error"}
    MaxSends = 3
    MaxFaults = 2
SPECIFICATION FairSpec
INVARIANTS
    TypeOK
    EchoOfLast
PROPERTIES
    ExitEndsBoth
    EchoArrives
CHECK_DEADLOCK FALSE
