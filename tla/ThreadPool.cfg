CONSTANTS
    w1 = w1
    w2 = w2
    w3 = w3
    s1 = s1
    s2 = s2
    s3 = s3
    Main = Main
    Free = Free
    NoSocket = NoSocket
    Workers <- ThreeWorkers
    Sockets <- ThreeSockets
    MaxSpurious = 1
SPECIFICATION FairSpec
INVARIANTS
    TypeOK
    NoLostWakeup
    DrainedAtJoin
PROPERTIES
    ImplementsTaskPool
    ShutdownReturns
    AcceptedIsServed
