CONSTANTS
    Programs = {"osi", "tcp_pthread"}
    Kinds = {"TEXT", "PING", "PRIVATE", "BYE"}
    MaxLines = 4
    MaxTalk = 3
SPECIFICATION Spec
INVARIANTS
    TypeOK
    ShownInOrder
    InRoomIsRegistered
    AtMostOneLineLost
PROPERTIES
    IsChatUser
    EverythingShown
    JoinReturns
    EndNoticed
CHECK_DEADLOCK FALSE
