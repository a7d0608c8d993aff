CONSTANTS
    Kinds = {"TEXT", "PING", "BYE"}
    Splits = FALSE
    Faults <- AnyDeath
    MaxLines = 4
SPECIFICATION FairSpec
INVARIANTS
    TypeOK
    Turns
    RightAnswer
PROPERTIES
    RequestAnswered
    BreakNoticed
CHECK_DEADLOCK FALSE
