CONSTANTS
    Kinds = {"TEXT", "PING", "BYE"}
    Splits = TRUE
    Faults <- Unharmed
    MaxLines = 2
SPECIFICATION FairSpec
PROPERTIES
    RequestAnswered
CHECK_DEADLOCK FALSE
