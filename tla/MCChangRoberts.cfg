CONSTANTS
    MaxNodes = 4
    MaxStarts = 1
SPECIFICATION FairSpec
CHECK_DEADLOCK FALSE
INVARIANTS
    OnlyMaxLeads
    MsgOk
    OneLap
PROPERTIES
    Elected
