CONSTANTS
    MaxWriters = 2
    MaxToken = 2
    MaxSeq = 4
    MaxTime = 3
    LEASE = 2
    Turns <- MCTurnsTwo
SPECIFICATION SysSpec
CHECK_DEADLOCK FALSE
PROPERTIES
    SupersededIsRefused
