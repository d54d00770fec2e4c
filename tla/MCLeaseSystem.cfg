CONSTANTS
    MaxWriters = 4
    MaxToken = 3
    MaxSeq = 4
    MaxTime = 3
    LEASE = 2
    Turns <- MCTurns
SPECIFICATION SysSpec
CHECK_DEADLOCK FALSE
INVARIANTS
    TypeOK
    Serialized
    OneHolderPerToken
    NoGaps
    WriterKnows
    RefusedFromThenOn
PROPERTIES
    ImplementsLockHi
    DeployLeaseReturns
