CONSTANTS
    N = 3
    Cap = 2
    MaxSeq = 3
    Payloads = {p1, p2}
    MaxPkts = 3
    Values = {a1, a2}
    MaxTurns = 3
SPECIFICATION MCSpec
CHECK_DEADLOCK FALSE
INVARIANTS
    WatcherKnows
    RpcBlocks
PROPERTIES
    ImplementsMailbox
    ProduceIsAtomic
    ImplementsMachines
    ImplementsHbTop
    ImplementsCall
