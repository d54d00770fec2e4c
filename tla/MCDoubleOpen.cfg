CONSTANTS
    Static <- MCStatic
    Fams = {1}
    Parts = {0}
    Msgs <- MCMsgs
    Gate <- LeaseGate
    WitInv <- LeaseWitInv
    DeliverableAt <- fifo_deliverable
    NeedsCause <- LeaseNeedsCause
    CausedBy <- LeaseCausedBy
    HistoryInv <- Serialized
    Threads <- MCThreads
    Sender <- MCSender
    Receiver <- MCReceiver
    Allocator = "writer1"
    MaxSends = 3
    MaxChannels = 1
    MaxTok = 1
    MaxSeq = 1
SPECIFICATION DirectSpec
CHECK_DEADLOCK FALSE
INVARIANTS
    OneQueuePerChannel
