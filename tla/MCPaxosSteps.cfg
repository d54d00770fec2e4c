CONSTANTS
    NAcc = 3
    Proposers <- MCProposers
    Values <- MCValues
    Want <- MCWant
    LastRound <- OneRound
SPECIFICATION FairStepSpec
CHECK_DEADLOCK FALSE
INVARIANTS
    RecordInvHolds
PROPERTIES
    ImplementsPaxos
    OneCallAtATime
    EventuallyChosen
ACTION_CONSTRAINT EagerSends
