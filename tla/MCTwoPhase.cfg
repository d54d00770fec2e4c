CONSTANTS
    MaxParts = 3
    MaxRounds = 2
SPECIFICATION FairSpec
CHECK_DEADLOCK FALSE
INVARIANTS
    CommitIffAllYes
    CommitIsFresh
PROPERTIES
    ImplementsCalls
    EveryoneJoined
