CONSTANTS
    NAcc = 3
    Proposers <- MCProposers
    Values <- MCValues
    Want <- MCWant
    LastRound <- ThreeBallots
SPECIFICATION Spec
CHECK_DEADLOCK FALSE
INVARIANTS
    TypeOK
    AcceptorInv
    Provenance
    Agreement
    CommitsExtendChosen
ACTION_CONSTRAINT EagerSteps
