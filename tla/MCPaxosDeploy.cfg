CONSTANTS
    NAcc = 3
    Proposers <- MCProposers
    Values <- MCValues
    Want <- MCWant
    LastRound <- MCLastRound
    Deployments <- DemoDeployments
SPECIFICATION SysSpec
INVARIANTS
    CommitmentsBacked
    ReturnsChosen
PROPERTIES
    NoSendToExited
    Terminates
