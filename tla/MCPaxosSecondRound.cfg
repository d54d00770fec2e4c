CONSTANTS
    NAcc = 3
    Proposers <- MCProposers
    Values <- MCValues
    Want <- MCWant
    LastRound <- MCLastRound
    Deployments <- SecondRound
SPECIFICATION SysSpec
INVARIANTS
    SecondRoundKeepsFirst
