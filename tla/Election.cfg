SPECIFICATION FairSpec
CONSTANTS
    Node = {1, 2, 3}
    InitialSeniority <- AllCandidates
    Setups <- JoinOrLoss
    MaxChanges <- OneConnect
    MaxCommands = 0
INVARIANTS NewestRoundDecides
PROPERTY Settles
CHECK_DEADLOCK FALSE
