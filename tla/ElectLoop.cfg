SPECIFICATION LSpec
CONSTANTS
    Node = {1, 2}
    InitialSeniority <- LargestIsNoCandidate
    Setups <- FromBoot
    MaxChanges <- OneOfEach
    MaxCommands = 1
INVARIANTS ComponentsFollowElection PausedOnlyForElections
           QuiescentAgreement
CHECK_DEADLOCK FALSE
