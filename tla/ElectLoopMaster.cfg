SPECIFICATION LSpec
CONSTANTS
    Node = {1, 2}
    InitialSeniority <- AllCandidates
    Setups <- FromCluster
    MaxChanges <- ConnectAndRestart
    MaxCommands = 0
INVARIANT MasterInSession
CHECK_DEADLOCK FALSE
