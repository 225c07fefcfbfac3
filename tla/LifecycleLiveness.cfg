SPECIFICATION FairSpec
CONSTANTS
    p1 = p1
    p2 = p2
    NoProc = NoProc
    Procs <- TwoProcs
    QrMaxRefreshes = 1
    MaxCalls = 2
    MaxEnds = 0
    MaxFaults = 1
PROPERTIES
    PairingEnds
    GaiaPairingEnds
    RefreshedCredentialsAreSaved
CHECK_DEADLOCK FALSE
