SPECIFICATION Spec
CONSTANTS
    p1 = p1
    p2 = p2
    NoProc = NoProc
    Procs <- TwoProcs
    QrMaxRefreshes = 2
    MaxCalls = 2
    MaxEnds = 0
    MaxFaults = 1
CHECK_DEADLOCK FALSE
INVARIANTS
    ScreenHasItsLoop
