SPECIFICATION Spec
CONSTANTS
    p1 = p1
    p2 = p2
    NoProc = NoProc
    Procs <- TwoProcs
    QrMaxRefreshes = 2
    MaxCalls = 2
    MaxEnds = 1
    MaxFaults = 1
SYMMETRY Symmetry
INVARIANTS
    TypeOK
    NothingSavedBeforePairing
    SavedSessionLoads
    CodeOnlyWhilePairing
PROPERTIES
    NoSaveBeginsLoggedOut
CHECK_DEADLOCK FALSE
