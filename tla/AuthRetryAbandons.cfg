SPECIFICATION Spec
CONSTANTS
    p1 = p1
    p2 = p2
    Procs <- TwoProcs
    MaxCalls = 2
    MaxRefusals = 1
PROPERTIES
    StopsWaitingForEndedPairings
