SPECIFICATION Spec
CONSTANTS
    p1 = p1
    p2 = p2
    Absent = Absent
    Convs <- TwoConvs
    Procs <- TwoProcs
    Pictured = {}
    Known <- OneConv
    ConvListLimit = 1
    MaxChanges = 2
    MaxAge = 0
    MaxStream = 1
    MaxCalls = 1
    MaxLinks = 2
INVARIANTS
    ListIsTop
    AgreesUnlessOverlapped
SYMMETRY Symmetry
CHECK_DEADLOCK FALSE
