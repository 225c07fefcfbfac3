SPECIFICATION Spec
CONSTANTS
    p1 = p1
    p2 = p2
    Absent = Absent
    Convs <- TwoConvs
    Procs <- TwoProcs
    Pictured <- OneConv
    Known <- OneConv
    ConvListLimit = 1
    MaxChanges = 1
    MaxAge = 1
    MaxStream = 1
    MaxCalls = 1
    MaxLinks = 2
INVARIANTS
    StoredPicturesShow
    PictureAskedOnce
SYMMETRY Symmetry
CHECK_DEADLOCK FALSE
