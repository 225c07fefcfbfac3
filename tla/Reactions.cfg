SPECIFICATION Spec
CONSTANTS
    p1 = p1
    p2 = p2
    e1 = e1
    e2 = e2
    None = None
    NumMsgs = 2
    Emojis <- TwoEmojis
    Procs <- TwoProcs
    MaxReactionRecords = 1
    MaxChanges = 2
    MaxCalls = 2
SYMMETRY Symmetry
INVARIANTS
    ReactionsBounded
    RecordsAgreeUnlessBlurred
    TapsToggle
CHECK_DEADLOCK FALSE
