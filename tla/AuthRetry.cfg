SPECIFICATION FairSpec
CONSTANTS
    p1 = p1
    p2 = p2
    Procs <- TwoProcs
    MaxCalls = 3
    MaxRefusals = 1
INVARIANTS
    RepairMeansPaired
    OnePromptPerBurst
PROPERTIES
    CallsEnd
