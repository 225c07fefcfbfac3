SPECIFICATION ClientFairSpec
CONSTANTS
    c1 = c1
    c2 = c2
    NoThread = NoThread
    Convs <- TwoConvs
    TopLevel = 2
    MaxStops = 2
    MaxFails = 2
    MaxCalls = 3
INVARIANTS
    PendingIsAnswered
    ShownIsSelected
PROPERTIES
    KeepsTrying
    AutostartRecovers
