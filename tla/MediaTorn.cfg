SPECIFICATION Spec
CONSTANTS
    r1 = r1
    r2 = r2
    full = full
    part = part
    gif = gif
    NoProc = NoProc
    Procs <- TwoProcs
    Keys <- TwoKeys
    Full <- FullKeys
    Pictures <- OneGif
    MaxSecrets = 1
    MaxFiles = 1
    MaxMessages = 1
    MaxFaults = 1
PROPERTIES
    AnswersAreWhole
