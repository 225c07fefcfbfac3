SPECIFICATION FairSpec
CONSTANTS
    r1 = r1
    r2 = r2
    full = full
    part = part
    gif = gif
    NoProc = NoProc
    Procs <- TwoProcs
    Keys <- TwoKeys
    Full <- FullKeys
    Pictures <- OneGif
    MaxSecrets = 1
    MaxFiles = 1
    MaxMessages = 2
    MaxFaults = 1
INVARIANTS
    TypeOK
    RememberedOnce
    SingleFlight
    FetchedFileIsWhole
    PhoneAskedOnce
    CacheBounded
PROPERTIES
    WaitersWake
