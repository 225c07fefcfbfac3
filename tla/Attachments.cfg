SPECIFICATION FairSpec
CONSTANTS
    u = u
    g = g
    None = None
    Voices <- TwoVoices
    Photos <- OnePhoto
    UserFiles <- OnePicture
    Gifs <- OneGif
    MaxCaptures = 1
    MaxActs = 4
    MaxDrops = 1
INVARIANTS
    CapturesAccounted
    StagedIsThere
PROPERTIES
    RecordingResolves
CHECK_DEADLOCK FALSE
