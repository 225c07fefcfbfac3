SPECIFICATION FairSpec
CONSTANTS
    u = u
    g = g
    None = None
    Voices <- OneVoice
    Photos <- OnePhoto
    UserFiles <- OnePicture
    Gifs <- OneGif
    MaxCaptures = 1
    MaxActs = 4
    MaxDrops = 1
INVARIANTS
    RejectedCapturesDeleted
CHECK_DEADLOCK FALSE
