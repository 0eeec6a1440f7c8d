CONSTANTS
    Runs = {a, b}
    Earlier = earlier
    MaxEvents = 2
    a = a
    b = b
    earlier = earlier
    old = old
    new = new
    m1 = m1
    m2 = m2
    Processes = {old, new}
    Latest <- MCLatest
    Emitters <- MCEmitters
    Nobody = Nobody
    Versions <- MCVersions
    Payloads <- MCPayloads
    MaxEmits = 3
    MaxCrashes = 1
    Callers = {k1, k2}
    Texts = {x, y}
    k1 = k1
    k2 = k2
    x = x
    y = y
    MaxSize = 1
    Configs <- MCConfigs
    EmbedAttempts = 2
    MaxAsked = 4
    MaxSpoils = 1
    Clients = {c1, c2}
    NoClient = NoClient
    c1 = c1
    c2 = c2
    MaxTurns = 4
    Width = 5
    MaxAttempts = 6
    Parts = 4
    Jitters = {0, 4}
    RetryAfters <- MCRetryAfters
SYMMETRY MCSymmetry
SPECIFICATION MCSpec
INVARIANTS
    OneRunPerFile
    FileShape
    NoSilentLoss
    SchemaSound
    StoredOrReported
    ReadsWhole
    AlignedVectors
    CacheSound
    ExactOrHuge
PROPERTIES
    RecordsSurvive
    ImplementsTurnQueue
CHECK_DEADLOCK FALSE
