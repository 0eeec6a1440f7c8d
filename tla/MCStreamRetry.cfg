CONSTANTS
    Members = 2
    MaxAttempts = 3
    Idle = TRUE
    Serializes = TRUE
    MaxDeltas = 2
SPECIFICATION FairSpec
INVARIANTS
    OneVoice
    GivesUpInTime
PROPERTIES
    TripsOnSilence
    CallReturns
