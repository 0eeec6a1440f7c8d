CONSTANT MaxCalls = 2
SPECIFICATION FairSpec
INVARIANTS
    AuthorizedFirst
    RanIsRecorded
PROPERTY PhaseEnds
