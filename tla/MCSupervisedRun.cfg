CONSTANTS
    Backends = {"cli", "bwrap", "host"}
    IdleTicks = 2
    Ceiling = 1
    MaxSize = 2
SPECIFICATION FairSpec
INVARIANTS
    KillsAreNamed
    BreachReported
    LeavesNothing
PROPERTIES
    RunEnds
