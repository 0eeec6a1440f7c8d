CONSTANTS
    Backends = {"host"}
    IdleTicks = 0
    Ceiling = 0
    MaxSize = 0
SPECIFICATION FairSpec
PROPERTIES
    HardCeiling
