SPECIFICATION Spec
CONSTANTS
    Nothing = Nothing
    Scenarios <- MCScenarios
    Unnamed = FALSE
INVARIANTS
    StreamIsComplete
    DeltasRebuild
    FailureNamed
    WireHonest
    ReplayAccepted
    EchoedUnchanged
CHECK_DEADLOCK FALSE
