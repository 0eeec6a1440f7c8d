SPECIFICATION Spec
CONSTANTS
    Nothing = Nothing
    Scenarios <- GeminiScenario
    Unnamed = TRUE
INVARIANT SignatureReturned
CHECK_DEADLOCK FALSE
