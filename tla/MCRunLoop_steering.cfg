CONSTANTS
    Runs = {r1, r2}
    Steered = {r1, r2}
    JSONRuns = {}
    MaxIterations = 1
    TokenBudget <- Unlimited
    PoolLimit = 0
    Compactor = "summary"
    Costs = {0}
    MaxCalls = 2
    MaxTurns = 2
    NoRun = NoRun
    r1 = r1
    r2 = r2
SYMMETRY RunSymmetry
SPECIFICATION Spec
INVARIANTS
    HandleHeldByOneRun
    AnswerIsLastWord
    WireWellFormed
PROPERTIES
    ContinueKeepsTurns
    ImplementsTurnQueue
