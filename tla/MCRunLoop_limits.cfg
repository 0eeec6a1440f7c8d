CONSTANTS
    Runs = {r1}
    Steered = {r1}
    JSONRuns = {r1}
    MaxIterations = 2
    TokenBudget = 2
    PoolLimit = 3
    Compactor = "summary"
    Costs = {1}
    MaxCalls = 1
    MaxTurns = 1
    NoRun = NoRun
    r1 = r1
SPECIFICATION FairSpec
INVARIANTS
    IterationBound
    PoolOverrun
PROPERTY RunsReturn
