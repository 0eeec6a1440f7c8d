CONSTANT Runners <- MCRunners
SPECIFICATION Spec
INVARIANTS
    NothingRunTwice
    CleanReplay
    SameRunnerResumes
    BudgetCarried
