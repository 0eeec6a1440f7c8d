CONSTANT Runners <- Failing
SPECIFICATION Spec
INVARIANT RecordedSpendCounted
