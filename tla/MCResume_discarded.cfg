CONSTANT Runners <- Discarding
SPECIFICATION Spec
INVARIANT SameRunnerResumes
