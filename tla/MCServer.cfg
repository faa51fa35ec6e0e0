CONSTANT Conns = {c1, c2, c3}
SPECIFICATION Spec
INVARIANTS
    NilIsClean
    DrainedOrExpired
    NothingOutlivesRun
PROPERTIES
    FailureReturns
    IsARunner
