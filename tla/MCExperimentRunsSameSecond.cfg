CONSTANTS
    r1 = r1
    r2 = r2
    None = None
    Runners = {r1, r2}
    Second <- SameSecond
    Jobs = 1
    TestSize = 1
    MaxRuns = 2
    MaxEvaluations = 1

SPECIFICATION Spec

INVARIANTS
    OneRunPerDirectory

CHECK_DEADLOCK FALSE
