CONSTANTS
    r1 = r1
    r2 = r2
    None = None
    Runners = {r1, r2}
    Second <- TwoSeconds
    Jobs = 1
    TestSize = 1
    MaxRuns = 1
    MaxEvaluations = 1

SPECIFICATION Spec

INVARIANTS
    OnlyFinishedPublished

CHECK_DEADLOCK FALSE
