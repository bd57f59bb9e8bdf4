CONSTANTS
    r1 = r1
    r2 = r2
    None = None
    Runners = {r1}
    Second <- OneShell
    Jobs = 2
    TestSize = 2
    MaxRuns = 2
    MaxEvaluations = 1

SPECIFICATION Spec

INVARIANTS
    CompletedIsWhole
    TracesToItsRun

PROPERTIES
    VerdictReached

CHECK_DEADLOCK FALSE
