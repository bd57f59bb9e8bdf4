CONSTANTS
    Threads = {t1, t2}
    ConfigIds = {"demo"}
    Models = {"small", "large"}
    Requests <- MCRequests
    Contents <- MCContents
    TraceLimit = 1
    NoOne = NoOne
    NoFile = NoFile
    MaxAsked = 2
    MaxEdits = 1
    MaxRestarts = 1

SPECIFICATION Spec

INVARIANTS
    OnePipelinePerConfiguration
    RunsWhatWasAsked
    UnfittedNeverServed
    ReadyIsServed
    LatestTracesServed

PROPERTIES
    RequestsAnswered

CHECK_DEADLOCK FALSE
