CONSTANTS
    k1 = k1
    k2 = k2
    k3 = k3
    Workers = {w1, w2}
    Keys <- BenchmarkKeys
    Batches <- BenchmarkBatches
    ChunkSize = 2
    MaxRequests = 2
    MaxCrashes = 0

SPECIFICATION Spec

INVARIANTS
    SavedIsFinal

CHECK_DEADLOCK FALSE
