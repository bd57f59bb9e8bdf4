CONSTANTS
    First = 1
    Last = 3
    Requests = 4
    ChunkSize = 1
    MaxKills = 2
    MaxBenchmarks = 2
    MaxMerges = 2

SPECIFICATION Spec

INVARIANTS
    ShardsPartitionThePlan
    SeenIsFinal
    MergeIsComplete

CHECK_DEADLOCK FALSE
