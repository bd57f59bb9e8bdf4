CONSTANTS
    k1 = k1
    k2 = k2
    k3 = k3
    Workers = {w1, w2}
    Keys <- ServerKeys
    Batches <- ServerBatches
    ChunkSize = 2
    MaxRequests = 3
    MaxCrashes = 1

SPECIFICATION Spec

INVARIANTS
    AnswersTheRequest
    InterruptionCostsOneChunk
    ReplaysAreFree

PROPERTIES
    BatchesEnd

CHECK_DEADLOCK FALSE
