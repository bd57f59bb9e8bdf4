SPECIFICATION Spec
CONSTANTS
    None = None
    Specs <- MCSpecs
    Batches <- MCBatches
    MaxBatches = 2
    BatchSize = 2
    MaxRetries = 2
    Odds = 2
    Texts = {"A"}
INVARIANTS
    AnsweredOrRefused
    KeysDetermineOutputs
