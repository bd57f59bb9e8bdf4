CONSTANTS
    Top = 3
    MaxCount = 2
    Settings <- MCSettings

SPECIFICATION ScanSpec

INVARIANTS
    FixedSequence
    LowestThreshold
    StartIsAttainable

CHECK_DEADLOCK FALSE
