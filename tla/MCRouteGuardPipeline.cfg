CONSTANTS
    NModels = 3
    Top = 2
    Answers = {a1}
    None = None
    VoteSamples = 2
    ConfidenceSamples = 2
    ToolSteps = 2
    Configs <- MCConfigs

SPECIFICATION Spec

INVARIANTS
    OverheadIsEscalation
    EveryTryIsCharged
    ReliableEndsRun
    NoAnswerDropped
    StrongerModelClimbs
    OnlyCertifiedAccepted
    GivesUpOnlyWhenExhausted

PROPERTIES
    Terminates
    ImplementsProtocol

CHECK_DEADLOCK FALSE
