SPECIFICATION Spec
CONSTANTS
    None = None
    en = en
    kk = kk
    yes = yes
    small = small
    oracle = oracle
    routed = routed
    NModels = 2
    Varied = {1}
    Items <- MCItems
    English <- MCEnglish
    Plain <- MCPlain
    Answers <- MCAnswers
    Signals <- MCSignals
    Systems <- MCSystems
    FixedModel <- MCFixedModel
    Prompting <- MCPrompting
    Oracles <- MCOracles
    Ablations <- MCAblations
    Reference <- MCReference
    Asked <- MCAsked
    Costs <- MCCosts
    Accuracies <- MCAccuracies
    MaxPoints = 4
INVARIANTS
    GapIsFromTheBestMixture
    OracleIsUpperBound
    MetricsAgreeWithLabels
    FixedSystemsAreTheirModel
    OwnReportIsWhole
CHECK_DEADLOCK FALSE
