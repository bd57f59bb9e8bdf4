SPECIFICATION Spec
CONSTANTS
    None = None
    Items <- MCItems
    Limits = {None, 4}
    Group <- MCGroup
    Lang <- MCLang
    Stratum <- MCStratum
    Fractions <- MCFractions
    Configs <- MCConfigs
    Folds = 2
    MinSamples = 2
    PoolSize = 3
    Scale = 4
INVARIANTS
    OutOfSample
    CertifiedAsServed
    EveryStratumIsTested
    
    DecisionsAreMonotone
