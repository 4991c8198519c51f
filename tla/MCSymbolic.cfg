CONSTANTS
    sin = 4
    cos = 5
    exp = 6
    ln = 7
    Order = 2
    Texts <- MCTexts
    Variables = {1, 2}
    Points <- MCPoints
    MaxRead = 6
    MaxSize = 8
    MaxTaken = 1
    Underscores <- MCUnderscores
    Symmetric <- MCSymmetric
    MaxAttempts = 40
    Rules <- MCRules
    Targets <- MCTargets
    MaxIterations = 2
SPECIFICATION SymbolicSpec
INVARIANTS
    FollowsGrammar
    ParsesBack
    NormalizeKeepsSeries
    DerivativeMatchesSeries
    NoShortSums
    MatchIsRight
    MatchIsFound
PROPERTIES
    ShrinkingRulesFinish
CHECK_DEADLOCK FALSE
