CONSTANTS
    MaxWord = 3
    MaxLong = 3
    HasInt128 = FALSE
    MaxUnsigned = 15
    HasWideProduct = FALSE
    mpz_gcd <- MCGcd
    mpz_gcdext <- MCGcdExt
    Rings <- MCRings
    Matrices <- MCMatrices
    Inputs <- MCInputs
    ExponentRange = 4
    kMaxEliminationAttempts = 8
    kMaxTopLevelAttempts = 5
    SeedStep = 1000
    kMultivariateGcdPrimes <- MCPrimes
    Starts <- MCStarts
    MaxDegree <- MCMaxDegree
    Divisors <- MCFactors
    kMaxSplitAttempts = 2
    FactorInputs <- MCFactorInputs
SPECIFICATION AlgebraSpec
INVARIANTS
    TypeOK
    OrderIsExact
    ReducesTheSystem
    Bezout
    TermsAreCanonical
    GcdIsGreatest
    FactorsAreRight
PROPERTIES
    ImplementsArithmetic
    ImplementsPolynomials
    LoopsEnd
CHECK_DEADLOCK FALSE
