CONSTANTS
    Terms = {0, 1, 3, 4, 6}
    Threads = {0, 1, 2, 3, 4}
    Throwing = {5}
    Guarded = {1, 2}
    MayFail = TRUE
SPECIFICATION FairSpec
INVARIANTS
    ResultsComplete
    TermsAreApart
    NoThreadOutlivesTheCall
PROPERTIES
    CallEnds
CHECK_DEADLOCK FALSE
