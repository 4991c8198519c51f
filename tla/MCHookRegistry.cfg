CONSTANTS
    t1 = t1
    t2 = t2
    t3 = t3
    sin = sin
    cos = cos
    user_f = user_f
    h1 = h1
    h2 = h2
    NoHook = NoHook
    NoThread = NoThread
    Threads = {t1, t2, t3}
    Heads <- AllHeads
    UserHooks = {h1, h2}
    Builtins <- MCBuiltins
    MayConflict = {cos}
    Expressions <- MCExpressions
    Registrations <- MCRegistrations
    Body <- MCBody
    WrongCount = {h1}
    MaxCalls = 4
SPECIFICATION FairSpec
INVARIANTS
    BuiltinsAreFound
    LockDiscipline
    FailedInitIsNeverDone
PROPERTIES
    CallsEnd
CHECK_DEADLOCK FALSE
