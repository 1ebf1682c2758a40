SPECIFICATION Spec
CONSTANTS
    c1 = c1
    c2 = c2
    c3 = c3
    c4 = c4
    k1 = k1
    k2 = k2
    Client     <- MCClient
    Key        <- MCKey
    KeyOf      <- MCKeyOf
    Faulty     <- MCFaulty
    Ttl        = 2
    FnTime     = 1
    RetryCount = 1
    Free       = Free
INVARIANTS
    MutualExclusion
PROPERTIES
    NoForeignRelease
    EveryCallEnds
    EveryKeyFreed
CHECK_DEADLOCK FALSE
