SPECIFICATION SagaSpec
CONSTANTS
    c1 = c1
    c2 = c2
    c3 = c3
    k1 = k1
    Client     <- MCClient
    Key        <- MCKey
    KeyOf      <- MCKeyOf
    Faulty     <- MCFaulty
    Ttl        = 3
    FnTime     = 2
    RetryCount = 1
    Free       = Free
INVARIANTS
    OneSagaPerCorrelation
PROPERTIES
    ImplementsSagaOnce
    SoundCallServed
CHECK_DEADLOCK FALSE
