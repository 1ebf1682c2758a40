SPECIFICATION Spec
CONSTANTS
    r1 = r1
    r2 = r2
    r3 = r3
    r4 = r4
    r5 = r5
    r6 = r6
    k  = k
    n1 = n1
    n2 = n2
    Request  <- MCRequest
    ItemsOf  <- MCItemsOf
    GivenKey <- MCGivenKey
    NoKey    = NoKey
    Node       = {n1, n2}
    NodeOf   <- MCNodeOf
    FaultyNode = {n1}
    NoOrder  = NoOrder
INVARIANTS
    OneOrderPerKey
    SameProductsOneOrder
    OneEventPerOrder
PROPERTIES
    ImplementsSagaOnce
    AnsweredAndAnnounced
CHECK_DEADLOCK FALSE
