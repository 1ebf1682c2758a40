SPECIFICATION Spec
CONSTANTS
    reg1 = reg1
    reg2 = reg2
    reg3 = reg3
    reg4 = reg4
    log1 = log1
    log2 = log2
    log3 = log3
    out1 = out1
    out2 = out2
    n1 = n1
    n2 = n2
    Request    <- MCRequest
    KindOf     <- MCKindOf
    EmailOf    <- MCEmailOf
    PasswordOf <- MCPassword
    After      <- MCAfter
    NoRequest  = NoRequest
    Node       = {n1, n2}
    NodeOf     <- MCNodeOf
    FaultyNode = {n1}
INVARIANTS
    OneAccountPerEmail
    SessionFitsAccount
    RegisteredMayLogIn
    TokensFollowSessions
PROPERTIES
    SoundClientsServed
CHECK_DEADLOCK FALSE
