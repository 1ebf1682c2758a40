SPECIFICATION TopicSpec
CONSTANTS
    u1 = u1
    u2 = u2
    m1 = m1
    m2 = m2
    f1 = f1
    Request = {u1, u2, m1, m2}
    KindOf <- MCKindOf
    Faults = {}
    MaxFaults = 0
    TimerOutlastsStep = TRUE
    Id = s1
    CorrelationId = c1
INVARIANTS
    TypeOK
PROPERTIES
    
    ImplementsOrderFlow
    CompletionAnnounced
CHECK_DEADLOCK FALSE
