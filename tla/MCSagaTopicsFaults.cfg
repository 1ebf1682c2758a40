SPECIFICATION TopicSafety
CONSTANTS
    u1 = u1
    u2 = u2
    m1 = m1
    m2 = m2
    f1 = f1
    Request = {u1, m1, f1}
    KindOf <- MCKindOf
    Faults = {"db", "kafka", "redis", "crash"}
    MaxFaults = 3
    TimerOutlastsStep = TRUE
    Id = s1
    CorrelationId = c1
INVARIANTS
    PaidOrderWasCharged
    SuccessWasPaid
    CompensationHasCause
    CompletedEventWasPaid
    CompensatedAfterFailed
    
    
    

    
    
CHECK_DEADLOCK FALSE
