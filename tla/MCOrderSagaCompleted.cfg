SPECIFICATION Safety
CONSTANTS
    u1 = u1
    u2 = u2
    m1 = m1
    m2 = m2
    f1 = f1
    Request = {}
    KindOf <- MCKindOf
    Faults = {"redis"}
    MaxFaults = 1
    TimerOutlastsStep = TRUE
INVARIANT CompletedMeansConfirmed
CHECK_DEADLOCK FALSE
