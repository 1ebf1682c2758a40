SPECIFICATION Safety
CONSTANTS
    u1 = u1
    u2 = u2
    m1 = m1
    m2 = m2
    f1 = f1
    Request = {u1, m1}
    KindOf <- MCKindOf
    Faults = {}
    MaxFaults = 0
    TimerOutlastsStep = TRUE
PROPERTY CancelledStaysCancelled
CHECK_DEADLOCK FALSE
