SPECIFICATION TraceSpec
CONSTANTS
    u1 = u1
    m1 = m1
    Request = {u1, m1}
    KindOf <- MCKindOf
    Faults = {"db"}
    MaxFaults = 0
    TimerOutlastsStep = TRUE
    Client = {c1}
INVARIANTS
    SuccessShowsPayment
    PaidShowsPayment
PROPERTIES
    SuccessNotRetracted
    OutcomeShown
CHECK_DEADLOCK FALSE
