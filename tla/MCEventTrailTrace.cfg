SPECIFICATION Spec
CONSTANTS
    Creator     = create
    Timer       = timer
    SagaConfirm = sagaConfirm
    SagaCancel  = sagaCancel
    Confirming  = {confirm1}
    Cancelling  = {cancel1}
    n1 = n1
    n2 = n2
    Node       = {n1, n2}
    NodeOf    <- MCNodeOf
    FaultyNode = {}
    MaxFaults  = 0
INVARIANTS
    TraceTellsStatus
CHECK_DEADLOCK FALSE
