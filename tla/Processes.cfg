SPECIFICATION Spec
CONSTANTS
    Requests = {r1, r2}
CHECK_DEADLOCK FALSE
INVARIANTS
    Types
    DrainedMeansDone
    FailureIsReported
PROPERTIES
    ExitsBetweenTransactions
    OrderStops
    PaymentStops
