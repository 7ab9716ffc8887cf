SPECIFICATION Spec
CONSTANTS
    Requests = {r1, r2, r3}
    Orders = {o1, o2}
    Existing = {o1}
    PaymentMethods = {CARD}
    BadMethod = BadMethod
    BadUUID = BadUUID
    Transactions = {t1, t2, t3}
    Null = Null
    Faults = {"insert", "reply", "db", "disconnect", "crash"}
    Workload = {"Create", "Get", "Pay", "Cancel"}
SYMMETRY Symmetry
CHECK_DEADLOCK FALSE
INVARIANTS
    TypeOK
    ProcessingIsOwned
    ProcessingHasPayer
    PaidIsRecorded
    AnswersAreFinal
    ChargeIsAccounted
    OnlyChargedOnce
PROPERTIES
    RefinesLifecycle
