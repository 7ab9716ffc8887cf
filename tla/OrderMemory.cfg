SPECIFICATION FairSpec
CONSTANTS
    Requests = {r1, r2, c1}
    Others = {c1}
    Orders = {o1, o2}
    Existing = {o1}
    PaymentMethods = {CARD}
    BadMethod = BadMethod
    BadUUID = BadUUID
    Transactions = {t1, t2, t3}
    Null = Null
    Faults = {"insert", "reply", "disconnect"}
CHECK_DEADLOCK FALSE
INVARIANTS
    PaymentTypeOK
    AnsweredIsRecorded
    ChargedAtMostOncePerCall
    MarkIsExact
PROPERTIES
    NotFoundIsAbsent
    PaymentSettles
    RefinesLifecycle
