SPECIFICATION Spec
CONSTANTS
    Requests = {r1, r2}
    Orders = {o1}
    Existing = {o1}
    PaymentMethods = {CARD}
    BadMethod = BadMethod
    BadUUID = BadUUID
    Transactions = {t1, t2}
    Null = Null
    Faults = {"insert"}
    Workload = {"Pay", "Cancel"}
CHECK_DEADLOCK FALSE
PROPERTIES
    NotFoundIsAbsent
