SPECIFICATION FairSpec
CONSTANTS
    Requests = {r1, r2, r3}
    Orders = {o1}
    Existing = {o1}
    PaymentMethods = {CARD}
    BadMethod = BadMethod
    BadUUID = BadUUID
    Transactions = {t1, t2, t3}
    Null = Null
    Faults = {"insert", "reply"}
    Workload = {"Pay", "Cancel"}
CHECK_DEADLOCK FALSE
PROPERTIES
    PaymentSettles
    EveryoneIsAnswered
