SPECIFICATION Spec
CONSTANTS
    hull = hull
    engine = engine
    shield = shield
    gun = gun
    soldOut = soldOut
    unknown = unknown
    None = None
    BadUUID = BadUUID
    Catalog <- MCCatalog
    Queries = {}
    Inputs <- MCInputs
    Limit = 8
    Callers = {c1, c2, c3}
    OrderUUIDs = {o1, o2}
    DbFails = TRUE
    Faults = {"db", "commit", "crash"}
SYMMETRY Symmetry
CHECK_DEADLOCK FALSE
INVARIANTS
    Types
    OrdersAreWhole
    ShownAsOrdered
    AnswersAreTrue
