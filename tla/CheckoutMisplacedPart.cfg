SPECIFICATION Spec
CONSTANTS
    hull = hull
    engine = engine
    shield = shield
    gun = gun
    soldOut = soldOut
    unknown = unknown
    None = None
    BadUUID = BadUUID
    Catalog <- MCCatalog
    Queries = {}
    Inputs <- MCInputs
    Limit = 8
    Callers = {c1}
    OrderUUIDs = {o1}
    DbFails = FALSE
    Faults = {}
CHECK_DEADLOCK FALSE
INVARIANT
    PartsFitTheirPlaces
