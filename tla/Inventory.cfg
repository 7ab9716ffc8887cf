SPECIFICATION InventorySpec
CONSTANTS
    p1 = p1
    p2 = p2
    p3 = p3
    p4 = p4
    p5 = p5
    unknown = unknown
    Catalog <- MCCatalog
    BadUUID = BadUUID
    Queries <- MCQueries
    Callers = {c1, c2}
    DbFails = TRUE
SYMMETRY Symmetry
CHECK_DEADLOCK FALSE
INVARIANTS
    ListsAsAsked
    ListingsAgree
