SPECIFICATION Spec
CONSTANTS
    u1 = u1
    u2 = u2
    Unset = Unset
    Null = Null
    Nothing = Nothing
    UUIDs <- MCUUIDs
    Instants = {20, 23}
    Second = 10
    Calls <- MCCalls
    Requests <- MCRequests
    Orders <- MCOrders
    Faults = {"read", "write", "reply"}
CHECK_DEADLOCK FALSE
INVARIANTS
    Types
    RoutesAsDocumented
    AcceptsWhatIsDocumented
    HandlerGetsWhatWasAsked
    ClientGetsTheAnswer
