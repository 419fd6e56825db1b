SPECIFICATION FairSpec
CONSTANTS
    Requests = {p1, p2, p3}
    Orders = {o1}
    Couriers = {c1}
    ActiveCouriers = {c1}
    Sources = {"courier"}
    NoOrder = NoOrder
    NoCourier = NoCourier
    NoRequest = NoRequest
    MaxClock = 0
PROPERTY
    EveryRequestEnds
CHECK_DEADLOCK FALSE
