SPECIFICATION Spec
CONSTANTS
    Requests = {p1, p2}
    Orders = {o1}
    Couriers = {c1}
    ActiveCouriers = {c1}
    Sources = {"courier"}
    NoOrder = NoOrder
    NoCourier = NoCourier
    NoRequest = NoRequest
    MaxClock = 1
INVARIANT
    TimelineInChangeOrder
CHECK_DEADLOCK FALSE
