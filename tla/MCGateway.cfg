SPECIFICATION Spec
CONSTANTS
    Calls = {p1, p2}
    Orders = {o1}
    Couriers = {c1, c2}
    ActiveCouriers = {c1}
    NoOrder = NoOrder
    NoCourier = NoCourier
SYMMETRY Symmetry
INVARIANTS
    TypeOK
    AcceptedIsValid
    AnswerTellsEffect
    ConflictIsFinal
    RefusalsKeepTheirCode
CHECK_DEADLOCK FALSE
