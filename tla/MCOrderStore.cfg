SPECIFICATION Spec
CONSTANTS
    Requests = {p1, p2, p3}
    Orders = {o1}
    Couriers = {c1, c2}
    ActiveCouriers = {c1}
    Sources = {"manager"}
    NoOrder = NoOrder
    NoCourier = NoCourier
    NoRequest = NoRequest
    MaxClock = 1
SYMMETRY RequestSymmetry
INVARIANTS
    TypeOK
    HistoryIsLifecyclePath
    LastStatusAtMatchesHistory
    AssignmentMatchesHistory
    AnswerMatchesStore
    AssignmentConflictUnreachable
PROPERTY
    ImplementsLifecycle
CHECK_DEADLOCK FALSE
