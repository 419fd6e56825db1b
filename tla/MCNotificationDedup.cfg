SPECIFICATION Spec
CONSTANTS
    Requests = {p1, p2, p3, p4}
    Keys = {k1, k2}
    Never = Never
    Window = 2
    HandlingTime = 1
    MaxClock = 4
    MaxBoots = 1
SYMMETRY Symmetry
INVARIANTS
    TypeOK
    AtMostOncePerWindow
    NoStuckReservation
    ReleasesOwnReservation
CHECK_DEADLOCK FALSE
