SPECIFICATION Spec
CONSTANTS
    Readers = {r1}
    Writers = {w1, w2}
    Spellings = {lower, upper}
    Canonical = lower
    Nothing = Nothing
    OrderTTL = 2
    TimelineTTL = 1
    Deadline = 1
    MaxClock = 3
SYMMETRY Symmetry
INVARIANT
    UpdateInvalidatesCaches
CHECK_DEADLOCK FALSE
