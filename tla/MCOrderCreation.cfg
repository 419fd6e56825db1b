SPECIFICATION FairSpec
CONSTANTS
    Requests = {p1, p2, p3, p4}
    Keys = {k1, k2}
    None = None
INVARIANTS
    TypeOK
    AnswersAgree
    RelookupFinds
    NoOrphanAddresses
    CachedAreCommitted
PROPERTIES
    ImplementsIdempotentCreation
    EveryCreateEnds
CHECK_DEADLOCK FALSE
