SPECIFICATION FairSpec
CONSTANTS
    o1 = o1
    u1 = u1
    u2 = u2
    Orders <- OneOrder
    Updates <- TwoUpdates
    Asks <- SameOrNext
    Deadline = 3
    SendTimeout = 2
INVARIANTS
    TypeOK
    ProviderTakesCommittedOnce
    TakenOrLogged
    OvertakenOnlyWhenGivenUp
    SlowEmailSparesTelegram
PROPERTY
    HandlersEnd
CHECK_DEADLOCK FALSE
