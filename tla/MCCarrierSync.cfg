SPECIFICATION FairSpec
CONSTANTS
    o1 = o1
    o2 = o2
    o3 = o3
    MockOrderIDs <- OneOrder
    BatchSize = 2
    ManualBatchSizes = {1}
    RetryMaxAttempts = 2
    MaxCursor = 3
    MaxBoots = 1
INVARIANTS
    TypeOK
    AppliedAtMostOnce
    CountsTellEffect
    UpdatesAccountedFor
PROPERTY
    EveryCycleEnds
