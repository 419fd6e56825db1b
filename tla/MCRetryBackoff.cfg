SPECIFICATION Spec
CONSTANTS
    MaxInt = 15
    DefaultBase = 2
    RetryMaxAttempts = 4
    Configured <- Workers
INVARIANTS
    BackoffDoublesToCap
    SleepsAreBounded
CHECK_DEADLOCK FALSE
