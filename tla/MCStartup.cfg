SPECIFICATION Spec
CONSTANTS
    Plan <- MCPlan
    MaxAttempts = 3
    Budget = 11
    BaseDelay = 2
    MaxDelay = 3
    TicksPerSecond = 2
    MaxClock = 13
INVARIANTS
    TypeOK
    AtMostOneLateCall
    NeverGivesUpEarly
PROPERTIES
    RetryOnlyTransient
    ImplementsGate
CHECK_DEADLOCK FALSE
