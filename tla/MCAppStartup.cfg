SPECIFICATION SchemaStartupSpec
CONSTANTS
    Tools = {t1, t2}
    Unset = Unset
    Plan <- AppPlan
    MaxAttempts = 3
    Budget = 9
    BaseDelay = 1
    MaxDelay = 2
    TicksPerSecond = 2
    MaxClock = 10
INVARIANTS
    UsableWhenClaimed
    NothingOutlivesItsStep
    ReadyOnlyWhenPublished
PROPERTIES
    PublishedInTime
CHECK_DEADLOCK FALSE
