SPECIFICATION Spec
CONSTANTS
    Measurements = 2
    Servers = 1
    Anomalies = {2}
    None = None
    MaxCrashes = 1
INVARIANTS
    GaugesShowLatest
CHECK_DEADLOCK FALSE
