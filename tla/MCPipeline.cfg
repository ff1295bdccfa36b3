SPECIFICATION Spec
CONSTANTS
    Measurements = 3
    Servers = 2
    Anomalies = {1, 2}
    None = None
    MaxCrashes = 1
INVARIANTS
    MetricsMatchRows
    GaugesShowStoredRows
PROPERTIES
    ImplementsFeed
    SimulatorProceeds
CHECK_DEADLOCK FALSE
