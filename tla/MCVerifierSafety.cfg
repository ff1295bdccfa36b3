SPECIFICATION Spec
CONSTANTS
    Requests = {r1, r2, r3, r4}
    None = None
    MaxRequests = 3
    MaxSeconds = 2
SYMMETRY Symmetry
INVARIANTS
    OneCalculation
    QuotaHolds
    NothingLeftBehind
PROPERTIES
    ForeignFilesKept
    ImplementsLease
CHECK_DEADLOCK FALSE
