SPECIFICATION FairSpec
CONSTANTS
    Requests = {r1, r2}
    None = None
    MaxRequests = 2
    MaxSeconds = 1
PROPERTIES
    StopCompletes
CHECK_DEADLOCK FALSE
