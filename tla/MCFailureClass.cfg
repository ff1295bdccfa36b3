SPECIFICATION Spec
CONSTANTS
    Errors = {1, 2, 3}
    Root = 1
    Limits = {2, 3}
    RootLinks = 2
    OtherLinks = 1
INVARIANTS
    VerdictFitsCauses
CHECK_DEADLOCK FALSE
