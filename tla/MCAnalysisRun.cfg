SPECIFICATION Spec
CONSTANTS
    Servers = {s1, s2}
    All = All
    Window = 2
    Limit = 2
    Now = 3
    Times = {0, 1, 3, 4}
    MaxRows = 3
INVARIANTS
    ContextConsistent
    RecentAreNewest
    OneWorkflowAtMost
CHECK_DEADLOCK FALSE
