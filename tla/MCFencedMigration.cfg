SPECIFICATION Spec
CONSTANTS
    Jobs = {j1, j2, j3}
    None = None
    Script <- MCScript
    Approved <- MCApproved
INVARIANTS
    AppliedOnceInOrder
    OneWriter
    SuccessMeansHead
PROPERTIES
    ImplementsLog
    EveryJobEnds
CHECK_DEADLOCK FALSE
