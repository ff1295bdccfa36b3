SPECIFICATION Spec
CONSTANTS
    Snapshots = {s1, s2}
    Nobody = Nobody
    Sources <- MCSources
    BuiltFrom <- MCBuiltFrom
SYMMETRY MCSymmetry
INVARIANTS
    PassRestsOnLive
    PassReadAsReviewed
    EvidenceIsFinal
CHECK_DEADLOCK FALSE
