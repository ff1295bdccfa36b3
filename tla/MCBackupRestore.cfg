SPECIFICATION Spec
CONSTANTS
    Backups = {b1, b2}
    Restores = {r1, r2}
    Dumps = {d1, d2}
    Garbage = Garbage
    MaxVersions = 2
INVARIANTS
    ManifestMeansStored
    RestoredMatchesManifest
    OneSuccessPerPath
PROPERTIES
    ImplementsArchive
SYMMETRY MCSymmetry
CHECK_DEADLOCK FALSE
