\* MaxVersions ends every behaviour.
CHECK_DEADLOCK FALSE
SPECIFICATION Spec
CONSTANTS
    Workers = {w1}
    Edits = {e1, e2, e3}
    Rivals = {e1, e2}
    CellOf <- Rivalry
    Staged = TRUE
    MaxVersions = 3
SYMMETRY Symmetry
INVARIANTS
    FixesShownAreFixesApplied
    VersionsKeepTheirFile
PROPERTY
    ImplementsHistory
