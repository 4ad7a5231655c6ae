\* MaxVersions ends every behaviour.
CHECK_DEADLOCK FALSE
SPECIFICATION Spec
CONSTANTS
    Workers = {w1, w2}
    Edits = {e1, e2}
    Rivals = {}
    CellOf <- Rivalry
    Staged = TRUE
    MaxVersions = 3
SYMMETRY Symmetry
INVARIANTS
    TypeOK
    LineageDescends
    AppliedFixIsInItsVersion
    VersionFileExists
    NumbersDense
