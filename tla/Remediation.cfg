\* Two issues and one rule; two jobs or submissions at once, one lost answer.
SPECIFICATION Spec
CONSTANTS
    Issues = {i1, i2}
    Rules = {"q"}
    Filters = {"all", "open"}
    MaxRuns = 2
    MaxJobs = 2
    MaxLost = 1
    MaxClicks = 4
INVARIANTS
    TypeOK
    OnlyAskedFor
    SuccessesAreResolved
SYMMETRY Symmetry
CHECK_DEADLOCK FALSE
