\* Two requests at once, one of them lost, timed out or refused.
SPECIFICATION Spec
CONSTANTS
    Contents = {"a", "b", "x"}
    BadFiles = {"x"}
    TableContent = "a"
    MaxDatasets = 3
    MaxSources = 2
    MaxEntries = 2
    MaxCalls = 2
    MaxLost = 2
    MaxClicks = 6
INVARIANTS
    TypeOK
    FreshListsAreCurrent
    DroppedIsDeleted
CHECK_DEADLOCK FALSE
