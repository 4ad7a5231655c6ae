\* Four ids make two groups of blocks to drag between, or a canvas of nodes.
SPECIFICATION BuilderSpec
CONSTANTS
    Builtin <- MCBuiltin
    DefIds = {"custom"}
    EditFields = {"column"}
    Flags = {"collapsed"}
    MaxIds = 4
    MaxEdits = 2
    MaxNodes = 2
CHECK_DEADLOCK FALSE
INVARIANTS BuilderTypeOK RuleWellFormed
PROPERTY DragKeepsBlocks
