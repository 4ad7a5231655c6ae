\* One run, and on the other two workers what reads or cancels it meanwhile.
\* Every run is started at most once, so behaviours end.
SPECIFICATION FairSpec
CONSTANTS
    Workers = {w1, w2, w3}
    Runs = {r1}
    Rules = {a, b}
    Rows = {x1, x2}
    MinRulesForParallel = 2
    None = None
INVARIANTS
    TypeOK
    OutcomeIsRecorded
    RowsAgreeWithIssues
    MetricsAddUp
PROPERTIES
    FinishedIsFinal
    RunsEnd
CHECK_DEADLOCK FALSE
