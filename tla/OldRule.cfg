\* The same, one worker, nothing lost: what delete_rule promises.
SPECIFICATION Spec
CONSTANTS
    Names = {n1, n2}
    TestNames = {test1}
    Tests = {t1}
    Workers = {w1}
    MaxRules = 3
    MaxFaults = 0
    MaxLeaves = 2
INVARIANT OldRuleHasLatest
CHECK_DEADLOCK FALSE
