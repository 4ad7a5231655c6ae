\* The rule pages of one tab over an old rule of three versions: two workers, two wizard
\* tests that overlap, one fault, two navigations or changes by others; see Bounded.
SPECIFICATION Spec
CONSTANTS
    Names = {n1, n2}
    TestNames = {test1, test2}
    Tests = {t1, t2}
    Workers = {w1, w2}
    MaxRules = 5
    MaxFaults = 1
    MaxLeaves = 2
SYMMETRY Symmetry
INVARIANTS
    TypeOK
    FamilyHasLatest
    StepsBehindAreValid
    TestRulesAreCleaned
CONSTRAINT Bounded
CHECK_DEADLOCK FALSE
