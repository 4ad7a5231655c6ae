\* Two requests, two compartments and a team; two calls at once, one lost answer.
SPECIFICATION Spec
CONSTANTS
    Requests = {"r1", "r2"}
    Mine = {"r1"}
    Emails = {"u", "x"}
    Users = {"u"}
    MaxComps = 3
    MaxRows = 2
    People = {"p"}
    MaxTeam = 3
    MaxInvites = 2
    MaxCalls = 2
    MaxTheirs = 1
    MaxLost = 1
    Pages = {"requests", "compartments", "team"}
    MaxClicks = 4
    MaxOthers = 1
INVARIANTS
    TypeOK
    SuccessIsTrue
PROPERTIES
    RemovalStaysInSelection
CHECK_DEADLOCK FALSE
