\* One tab: a guest, a sign-in and a switch of organization overlap with
\* requests, expiries, lost answers and reloads.
SPECIFICATION Spec
CONSTANTS
    Orgs = {home, other}
    Home = home
    Sandbox = sandbox
    Slots = {s1}
    Handlers = {h1}
    MaxTokens = 2
    MaxFaults = 1
    MaxReloads = 1
CHECK_DEADLOCK FALSE
INVARIANTS TypeOK TokenMatchesSession
PROPERTY DeadGuestLeaves
