\* Two requests on workers of their own interleave at every query.
SPECIFICATION Spec
CONSTANTS
    Founder = f
    Users = {f, u}
    Requests = {q1, q2}
    Roles = {"owner", "admin"}
    WorkerOf <- WorkerEach
    MaxInvites = 1
    MaxMembers = 2
SYMMETRY Symmetry
INVARIANT TypeOK
PROPERTY RemovedStaysRemoved
