\* Two requests on one worker: their role checks and bodies interleave, their bodies do not.
SPECIFICATION Spec
CONSTANTS
    Founder = f
    Users = {f, u, v}
    Requests = {q1, q2}
    Roles = {"owner", "admin", "viewer"}
    WorkerOf <- OneWorker
    MaxInvites = 2
    MaxMembers = 4
SYMMETRY Symmetry
INVARIANTS OneMembershipPerUser InviteesAreOutsiders EachInviteAdmitsOne
PROPERTIES InvitesSettleOnce RemovalKeepsAnOwner
