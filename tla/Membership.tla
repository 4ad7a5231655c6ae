------------------------------ MODULE Membership ------------------------------
(***************************************************************************)
(* The members and invites of one organization.                            *)
(*                                                                         *)
(* A request is one HTTP call.  Its role check is a synchronous dependency *)
(* that FastAPI runs in a thread; the body of the handler is an            *)
(* `async def` without an await, so the bodies of one worker exclude each  *)
(* other, but any of them may run between another request's role check and *)
(* its body.  Bodies of different workers interleave at every query.       *)
(***************************************************************************)
EXTENDS Integers, Sequences, FiniteSets

CONSTANTS
    Users,        \* people, by e-mail address
    Founder,      \* the user who registered the organization
    Roles,        \* the roles a request can name; Manager of them may manage
    Requests,     \* the requests that are handled at a time
    WorkerOf,     \* WorkerOf[q]: the server process that handles request q
    MaxInvites,   \* bound on invites ever made
    MaxMembers    \* bound: no invite is accepted once there were this many

Managers == {"owner", "admin"}

ASSUME ConstantsAssumption ==
    /\ Founder \in Users
    /\ Managers \subseteq Roles
    /\ "removed" \notin Roles
    /\ MaxInvites \in Nat /\ MaxMembers \in Nat

VARIABLES
    accounts,  \* users with a row in users
    members,   \* rows of organization_members: [user, role]; a deleted row
               \* keeps its place with the role "removed"
    invites,   \* rows of organization_invites: [user, role, status, late]
    req        \* req[q]: the progress of request q

vars == <<accounts, members, invites, req>>

Idle == [pc |-> "idle", by |-> Founder, user |-> Founder, role |-> "owner",
         seen |-> "owner", item |-> 0, isNew |-> FALSE]

At(q, pc) == req[q].pc = pc

Present == {i \in DOMAIN members : members[i].role # "removed"}
Owners == {i \in Present : members[i].role = "owner"}
Pending == {i \in DOMAIN invites : invites[i].status = "pending"}

IsMember(u) == \E i \in Present : members[i].user = u
Manages(u) == \E i \in Present : members[i].user = u /\ members[i].role \in Managers

\* register_organization: the organization with its first owner.
Init ==
    /\ accounts \in {a \in SUBSET Users : Founder \in a}
    /\ members = <<[user |-> Founder, role |-> "owner"]>>
    /\ invites = <<>>
    /\ req = [q \in Requests |-> Idle]

BodyPcs == {"findPending", "insertInvite", "findUser", "join", "expire", "revoke",
            "setRole", "countOwners", "delete"}

\* No body is running on the worker of q.
WorkerFree(q) ==
    \A p \in Requests : WorkerOf[p] = WorkerOf[q] => req[p].pc \notin BodyPcs

Go(q, pc) == req' = [req EXCEPT ![q].pc = pc]
Return(q) == req' = [req EXCEPT ![q] = Idle]

\* Another registration (for an organization of their own).
SignUp(u) ==
    /\ accounts' = accounts \cup {u}
    /\ UNCHANGED <<members, invites, req>>

\* get_owner_or_admin_context: the role in the token must be the role of the
\* caller's membership, and it must be owner or admin.
Authenticate(q) ==
    /\ At(q, "idle")
    /\ \E i \in Present :
         /\ members[i].role \in Managers
         /\ req' = [req EXCEPT ![q] = [Idle EXCEPT !.pc = "checked", !.by = members[i].user]]
    /\ UNCHANGED <<accounts, members, invites>>

(***************************************************************************)
(* POST /auth/invite-user.                                                 *)
(***************************************************************************)

\* Mutant: without the look-up of an existing membership.
FindMemberSkipped(q) ==
    /\ At(q, "checked") /\ WorkerFree(q)
    /\ Len(invites) < MaxInvites
    /\ \E u \in Users, role \in Roles :
         req' = [req EXCEPT ![q].pc = "findPending", ![q].user = u, ![q].role = role]
    /\ UNCHANGED <<accounts, members, invites>>

FindMember(q) ==
    /\ At(q, "checked") /\ WorkerFree(q)
    /\ Len(invites) < MaxInvites
    /\ \E u \in Users, role \in Roles :
         /\ ~IsMember(u)
         /\ req' = [req EXCEPT ![q].pc = "findPending", ![q].user = u, ![q].role = role]
    /\ UNCHANGED <<accounts, members, invites>>

\* Mutant: an invite that is past its expiry does not count as pending.
FindPendingInTime(q) ==
    /\ At(q, "findPending")
    /\ \A i \in Pending : invites[i].user # req[q].user \/ invites[i].late
    /\ Go(q, "insertInvite")
    /\ UNCHANGED <<accounts, members, invites>>

\* An invite past its expiry is still pending in the table, and counts.
FindPending(q) ==
    /\ At(q, "findPending")
    /\ \A i \in Pending : invites[i].user # req[q].user
    /\ Go(q, "insertInvite")
    /\ UNCHANGED <<accounts, members, invites>>

\* Mutant: a status that InviteStatus does not have.
InsertInviteAsSent(q) ==
    /\ At(q, "insertInvite")
    /\ invites' = Append(invites, [user |-> req[q].user, role |-> req[q].role,
                                   status |-> "sent", late |-> FALSE])
    /\ Return(q)
    /\ UNCHANGED <<accounts, members>>

InsertInvite(q) ==
    /\ At(q, "insertInvite")
    /\ invites' = Append(invites, [user |-> req[q].user, role |-> req[q].role,
                                   status |-> "pending", late |-> FALSE])
    /\ Return(q)
    /\ UNCHANGED <<accounts, members>>

\* Seven days pass.
Lapse(i) ==
    /\ i \in Pending
    /\ invites' = [invites EXCEPT ![i].late = TRUE]
    /\ UNCHANGED <<accounts, members, req>>

(***************************************************************************)
(* POST /auth/accept-invite: no role check, the caller has the token.      *)
(***************************************************************************)

ReadInvite(q) ==
    /\ At(q, "idle") /\ WorkerFree(q)
    /\ Len(members) < MaxMembers
    /\ \E i \in Pending :
         req' = [req EXCEPT ![q] = [Idle EXCEPT
                    !.pc = IF invites[i].late THEN "expire" ELSE "findUser", !.item = i]]
    /\ UNCHANGED <<accounts, members, invites>>

Expire(q) ==
    /\ At(q, "expire")
    /\ invites' = [invites EXCEPT ![req[q].item].status = "expired"]
    /\ Return(q)
    /\ UNCHANGED <<accounts, members>>

FindUser(q) ==
    /\ At(q, "findUser")
    /\ LET u == invites[req[q].item].user IN
         req' = [req EXCEPT ![q].pc = "join", ![q].user = u, ![q].isNew = u \notin accounts]
    /\ UNCHANGED <<accounts, members, invites>>

\* Mutant: the invite is left as it is.
JoinKeepingInvite(q) ==
    /\ At(q, "join")
    /\ req[q].isNew => req[q].user \notin accounts
    /\ accounts' = accounts \cup {req[q].user}
    /\ members' = Append(members, [user |-> req[q].user, role |-> invites[req[q].item].role])
    /\ Return(q)
    /\ UNCHANGED invites

\* One transaction: the account if there was none (users.email is unique), the
\* membership and the status of the invite.
Join(q) ==
    /\ At(q, "join")
    /\ req[q].isNew => req[q].user \notin accounts
    /\ accounts' = accounts \cup {req[q].user}
    /\ members' = Append(members, [user |-> req[q].user, role |-> invites[req[q].item].role])
    /\ invites' = [invites EXCEPT ![req[q].item].status = "accepted"]
    /\ Return(q)

(***************************************************************************)
(* DELETE /auth/invites/{id}.                                              *)
(***************************************************************************)

\* Mutant: any invite can be revoked.
ReadForRevokeUnchecked(q) ==
    /\ At(q, "checked") /\ WorkerFree(q)
    /\ \E i \in DOMAIN invites : req' = [req EXCEPT ![q].pc = "revoke", ![q].item = i]
    /\ UNCHANGED <<accounts, members, invites>>

ReadForRevoke(q) ==
    /\ At(q, "checked") /\ WorkerFree(q)
    /\ \E i \in Pending : req' = [req EXCEPT ![q].pc = "revoke", ![q].item = i]
    /\ UNCHANGED <<accounts, members, invites>>

Revoke(q) ==
    /\ At(q, "revoke")
    /\ invites' = [invites EXCEPT ![req[q].item].status = "revoked"]
    /\ Return(q)
    /\ UNCHANGED <<accounts, members>>

(***************************************************************************)
(* PUT /auth/members/{id}/role.                                            *)
(***************************************************************************)

ReadForRole(q) ==
    /\ At(q, "checked") /\ WorkerFree(q)
    /\ \E i \in Present, role \in Roles :
         /\ members[i].user # req[q].by
         /\ req' = [req EXCEPT ![q].pc = "setRole", ![q].item = i, ![q].role = role,
                               ![q].seen = members[i].role]
    /\ UNCHANGED <<accounts, members, invites>>

\* Mutant: an upsert, which brings a deleted row back.
SetRoleUpsert(q) ==
    /\ At(q, "setRole")
    /\ members' = [members EXCEPT ![req[q].item].role = req[q].role]
    /\ Return(q)
    /\ UNCHANGED <<accounts, invites>>

\* The UPDATE names the role only when it differs from the one that was read,
\* and an UPDATE that meets no row is an error.
SetRole(q) ==
    /\ At(q, "setRole")
    /\ req[q].item \in Present
    /\ members' = IF req[q].role = req[q].seen THEN members
                  ELSE [members EXCEPT ![req[q].item].role = req[q].role]
    /\ Return(q)
    /\ UNCHANGED <<accounts, invites>>

(***************************************************************************)
(* DELETE /auth/members/{id}.                                              *)
(***************************************************************************)

ReadForRemove(q) ==
    /\ At(q, "checked") /\ WorkerFree(q)
    /\ \E i \in Present :
         /\ members[i].user # req[q].by
         /\ req' = [req EXCEPT ![q].item = i,
                       ![q].pc = IF members[i].role = "owner" THEN "countOwners" ELSE "delete"]
    /\ UNCHANGED <<accounts, members, invites>>

\* Mutant: off by one.
CountOwnersOffByOne(q) ==
    /\ At(q, "countOwners")
    /\ Cardinality(Owners) >= 1
    /\ Go(q, "delete")
    /\ UNCHANGED <<accounts, members, invites>>

CountOwners(q) ==
    /\ At(q, "countOwners")
    /\ Cardinality(Owners) > 1
    /\ Go(q, "delete")
    /\ UNCHANGED <<accounts, members, invites>>

\* A DELETE that meets no row is only a warning.
Delete(q) ==
    /\ At(q, "delete")
    /\ members' = [members EXCEPT ![req[q].item].role = "removed"]
    /\ Return(q)
    /\ UNCHANGED <<accounts, invites>>

\* The request is refused, fails in the database, or its process dies.
Abandon(q) ==
    /\ ~At(q, "idle")
    /\ Return(q)
    /\ UNCHANGED <<accounts, members, invites>>

Invite(q) == FindMember(q) \/ FindPending(q) \/ InsertInvite(q)
Accept(q) == ReadInvite(q) \/ Expire(q) \/ FindUser(q) \/ Join(q)
RevokeInvite(q) == ReadForRevoke(q) \/ Revoke(q)
UpdateMemberRole(q) == ReadForRole(q) \/ SetRole(q)
RemoveMember(q) == ReadForRemove(q) \/ CountOwners(q) \/ Delete(q)

Next ==
    \/ \E u \in Users : SignUp(u)
    \/ \E i \in DOMAIN invites : Lapse(i)
    \/ \E q \in Requests :
          \/ Authenticate(q)
          \/ Invite(q)
          \/ Accept(q)
          \/ RevokeInvite(q)
          \/ UpdateMemberRole(q)
          \/ RemoveMember(q)
          \/ Abandon(q)

Spec == Init /\ [][Next]_vars

--------------------------------------------------------------------------------
(***************************************************************************)
(* Properties.                                                             *)
(***************************************************************************)

Member == [user : Users, role : Roles \cup {"removed"}]

InviteRow == [user : Users, role : Roles, late : BOOLEAN,
              status : {"pending", "accepted", "expired", "revoked"}]

Request == [pc : {"idle", "checked"} \cup BodyPcs, by : Users, user : Users, role : Roles,
            seen : Roles, item : Nat, isNew : BOOLEAN]

\* The type invariant; a request refers to rows that exist.
TypeOK ==
    /\ accounts \subseteq Users
    /\ members \in Seq(Member)
    /\ invites \in Seq(InviteRow)
    /\ req \in [Requests -> Request]
    /\ \A q \in Requests :
         /\ req[q].pc \in {"findUser", "join", "expire", "revoke"} =>
              req[q].item \in DOMAIN invites
         /\ req[q].pc \in {"setRole", "countOwners", "delete"} =>
              req[q].item \in DOMAIN members

\* No user is a member twice, although organization_members has no unique
\* constraint: an invite is only made for an outsider without a pending invite,
\* and while it is pending nothing else can make its user a member.
OneMembershipPerUser ==
    \A i, j \in Present : members[i].user = members[j].user => i = j

\* Whoever has a pending invite, late or not, is not a member: accepting it can
\* not add a second membership.
InviteesAreOutsiders == \A i \in Pending : ~IsMember(invites[i].user)

\* Every membership other than the founder's was made by one accepted invite of
\* its own.
EachInviteAdmitsOne ==
    Len(members) = 1 + Cardinality({i \in DOMAIN invites : invites[i].status = "accepted"})

\* An invite is settled once: it is not revoked after it was accepted, nor
\* accepted after it was revoked or expired.
InvitesSettleOnce ==
    [][\A i \in DOMAIN invites \ Pending : invites'[i].status = invites[i].status]_vars

\* A membership that was removed does not come back, also when a role change
\* and the removal overlap.
RemovedStaysRemoved ==
    [][\A i \in DOMAIN members \ Present : members'[i] = members[i]]_vars

\* Removing an owner leaves another owner ("Cannot remove the last owner.
\* Promote another member to owner first.", routes/auth/auth.py:704).
RemovalKeepsAnOwner ==
    [][\A i \in Owners : members'[i].role = "removed" => Owners' # {}]_vars
================================================================================
