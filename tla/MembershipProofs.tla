--------------------------- MODULE MembershipProofs ---------------------------
(***************************************************************************)
(* Theorems about Membership.  Type correctness and the finality of a      *)
(* removal hold for any assignment of requests to workers; the rest holds  *)
(* when all requests are handled by one worker, for any number of users,   *)
(* roles, requests and invites.                                            *)
(***************************************************************************)
EXTENDS Membership, FiniteSetTheorems, SequenceTheorems, TLAPS

USE ConstantsAssumption DEF Managers

\* A role written into a row of organization_members.
LEMMA ChangedRole ==
    ASSUME members \in Seq(Member), NEW i \in DOMAIN members,
           NEW role \in Roles \cup {"removed"},
           members' = [members EXCEPT ![i].role = role]
    PROVE  /\ members' \in Seq(Member)
           /\ Len(members') = Len(members)
           /\ DOMAIN members' = DOMAIN members
           /\ \A j \in DOMAIN members : members'[j].user = members[j].user
           /\ \A j \in DOMAIN members \ {i} : members'[j] = members[j]
           /\ members'[i].role = role
<1>1. members[i] \in Member
    BY ElementOfSeq
<1>2. [members[i] EXCEPT !.role = role] \in Member
    BY <1>1 DEF Member
<1> QED
    BY <1>1, <1>2, ExceptSeq DEF Member

\* A change to one row of organization_invites that keeps its user.
LEMMA ChangedInvite ==
    ASSUME invites \in Seq(InviteRow), NEW i \in DOMAIN invites, NEW row \in InviteRow,
           row.user = invites[i].user,
           invites' = [invites EXCEPT ![i] = row]
    PROVE  /\ invites' \in Seq(InviteRow)
           /\ DOMAIN invites' = DOMAIN invites
           /\ Len(invites') = Len(invites)
           /\ \A j \in DOMAIN invites : invites'[j].user = invites[j].user
           /\ \A j \in DOMAIN invites \ {i} : invites'[j] = invites[j]
           /\ invites'[i] = row
    BY ExceptSeq

\* The same for a change of the status.
LEMMA ChangedStatus ==
    ASSUME invites \in Seq(InviteRow), NEW i \in DOMAIN invites,
           NEW status \in {"pending", "accepted", "expired", "revoked"},
           invites' = [invites EXCEPT ![i].status = status]
    PROVE  /\ invites' \in Seq(InviteRow)
           /\ DOMAIN invites' = DOMAIN invites
           /\ Len(invites') = Len(invites)
           /\ \A j \in DOMAIN invites : invites'[j].user = invites[j].user
           /\ \A j \in DOMAIN invites \ {i} : invites'[j] = invites[j]
           /\ invites'[i].status = status
<1> DEFINE row == [invites[i] EXCEPT !.status = status]
<1>1. invites[i] \in InviteRow
    BY ElementOfSeq
<1>2. row \in InviteRow /\ row.user = invites[i].user /\ row.status = status
    BY <1>1 DEF InviteRow
<1>3. invites' = [invites EXCEPT ![i] = row]
    OBVIOUS
<1> HIDE DEF row
<1> QED
    BY <1>2, <1>3, ChangedInvite

--------------------------------------------------------------------------------
(***************************************************************************)
(* Type correctness, for any number of workers.                            *)
(***************************************************************************)

LEMMA TypeInit == Init => TypeOK
<1> SUFFICES ASSUME Init PROVE TypeOK
    OBVIOUS
<1>1. [user |-> Founder, role |-> "owner"] \in Member
    BY DEF Member
<1>2. members \in Seq(Member) /\ invites \in Seq(InviteRow)
    BY <1>1 DEF Init
<1>3. req \in [Requests -> Request] /\ \A q \in Requests : req[q].pc = "idle"
    BY DEF Init, Idle, Request
<1> QED
    BY <1>2, <1>3 DEF Init, TypeOK

\* Steps that only read, and change only the record of their request.
ReadStep(q) ==
    \/ Authenticate(q)
    \/ FindMember(q)
    \/ FindPending(q)
    \/ ReadInvite(q)
    \/ FindUser(q)
    \/ ReadForRevoke(q)
    \/ ReadForRole(q)
    \/ ReadForRemove(q)
    \/ CountOwners(q)
    \/ Abandon(q)

WriteStep(q) ==
    \/ InsertInvite(q)
    \/ Expire(q)
    \/ Join(q)
    \/ Revoke(q)
    \/ SetRole(q)
    \/ Delete(q)

LEMMA NextSplit ==
    ASSUME Next
    PROVE  \/ \E u \in Users : SignUp(u)
           \/ \E i \in DOMAIN invites : Lapse(i)
           \/ \E q \in Requests : ReadStep(q) \/ WriteStep(q)
    BY DEF Next, Invite, Accept, RevokeInvite, UpdateMemberRole, RemoveMember, ReadStep, WriteStep

\* The rows that positions refer to.
LEMMA MemberRow ==
    ASSUME members \in Seq(Member), NEW i \in DOMAIN members
    PROVE  /\ i \in Nat
           /\ members[i].user \in Users
           /\ members[i].role \in Roles \cup {"removed"}
<1>1. i \in 1 .. Len(members) /\ Len(members) \in Nat
    BY LenProperties
<1>2. members[i] \in Member
    BY <1>1, ElementOfSeq
<1> QED
    BY <1>1, <1>2 DEF Member

LEMMA InviteOfRow ==
    ASSUME invites \in Seq(InviteRow), NEW i \in DOMAIN invites
    PROVE  /\ i \in Nat
           /\ invites[i].user \in Users
           /\ invites[i].role \in Roles
           /\ invites[i].late \in BOOLEAN
<1>1. i \in 1 .. Len(invites) /\ Len(invites) \in Nat
    BY LenProperties
<1>2. invites[i] \in InviteRow
    BY <1>1, ElementOfSeq
<1> QED
    BY <1>1, <1>2 DEF InviteRow

\* What a reading step does to the record of its request.
LEMMA ReadStepRecord ==
    ASSUME TypeOK, NEW q \in Requests, ReadStep(q)
    PROVE  /\ UNCHANGED <<accounts, members, invites>>
           /\ req' \in [Requests -> Request]
           /\ \A p \in Requests \ {q} : req'[p] = req[p]
           /\ req'[q].pc \in {"findUser", "join", "expire", "revoke"} =>
                req'[q].item \in DOMAIN invites
           /\ req'[q].pc \in {"setRole", "countOwners", "delete"} =>
                req'[q].item \in DOMAIN members
<1>0. /\ req \in [Requests -> Request] /\ req[q] \in Request
      /\ members \in Seq(Member) /\ invites \in Seq(InviteRow)
    BY DEF TypeOK
<1>1. CASE Authenticate(q)
    <2>1. PICK i \in Present : req' = [req EXCEPT ![q] =
              [Idle EXCEPT !.pc = "checked", !.by = members[i].user]]
        BY <1>1 DEF Authenticate
    <2>2. members[i].user \in Users
        BY <1>0, MemberRow DEF Present
    <2> QED
        BY <1>0, <1>1, <2>1, <2>2 DEF Authenticate, Request, Idle
<1>2. CASE FindMember(q)
    <2>1. PICK u \in Users, role \in Roles :
              req' = [req EXCEPT ![q].pc = "findPending", ![q].user = u, ![q].role = role]
        BY <1>2 DEF FindMember
    <2> QED
        BY <1>0, <1>2, <2>1 DEF FindMember, Request, BodyPcs
<1>3. CASE FindPending(q)
    BY <1>0, <1>3 DEF FindPending, Go, Request, BodyPcs
<1>4. CASE ReadInvite(q)
    <2>1. PICK i \in Pending : req' = [req EXCEPT ![q] = [Idle EXCEPT
              !.pc = IF invites[i].late THEN "expire" ELSE "findUser", !.item = i]]
        BY <1>4 DEF ReadInvite
    <2>2. i \in DOMAIN invites /\ i \in Nat
        BY <1>0, InviteOfRow DEF Pending
    <2> QED
        BY <1>0, <1>4, <2>1, <2>2 DEF ReadInvite, Request, Idle, BodyPcs
<1>5. CASE FindUser(q)
    <2>1. req[q].item \in DOMAIN invites
        BY <1>5 DEF FindUser, At, TypeOK
    <2>2. invites[req[q].item].user \in Users
        BY <1>0, <2>1, InviteOfRow
    <2> QED
        BY <1>0, <1>5, <2>1, <2>2 DEF FindUser, At, Request, BodyPcs
<1>6. CASE ReadForRevoke(q)
    <2>1. PICK i \in Pending : req' = [req EXCEPT ![q].pc = "revoke", ![q].item = i]
        BY <1>6 DEF ReadForRevoke
    <2>2. i \in DOMAIN invites /\ i \in Nat
        BY <1>0, InviteOfRow DEF Pending
    <2> QED
        BY <1>0, <1>6, <2>1, <2>2 DEF ReadForRevoke, Request, BodyPcs
<1>7. CASE ReadForRole(q)
    <2>1. PICK i \in Present, role \in Roles :
              req' = [req EXCEPT ![q].pc = "setRole", ![q].item = i, ![q].role = role,
                                 ![q].seen = members[i].role]
        BY <1>7 DEF ReadForRole
    <2>2. i \in DOMAIN members /\ i \in Nat /\ members[i].role \in Roles
        BY <1>0, MemberRow DEF Present
    <2> QED
        BY <1>0, <1>7, <2>1, <2>2 DEF ReadForRole, Request, BodyPcs
<1>8. CASE ReadForRemove(q)
    <2>1. PICK i \in Present : req' = [req EXCEPT ![q].item = i,
              ![q].pc = IF members[i].role = "owner" THEN "countOwners" ELSE "delete"]
        BY <1>8 DEF ReadForRemove
    <2>2. i \in DOMAIN members /\ i \in Nat
        BY <1>0, MemberRow DEF Present
    <2> QED
        BY <1>0, <1>8, <2>1, <2>2 DEF ReadForRemove, Request, BodyPcs
<1>9. CASE CountOwners(q)
    <2>1. req[q].item \in DOMAIN members
        BY <1>9 DEF CountOwners, At, TypeOK
    <2> QED
        BY <1>0, <1>9, <2>1 DEF CountOwners, Go, At, Request, BodyPcs
<1>10. CASE Abandon(q)
    BY <1>0, <1>10 DEF Abandon, Return, Idle, Request
<1> QED
    BY <1>1, <1>2, <1>3, <1>4, <1>5, <1>6, <1>7, <1>8, <1>9, <1>10 DEF ReadStep

\* What a writing step does: its request has returned, and it added or changed
\* one row of each table it wrote.
LEMMA WriteStepRecord ==
    ASSUME TypeOK, NEW q \in Requests, WriteStep(q)
    PROVE  /\ req[q].pc \in BodyPcs
           /\ req' = [req EXCEPT ![q] = Idle]
           /\ req' \in [Requests -> Request]
<1>1. req[q].pc \in BodyPcs /\ Return(q)
    BY DEF WriteStep, InsertInvite, Expire, Join, Revoke, SetRole, Delete, At, BodyPcs
<1>2. Idle \in Request /\ req \in [Requests -> Request]
    BY DEF Idle, Request, TypeOK
<1> QED
    BY <1>1, <1>2 DEF Return

LEMMA WriteStepTables ==
    ASSUME TypeOK, NEW q \in Requests, WriteStep(q)
    PROVE  /\ accounts' \subseteq Users
           /\ members' \in Seq(Member) /\ DOMAIN members \subseteq DOMAIN members'
           /\ invites' \in Seq(InviteRow) /\ DOMAIN invites \subseteq DOMAIN invites'
<1>0. /\ req[q] \in Request /\ accounts \subseteq Users
      /\ members \in Seq(Member) /\ invites \in Seq(InviteRow)
    BY DEF TypeOK
<1>1. CASE InsertInvite(q)
    <2> DEFINE row == [user |-> req[q].user, role |-> req[q].role,
                       status |-> "pending", late |-> FALSE]
    <2>1. row \in InviteRow
        BY <1>0 DEF Request, InviteRow
    <2>2. invites' = Append(invites, row) /\ UNCHANGED <<accounts, members>>
        BY <1>1 DEF InsertInvite
    <2> QED
        BY <1>0, <2>1, <2>2, AppendProperties
<1>2. CASE Join(q)
    <2> DEFINE row == [user |-> req[q].user, role |-> invites[req[q].item].role]
    <2>1. req[q].item \in DOMAIN invites
        BY <1>2 DEF Join, At, TypeOK
    <2>2. row \in Member
        BY <1>0, <2>1, InviteOfRow DEF Request, Member
    <2>3. members' = Append(members, row)
        BY <1>2 DEF Join
    <2>4. members' \in Seq(Member) /\ DOMAIN members \subseteq DOMAIN members'
        BY <1>0, <2>2, <2>3, AppendProperties
    <2>5. invites' \in Seq(InviteRow) /\ DOMAIN invites \subseteq DOMAIN invites'
        BY <1>0, <1>2, <2>1, ChangedStatus DEF Join
    <2>6. accounts' \subseteq Users
        BY <1>0, <1>2 DEF Join, Request
    <2> QED
        BY <2>4, <2>5, <2>6
<1>3. CASE Expire(q) \/ Revoke(q)
    <2>1. req[q].item \in DOMAIN invites
        BY <1>3 DEF Expire, Revoke, At, TypeOK
    <2>2. CASE Expire(q)
        BY <1>0, <2>1, <2>2, ChangedStatus DEF Expire
    <2>3. CASE Revoke(q)
        BY <1>0, <2>1, <2>3, ChangedStatus DEF Revoke
    <2> QED
        BY <1>3, <2>2, <2>3
<1>4. CASE SetRole(q)
    <2>1. req[q].item \in DOMAIN members /\ req[q].role \in Roles
        BY <1>0, <1>4 DEF SetRole, Present, Request
    <2>2. CASE members' = members
        BY <1>0, <1>4, <2>2 DEF SetRole
    <2>3. CASE members' = [members EXCEPT ![req[q].item].role = req[q].role]
        BY <1>0, <1>4, <2>1, <2>3, ChangedRole DEF SetRole
    <2> QED
        BY <1>4, <2>2, <2>3 DEF SetRole
<1>5. CASE Delete(q)
    <2>1. req[q].item \in DOMAIN members
        BY <1>5 DEF Delete, At, TypeOK
    <2> QED
        BY <1>0, <1>5, <2>1, ChangedRole DEF Delete
<1> QED
    BY <1>1, <1>2, <1>3, <1>4, <1>5 DEF WriteStep

LEMMA LapseTables ==
    ASSUME TypeOK, NEW i \in DOMAIN invites, Lapse(i)
    PROVE  /\ invites' \in Seq(InviteRow)
           /\ DOMAIN invites' = DOMAIN invites
           /\ \A j \in DOMAIN invites : /\ invites'[j].user = invites[j].user
                                        /\ invites'[j].status = invites[j].status
<1> DEFINE row == [invites[i] EXCEPT !.late = TRUE]
<1>1. invites[i] \in InviteRow
    BY ElementOfSeq DEF TypeOK
<1>2. /\ row \in InviteRow /\ row.user = invites[i].user /\ row.status = invites[i].status
    BY <1>1 DEF InviteRow
<1>3. invites' = [invites EXCEPT ![i] = row]
    BY DEF Lapse
<1> HIDE DEF row
<1> QED
    BY <1>2, <1>3, ChangedInvite DEF TypeOK

LEMMA TypeStep == TypeOK /\ [Next]_vars => TypeOK'
<1> SUFFICES ASSUME TypeOK, [Next]_vars PROVE TypeOK'
    OBVIOUS
<1>1. ASSUME NEW u \in Users, SignUp(u) PROVE TypeOK'
    BY <1>1 DEF SignUp, TypeOK
<1>2. ASSUME NEW i \in DOMAIN invites, Lapse(i) PROVE TypeOK'
    BY <1>2, LapseTables DEF Lapse, TypeOK
<1>3. ASSUME NEW q \in Requests, ReadStep(q) PROVE TypeOK'
    BY <1>3, ReadStepRecord DEF TypeOK
<1>4. ASSUME NEW q \in Requests, WriteStep(q) PROVE TypeOK'
    <2>1. req'[q].pc = "idle" /\ \A p \in Requests \ {q} : req'[p] = req[p]
        BY <1>4, WriteStepRecord DEF Idle, TypeOK
    <2> QED
        BY <1>4, <2>1, WriteStepRecord, WriteStepTables DEF TypeOK
<1>5. CASE UNCHANGED vars
    BY <1>5 DEF vars, TypeOK
<1> QED
    BY <1>1, <1>2, <1>3, <1>4, <1>5, NextSplit

\* Records are well formed and requests refer to rows that exist, for any
\* number of workers.
THEOREM TypeCorrect == Spec => []TypeOK
    BY TypeInit, TypeStep, PTL DEF Spec

\* A removal is final, for any number of workers.
THEOREM RemovalIsFinal == Spec => RemovedStaysRemoved
<1>1. ASSUME TypeOK, [Next]_vars, NEW i \in DOMAIN members \ Present
      PROVE  members'[i] = members[i]
    <2>1. ASSUME NEW q \in Requests, WriteStep(q) PROVE members'[i] = members[i]
        <3>0. members \in Seq(Member) /\ req[q] \in Request
            BY <1>1 DEF TypeOK
        <3>1. CASE Join(q)
            BY <1>1, <3>0, <3>1, AppendProperties, WriteStepTables DEF Join, WriteStep, Member
        <3>2. CASE SetRole(q)
            <4>1. req[q].item \in Present /\ req[q].item # i
                BY <1>1, <3>2 DEF SetRole
            <4> QED
                BY <3>0, <3>2, <4>1 DEF SetRole
        <3>3. CASE Delete(q)
            <4>1. members[i].role = "removed" /\ members[i] \in Member
                BY <1>1, <3>0, ElementOfSeq DEF Present
            <4>2. members'[i] = [members[i] EXCEPT !.role = "removed"] \/ members'[i] = members[i]
                BY <1>1, <3>0, <3>3 DEF Delete
            <4> QED
                BY <4>1, <4>2 DEF Member
        <3>4. CASE InsertInvite(q) \/ Expire(q) \/ Revoke(q)
            BY <3>4 DEF InsertInvite, Expire, Revoke
        <3> QED
            BY <2>1, <3>1, <3>2, <3>3, <3>4 DEF WriteStep
    <2>2. ASSUME NEW q \in Requests, ReadStep(q) PROVE members'[i] = members[i]
        BY <1>1, <2>2, ReadStepRecord
    <2> QED
        BY <1>1, <2>1, <2>2, NextSplit DEF SignUp, Lapse, vars
<1>2. TypeOK /\ [Next]_vars =>
          \A i \in DOMAIN members \ Present : members'[i] = members[i]
    BY <1>1
<1> QED
    BY <1>2, TypeCorrect, PTL DEF Spec, RemovedStaysRemoved

--------------------------------------------------------------------------------
(***************************************************************************)
(* One worker: what a body reads holds until it writes.                    *)
(***************************************************************************)

SingleWorker == \A p, q \in Requests : WorkerOf[p] = WorkerOf[q]

Accepted == {i \in DOMAIN invites : invites[i].status = "accepted"}

BodiesExclude ==
    \A p, q \in Requests :
        (req[p].pc \in BodyPcs /\ req[q].pc \in BodyPcs) => p = q

OnePendingPerUser ==
    \A i, j \in Pending : invites[i].user = invites[j].user => i = j

\* What a body has read, at each of its places.
ReadsHold(q) ==
    /\ req[q].pc \in {"findPending", "insertInvite"} => ~IsMember(req[q].user)
    /\ req[q].pc = "insertInvite" => \A i \in Pending : invites[i].user # req[q].user
    /\ req[q].pc \in {"findUser", "join", "expire", "revoke"} => req[q].item \in Pending
    /\ req[q].pc = "join" => req[q].user = invites[req[q].item].user
    /\ req[q].pc \in {"setRole", "countOwners", "delete"} => req[q].item \in Present
    /\ req[q].pc = "countOwners" => req[q].item \in Owners
    /\ (req[q].pc = "delete" /\ req[q].item \in Owners) => Owners \ {req[q].item} # {}

\* The inductive invariant: OneMembershipPerUser needs that invited users are
\* outsiders with one pending invite each, which needs that what a body has
\* read is still so when it writes.
IndInv ==
    /\ TypeOK
    /\ BodiesExclude
    /\ \A q \in Requests : ReadsHold(q)
    /\ OnePendingPerUser
    /\ OneMembershipPerUser
    /\ InviteesAreOutsiders
    /\ EachInviteAdmitsOne

LEMMA InitIndInv == Init => IndInv
<1> SUFFICES ASSUME Init PROVE IndInv
    OBVIOUS
<1>1. TypeOK
    BY TypeInit
<1>2. /\ members = <<[user |-> Founder, role |-> "owner"]>>
      /\ DOMAIN members = {1} /\ Len(members) = 1 /\ DOMAIN invites = {}
    BY DEF Init
<1>3. Pending = {} /\ Accepted = {} /\ Present \subseteq {1}
    BY <1>2 DEF Pending, Accepted, Present
<1>4. \A q \in Requests : req[q].pc = "idle"
    BY DEF Init, Idle
<1>5. BodiesExclude /\ \A q \in Requests : ReadsHold(q)
    BY <1>4 DEF BodiesExclude, ReadsHold, BodyPcs
<1>6. Cardinality(Accepted) = 0
    BY <1>3, FS_EmptySet
<1>7. EachInviteAdmitsOne
    BY <1>2, <1>6 DEF EachInviteAdmitsOne, Accepted
<1> QED
    BY <1>1, <1>3, <1>5, <1>7
    DEF IndInv, OnePendingPerUser, OneMembershipPerUser, InviteesAreOutsiders

\* Without a change to the tables the parts about the tables stay.
LEMMA TablesKept ==
    ASSUME IndInv, UNCHANGED <<members, invites>>
    PROVE  /\ OnePendingPerUser' /\ OneMembershipPerUser'
           /\ InviteesAreOutsiders' /\ EachInviteAdmitsOne'
           /\ Present' = Present /\ Owners' = Owners /\ Pending' = Pending
           /\ \A u \in Users : IsMember(u)' <=> IsMember(u)
    BY DEF IndInv, OnePendingPerUser, OneMembershipPerUser, InviteesAreOutsiders,
           EachInviteAdmitsOne, Present, Owners, Pending, IsMember

\* A step that reads: its body is now the only one, and has read what it says.
LEMMA ReadStepKeeps ==
    ASSUME SingleWorker, IndInv, NEW q \in Requests, ReadStep(q)
    PROVE  BodiesExclude' /\ \A p \in Requests : ReadsHold(p)'
<1>0. /\ UNCHANGED <<accounts, members, invites>>
      /\ req \in [Requests -> Request] /\ req' \in [Requests -> Request]
      /\ \A p \in Requests \ {q} : req'[p] = req[p]
    BY ReadStepRecord DEF IndInv, TypeOK
<1>a. ASSUME Authenticate(q) \/ Abandon(q) PROVE req'[q].pc \in {"idle", "checked"}
    <2>1. CASE Authenticate(q)
        <3>1. PICK i \in Present : req' = [req EXCEPT ![q] =
                  [Idle EXCEPT !.pc = "checked", !.by = members[i].user]]
            BY <2>1 DEF Authenticate
        <3> QED
            BY <1>0, <3>1 DEF Idle
    <2>2. CASE Abandon(q)
        BY <1>0, <2>2 DEF Abandon, Return, Idle
    <2> QED
        BY <1>a, <2>1, <2>2
<1>1. ASSUME req'[q].pc \in BodyPcs
      PROVE  \A p \in Requests \ {q} : req[p].pc \notin BodyPcs
    <2>1. CASE WorkerFree(q)
        BY <2>1 DEF WorkerFree, SingleWorker
    <2>2. CASE req[q].pc \in BodyPcs
        BY <2>2 DEF IndInv, BodiesExclude
    <2>3. CASE Authenticate(q) \/ Abandon(q)
        BY <1>1, <1>a, <2>3 DEF BodyPcs
    <2> QED
        BY <2>1, <2>2, <2>3 DEF ReadStep, FindMember, FindPending, ReadInvite, FindUser,
           ReadForRevoke, ReadForRole, ReadForRemove, CountOwners, At, BodyPcs
<1>2. BodiesExclude'
    BY <1>0, <1>1 DEF IndInv, BodiesExclude
<1>3. ASSUME NEW p \in Requests \ {q} PROVE ReadsHold(p)'
    BY <1>0, <1>3 DEF IndInv, ReadsHold, IsMember, Present, Pending, Owners
<1>4. ReadsHold(q)'
    <2>1. CASE Authenticate(q) \/ Abandon(q)
        BY <1>a, <2>1 DEF ReadsHold
    <2>2. CASE FindMember(q)
        <3>1. PICK u \in Users, role \in Roles :
                 /\ ~IsMember(u)
                 /\ req' = [req EXCEPT ![q].pc = "findPending", ![q].user = u,
                                       ![q].role = role]
            BY <2>2 DEF FindMember
        <3>2. req'[q].pc = "findPending" /\ req'[q].user = u
            BY <1>0, <3>1 DEF Request
        <3> QED
            BY <1>0, <3>1, <3>2 DEF ReadsHold, IsMember, Present
    <2>3. CASE FindPending(q)
        <3>1. req'[q].pc = "insertInvite" /\ req'[q].user = req[q].user
            BY <1>0, <2>3 DEF FindPending, Go, Request
        <3>2. ~IsMember(req[q].user)
            BY <2>3 DEF FindPending, At, IndInv, ReadsHold
        <3>3. \A i \in Pending : invites[i].user # req[q].user
            BY <2>3 DEF FindPending
        <3> QED
            BY <1>0, <3>1, <3>2, <3>3 DEF ReadsHold, IsMember, Present, Pending
    <2>4. CASE ReadInvite(q)
        <3>1. PICK i \in Pending : req' = [req EXCEPT ![q] = [Idle EXCEPT
                  !.pc = IF invites[i].late THEN "expire" ELSE "findUser", !.item = i]]
            BY <2>4 DEF ReadInvite
        <3>2. req'[q].pc \in {"expire", "findUser"} /\ req'[q].item = i
            BY <1>0, <3>1 DEF Idle
        <3> QED
            BY <1>0, <3>2 DEF ReadsHold, Pending
    <2>5. CASE FindUser(q)
        <3>1. /\ req'[q].pc = "join" /\ req'[q].item = req[q].item
              /\ req'[q].user = invites[req[q].item].user
            BY <1>0, <2>5 DEF FindUser, Request
        <3>2. req[q].item \in Pending
            BY <2>5 DEF FindUser, At, IndInv, ReadsHold
        <3> QED
            BY <1>0, <3>1, <3>2 DEF ReadsHold, Pending
    <2>6. CASE ReadForRevoke(q)
        <3>1. PICK i \in Pending : req' = [req EXCEPT ![q].pc = "revoke", ![q].item = i]
            BY <2>6 DEF ReadForRevoke
        <3>2. req'[q].pc = "revoke" /\ req'[q].item = i
            BY <1>0, <3>1 DEF Request
        <3> QED
            BY <1>0, <3>2 DEF ReadsHold, Pending
    <2>7. CASE ReadForRole(q)
        <3>1. PICK i \in Present, role \in Roles :
                 req' = [req EXCEPT ![q].pc = "setRole", ![q].item = i, ![q].role = role,
                                    ![q].seen = members[i].role]
            BY <2>7 DEF ReadForRole
        <3>2. req'[q].pc = "setRole" /\ req'[q].item = i
            BY <1>0, <3>1 DEF Request
        <3> QED
            BY <1>0, <3>2 DEF ReadsHold, Present
    <2>8. CASE ReadForRemove(q)
        <3>1. PICK i \in Present : req' = [req EXCEPT ![q].item = i,
                  ![q].pc = IF members[i].role = "owner" THEN "countOwners" ELSE "delete"]
            BY <2>8 DEF ReadForRemove
        <3>2. /\ req'[q].item = i
              /\ req'[q].pc = IF members[i].role = "owner" THEN "countOwners" ELSE "delete"
            BY <1>0, <3>1 DEF Request
        <3> QED
            BY <1>0, <3>2 DEF ReadsHold, Present, Owners
    <2>9. CASE CountOwners(q)
        <3>1. req'[q].pc = "delete" /\ req'[q].item = req[q].item
            BY <1>0, <2>9 DEF CountOwners, Go, Request
        <3>2. req[q].item \in Present /\ Cardinality(Owners) > 1
            BY <2>9 DEF CountOwners, At, IndInv, ReadsHold
        <3>3. Owners \ {req[q].item} # {}
            <4>1. SUFFICES ASSUME Owners \subseteq {req[q].item} PROVE FALSE
                OBVIOUS
            <4>2. Cardinality({req[q].item}) = 1 /\ IsFiniteSet({req[q].item})
                BY FS_Singleton
            <4>3. Cardinality(Owners) <= 1
                BY <4>1, <4>2, FS_Subset
            <4> QED
                BY <3>2, <4>2, <4>1, <4>3, FS_Subset, FS_CardinalityType
        <3> QED
            BY <1>0, <3>1, <3>2, <3>3 DEF ReadsHold, Present, Owners
    <2> QED
        BY <2>1, <2>2, <2>3, <2>4, <2>5, <2>6, <2>7, <2>8, <2>9 DEF ReadStep
<1> QED
    BY <1>2, <1>3, <1>4

\* A step that writes ends the only body there was.
LEMMA WriteStepEnds ==
    ASSUME IndInv, NEW q \in Requests, WriteStep(q)
    PROVE  BodiesExclude' /\ \A p \in Requests : ReadsHold(p)'
<1>1. \A p \in Requests : req'[p].pc \notin BodyPcs
    BY WriteStepRecord DEF IndInv, TypeOK, BodiesExclude, Idle, BodyPcs
<1> QED
    BY <1>1 DEF BodiesExclude, ReadsHold, BodyPcs

\* One lemma for each writing step: the tables are still right.
LEMMA InsertInviteKeeps ==
    ASSUME IndInv, NEW q \in Requests, InsertInvite(q)
    PROVE  /\ OnePendingPerUser' /\ OneMembershipPerUser'
           /\ InviteesAreOutsiders' /\ EachInviteAdmitsOne'
<1> DEFINE row == [user |-> req[q].user, role |-> req[q].role,
                   status |-> "pending", late |-> FALSE]
           n == Len(invites) + 1
<1>0. req[q] \in Request /\ invites \in Seq(InviteRow)
    BY DEF IndInv, TypeOK
<1>1. row \in InviteRow
    BY <1>0 DEF Request, InviteRow
<1>2. invites' = Append(invites, row) /\ UNCHANGED members
    BY DEF InsertInvite
<1>3. /\ DOMAIN invites' = DOMAIN invites \cup {n} /\ n \notin DOMAIN invites
      /\ \A i \in DOMAIN invites : invites'[i] = invites[i]
      /\ invites'[n] = row
    BY <1>0, <1>1, <1>2, AppendProperties, LenProperties
<1>4. Pending' = Pending \cup {n} /\ Accepted' = Accepted
    BY <1>3 DEF Pending, Accepted
<1>5. ~IsMember(row.user) /\ \A i \in Pending : invites[i].user # row.user
    BY DEF InsertInvite, At, IndInv, ReadsHold
<1> HIDE DEF row, n
<1>6. OnePendingPerUser'
    BY <1>3, <1>4, <1>5 DEF IndInv, OnePendingPerUser, Pending
<1>7. InviteesAreOutsiders'
    BY <1>2, <1>3, <1>4, <1>5
    DEF IndInv, InviteesAreOutsiders, IsMember, Present, Pending
<1>8. OneMembershipPerUser' /\ EachInviteAdmitsOne'
    BY <1>2, <1>4
    DEF IndInv, OneMembershipPerUser, Present, EachInviteAdmitsOne, Accepted
<1> QED
    BY <1>6, <1>7, <1>8

\* An invite that is settled without being accepted.
LEMMA SettleKeeps ==
    ASSUME IndInv, NEW q \in Requests, Expire(q) \/ Revoke(q)
    PROVE  /\ OnePendingPerUser' /\ OneMembershipPerUser'
           /\ InviteesAreOutsiders' /\ EachInviteAdmitsOne'
<1> DEFINE n == req[q].item
<1>1. n \in Pending /\ n \in DOMAIN invites /\ UNCHANGED members
    BY DEF Expire, Revoke, At, IndInv, ReadsHold, Pending
<1>2. PICK status \in {"expired", "revoked"} :
          invites' = [invites EXCEPT ![n].status = status]
    BY DEF Expire, Revoke
<1>3. /\ DOMAIN invites' = DOMAIN invites
      /\ \A j \in DOMAIN invites : invites'[j].user = invites[j].user
      /\ \A j \in DOMAIN invites \ {n} : invites'[j] = invites[j]
      /\ invites'[n].status = status
    BY <1>1, <1>2, ChangedStatus DEF IndInv, TypeOK
<1> HIDE DEF n
<1>4. Pending' = Pending \ {n} /\ Accepted' = Accepted
    BY <1>1, <1>3 DEF Pending, Accepted
<1>5. OnePendingPerUser' /\ InviteesAreOutsiders'
    BY <1>1, <1>3, <1>4
    DEF IndInv, OnePendingPerUser, InviteesAreOutsiders, IsMember, Present, Pending
<1>6. OneMembershipPerUser' /\ EachInviteAdmitsOne'
    BY <1>1, <1>4
    DEF IndInv, OneMembershipPerUser, Present, EachInviteAdmitsOne, Accepted
<1> QED
    BY <1>5, <1>6

LEMMA JoinKeeps ==
    ASSUME IndInv, NEW q \in Requests, Join(q)
    PROVE  /\ OnePendingPerUser' /\ OneMembershipPerUser'
           /\ InviteesAreOutsiders' /\ EachInviteAdmitsOne'
<1> DEFINE n == req[q].item
           row == [user |-> req[q].user, role |-> invites[n].role]
           m == Len(members) + 1
<1>0. members \in Seq(Member) /\ invites \in Seq(InviteRow) /\ req[q] \in Request
    BY DEF IndInv, TypeOK
<1>1. /\ n \in Pending /\ n \in DOMAIN invites /\ req[q].user = invites[n].user
      /\ ~IsMember(req[q].user)
    BY DEF Join, At, IndInv, ReadsHold, Pending, InviteesAreOutsiders
<1>2. row \in Member /\ row.user = req[q].user /\ row.role \in Roles
    BY <1>0, <1>1, InviteOfRow DEF Member, Request
<1>3. members' = Append(members, row) /\ invites' = [invites EXCEPT ![n].status = "accepted"]
    BY DEF Join
<1>4. /\ DOMAIN members' = DOMAIN members \cup {m} /\ m \notin DOMAIN members
      /\ Len(members') = Len(members) + 1 /\ Len(members) \in Nat
      /\ \A i \in DOMAIN members : members'[i] = members[i]
      /\ members'[m] = row
    BY <1>0, <1>2, <1>3, AppendProperties, LenProperties
<1>5. /\ DOMAIN invites' = DOMAIN invites
      /\ \A j \in DOMAIN invites : invites'[j].user = invites[j].user
      /\ \A j \in DOMAIN invites \ {n} : invites'[j] = invites[j]
      /\ invites'[n].status = "accepted"
    BY <1>0, <1>1, <1>3, ChangedStatus
<1> HIDE DEF row, n, m
<1>6. Present' = Present \cup {m}
    BY <1>2, <1>4 DEF Present
<1>7. Pending' = Pending \ {n} /\ Accepted' = Accepted \cup {n} /\ n \notin Accepted
    BY <1>1, <1>5 DEF Pending, Accepted
<1>8. OnePendingPerUser'
    BY <1>5, <1>7 DEF IndInv, OnePendingPerUser, Pending
<1>9. OneMembershipPerUser'
    BY <1>1, <1>2, <1>4, <1>6 DEF IndInv, OneMembershipPerUser, IsMember, Present
<1>10. InviteesAreOutsiders'
    <2> SUFFICES ASSUME NEW i \in Pending \ {n}, NEW j \in Present \cup {m},
                        members'[j].user = invites'[i].user
                 PROVE  FALSE
        BY <1>6, <1>7 DEF InviteesAreOutsiders, IsMember
    <2>1. invites'[i].user = invites[i].user /\ ~IsMember(invites[i].user)
        BY <1>5 DEF IndInv, InviteesAreOutsiders, Pending
    <2>2. j = m
        BY <1>4, <2>1 DEF IsMember, Present
    <2>3. invites[i].user = invites[n].user
        BY <1>1, <1>2, <1>4, <2>1, <2>2
    <2> QED
        BY <1>1, <2>3 DEF IndInv, OnePendingPerUser
<1>11. EachInviteAdmitsOne'
    <2>1. IsFiniteSet(DOMAIN invites)
        BY <1>0, LenProperties, FS_Interval
    <2>2. IsFiniteSet(Accepted)
        BY <2>1, FS_Subset DEF Accepted
    <2>3. /\ Cardinality(Accepted') = Cardinality(Accepted) + 1
          /\ Cardinality(Accepted) \in Nat
        BY <1>7, <2>2, FS_AddElement, FS_CardinalityType
    <2> QED
        BY <1>4, <2>3 DEF IndInv, EachInviteAdmitsOne, Accepted
<1> QED
    BY <1>8, <1>9, <1>10, <1>11

LEMMA SetRoleKeeps ==
    ASSUME IndInv, NEW q \in Requests, SetRole(q)
    PROVE  /\ OnePendingPerUser' /\ OneMembershipPerUser'
           /\ InviteesAreOutsiders' /\ EachInviteAdmitsOne' /\ Present' = Present
<1>0. /\ members \in Seq(Member) /\ req[q] \in Request /\ UNCHANGED invites
      /\ req[q].item \in Present /\ req[q].item \in DOMAIN members
    BY DEF IndInv, TypeOK, SetRole, Present
<1>1. /\ DOMAIN members' = DOMAIN members /\ Len(members') = Len(members)
      /\ \A j \in DOMAIN members : members'[j].user = members[j].user
      /\ \A j \in DOMAIN members \ {req[q].item} : members'[j] = members[j]
      /\ members'[req[q].item].role # "removed"
    <2>1. CASE members' = members
        BY <1>0, <2>1 DEF Present
    <2>2. CASE members' = [members EXCEPT ![req[q].item].role = req[q].role]
        <3>1. req[q].role \in Roles /\ req[q].role # "removed"
            BY <1>0 DEF Request
        <3> QED
            BY <1>0, <2>2, <3>1, ChangedRole, ZenonT(40)
    <2> QED
        BY <2>1, <2>2 DEF SetRole
<1>2. Present' = Present
    BY <1>0, <1>1 DEF Present
<1>3. OneMembershipPerUser' /\ InviteesAreOutsiders'
    BY <1>0, <1>1, <1>2
    DEF IndInv, OneMembershipPerUser, InviteesAreOutsiders, IsMember, Present, Pending
<1> QED
    BY <1>0, <1>1, <1>2, <1>3 DEF IndInv, OnePendingPerUser, EachInviteAdmitsOne, Pending

LEMMA DeleteKeeps ==
    ASSUME IndInv, NEW q \in Requests, Delete(q)
    PROVE  /\ OnePendingPerUser' /\ OneMembershipPerUser'
           /\ InviteesAreOutsiders' /\ EachInviteAdmitsOne'
           /\ Present' = Present \ {req[q].item}
           /\ \A j \in Present' : members'[j] = members[j]
<1>0. /\ members \in Seq(Member) /\ UNCHANGED invites
      /\ req[q].item \in DOMAIN members
    BY DEF IndInv, TypeOK, Delete, At
<1>1. /\ DOMAIN members' = DOMAIN members /\ Len(members') = Len(members)
      /\ \A j \in DOMAIN members : members'[j].user = members[j].user
      /\ \A j \in DOMAIN members \ {req[q].item} : members'[j] = members[j]
      /\ members'[req[q].item].role = "removed"
    BY <1>0, ChangedRole, ZenonT(40) DEF Delete
<1>2. Present' = Present \ {req[q].item}
    BY <1>0, <1>1 DEF Present
<1>3. OneMembershipPerUser' /\ InviteesAreOutsiders'
    BY <1>0, <1>1, <1>2
    DEF IndInv, OneMembershipPerUser, InviteesAreOutsiders, IsMember, Present, Pending
<1> QED
    BY <1>0, <1>1, <1>2, <1>3
    DEF IndInv, OnePendingPerUser, EachInviteAdmitsOne, Pending, Present

LEMMA LapseKeeps ==
    ASSUME IndInv, NEW i \in DOMAIN invites, Lapse(i)
    PROVE  IndInv'
<1>1. /\ DOMAIN invites' = DOMAIN invites /\ UNCHANGED <<accounts, members, req>>
      /\ \A j \in DOMAIN invites : /\ invites'[j].user = invites[j].user
                                   /\ invites'[j].status = invites[j].status
    BY LapseTables DEF IndInv, Lapse
<1>2. Pending' = Pending /\ Accepted' = Accepted /\ Present' = Present /\ Owners' = Owners
    BY <1>1 DEF Pending, Accepted, Present, Owners
<1>3. TypeOK'
    BY TypeStep DEF IndInv, Next
<1>4. BodiesExclude' /\ \A q \in Requests : ReadsHold(q)'
    BY <1>1, <1>2 DEF IndInv, BodiesExclude, ReadsHold, IsMember, Pending, Present
<1>5. OnePendingPerUser' /\ OneMembershipPerUser' /\ InviteesAreOutsiders'
    BY <1>1, <1>2
    DEF IndInv, OnePendingPerUser, OneMembershipPerUser, InviteesAreOutsiders, IsMember, Pending
<1>6. EachInviteAdmitsOne'
    BY <1>1, <1>2 DEF IndInv, EachInviteAdmitsOne, Accepted
<1> QED
    BY <1>3, <1>4, <1>5, <1>6 DEF IndInv

LEMMA NextIndInv == ASSUME SingleWorker PROVE IndInv /\ [Next]_vars => IndInv'
<1> SUFFICES ASSUME IndInv, [Next]_vars PROVE IndInv'
    OBVIOUS
<1>0. TypeOK'
    BY TypeStep DEF IndInv
<1>1. ASSUME NEW q \in Requests, ReadStep(q) PROVE IndInv'
    <2>1. UNCHANGED <<members, invites>>
        BY <1>1, ReadStepRecord DEF IndInv
    <2> QED
        BY <1>0, <1>1, <2>1, TablesKept, ReadStepKeeps DEF IndInv
<1>2. ASSUME NEW q \in Requests, WriteStep(q) PROVE IndInv'
    <2>1. /\ OnePendingPerUser' /\ OneMembershipPerUser'
          /\ InviteesAreOutsiders' /\ EachInviteAdmitsOne'
        BY <1>2, InsertInviteKeeps, SettleKeeps, JoinKeeps, SetRoleKeeps, DeleteKeeps
        DEF WriteStep
    <2> QED
        BY <1>0, <1>2, <2>1, WriteStepEnds DEF IndInv
<1>3. ASSUME NEW i \in DOMAIN invites, Lapse(i) PROVE IndInv'
    BY <1>3, LapseKeeps
<1>4. ASSUME UNCHANGED <<members, invites, req>> PROVE IndInv'
    <2>1. BodiesExclude' /\ \A q \in Requests : ReadsHold(q)'
        BY <1>4 DEF IndInv, BodiesExclude, ReadsHold, IsMember, Present, Pending, Owners
    <2> QED
        BY <1>0, <1>4, <2>1, TablesKept DEF IndInv
<1> QED
    BY <1>1, <1>2, <1>3, <1>4, NextSplit DEF SignUp, vars

\* With one worker, what a request has read of members and invites is still so in its body.
THEOREM Invariance == ASSUME SingleWorker PROVE Spec => []IndInv
<1>1. Init => IndInv
    BY InitIndInv
<1>2. IndInv /\ [Next]_vars => IndInv'
    BY NextIndInv
<1> QED
    BY <1>1, <1>2, PTL DEF Spec

--------------------------------------------------------------------------------
(***************************************************************************)
(* The results for one worker.                                             *)
(***************************************************************************)

\* On one worker nobody becomes a member twice.
THEOREM NobodyTwice == ASSUME SingleWorker PROVE Spec => []OneMembershipPerUser
<1>1. IndInv => OneMembershipPerUser
    BY DEF IndInv
<1>2. Spec => []IndInv
    BY Invariance
<1> QED
    BY <1>1, <1>2, PTL

\* On one worker a pending invite is for an outsider.
THEOREM OutsidersOnly == ASSUME SingleWorker PROVE Spec => []InviteesAreOutsiders
<1>1. IndInv => InviteesAreOutsiders
    BY DEF IndInv
<1>2. Spec => []IndInv
    BY Invariance
<1> QED
    BY <1>1, <1>2, PTL

\* On one worker memberships and accepted invites are equally many.
THEOREM OneInviteOneMember == ASSUME SingleWorker PROVE Spec => []EachInviteAdmitsOne
<1>1. IndInv => EachInviteAdmitsOne
    BY DEF IndInv
<1>2. Spec => []IndInv
    BY Invariance
<1> QED
    BY <1>1, <1>2, PTL

\* On one worker the removal of an owner leaves another: the count made in the
\* same body still holds when the row is deleted.
THEOREM OwnerRemains == ASSUME SingleWorker PROVE Spec => RemovalKeepsAnOwner
<1>1. ASSUME IndInv, [Next]_vars, NEW i \in Owners, members'[i].role = "removed"
      PROVE  Owners' # {}
    <2>0. i \in Present /\ members[i].role = "owner" /\ i \in DOMAIN members
        BY <1>1 DEF Owners, Present
    <2>1. ASSUME NEW q \in Requests, WriteStep(q) PROVE Owners' # {}
        <3>1. CASE Delete(q)
            <4>1. i = req[q].item
                <5>1. i \notin Present'
                    BY <1>1 DEF Present
                <5>2. Present' = Present \ {req[q].item}
                    BY <1>1, <3>1, DeleteKeeps
                <5> QED
                    BY <2>0, <5>1, <5>2
            <4>2. PICK j \in Owners : j # i
                BY <1>1, <3>1, <4>1 DEF Delete, At, IndInv, ReadsHold
            <4>3. j \in Present' /\ members'[j].role = "owner"
                BY <1>1, <3>1, <4>1, <4>2, DeleteKeeps DEF Owners
            <4> QED
                BY <4>3 DEF Owners
        <3>2. CASE SetRole(q)
            BY <1>1, <2>0, <3>2, SetRoleKeeps DEF Present
        <3>3. CASE Join(q)
            <4>1. members \in Seq(Member) /\ members' \in Seq(Member)
                BY <1>1, <2>1, WriteStepTables DEF IndInv, TypeOK
            <4>2. members'[i] = members[i]
                BY <2>0, <3>3, <4>1 DEF Join
            <4> QED
                BY <1>1, <2>0, <4>2
        <3>4. CASE InsertInvite(q) \/ Expire(q) \/ Revoke(q)
            BY <1>1, <2>0, <3>4 DEF InsertInvite, Expire, Revoke
        <3> QED
            BY <2>1, <3>1, <3>2, <3>3, <3>4 DEF WriteStep
    <2>2. ASSUME NEW q \in Requests, ReadStep(q) PROVE Owners' # {}
        BY <1>1, <2>0, <2>2, ReadStepRecord DEF IndInv
    <2> QED
        BY <1>1, <2>0, <2>1, <2>2, NextSplit DEF SignUp, Lapse, vars
<1>2. IndInv /\ [Next]_vars =>
          \A i \in Owners : members'[i].role = "removed" => Owners' # {}
    BY <1>1
<1>3. Spec => []IndInv
    BY Invariance
<1> QED
    BY <1>2, <1>3, PTL DEF Spec, RemovalKeepsAnOwner

\* On one worker a settled invite stays as it was settled.
THEOREM SettledOnce == ASSUME SingleWorker PROVE Spec => InvitesSettleOnce
<1>1. ASSUME IndInv, [Next]_vars, NEW i \in DOMAIN invites \ Pending
      PROVE  invites'[i].status = invites[i].status
    <2>0. invites \in Seq(InviteRow) /\ i \in DOMAIN invites
        BY <1>1 DEF IndInv, TypeOK
    <2>1. ASSUME NEW q \in Requests, WriteStep(q)
          PROVE  invites'[i].status = invites[i].status
        <3>1. CASE Expire(q) \/ Revoke(q) \/ Join(q)
            <4>1. req[q].item \in Pending /\ req[q].item # i
                BY <1>1, <3>1 DEF Expire, Revoke, Join, At, IndInv, ReadsHold
            <4> QED
                BY <2>0, <3>1, <4>1 DEF Expire, Revoke, Join
        <3>2. CASE InsertInvite(q)
            <4>1. invites' \in Seq(InviteRow)
                BY <1>1, <2>1, WriteStepTables DEF IndInv
            <4>2. invites'[i] = invites[i]
                BY <2>0, <3>2, <4>1 DEF InsertInvite
            <4> QED
                BY <4>2
        <3>3. CASE SetRole(q) \/ Delete(q)
            BY <3>3 DEF SetRole, Delete
        <3> QED
            BY <2>1, <3>1, <3>2, <3>3 DEF WriteStep
    <2>2. ASSUME NEW q \in Requests, ReadStep(q)
          PROVE  invites'[i].status = invites[i].status
        BY <1>1, <2>2, ReadStepRecord DEF IndInv
    <2>3. ASSUME NEW j \in DOMAIN invites, Lapse(j)
          PROVE  invites'[i].status = invites[i].status
        BY <1>1, <2>0, <2>3, LapseTables DEF IndInv
    <2> QED
        BY <1>1, <2>1, <2>2, <2>3, NextSplit DEF SignUp, vars
<1>2. IndInv /\ [Next]_vars =>
          \A i \in DOMAIN invites \ Pending : invites'[i].status = invites[i].status
    BY <1>1
<1>3. Spec => []IndInv
    BY Invariance
<1> QED
    BY <1>2, <1>3, PTL DEF Spec, InvitesSettleOnce

================================================================================
