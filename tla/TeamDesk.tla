------------------------------- MODULE TeamDesk -------------------------------
(***************************************************************************)
(* The members and invitations of an organization, and the team page.  After *)
(* every change the page reloads both lists and shows nothing but a spinner  *)
(* meanwhile; what its dialogs are about stays.  Its calls live in slots,   *)
(* and are handled in two steps, as those of AccessRequests.  The role      *)
(* chosen in the invite dialog, the names, the dates and the messages of    *)
(* errors are left out; an analyst is like a viewer.  A change of this      *)
(* user's own role by another manager is not modelled.                      *)
(***************************************************************************)
EXTENDS Integers, Sequences, FiniteSets

CONSTANTS
    People,      \* whom one may invite
    MaxTeam,     \* bound on rows of organization_members
    MaxInvites,  \* bound on invitations
    MaxCalls,    \* calls of the page on their way at once
    MaxTheirs,   \* what the server handles at once for others, or for lost connections
    MaxLost      \* bound on lost requests and answers

VARIABLES
    team,        \* organization_members: person, role; a removed row is deleted
    invites,     \* organization_invites: person, status
    managing,    \* what the server has checked and not yet committed
    crossed,     \* history: invitations that two handlers had found pending at once
    desk,        \* the state of TeamManagementPage
    teamCalls,   \* its calls on their way
    teamLost

Me == 1
None == 0
NoText == ""
RowIds == 1..MaxTeam
InviteIds == 1..MaxInvites
Slots == 1..MaxCalls
Handlers == 1..(MaxCalls + MaxTheirs)
UserRole == {"owner", "admin", "viewer"}
Managers == {"owner", "admin"}
Offered == {"admin", "viewer"}

Idle == [op |-> "none", about |-> None, person |-> NoText, role |-> "viewer"]
NoSuccess == [op |-> "none", about |-> None, person |-> NoText]
Unread == {[id |-> None, role |-> "viewer"]}
NoneYet == {None}

NewPage ==
    [members |-> {}, invitations |-> {}, loading |-> TRUE,
     success |-> NoSuccess, inviting |-> FALSE, showInvite |-> FALSE, email |-> NoText,
     toRemove |-> None, removing |-> FALSE, updating |-> None]

\* about: a row or an invitation.  members and pending: the lists of Promise.all.
NoCall == [op |-> "none", about |-> None, person |-> NoText, role |-> "viewer", phase |-> "free",
           live |-> FALSE, members |-> Unread, pending |-> NoneYet]

Loading(call) == [call EXCEPT !.phase = "loading", !.members = Unread, !.pending = NoneYet]

-----------------------------------------------------------------------------
\* The handlers of routes/auth/auth.py.

Present == {m \in DOMAIN team : ~team[m].gone}

list_organization_members == {[id |-> m, role |-> team[m].role] : m \in Present}

\* The page keeps the pending ones.
list_organization_invites == {i \in DOMAIN invites : invites[i].status = "pending"}

IsManager == team[Me].role \in Managers

LastOwner(m) == {n \in Present : team[n].role = "owner"} = {m}

CanInvite(person) ==
    /\ \A m \in Present : team[m].person # person
    /\ \A i \in list_organization_invites : invites[i].person # person

invite_user_to_organization(person) ==
    Append(invites, [person |-> person, status |-> "pending"])

revoke_invite(i) == [invites EXCEPT ![i].status = "revoked"]

\* Any row but one's own, an owner's too.
update_member_role(m, role) == [team EXCEPT ![m].role = role]

CanRemove(m) == m \in Present \ {Me} /\ ~LastOwner(m)

\* No row left to delete is no error.
remove_member(m) == [team EXCEPT ![m].gone = TRUE]

Member(person, role) == [person |-> person, role |-> role, gone |-> FALSE]

accept_organization_invite(i) ==
    /\ team' = Append(team, Member(invites[i].person, "viewer"))
    /\ invites' = [invites EXCEPT ![i].status = "accepted"]

\* What each handler checks before it writes.
Allowed(work) ==
    CASE work.op = "invite" -> CanInvite(work.person)
      [] work.op \in {"revoke", "accept"} -> work.about \in list_organization_invites
      [] work.op = "role" -> work.about \in Present \ {Me}
      [] work.op = "remove" -> CanRemove(work.about)

OnInvite(work) == work.op \in {"revoke", "accept"}

Begin(h, work) ==
    /\ Allowed(work)
    /\ managing' = [managing EXCEPT ![h] = work]
    /\ crossed' = IF OnInvite(work) /\ \E k \in Handlers :
                          OnInvite(managing[k]) /\ managing[k].about = work.about
                  THEN crossed \cup {work.about} ELSE crossed

\* An update that meets no row fails, and its transaction with it.
Fruitless(work) == work.op = "role" /\ work.about \notin Present

Commit(h) ==
    LET work == managing[h] IN
    /\ CASE work.op = "invite" -> /\ Len(invites) < MaxInvites
                                  /\ invites' = invite_user_to_organization(work.person)
                                  /\ UNCHANGED team
         [] work.op = "revoke" -> invites' = revoke_invite(work.about) /\ UNCHANGED team
         [] work.op = "accept" -> Len(team) < MaxTeam /\ accept_organization_invite(work.about)
         [] work.op = "role" -> /\ team' = IF Fruitless(work) THEN team
                                           ELSE update_member_role(work.about, work.role)
                                /\ UNCHANGED invites
         [] work.op = "remove" -> team' = remove_member(work.about) /\ UNCHANGED invites
    /\ managing' = [managing EXCEPT ![h] = Idle]
    /\ UNCHANGED crossed

\* A handler nobody of this page waits for.
Spare(h) ==
    /\ h \in Handlers \ Slots /\ managing[h] = Idle
    /\ \A k \in Handlers \ Slots : k < h => managing[k] # Idle

-----------------------------------------------------------------------------
\* This user, the owner of the organization, and somebody invited.
TeamInit ==
    /\ \E role \in Offered : team = <<Member("me", role), Member("founder", "owner")>>
    /\ invites \in {<<[person |-> p, status |-> "pending"]>> : p \in People}
    /\ managing = [h \in Handlers |-> Idle] /\ crossed = {}
    /\ desk = NewPage
    /\ teamCalls = [s \in Slots |-> NoCall]
    /\ teamLost = 0

records == <<team, invites>>
server == <<records, managing, crossed>>

Free(s) == teamCalls[s].phase = "free" /\ \A t \in Slots : t < s => teamCalls[t].phase # "free"

Start(s, call) ==
    /\ Free(s)
    /\ teamCalls' = [teamCalls EXCEPT ![s] = [call EXCEPT !.phase = "sent", !.live = TRUE]]

\* Nothing but a spinner while it loads; dialogs are modal.
Content == ~desk.loading
Tables == Content /\ ~desk.showInvite /\ desk.toRemove = None
isOwnerOrAdmin == IsManager

loadTeamData(page) == [page EXCEPT !.loading = TRUE]

Cleared(page) == [page EXCEPT !.success = NoSuccess]

\* The mount effect.
OpenTeam(s) ==
    /\ Free(s)
    /\ desk' = loadTeamData(NewPage)
    /\ teamCalls' = [teamCalls EXCEPT ![s] = Loading([NoCall EXCEPT !.op = "load", !.live = TRUE])]
    /\ UNCHANGED <<server, teamLost>>

LeaveTeam ==
    /\ desk' = NewPage
    /\ teamCalls' = [s \in Slots |-> IF teamCalls[s].phase \in {"free", "loading"} THEN NoCall
                                     ELSE [teamCalls[s] EXCEPT !.live = FALSE]]
    /\ UNCHANGED <<server, teamLost>>

-----------------------------------------------------------------------------
\* Clicks.

setShowInviteDialog(open) ==
    /\ IF open THEN Tables /\ isOwnerOrAdmin ELSE Content /\ desk.showInvite
    /\ desk' = [desk EXCEPT !.showInvite = open]
    /\ UNCHANGED <<server, teamCalls, teamLost>>

setInviteEmail(person) ==
    /\ Content /\ desk.showInvite /\ desk.email # person
    /\ desk' = [desk EXCEPT !.email = person]
    /\ UNCHANGED <<server, teamCalls, teamLost>>

handleInviteMember(s) ==
    /\ Content /\ desk.showInvite /\ ~desk.inviting
    /\ IF desk.email = NoText
       THEN UNCHANGED <<desk, teamCalls>>
       ELSE /\ Start(s, [NoCall EXCEPT !.op = "invite", !.person = desk.email])
            /\ desk' = [Cleared(desk) EXCEPT !.inviting = TRUE]
    /\ UNCHANGED <<server, teamLost>>

\* The messages of what came before stay.
handleRevokeInvitation(s, i) ==
    /\ Tables /\ isOwnerOrAdmin /\ i \in desk.invitations
    /\ Start(s, [NoCall EXCEPT !.op = "revoke", !.about = i])
    /\ UNCHANGED <<server, desk, teamLost>>

\* The rows with a role to choose and a bin: not an owner, as far as the list knows.
Editable(m) == isOwnerOrAdmin /\ \E role \in Offered : [id |-> m, role |-> role] \in desk.members

handleUpdateRole(s, m, role) ==
    /\ Tables /\ Editable(m) /\ desk.updating # m
    /\ [id |-> m, role |-> role] \notin desk.members
    /\ Start(s, [NoCall EXCEPT !.op = "role", !.about = m, !.role = role])
    /\ desk' = [Cleared(desk) EXCEPT !.updating = m]
    /\ UNCHANGED <<server, teamLost>>

setMemberToRemove(m) ==
    /\ IF m = None THEN Content /\ desk.toRemove # None ELSE Tables /\ Editable(m)
    /\ desk' = [desk EXCEPT !.toRemove = m]
    /\ UNCHANGED <<server, teamCalls, teamLost>>

\* The button of an alert dialog closes it.
handleRemoveMember(s) ==
    /\ Content /\ desk.toRemove # None /\ ~desk.removing
    /\ Start(s, [NoCall EXCEPT !.op = "remove", !.about = desk.toRemove])
    /\ desk' = [Cleared(desk) EXCEPT !.removing = TRUE, !.toRemove = None]
    /\ UNCHANGED <<server, teamLost>>

-----------------------------------------------------------------------------
\* Promise.all of the two lists; the second is for managers.

LoadMembers(s) ==
    /\ teamCalls[s].phase = "loading" /\ teamCalls[s].members = Unread
    /\ teamCalls' = [teamCalls EXCEPT ![s].members = list_organization_members]
    /\ UNCHANGED <<server, desk, teamLost>>

LoadInvitations(s) ==
    /\ teamCalls[s].phase = "loading" /\ teamCalls[s].pending = NoneYet /\ IsManager
    /\ teamCalls' = [teamCalls EXCEPT ![s].pending = list_organization_invites]
    /\ UNCHANGED <<server, desk, teamLost>>

\* The finally blocks of the reload and of the handler that awaits it: `updating` is
\* reset whichever row it holds by now.
Finish(page, op) ==
    [page EXCEPT !.inviting = @ /\ op # "invite",
                 !.removing = @ /\ op # "remove",
                 !.updating = IF op = "role" THEN None ELSE @]

LoadArrives(s) ==
    LET call == teamCalls[s] IN
    /\ call.phase = "loading" /\ call.members # Unread /\ call.pending # NoneYet
    /\ desk' = Finish([desk EXCEPT !.members = call.members, !.invitations = call.pending,
                                   !.loading = FALSE], call.op)
    /\ teamCalls' = [teamCalls EXCEPT ![s] = NoCall]
    /\ UNCHANGED <<server, teamLost>>

\* One list is enough to fail: to a viewer the page shows an error and no members.
LoadFails(s) ==
    /\ teamCalls[s].phase = "loading"
    /\ IF IsManager THEN teamLost < MaxLost /\ teamLost' = teamLost + 1 ELSE UNCHANGED teamLost
    /\ desk' = Finish([desk EXCEPT !.loading = FALSE], teamCalls[s].op)
    /\ teamCalls' = [teamCalls EXCEPT ![s] = NoCall]
    /\ UNCHANGED server

-----------------------------------------------------------------------------
\* Calls that change something: sent, then ok or refused.

Work(call) == [op |-> call.op, about |-> call.about, person |-> call.person, role |-> call.role]

\* get_owner_or_admin_context and the queries of the handler.
Look(s) ==
    LET call == teamCalls[s] IN
    /\ call.phase = "sent" /\ managing[s] = Idle
    /\ IF IsManager /\ Allowed(Work(call))
       THEN Begin(s, Work(call)) /\ UNCHANGED teamCalls
       ELSE /\ teamCalls' = [teamCalls EXCEPT ![s].phase = "refused"]
            /\ UNCHANGED <<managing, crossed>>
    /\ UNCHANGED <<records, desk, teamLost>>

\* The interceptor sends again what ended in a 500, and is then refused.
Serve(s) ==
    /\ s \in Slots /\ managing[s] # Idle
    /\ Commit(s)
    /\ teamCalls' = [teamCalls EXCEPT ![s].phase = IF Fruitless(managing[s]) THEN "sent" ELSE "ok"]
    /\ UNCHANGED <<desk, teamLost>>

\* The interceptor sends it again, and gives up after the second time.  What is being
\* handled goes on, or ends with its worker.
Lost(s) ==
    /\ teamCalls[s].phase \in {"sent", "ok", "refused"} /\ teamLost < MaxLost
    /\ teamLost' = teamLost + 1
    /\ \E phase \in {"sent", "refused"} : teamCalls' = [teamCalls EXCEPT ![s].phase = phase]
    /\ \/ managing' = [managing EXCEPT ![s] = Idle]
       \/ \E h \in Handlers :
             /\ Spare(h) /\ managing[s] # Idle
             /\ managing' = [managing EXCEPT ![s] = Idle, ![h] = managing[s]]
    /\ UNCHANGED <<records, crossed, desk>>

\* What a handler sets after its await: the dialog it closes may be about another row.
AfterOk(call) ==
    LET told == [desk EXCEPT !.success = [op |-> call.op, about |-> call.about, person |-> call.person]]
    IN  CASE call.op = "invite" -> [told EXCEPT !.showInvite = FALSE, !.email = NoText]
          [] call.op = "remove" -> [told EXCEPT !.toRemove = None]
          [] OTHER -> told

Succeeds(s) ==
    LET call == teamCalls[s] IN
    /\ call.phase = "ok"
    /\ IF call.live
       THEN desk' = loadTeamData(AfterOk(call)) /\ teamCalls' = [teamCalls EXCEPT ![s] = Loading(call)]
       ELSE UNCHANGED desk /\ teamCalls' = [teamCalls EXCEPT ![s] = NoCall]
    /\ UNCHANGED <<server, teamLost>>

Fails(s) ==
    LET call == teamCalls[s] IN
    /\ call.phase = "refused"
    /\ desk' = IF call.live THEN Finish(desk, call.op) ELSE desk
    /\ teamCalls' = [teamCalls EXCEPT ![s] = NoCall]
    /\ UNCHANGED <<server, teamLost>>

-----------------------------------------------------------------------------
\* Another manager, or the person invited.
Theirs ==
    [op : {"accept", "revoke"}, about : DOMAIN invites, person : {NoText}, role : {"viewer"}]
    \cup [op : {"role"}, about : DOMAIN team, person : {NoText}, role : {"owner", "admin"}]
    \cup [op : {"remove"}, about : DOMAIN team, person : {NoText}, role : {"viewer"}]

OthersManage ==
    /\ \E h \in Handlers, work \in Theirs : Spare(h) /\ Begin(h, work)
    /\ UNCHANGED <<records, desk, teamCalls, teamLost>>

OthersCommit(h) ==
    /\ h \in Handlers \ Slots /\ managing[h] # Idle
    /\ Commit(h)
    /\ UNCHANGED <<desk, teamCalls, teamLost>>

TeamAnswers ==
    \/ \E h \in Handlers : OthersCommit(h)
    \/ \E s \in Slots :
        \/ LoadMembers(s) \/ LoadInvitations(s) \/ LoadArrives(s) \/ LoadFails(s)
        \/ Look(s) \/ Serve(s) \/ Lost(s) \/ Succeeds(s) \/ Fails(s)

TeamClicks ==
    \/ \E open \in BOOLEAN : setShowInviteDialog(open)
    \/ \E person \in People : setInviteEmail(person)
    \/ \E m \in {None} \cup DOMAIN team : setMemberToRemove(m)
    \/ \E s \in Slots :
          \/ handleInviteMember(s) \/ handleRemoveMember(s)
          \/ \E i \in DOMAIN invites : handleRevokeInvitation(s, i)
          \/ \E m \in DOMAIN team, role \in Offered : handleUpdateRole(s, m, role)

MemberSet == [person : People \cup {"me", "founder"}, role : UserRole, gone : BOOLEAN]
InviteSet == [person : People, status : {"pending", "accepted", "revoked"}]
WorkSet ==
    [op : {"invite", "revoke", "accept", "role", "remove"}, about : {None} \cup RowIds \cup InviteIds,
     person : People \cup {NoText}, role : UserRole]
Listed == [id : RowIds, role : UserRole]

PageSet ==
    [members : SUBSET Listed, invitations : SUBSET InviteIds, loading : BOOLEAN,
     success : [op : {"none", "invite", "revoke", "role", "remove"},
                about : {None} \cup RowIds \cup InviteIds, person : People \cup {NoText}],
     inviting : BOOLEAN, showInvite : BOOLEAN, email : People \cup {NoText},
     toRemove : {None} \cup RowIds, removing : BOOLEAN, updating : {None} \cup RowIds]

CallSet ==
    [op : {"none", "load", "invite", "revoke", "role", "remove"},
     about : {None} \cup RowIds \cup InviteIds, person : People \cup {NoText}, role : UserRole,
     phase : {"free", "sent", "ok", "refused", "loading"}, live : BOOLEAN,
     members : {Unread} \cup SUBSET Listed, pending : {NoneYet} \cup SUBSET InviteIds]

TeamTypeOK ==
    /\ team \in Seq(MemberSet) /\ Len(team) <= MaxTeam
    /\ invites \in Seq(InviteSet) /\ Len(invites) <= MaxInvites
    /\ managing \in [Handlers -> {Idle} \cup WorkSet] /\ crossed \subseteq InviteIds
    /\ desk \in PageSet
    /\ teamCalls \in [Slots -> CallSet]
    /\ teamLost \in 0..MaxLost
=============================================================================
