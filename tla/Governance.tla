----------------------------- MODULE Governance -----------------------------
(***************************************************************************)
(* The governance pages of one browser tab.  One page is mounted at a time; *)
(* opening another loses what the first holds, and leaves its calls to the  *)
(* server, which answers them in any order.                                 *)
(***************************************************************************)
EXTENDS Integers, Sequences, FiniteSets

CONSTANTS Requests, Mine, Emails, Users, MaxComps, MaxRows,
          People, MaxTeam, MaxInvites, MaxCalls, MaxTheirs, MaxLost,
          Pages,                  \* the pages this user visits
          MaxClicks, MaxOthers    \* bounds on this user's clicks and on other people's changes

ASSUME RequestAssumption == Mine # {} /\ Mine \subseteq Requests
ASSUME CompartmentAssumption == Users \subseteq Emails /\ "" \notin Emails
ASSUME TeamAssumption == People \cap {"", "me", "founder"} = {}
\* The organization starts with two compartments, a member of each table and an invite.
ASSUME BoundAssumption ==
    /\ {MaxComps, MaxRows, MaxTeam, MaxInvites, MaxCalls, MaxTheirs, MaxLost,
        MaxClicks, MaxOthers} \subseteq Nat
    /\ MaxComps >= 2 /\ MaxRows >= 1 /\ MaxTeam >= 2 /\ MaxInvites >= 1

VARIABLES page, clicks, others,
          status, deciding, raced, reqs, reqCalls,
          comps, rows, tree, treeCalls,
          team, invites, managing, crossed, desk, teamCalls, lost

requestVars == <<status, deciding, raced, reqs, reqCalls>>
compartmentVars == <<comps, rows, tree, treeCalls>>
teamVars == <<team, invites, managing, crossed, desk, teamCalls>>
vars == <<page, clicks, others, requestVars, compartmentVars, teamVars, lost>>

R == INSTANCE AccessRequests
\* One bound on losses for all pages.
C == INSTANCE Compartments WITH treeLost <- lost
T == INSTANCE TeamDesk WITH teamLost <- lost

Init ==
    /\ page = "away" /\ clicks = 0 /\ others = 0
    /\ R!RequestsInit /\ C!CompartmentsInit /\ T!TeamInit

Click == clicks < MaxClicks /\ clicks' = clicks + 1 /\ UNCHANGED others

Visit(p) == p \in Pages /\ page # p /\ page' = p /\ Click

OpenRequests ==
    /\ Visit("requests")
    /\ \E s \in 1..MaxCalls : R!OpenRequests(s)
    /\ C!LeaveCompartments /\ T!LeaveTeam

OpenCompartments ==
    /\ Visit("compartments")
    /\ \E s \in 1..MaxCalls : C!OpenCompartments(s)
    /\ R!LeaveRequests /\ T!LeaveTeam

OpenTeam ==
    /\ Visit("team")
    /\ \E s \in 1..MaxCalls : T!OpenTeam(s)
    /\ R!LeaveRequests /\ C!LeaveCompartments

\* Other people change what the page on display is about.
Others ==
    /\ others < MaxOthers /\ others' = others + 1
    /\ \/ page = "requests" /\ R!Others /\ UNCHANGED <<compartmentVars, teamVars>>
       \/ page = "compartments" /\ C!OthersManage /\ UNCHANGED <<requestVars, teamVars>>
       \/ page = "team" /\ T!OthersManage /\ UNCHANGED <<requestVars, compartmentVars>>
    /\ UNCHANGED <<page, clicks>>

Requesting ==
    /\ \/ R!RequestAnswers /\ UNCHANGED <<clicks, others>>
       \/ page = "requests" /\ R!RequestClicks /\ Click
    /\ UNCHANGED <<page, compartmentVars, teamVars>>

Managing ==
    /\ \/ C!CompartmentAnswers /\ UNCHANGED <<clicks, others>>
       \/ page = "compartments" /\ C!CompartmentClicks /\ Click
    /\ UNCHANGED <<page, requestVars, teamVars>>

Teaming ==
    /\ \/ T!TeamAnswers /\ UNCHANGED <<clicks, others>>
       \/ page = "team" /\ T!TeamClicks /\ Click
    /\ UNCHANGED <<page, requestVars, compartmentVars>>

Next ==
    \/ OpenRequests \/ OpenCompartments \/ OpenTeam
    \/ Others \/ Requesting \/ Managing \/ Teaming

Spec == Init /\ [][Next]_vars

-----------------------------------------------------------------------------
\* Page flags, dialogs, calls and tables keep to their values.
TypeOK ==
    /\ page \in {"away", "requests", "compartments", "team"}
    /\ clicks \in 0..MaxClicks /\ others \in 0..MaxOthers
    /\ R!RequestsTypeOK /\ C!CompartmentsTypeOK /\ T!TeamTypeOK

\* "Request from ... has been approved", "rejected" or "cancelled" is what the request is,
\* a member removed is removed for good, an invitation revoked stays revoked, and somebody
\* invited was: whoever else settled, accepted or removed something while the dialog was
\* closed, another row was opened or a call was sent again after a lost answer.  Only two
\* handlers that had both found the request, or the invitation, pending before either
\* committed can make it false.
RequestSuccessIsTrue ==
    reqs.success # R!NoSuccess =>
        /\ status[reqs.success.id] \in R!Settled
        /\ reqs.success.id \notin raced => status[reqs.success.id] = R!Outcome(reqs.success.op)

TeamSuccessIsTrue ==
    /\ desk.success.op = "remove" => team[desk.success.about].gone
    /\ desk.success.op = "revoke" =>
          /\ invites[desk.success.about].status # "pending"
          /\ desk.success.about \notin crossed => invites[desk.success.about].status = "revoked"
    /\ desk.success.op = "invite" => \E i \in DOMAIN invites : invites[i].person = desk.success.person

SuccessIsTrue == RequestSuccessIsTrue /\ TeamSuccessIsTrue

\* A removal touches the compartment that was selected at the click, although the
\* members listed then may be those of one selected before.
RemovalStaysInSelection ==
    [][\A s \in 1..MaxCalls, m \in DOMAIN rows :
          treeCalls[s].phase = "sent" /\ treeCalls'[s].phase # "sent"
            /\ rows[m].active /\ ~rows'[m].active
          => rows[m].comp = treeCalls[s].comp]_vars
=============================================================================
