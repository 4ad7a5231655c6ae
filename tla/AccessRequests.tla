--------------------------- MODULE AccessRequests ---------------------------
(***************************************************************************)
(* The access requests of an organization and the page on which an owner or *)
(* admin settles them.  A handler of the page is a call that lives in a     *)
(* slot: it is sent, served, answered, and then awaits the reload of both   *)
(* lists.  The dialog can be closed while its call is on the way, so calls  *)
(* of several requests overlap.  The server handles calls on any number of  *)
(* workers: each reads its request and commits later.  Admin notes are left *)
(* out: a decided request may have some, and then shows them.  So are the   *)
(* messages of errors.                                                      *)
(***************************************************************************)
EXTENDS Integers, FiniteSets

CONSTANTS
    Requests,    \* ids of access requests
    Mine,        \* those this user submits
    MaxCalls,    \* calls of the page on their way at once
    MaxTheirs,   \* what the server handles at once for others, or for lost connections
    MaxLost      \* bound on lost requests and answers

VARIABLES
    status,      \* status column of each request
    deciding,    \* what the server has found pending and not yet committed
    raced,       \* history: requests that two handlers had found pending at once
    reqs,        \* the state of RequestsPage
    reqCalls,    \* its calls on their way
    lost

Statuses == {"none", "pending", "approved", "rejected", "cancelled"}
Settled == {"approved", "rejected", "cancelled"}
Slots == 1..MaxCalls

\* Handler s serves the call of slot s, the others are for somebody else.
Handlers == 1..(MaxCalls + MaxTheirs)
Idle == [op |-> "none", id |-> "nothing"]

Nothing == [id |-> "nothing", status |-> "none"]
NoSuccess == [op |-> "none", id |-> "nothing"]
NoneYet == {"none yet"}
Unread == [r \in Mine |-> "unread"]

NewPage ==
    [mine |-> [r \in Mine |-> "none"], approvals |-> {}, loading |-> TRUE,
     processing |-> FALSE, dialog |-> FALSE, selected |-> Nothing,
     success |-> NoSuccess]

\* phase: free, sent, ok, refused, loading.  own and all: the two lists of Promise.all.
NoCall == [op |-> "none", id |-> "nothing", phase |-> "free", live |-> FALSE,
           own |-> Unread, all |-> NoneYet]

Loading(call) == [call EXCEPT !.phase = "loading", !.own = Unread, !.all = NoneYet]

-----------------------------------------------------------------------------
\* The handlers of routes/access_requests.py.

get_my_requests == [r \in Mine |-> status[r]]
get_pending_approvals == {r \in Requests : status[r] = "pending"}

Outcome(op) ==
    CASE op = "approve" -> "approved" [] op = "reject" -> "rejected" [] op = "cancel" -> "cancelled"

Decisions == [op : {"approve", "reject", "cancel"}, id : Requests]

\* Mutants: what is not pending is not refused; the operation is stored.
OpenAlways(r) == TRUE
SettleByName(op, r) == [status EXCEPT ![r] = op]

\* approve_request, reject_request and cancel_request refuse what is not pending when
\* they read it, and write over what it has become when they commit.
Open(r) == status[r] = "pending"
Settle(op, r) == [status EXCEPT ![r] = Outcome(op)]

Begin(h, decision) ==
    /\ deciding' = [deciding EXCEPT ![h] = decision]
    /\ raced' = IF \E k \in Handlers : deciding[k] # Idle /\ deciding[k].id = decision.id
                THEN raced \cup {decision.id} ELSE raced

Commit(h) ==
    /\ status' = Settle(deciding[h].op, deciding[h].id)
    /\ deciding' = [deciding EXCEPT ![h] = Idle]
    /\ UNCHANGED raced

\* A handler nobody of this page waits for.
Spare(h) ==
    /\ h \in Handlers \ Slots /\ deciding[h] = Idle
    /\ \A k \in Handlers \ Slots : k < h => deciding[k] # Idle

-----------------------------------------------------------------------------
RequestsInit ==
    /\ status \in {f \in [Requests -> {"none", "pending"}] : \A r \in Mine : f[r] = "pending"}
    /\ deciding = [h \in Handlers |-> Idle] /\ raced = {}
    /\ reqs = NewPage
    /\ reqCalls = [s \in Slots |-> NoCall]
    /\ lost = 0

server == <<status, deciding, raced>>

Free(s) == reqCalls[s].phase = "free" /\ \A t \in Slots : t < s => reqCalls[t].phase # "free"

Start(s, op, r) ==
    /\ Free(s)
    /\ reqCalls' = [reqCalls EXCEPT ![s] =
           [NoCall EXCEPT !.op = op, !.id = r, !.phase = "sent", !.live = TRUE]]

\* What the page shows: nothing but a spinner while it loads; the dialog is modal.
Content == ~reqs.loading
Tables == Content /\ ~reqs.dialog
DialogShown == Content /\ reqs.dialog
DecisionButtons == DialogShown /\ reqs.selected.status = "pending" /\ ~reqs.processing

loadRequests(page) == [page EXCEPT !.loading = TRUE]

\* The mount effect of a page that was just opened.
OpenRequests(s) ==
    /\ Free(s)
    /\ reqs' = loadRequests(NewPage)
    /\ reqCalls' = [reqCalls EXCEPT ![s] = Loading([NoCall EXCEPT !.op = "load", !.live = TRUE])]
    /\ UNCHANGED <<server, lost>>

\* Left: the calls go on, what they set is not there any more.
LeaveRequests ==
    /\ reqs' = NewPage
    /\ reqCalls' = [s \in Slots |-> IF reqCalls[s].phase \in {"free", "loading"} THEN NoCall
                                    ELSE [reqCalls[s] EXCEPT !.live = FALSE]]
    /\ UNCHANGED <<server, lost>>

LoadMine(s) ==
    /\ reqCalls[s].phase = "loading" /\ reqCalls[s].own = Unread
    /\ reqCalls' = [reqCalls EXCEPT ![s].own = get_my_requests]
    /\ UNCHANGED <<server, reqs, lost>>

LoadApprovals(s) ==
    /\ reqCalls[s].phase = "loading" /\ reqCalls[s].all = NoneYet
    /\ reqCalls' = [reqCalls EXCEPT ![s].all = get_pending_approvals]
    /\ UNCHANGED <<server, reqs, lost>>

\* finally of the handler that awaits the reload.
Finish(page, call) ==
    [page EXCEPT !.processing = @ /\ call.op \notin {"approve", "reject"}]

\* finally of loadRequests, whatever the answers.
LoadEnds(page) == [page EXCEPT !.loading = FALSE]

LoadArrives(s) ==
    LET call == reqCalls[s] IN
    /\ call.phase = "loading" /\ call.own # Unread /\ call.all # NoneYet
    /\ reqs' = Finish(LoadEnds(
           [reqs EXCEPT !.mine = call.own, !.approvals = call.all]), call)
    /\ reqCalls' = [reqCalls EXCEPT ![s] = NoCall]
    /\ UNCHANGED <<server, lost>>

LoadFails(s) ==
    /\ reqCalls[s].phase = "loading" /\ lost < MaxLost
    /\ lost' = lost + 1
    /\ reqs' = Finish(LoadEnds(reqs), reqCalls[s])
    /\ reqCalls' = [reqCalls EXCEPT ![s] = NoCall]
    /\ UNCHANGED server

-----------------------------------------------------------------------------
\* Clicks.  The dialog keeps the row it was opened with.

Review(r) ==
    /\ Tables /\ r \in reqs.approvals
    /\ reqs' = [reqs EXCEPT !.dialog = TRUE, !.selected = [id |-> r, status |-> "pending"]]
    /\ UNCHANGED <<server, reqCalls, lost>>

ViewNotes(r) ==
    /\ Tables /\ r \in Mine /\ reqs.mine[r] \in {"approved", "rejected"}
    /\ reqs' = [reqs EXCEPT !.dialog = TRUE, !.selected = [id |-> r, status |-> reqs.mine[r]]]
    /\ UNCHANGED <<server, reqCalls, lost>>

\* Cancel, Close, Esc and a click outside, the last two also while processing.
CloseDialog ==
    /\ DialogShown
    /\ reqs' = [reqs EXCEPT !.dialog = FALSE]
    /\ UNCHANGED <<server, reqCalls, lost>>

handleDecision(s, op) ==
    /\ DecisionButtons
    /\ Start(s, op, reqs.selected.id)
    /\ reqs' = [reqs EXCEPT !.processing = TRUE, !.success = NoSuccess]
    /\ UNCHANGED <<server, lost>>

handleApprove(s) == handleDecision(s, "approve")
handleReject(s) == handleDecision(s, "reject")

handleCancel(s, r) ==
    /\ Tables /\ r \in Mine /\ reqs.mine[r] = "pending"
    /\ Start(s, "cancel", r)
    /\ UNCHANGED <<server, reqs, lost>>

-----------------------------------------------------------------------------
\* The first query of a handler.
Look(s) ==
    LET call == reqCalls[s] IN
    /\ call.phase = "sent" /\ deciding[s] = Idle
    /\ IF Open(call.id)
       THEN Begin(s, [op |-> call.op, id |-> call.id]) /\ UNCHANGED reqCalls
       ELSE /\ reqCalls' = [reqCalls EXCEPT ![s].phase = "refused"]
            /\ UNCHANGED <<deciding, raced>>
    /\ UNCHANGED <<status, reqs, lost>>

Serve(s) ==
    /\ s \in Slots /\ deciding[s] # Idle
    /\ Commit(s)
    /\ reqCalls' = [reqCalls EXCEPT ![s].phase = "ok"]
    /\ UNCHANGED <<reqs, lost>>

\* The request or its answer is lost.  The interceptor sends it again, and gives up
\* after the second time.  What is being handled goes on, or ends with its worker.
Lost(s) ==
    /\ reqCalls[s].phase \in {"sent", "ok", "refused"} /\ lost < MaxLost
    /\ lost' = lost + 1
    /\ \E phase \in {"sent", "refused"} : reqCalls' = [reqCalls EXCEPT ![s].phase = phase]
    /\ \/ deciding' = [deciding EXCEPT ![s] = Idle]
       \/ \E h \in Handlers :
             /\ Spare(h) /\ deciding[s] # Idle
             /\ deciding' = [deciding EXCEPT ![s] = Idle, ![h] = deciding[s]]
    /\ UNCHANGED <<status, raced, reqs>>

\* A decision clears the dialog and the selection of that moment, then reloads.
Succeeds(s) ==
    LET call == reqCalls[s]
        told == [reqs EXCEPT !.success = [op |-> call.op, id |-> call.id]]
    IN
    /\ call.phase = "ok"
    /\ IF call.live
       THEN /\ reqs' = loadRequests(IF call.op = "cancel" THEN told
                                    ELSE [told EXCEPT !.dialog = FALSE, !.selected = Nothing])
            /\ reqCalls' = [reqCalls EXCEPT ![s] = Loading(call)]
       ELSE UNCHANGED reqs /\ reqCalls' = [reqCalls EXCEPT ![s] = NoCall]
    /\ UNCHANGED <<server, lost>>

Fails(s) ==
    LET call == reqCalls[s] IN
    /\ call.phase = "refused"
    /\ reqs' = IF call.live THEN Finish(reqs, call) ELSE reqs
    /\ reqCalls' = [reqCalls EXCEPT ![s] = NoCall]
    /\ UNCHANGED <<server, lost>>

-----------------------------------------------------------------------------
\* Other people: requests are made, settled by another approver, or withdrawn.
Others ==
    /\ \/ \E r \in Requests :
             /\ status[r] = "none" /\ status' = [status EXCEPT ![r] = "pending"]
             /\ UNCHANGED <<deciding, raced>>
       \/ \E h \in Handlers, d \in Decisions :
             /\ Spare(h) /\ status[d.id] # "none" /\ Open(d.id)
             /\ d.op = "cancel" => d.id \notin Mine
             /\ Begin(h, d) /\ UNCHANGED status
    /\ UNCHANGED <<reqs, reqCalls, lost>>

OthersCommit(h) ==
    /\ h \in Handlers \ Slots /\ deciding[h] # Idle
    /\ Commit(h)
    /\ UNCHANGED <<reqs, reqCalls, lost>>

\* What the answers of the server and the network do.
RequestAnswers ==
    \/ \E h \in Handlers : OthersCommit(h)
    \/ \E s \in Slots :
        \/ LoadMine(s) \/ LoadApprovals(s) \/ LoadArrives(s) \/ LoadFails(s)
        \/ Look(s) \/ Serve(s) \/ Lost(s) \/ Succeeds(s) \/ Fails(s)

RequestClicks ==
    \/ \E r \in Requests : Review(r) \/ ViewNotes(r)
    \/ CloseDialog
    \/ \E s \in Slots : handleApprove(s) \/ handleReject(s) \/ \E r \in Mine : handleCancel(s, r)

PageSet ==
    [mine : [Mine -> Statuses], approvals : SUBSET Requests,
     loading : BOOLEAN, processing : BOOLEAN, dialog : BOOLEAN,
     selected : {Nothing} \cup [id : Requests, status : Statuses],
     success : {NoSuccess} \cup [op : {"approve", "reject", "cancel"}, id : Requests]]

CallSet ==
    [op : {"none", "load", "approve", "reject", "cancel"}, id : Requests \cup {"nothing"},
     phase : {"free", "sent", "ok", "refused", "loading"}, live : BOOLEAN,
     own : {Unread} \cup [Mine -> Statuses], all : {NoneYet} \cup SUBSET Requests]

RequestsTypeOK ==
    /\ status \in [Requests -> Statuses] /\ reqs \in PageSet
    /\ deciding \in [Handlers -> {Idle} \cup Decisions] /\ raced \subseteq Requests
    /\ reqCalls \in [Slots -> CallSet]
    /\ lost \in 0..MaxLost
=============================================================================
