--------------------------- MODULE GovernanceProofs ---------------------------
(***************************************************************************)
(* Theorems about Governance, for any requests, people and users, and any   *)
(* bounds on rows, calls in flight, losses, clicks and others' changes.     *)
(***************************************************************************)
EXTENDS Governance, SequenceTheorems, TLAPS

Slots == 1..MaxCalls

\* A slot gets another call.
LEMMA Put ==
    ASSUME NEW S, NEW calls, NEW V, calls \in [S -> V], NEW s \in S, NEW call \in V
    PROVE  /\ [calls EXCEPT ![s] = call] \in [S -> V]
           /\ \A t \in S : [calls EXCEPT ![s] = call][t] = IF t = s THEN call ELSE calls[t]
    OBVIOUS

-----------------------------------------------------------------------------
(***************************************************************************)
(* Access requests.  A handler commits what it found pending, unless two    *)
(* found it so; a call that was granted left its request as it says: what   *)
(* is settled is changed by such a pair only.                               *)
(***************************************************************************)

\* What the server is doing: a request that only one handler works on is pending still.
DecidingSound(table, work, races) ==
    /\ work \in [R!Handlers -> {R!Idle} \cup R!Decisions] /\ races \subseteq Requests
    /\ \A h \in R!Handlers :
          work[h] # R!Idle /\ work[h].id \notin races => table[work[h].id] = "pending"
    /\ \A h, k \in R!Handlers :
          h # k /\ work[h] # R!Idle /\ work[k] # R!Idle /\ work[h].id = work[k].id
            => work[h].id \in races

\* What is left of an operation.
Settles(op, r, table, races) ==
    table[r] \in R!Settled /\ (r \notin races => table[r] = R!Outcome(op))

RequestCallSound(call, table, races) ==
    /\ call.phase \in {"sent", "ok", "refused"} =>
          call.op \in {"approve", "reject", "cancel"} /\ call.id \in Requests
    /\ call.phase = "ok" => Settles(call.op, call.id, table, races)

\* Handler s serves the call of slot s.
Served(call, work) ==
    work # R!Idle => call.phase = "sent" /\ work = [op |-> call.op, id |-> call.id]

RequestCallsSound ==
    /\ reqCalls \in [Slots -> R!CallSet]
    /\ \A s \in Slots : RequestCallSound(reqCalls[s], status, raced)
    /\ \A s \in Slots : Served(reqCalls[s], deciding[s])

RequestPageSound == reqs \in R!PageSet /\ RequestSuccessIsTrue

RequestsSound ==
    /\ status \in [Requests -> R!Statuses]
    /\ DecidingSound(status, deciding, raced)
    /\ RequestPageSound /\ RequestCallsSound

\* What was settled stays so, and as it is unless two raced.
SettledKept ==
    /\ status' \in [Requests -> R!Statuses]
    /\ raced \subseteq raced'
    /\ \A r \in Requests : status[r] \in R!Settled =>
          status'[r] \in R!Settled /\ (r \notin raced' => status'[r] = status[r])

LEMMA SlotsHandle == Slots \subseteq R!Handlers /\ Slots = R!Slots
    BY BoundAssumption DEF Slots, R!Slots, R!Handlers

LEMMA SettledSame ==
    ASSUME status \in [Requests -> R!Statuses], UNCHANGED status, raced \subseteq raced'
    PROVE  SettledKept
    BY DEF SettledKept

\* A handler that found its request pending joins the others.
LEMMA Begun ==
    ASSUME status \in [Requests -> R!Statuses], DecidingSound(status, deciding, raced),
           NEW h \in R!Handlers, deciding[h] = R!Idle, NEW d \in R!Decisions,
           R!Open(d.id), R!Begin(h, d)
    PROVE  /\ DecidingSound(status, deciding', raced') /\ raced \subseteq raced'
           /\ \A k \in R!Handlers : deciding'[k] = IF k = h THEN d ELSE deciding[k]
<1>1. /\ deciding \in [R!Handlers -> {R!Idle} \cup R!Decisions] /\ raced \subseteq Requests
      /\ deciding' = [deciding EXCEPT ![h] = d] /\ d.id \in Requests /\ d # R!Idle
      /\ status[d.id] = "pending"
    BY DEF DecidingSound, R!Begin, R!Decisions, R!Idle, R!Open
<1>2. /\ deciding' \in [R!Handlers -> {R!Idle} \cup R!Decisions]
      /\ \A k \in R!Handlers : deciding'[k] = IF k = h THEN d ELSE deciding[k]
    BY <1>1
<1>3. /\ raced \subseteq raced' /\ raced' \subseteq Requests
      /\ (\E k \in R!Handlers : deciding[k] # R!Idle /\ deciding[k].id = d.id) => d.id \in raced'
    BY <1>1 DEF R!Begin
<1>4. ASSUME NEW k \in R!Handlers, deciding'[k] # R!Idle, deciding'[k].id \notin raced'
      PROVE  status[deciding'[k].id] = "pending"
    BY <1>1, <1>2, <1>3, <1>4 DEF DecidingSound
<1>5. ASSUME NEW k \in R!Handlers, NEW l \in R!Handlers, k # l,
             deciding'[k] # R!Idle, deciding'[l] # R!Idle, deciding'[k].id = deciding'[l].id
      PROVE  deciding'[k].id \in raced'
    BY <1>1, <1>2, <1>3, <1>5 DEF DecidingSound
<1> QED
    BY <1>2, <1>3, <1>4, <1>5 DEF DecidingSound

LEMMA Committed ==
    ASSUME status \in [Requests -> R!Statuses], DecidingSound(status, deciding, raced),
           NEW h \in R!Handlers, deciding[h] # R!Idle, R!Commit(h)
    PROVE  /\ SettledKept /\ DecidingSound(status', deciding', raced')
           /\ Settles(deciding[h].op, deciding[h].id, status', raced')
           /\ \A k \in R!Handlers : deciding'[k] = IF k = h THEN R!Idle ELSE deciding[k]
<1> DEFINE d == deciding[h]
<1>1. /\ deciding \in [R!Handlers -> {R!Idle} \cup R!Decisions] /\ raced' = raced
      /\ d.id \in Requests /\ d.op \in {"approve", "reject", "cancel"} /\ raced \subseteq Requests
    BY DEF DecidingSound, R!Commit, R!Decisions
<1>2. R!Outcome(d.op) \in R!Settled /\ R!Settled \subseteq R!Statuses
    BY <1>1 DEF R!Outcome, R!Statuses, R!Settled
<1>3. /\ status' \in [Requests -> R!Statuses]
      /\ \A r \in Requests : status'[r] = IF r = d.id THEN R!Outcome(d.op) ELSE status[r]
    BY <1>1, <1>2 DEF R!Commit, R!Settle
<1>4. /\ deciding' \in [R!Handlers -> {R!Idle} \cup R!Decisions]
      /\ \A k \in R!Handlers : deciding'[k] = IF k = h THEN R!Idle ELSE deciding[k]
    BY <1>1 DEF R!Commit
<1>5. d.id \notin raced => status[d.id] = "pending"
    BY DEF DecidingSound
<1> HIDE DEF d
<1>6. SettledKept
    BY <1>1, <1>2, <1>3, <1>5 DEF SettledKept, R!Settled
<1>7. ASSUME NEW k \in R!Handlers, deciding'[k] # R!Idle
      PROVE  /\ k # h /\ deciding'[k] = deciding[k] /\ deciding[k].id \in Requests
             /\ deciding[k].id = d.id => d.id \in raced
    BY <1>1, <1>4, <1>7 DEF DecidingSound, d, R!Decisions
<1>8. DecidingSound(status', deciding', raced')
  <2>1. ASSUME NEW k \in R!Handlers, deciding'[k] # R!Idle, deciding'[k].id \notin raced'
        PROVE  status'[deciding'[k].id] = "pending"
      BY <1>1, <1>3, <1>7, <2>1 DEF DecidingSound
  <2>2. ASSUME NEW k \in R!Handlers, NEW l \in R!Handlers, k # l,
               deciding'[k] # R!Idle, deciding'[l] # R!Idle, deciding'[k].id = deciding'[l].id
        PROVE  deciding'[k].id \in raced'
      BY <1>1, <1>7, <2>2 DEF DecidingSound
  <2> QED
      BY <1>1, <1>4, <2>1, <2>2 DEF DecidingSound
<1> QED
    BY <1>1, <1>2, <1>3, <1>4, <1>6, <1>8 DEF Settles, d

\* Calls and successes outlive changes of the table.
LEMMA SettlesKept ==
    ASSUME SettledKept, NEW op, NEW r \in Requests, Settles(op, r, status, raced)
    PROVE  Settles(op, r, status', raced')
    BY DEF SettledKept, Settles

LEMMA CallKept ==
    ASSUME SettledKept, NEW call, RequestCallSound(call, status, raced)
    PROVE  RequestCallSound(call, status', raced')
    BY SettlesKept DEF RequestCallSound

\* The table changes, the calls do not.
LEMMA CallsKept ==
    ASSUME SettledKept, RequestCallsSound, UNCHANGED reqCalls,
           \A s \in Slots : deciding'[s] \in {deciding[s], R!Idle}
    PROVE  RequestCallsSound'
<1>1. \A s \in Slots : RequestCallSound(reqCalls[s], status', raced')
    BY CallKept DEF RequestCallsSound
<1>2. \A s \in Slots : Served(reqCalls[s], deciding'[s])
    BY DEF RequestCallsSound, Served
<1> QED
    BY <1>1, <1>2 DEF RequestCallsSound, Slots, R!CallSet, R!Unread, R!Statuses, R!NoneYet,
        RequestCallSound, Served, Settles, R!Outcome, R!Settled, R!Idle

\* What the page says holds of the table.
Reported(success, table, races) ==
    success # R!NoSuccess => Settles(success.op, success.id, table, races)

LEMMA ReportIs == RequestSuccessIsTrue <=> Reported(reqs.success, status, raced)
    BY DEF RequestSuccessIsTrue, Reported, Settles

LEMMA ReportWillBe == RequestSuccessIsTrue' <=> Reported(reqs'.success, status', raced')
    BY DEF RequestSuccessIsTrue, Reported, Settles, R!NoSuccess, R!Settled, R!Outcome

LEMMA PageKept ==
    ASSUME SettledKept, RequestPageSound, reqs' \in R!PageSet,
           reqs'.success \in {reqs.success, R!NoSuccess}
    PROVE  RequestPageSound'
<1> SUFFICES ASSUME reqs'.success # R!NoSuccess
             PROVE  Settles(reqs'.success.op, reqs'.success.id, status', raced')
    BY ReportWillBe DEF RequestPageSound, Reported, R!PageSet, R!NoSuccess, R!Statuses
<1>1. reqs'.success = reqs.success
    OBVIOUS
<1>2. reqs.success.id \in Requests
    BY <1>1 DEF RequestPageSound, R!PageSet
<1> QED
    BY <1>1, <1>2, SettlesKept, ReportIs DEF RequestPageSound, Reported

\* One call changes, and so may what the server does for it.
LEMMA CallPut ==
    ASSUME SettledKept, RequestCallsSound, NEW s \in Slots, NEW call \in R!CallSet,
           RequestCallSound(call, status', raced'), Served(call, deciding'[s]),
           \A t \in Slots : t # s => deciding'[t] \in {deciding[t], R!Idle},
           reqCalls' = [reqCalls EXCEPT ![s] = call]
    PROVE  RequestCallsSound'
<1>1. /\ reqCalls' \in [Slots -> R!CallSet]
      /\ \A t \in Slots : reqCalls'[t] = IF t = s THEN call ELSE reqCalls[t]
    BY Put DEF RequestCallsSound
<1>2. \A t \in Slots : RequestCallSound(reqCalls'[t], status', raced')
    BY <1>1, CallKept DEF RequestCallsSound
<1>3. \A t \in Slots : Served(reqCalls'[t], deciding'[t])
    BY <1>1 DEF RequestCallsSound, Served
<1> QED
    BY <1>1, <1>2, <1>3 DEF RequestCallsSound, Slots, R!CallSet, R!Unread, R!Statuses, R!NoneYet,
        RequestCallSound, Served, Settles, R!Outcome, R!Settled, R!Idle

LEMMA RequestCallTyped == R!NoCall \in R!CallSet /\ RequestCallSound(R!NoCall, status', raced')
    BY DEF R!NoCall, R!CallSet, RequestCallSound

LEMMA LoadingTyped ==
    ASSUME NEW call \in R!CallSet
    PROVE  /\ R!Loading(call) \in R!CallSet
           /\ RequestCallSound(R!Loading(call), status, raced)
           /\ RequestCallSound(R!Loading(call), status', raced')
<1> DEFINE new == R!Loading(call)
<1>1. new \in R!CallSet /\ new.phase = "loading"
    BY DEF R!Loading, R!CallSet
<1> QED
    BY <1>1 DEF RequestCallSound

LEMMA PageTyped == R!NewPage \in R!PageSet /\ R!NewPage.success = R!NoSuccess
    BY DEF R!NewPage, R!PageSet, R!Statuses

\* What the call of a slot is.
LEMMA CallOf ==
    ASSUME RequestsSound, NEW s \in Slots
    PROVE  /\ reqCalls[s] \in R!CallSet /\ RequestCallSound(reqCalls[s], status, raced)
           /\ Served(reqCalls[s], deciding[s])
    BY DEF RequestsSound, RequestCallsSound

LEMMA ServerSame ==
    ASSUME RequestsSound, UNCHANGED R!server
    PROVE  /\ SettledKept /\ status' \in [Requests -> R!Statuses]
           /\ DecidingSound(status', deciding', raced')
<1>1. status' = status /\ deciding' = deciding /\ raced' = raced
    BY DEF R!server
<1> QED
    BY <1>1, SettledSame DEF RequestsSound

\* The page and one call, which the server is not serving, change; the table does not.
LEMMA RequestStep ==
    ASSUME RequestsSound, UNCHANGED R!server, reqs' \in R!PageSet,
           reqs'.success \in {reqs.success, R!NoSuccess},
           NEW s \in Slots, reqCalls[s].phase # "sent",
           NEW call \in R!CallSet, RequestCallSound(call, status, raced),
           reqCalls' = [reqCalls EXCEPT ![s] = call]
    PROVE  RequestsSound'
<1>1. SettledKept /\ status' \in [Requests -> R!Statuses]
      /\ DecidingSound(status', deciding', raced')
    BY ServerSame
<1>2. status' = status /\ raced' = raced /\ deciding' = deciding
    BY DEF R!server
<1>3. deciding[s] = R!Idle
    BY CallOf DEF Served
<1>4. RequestCallsSound'
    BY <1>1, <1>2, <1>3, CallPut DEF RequestsSound, Served
<1>5. RequestPageSound'
    BY <1>1, PageKept DEF RequestsSound
<1> QED
    BY <1>1, <1>4, <1>5 DEF RequestsSound, DecidingSound, R!Handlers, R!Decisions, R!Idle

\* The page changes alone.
LEMMA RequestPageStep ==
    ASSUME RequestsSound, UNCHANGED <<R!server, reqCalls>>, reqs' \in R!PageSet,
           reqs'.success \in {reqs.success, R!NoSuccess}
    PROVE  RequestsSound'
<1>1. SettledKept /\ status' \in [Requests -> R!Statuses]
      /\ DecidingSound(status', deciding', raced')
    BY ServerSame
<1>2. deciding' = deciding
    BY DEF R!server
<1> QED
    BY <1>1, <1>2, CallsKept, PageKept
       DEF RequestsSound, DecidingSound, R!Handlers, R!Decisions, R!Idle

-----------------------------------------------------------------------------
\* Steps of the requests page that leave the table alone.

LEMMA OpenRequestsSound ==
    ASSUME RequestsSound, NEW s \in Slots, R!OpenRequests(s)
    PROVE  RequestsSound'
<1> DEFINE new == R!loadRequests(R!NewPage)
           first == [R!NoCall EXCEPT !.op = "load", !.live = TRUE]
<1>2. new \in R!PageSet /\ new.success = R!NoSuccess
    BY PageTyped DEF R!loadRequests, R!PageSet
<1>3. first \in R!CallSet
    BY RequestCallTyped DEF R!CallSet
<1>4. /\ reqCalls' = [reqCalls EXCEPT ![s] = R!Loading(first)] /\ reqs' = new
      /\ reqCalls[s].phase = "free" /\ UNCHANGED R!server
    BY DEF R!OpenRequests, R!Free
<1> HIDE DEF first, new
<1> QED
    BY <1>2, <1>3, <1>4, LoadingTyped, RequestStep

LEMMA LeaveRequestsSound ==
    ASSUME RequestsSound, R!LeaveRequests
    PROVE  RequestsSound'
<1>1. SettledKept /\ status' \in [Requests -> R!Statuses]
      /\ DecidingSound(status', deciding', raced')
    BY ServerSame DEF R!LeaveRequests
<1>2. RequestPageSound'
    BY <1>1, PageTyped, PageKept DEF RequestsSound, R!LeaveRequests
<1>3. status' = status /\ deciding' = deciding /\ raced' = raced
    BY DEF R!LeaveRequests, R!server
<1>4. ASSUME NEW s \in Slots
      PROVE  /\ reqCalls'[s] \in R!CallSet /\ RequestCallSound(reqCalls'[s], status', raced')
             /\ Served(reqCalls'[s], deciding'[s])
  <2>1. /\ reqCalls[s] \in R!CallSet /\ RequestCallSound(reqCalls[s], status', raced')
        /\ Served(reqCalls[s], deciding'[s])
      BY <1>3, CallOf
  <2> DEFINE left == [reqCalls[s] EXCEPT !.live = FALSE]
  <2>2. left \in R!CallSet /\ left.op = reqCalls[s].op /\ left.id = reqCalls[s].id
        /\ left.phase = reqCalls[s].phase
      BY <2>1 DEF R!CallSet
  <2>3. /\ reqCalls'[s] \in {R!NoCall, left}
        /\ reqCalls'[s] = R!NoCall => reqCalls[s].phase # "sent" \/ left = R!NoCall
      BY DEF R!LeaveRequests, R!Slots, Slots
  <2> HIDE DEF left
  <2>4. left.phase = "sent" => left # R!NoCall
      BY DEF R!NoCall
  <2>5. RequestCallSound(left, status', raced') /\ Served(left, deciding'[s])
      BY <2>1, <2>2 DEF RequestCallSound, Served
  <2>6. reqCalls'[s] = R!NoCall => Served(reqCalls'[s], deciding'[s])
      BY <2>1, <2>2, <2>3, <2>4 DEF Served
  <2> QED
      BY <2>2, <2>3, <2>5, <2>6, RequestCallTyped
<1>5. reqCalls' \in [Slots -> R!CallSet]
    BY <1>4 DEF R!LeaveRequests, R!Slots, Slots
<1>6. RequestCallsSound'
    BY <1>4, <1>5 DEF RequestCallsSound, Slots, R!CallSet, R!Unread, R!Statuses, R!NoneYet,
        RequestCallSound, Served, Settles, R!Outcome, R!Settled, R!Idle
<1> QED
    BY <1>1, <1>2, <1>6 DEF RequestsSound, DecidingSound, R!Handlers, R!Decisions, R!Idle

LEMMA LoadMineSound ==
    ASSUME RequestsSound, NEW s \in Slots, R!LoadMine(s)
    PROVE  RequestsSound'
<1> DEFINE new == [reqCalls[s] EXCEPT !.own = R!get_my_requests]
<1>1. R!get_my_requests \in [Mine -> R!Statuses]
    BY RequestAssumption DEF R!get_my_requests, RequestsSound
<1>2. new \in R!CallSet /\ new.phase = "loading"
    BY <1>1, CallOf DEF R!CallSet, R!LoadMine
<1>3. /\ reqCalls' = [reqCalls EXCEPT ![s] = new] /\ UNCHANGED <<R!server, reqs>>
      /\ reqCalls[s].phase = "loading"
    BY DEF R!LoadMine
<1> HIDE DEF new
<1> QED
    BY <1>2, <1>3, RequestStep DEF RequestCallSound, RequestsSound, RequestPageSound

LEMMA LoadApprovalsSound ==
    ASSUME RequestsSound, NEW s \in Slots, R!LoadApprovals(s)
    PROVE  RequestsSound'
<1> DEFINE new == [reqCalls[s] EXCEPT !.all = R!get_pending_approvals]
<1>1. R!get_pending_approvals \in SUBSET Requests
    BY DEF R!get_pending_approvals
<1>2. new \in R!CallSet /\ new.phase = "loading"
    BY <1>1, CallOf DEF R!CallSet, R!LoadApprovals
<1>3. /\ reqCalls' = [reqCalls EXCEPT ![s] = new] /\ UNCHANGED <<R!server, reqs>>
      /\ reqCalls[s].phase = "loading"
    BY DEF R!LoadApprovals
<1> HIDE DEF new
<1> QED
    BY <1>2, <1>3, RequestStep DEF RequestCallSound, RequestsSound, RequestPageSound

\* The ends of a reload and of its handler.
LEMMA LoadEndsTyped ==
    ASSUME NEW shown \in R!PageSet, NEW call
    PROVE  /\ R!Finish(shown, call) \in R!PageSet
           /\ R!Finish(shown, call).success = shown.success
           /\ R!LoadEnds(shown) \in R!PageSet /\ R!LoadEnds(shown).success = shown.success
    BY DEF R!Finish, R!LoadEnds, R!PageSet

LEMMA LoadArrivesSound ==
    ASSUME RequestsSound, NEW s \in Slots, R!LoadArrives(s)
    PROVE  RequestsSound'
<1> DEFINE call == reqCalls[s]
           shown == [reqs EXCEPT !.mine = call.own, !.approvals = call.all]
<1>1. call.own \in [Mine -> R!Statuses] /\ call.all \in SUBSET Requests
    BY CallOf DEF R!CallSet, R!LoadArrives
<1>2. shown \in R!PageSet /\ shown.success = reqs.success
    BY <1>1 DEF R!PageSet, RequestsSound, RequestPageSound
<1>3. /\ reqs' = R!Finish(R!LoadEnds(shown), call)
      /\ reqCalls' = [reqCalls EXCEPT ![s] = R!NoCall] /\ UNCHANGED R!server
      /\ reqCalls[s].phase = "loading"
    BY DEF R!LoadArrives
<1> HIDE DEF call, shown
<1>4. reqs' \in R!PageSet /\ reqs'.success = reqs.success
    BY <1>2, <1>3, LoadEndsTyped
<1> QED
    BY <1>3, <1>4, RequestStep, RequestCallTyped DEF RequestCallSound, R!NoCall

LEMMA LoadFailsSound ==
    ASSUME RequestsSound, NEW s \in Slots, R!LoadFails(s)
    PROVE  RequestsSound'
<1>1. /\ reqs \in R!PageSet /\ reqs' = R!Finish(R!LoadEnds(reqs), reqCalls[s])
      /\ reqCalls' = [reqCalls EXCEPT ![s] = R!NoCall] /\ UNCHANGED R!server
      /\ reqCalls[s].phase = "loading"
    BY DEF R!LoadFails, RequestsSound, RequestPageSound
<1>2. reqs' \in R!PageSet /\ reqs'.success = reqs.success
    BY <1>1, LoadEndsTyped
<1> QED
    BY <1>1, <1>2, RequestStep, RequestCallTyped DEF RequestCallSound, R!NoCall

LEMMA ReviewSound ==
    ASSUME RequestsSound, NEW r \in Requests, R!Review(r) \/ R!ViewNotes(r) \/ R!CloseDialog
    PROVE  RequestsSound'
<1>1. reqs \in R!PageSet
    BY DEF RequestsSound, RequestPageSound
<1>2. CASE R!Review(r)
  <2>1. reqs' \in R!PageSet /\ reqs'.success = reqs.success
      BY <1>1, <1>2 DEF R!Review, R!PageSet, R!Statuses
  <2> QED
      BY <1>2, <2>1, RequestPageStep DEF R!Review
<1>3. CASE R!ViewNotes(r)
  <2>1. reqs' \in R!PageSet /\ reqs'.success = reqs.success
      BY <1>1, <1>3 DEF R!ViewNotes, R!PageSet, R!Statuses
  <2> QED
      BY <1>3, <2>1, RequestPageStep DEF R!ViewNotes
<1>4. CASE R!CloseDialog
  <2>1. reqs' \in R!PageSet /\ reqs'.success = reqs.success
      BY <1>1, <1>4 DEF R!CloseDialog, R!PageSet
  <2> QED
      BY <1>4, <2>1, RequestPageStep DEF R!CloseDialog
<1> QED
    BY <1>2, <1>3, <1>4

\* A call that is made is about a request.
LEMMA RequestSent ==
    ASSUME NEW op \in {"approve", "reject", "cancel"}, NEW r \in Requests
    PROVE  /\ [R!NoCall EXCEPT !.op = op, !.id = r, !.phase = "sent", !.live = TRUE] \in R!CallSet
           /\ RequestCallSound([R!NoCall EXCEPT !.op = op, !.id = r, !.phase = "sent",
                                                !.live = TRUE], status, raced)
    BY DEF R!NoCall, R!CallSet, RequestCallSound

LEMMA DecisionSound ==
    ASSUME RequestsSound, NEW s \in Slots, NEW op \in {"approve", "reject"}, R!handleDecision(s, op)
    PROVE  RequestsSound'
<1>1. reqs \in R!PageSet
    BY DEF RequestsSound, RequestPageSound
<1>2. reqs.selected.id \in Requests
    BY <1>1 DEF R!handleDecision, R!DecisionButtons, R!PageSet, R!Nothing
<1>3. reqs' \in R!PageSet /\ reqs'.success = R!NoSuccess
    BY <1>1 DEF R!handleDecision, R!PageSet
<1> DEFINE new == [R!NoCall EXCEPT !.op = op, !.id = reqs.selected.id, !.phase = "sent", !.live = TRUE]
<1>4. new \in R!CallSet /\ RequestCallSound(new, status, raced)
    BY <1>2, RequestSent
<1>5. /\ reqCalls' = [reqCalls EXCEPT ![s] = new] /\ UNCHANGED R!server
      /\ reqCalls[s].phase = "free"
    BY DEF R!handleDecision, R!Start, R!Free
<1> HIDE DEF new
<1> QED
    BY <1>3, <1>4, <1>5, RequestStep

LEMMA CancelSound ==
    ASSUME RequestsSound, NEW s \in Slots, NEW r \in Mine, R!handleCancel(s, r)
    PROVE  RequestsSound'
<1> DEFINE new == [R!NoCall EXCEPT !.op = "cancel", !.id = r, !.phase = "sent", !.live = TRUE]
<1>1. new \in R!CallSet /\ RequestCallSound(new, status, raced)
    BY RequestSent, RequestAssumption
<1>2. /\ reqCalls' = [reqCalls EXCEPT ![s] = new] /\ UNCHANGED <<R!server, reqs>>
      /\ reqCalls[s].phase = "free"
    BY DEF R!handleCancel, R!Start, R!Free
<1> HIDE DEF new
<1> QED
    BY <1>1, <1>2, RequestStep DEF RequestsSound, RequestPageSound

LEMMA FailsSound ==
    ASSUME RequestsSound, NEW s \in Slots, R!Fails(s)
    PROVE  RequestsSound'
<1>1. /\ reqs \in R!PageSet /\ reqs' \in {reqs, R!Finish(reqs, reqCalls[s])}
      /\ reqCalls' = [reqCalls EXCEPT ![s] = R!NoCall] /\ UNCHANGED R!server
      /\ reqCalls[s].phase = "refused"
    BY DEF R!Fails, RequestsSound, RequestPageSound
<1>2. reqs' \in R!PageSet /\ reqs'.success = reqs.success
    BY <1>1, LoadEndsTyped
<1> QED
    BY <1>1, <1>2, RequestStep, RequestCallTyped DEF RequestCallSound, R!NoCall

\* What a handler reports is what the server did.
LEMMA SucceedsSound ==
    ASSUME RequestsSound, NEW s \in Slots, R!Succeeds(s)
    PROVE  RequestsSound'
<1> DEFINE call == reqCalls[s]
           success == [op |-> call.op, id |-> call.id]
<1>1. /\ call \in R!CallSet /\ RequestCallSound(call, status, raced) /\ reqs \in R!PageSet
      /\ Served(call, deciding[s])
    BY CallOf DEF RequestsSound, RequestPageSound
<1>2. call.phase = "ok" /\ UNCHANGED R!server
    BY DEF R!Succeeds
<1>3. call.op \in {"approve", "reject", "cancel"} /\ call.id \in Requests
      /\ Settles(call.op, call.id, status, raced)
    BY <1>1, <1>2 DEF RequestCallSound
<1>4. CASE ~call.live
  <2>1. UNCHANGED reqs /\ reqCalls' = [reqCalls EXCEPT ![s] = R!NoCall]
      BY <1>4 DEF R!Succeeds
  <2> QED
      BY <1>1, <1>2, <2>1, RequestStep, RequestCallTyped DEF RequestCallSound, R!NoCall
<1>5. CASE call.live
  <2> DEFINE told == [reqs EXCEPT !.success = success]
             closed == [told EXCEPT !.dialog = FALSE, !.selected = R!Nothing]
  <2>1. told \in R!PageSet /\ told.success = success
      BY <1>1, <1>3 DEF R!PageSet
  <2> HIDE DEF told
  <2>2. closed \in R!PageSet /\ closed.success = success
      BY <2>1 DEF R!PageSet
  <2>3. /\ reqs' = R!loadRequests(IF call.op = "cancel" THEN told ELSE closed)
        /\ reqCalls' = [reqCalls EXCEPT ![s] = R!Loading(call)]
      BY <1>5 DEF R!Succeeds, told
  <2> HIDE DEF closed
  <2>4. reqs' \in R!PageSet /\ reqs'.success = success
      BY <2>1, <2>2, <2>3 DEF R!loadRequests, R!PageSet
  <2>5. /\ SettledKept /\ status' \in [Requests -> R!Statuses]
        /\ DecidingSound(status', deciding', raced')
      BY <1>2, ServerSame
  <2>6. status' = status /\ deciding' = deciding /\ raced' = raced
      BY <1>2 DEF R!server
  <2>7. RequestPageSound'
    <3>1. Reported(reqs'.success, status', raced')
        BY <1>3, <2>4, <2>6 DEF Reported
    <3> QED
        BY <2>4, <3>1, ReportWillBe DEF RequestPageSound, R!PageSet, R!NoSuccess, R!Statuses
  <2>8. deciding[s] = R!Idle
      BY <1>1, <1>2 DEF Served
  <2> HIDE DEF call
  <2>9. RequestCallsSound'
      BY <1>1, <2>3, <2>5, <2>6, <2>8, LoadingTyped, CallPut DEF RequestsSound, Served
  <2> QED
      BY <2>5, <2>7, <2>9 DEF RequestsSound, DecidingSound, R!Handlers, R!Decisions, R!Idle
<1> QED
    BY <1>4, <1>5

-----------------------------------------------------------------------------
\* Steps that change the table.

\* The same call with another phase.
LEMMA PhaseSet ==
    ASSUME NEW call \in R!CallSet, NEW phase \in {"sent", "ok", "refused"}
    PROVE  /\ [call EXCEPT !.phase = phase] \in R!CallSet
           /\ [call EXCEPT !.phase = phase].op = call.op
           /\ [call EXCEPT !.phase = phase].id = call.id
           /\ [call EXCEPT !.phase = phase].phase = phase
    BY DEF R!CallSet

\* The server and one call change, the page does not.
LEMMA ServerStep ==
    ASSUME RequestsSound, UNCHANGED reqs, SettledKept, DecidingSound(status', deciding', raced'),
           NEW s \in Slots, NEW phase \in {"sent", "ok", "refused"},
           reqCalls[s].phase = "sent" \/ phase # "ok",
           reqCalls[s].phase \in {"sent", "ok", "refused"},
           phase = "ok" => Settles(reqCalls[s].op, reqCalls[s].id, status', raced'),
           deciding'[s] = R!Idle \/
             (phase = "sent" /\ deciding'[s] = [op |-> reqCalls[s].op, id |-> reqCalls[s].id]),
           \A t \in Slots : t # s => deciding'[t] \in {deciding[t], R!Idle},
           reqCalls' = [reqCalls EXCEPT ![s].phase = phase]
    PROVE  RequestsSound'
<1> DEFINE call == reqCalls[s]
<1>1. PICK new : new = [reqCalls[s] EXCEPT !.phase = phase]
    OBVIOUS
<1>2. reqCalls' = [reqCalls EXCEPT ![s] = new]
    BY <1>1, Zenon
<1>3. call \in R!CallSet /\ RequestCallSound(call, status, raced)
    BY CallOf
<1>4. new \in R!CallSet /\ new.op = call.op /\ new.id = call.id /\ new.phase = phase
    BY <1>1, <1>3, PhaseSet
<1>5. call.op \in {"approve", "reject", "cancel"} /\ call.id \in Requests
    BY <1>3 DEF RequestCallSound
<1>6. RequestCallSound(new, status', raced') /\ Served(new, deciding'[s])
    BY <1>4, <1>5 DEF RequestCallSound, Served
<1> HIDE DEF call
<1>7. RequestCallsSound'
    BY <1>2, <1>4, <1>6, CallPut DEF RequestsSound
<1>8. RequestPageSound'
    BY PageKept DEF RequestsSound, RequestPageSound
<1> QED
    BY <1>7, <1>8 DEF RequestsSound, SettledKept, DecidingSound, R!Handlers, R!Decisions, R!Idle

LEMMA LookSound ==
    ASSUME RequestsSound, NEW s \in Slots, R!Look(s)
    PROVE  RequestsSound'
<1> DEFINE call == reqCalls[s]
           d == [op |-> call.op, id |-> call.id]
<1>1. /\ call \in R!CallSet /\ call.phase = "sent" /\ deciding[s] = R!Idle
      /\ call.op \in {"approve", "reject", "cancel"} /\ call.id \in Requests
      /\ s \in R!Handlers /\ UNCHANGED <<status, reqs>>
    BY CallOf, SlotsHandle DEF R!Look, RequestCallSound
<1>2. d \in R!Decisions /\ d.id = call.id
    BY <1>1 DEF R!Decisions
<1>3. CASE R!Open(call.id)
  <2>1. R!Begin(s, d) /\ UNCHANGED reqCalls
      BY <1>3 DEF R!Look
  <2> HIDE DEF d
  <2>2. /\ DecidingSound(status, deciding', raced') /\ raced \subseteq raced'
        /\ \A k \in R!Handlers : deciding'[k] = IF k = s THEN d ELSE deciding[k]
      BY <1>1, <1>2, <1>3, <2>1, Begun DEF RequestsSound
  <2>3. SettledKept
      BY <1>1, <2>2, SettledSame DEF RequestsSound
  <2>4. reqCalls' = [reqCalls EXCEPT ![s].phase = "sent"]
    <3>1. reqCalls[s] = [reqCalls[s] EXCEPT !.phase = "sent"]
        BY <1>1 DEF R!CallSet
    <3>2. reqCalls \in [Slots -> R!CallSet]
        BY DEF RequestsSound, RequestCallsSound
    <3> QED
        BY <2>1, <3>1, <3>2
  <2>5. deciding'[s] = [op |-> reqCalls[s].op, id |-> reqCalls[s].id]
      BY <1>1, <2>2 DEF d
  <2>6. DecidingSound(status', deciding', raced')
      BY <1>1, <2>2
  <2> QED
      BY <1>1, <2>2, <2>3, <2>4, <2>5, <2>6, SlotsHandle, ServerStep
<1>4. CASE ~R!Open(call.id)
  <2>1. /\ reqCalls' = [reqCalls EXCEPT ![s].phase = "refused"]
        /\ deciding' = deciding /\ raced' = raced
      BY <1>4 DEF R!Look
  <2>2. SettledKept /\ DecidingSound(status', deciding', raced')
      BY <1>1, <2>1, SettledSame DEF RequestsSound
  <2> QED
      BY <1>1, <2>1, <2>2, ServerStep
<1> QED
    BY <1>3, <1>4

LEMMA ServeSound ==
    ASSUME RequestsSound, NEW s \in Slots, R!Serve(s)
    PROVE  RequestsSound'
<1>1. /\ s \in R!Handlers /\ deciding[s] # R!Idle /\ R!Commit(s) /\ UNCHANGED reqs
      /\ reqCalls' = [reqCalls EXCEPT ![s].phase = "ok"]
    BY SlotsHandle DEF R!Serve
<1>2. reqCalls[s].phase = "sent" /\ deciding[s] = [op |-> reqCalls[s].op, id |-> reqCalls[s].id]
    BY <1>1, CallOf DEF Served
<1>3. /\ SettledKept /\ DecidingSound(status', deciding', raced')
      /\ Settles(deciding[s].op, deciding[s].id, status', raced')
      /\ \A k \in R!Handlers : deciding'[k] = IF k = s THEN R!Idle ELSE deciding[k]
    BY <1>1, Committed DEF RequestsSound
<1>4. Settles(reqCalls[s].op, reqCalls[s].id, status', raced')
    BY <1>2, <1>3
<1> QED
    BY <1>1, <1>2, <1>3, <1>4, SlotsHandle, ServerStep

\* A lost call's handler goes on for nobody, or is gone.
LEMMA LostSound ==
    ASSUME RequestsSound, NEW s \in Slots, R!Lost(s)
    PROVE  RequestsSound'
<1>1. PICK phase \in {"sent", "refused"} : reqCalls' = [reqCalls EXCEPT ![s].phase = phase]
    BY DEF R!Lost
<1>2. /\ reqCalls[s].phase \in {"sent", "ok", "refused"} /\ s \in R!Handlers
      /\ status' = status /\ raced' = raced /\ UNCHANGED reqs
    BY SlotsHandle DEF R!Lost
<1>3. DecidingSound(status, deciding, raced) /\ SettledKept
    BY <1>2, SettledSame DEF RequestsSound
<1>4. /\ DecidingSound(status, deciding', raced) /\ deciding'[s] = R!Idle
      /\ \A t \in Slots : t # s => deciding'[t] \in {deciding[t], R!Idle}
  <2>0. deciding \in [R!Handlers -> {R!Idle} \cup R!Decisions]
      BY <1>3 DEF DecidingSound
  <2>1. CASE deciding' = [deciding EXCEPT ![s] = R!Idle]
    <3>1. /\ deciding' \in [R!Handlers -> {R!Idle} \cup R!Decisions]
          /\ \A k \in R!Handlers : deciding'[k] = IF k = s THEN R!Idle ELSE deciding[k]
        BY <1>2, <2>0, <2>1
    <3> QED
        BY <1>2, <1>3, <3>1, SlotsHandle DEF DecidingSound
  <2>2. CASE \E h \in R!Handlers :
                /\ R!Spare(h) /\ deciding[s] # R!Idle
                /\ deciding' = [deciding EXCEPT ![s] = R!Idle, ![h] = deciding[s]]
    <3>1. PICK h \in R!Handlers :
                /\ R!Spare(h) /\ deciding[s] # R!Idle
                /\ deciding' = [deciding EXCEPT ![s] = R!Idle, ![h] = deciding[s]]
        BY <2>2
    <3>2. deciding[h] = R!Idle /\ h \notin Slots /\ h # s
        BY <3>1, SlotsHandle DEF R!Spare
    <3>3. deciding[s] \in {R!Idle} \cup R!Decisions
        BY <1>2, <2>0
    <3>4. /\ deciding' \in [R!Handlers -> {R!Idle} \cup R!Decisions]
          /\ \A k \in R!Handlers : deciding'[k] = IF k = s THEN R!Idle
                                                 ELSE IF k = h THEN deciding[s] ELSE deciding[k]
        BY <1>2, <2>0, <3>1, <3>2, <3>3
    <3>5. ASSUME NEW k \in R!Handlers, deciding'[k] # R!Idle, deciding'[k].id \notin raced
          PROVE  status[deciding'[k].id] = "pending"
        BY <1>2, <1>3, <3>1, <3>4, <3>5 DEF DecidingSound
    <3>6. ASSUME NEW k \in R!Handlers, NEW l \in R!Handlers, k # l,
                 deciding'[k] # R!Idle, deciding'[l] # R!Idle, deciding'[k].id = deciding'[l].id
          PROVE  deciding'[k].id \in raced
        BY <1>2, <1>3, <3>1, <3>2, <3>4, <3>6 DEF DecidingSound
    <3> QED
        BY <1>2, <1>3, <3>2, <3>4, <3>5, <3>6, SlotsHandle DEF DecidingSound
  <2> QED
      BY <2>1, <2>2 DEF R!Lost
<1>5. DecidingSound(status', deciding', raced')
    BY <1>2, <1>4
<1> QED
    BY <1>1, <1>2, <1>3, <1>4, <1>5, ServerStep

\* The server changes for others.
LEMMA OthersStep ==
    ASSUME RequestsSound, UNCHANGED <<reqs, reqCalls>>, SettledKept,
           DecidingSound(status', deciding', raced'),
           \A t \in Slots : deciding'[t] \in {deciding[t], R!Idle}
    PROVE  RequestsSound'
<1>1. RequestCallsSound'
    BY CallsKept DEF RequestsSound
<1>2. RequestPageSound'
    BY PageKept DEF RequestsSound, RequestPageSound
<1> QED
    BY <1>1, <1>2 DEF RequestsSound, SettledKept, DecidingSound, R!Handlers, R!Decisions, R!Idle

LEMMA OthersSound ==
    ASSUME RequestsSound, R!Others
    PROVE  RequestsSound'
<1>1. CASE \E r \in Requests : /\ status[r] = "none" /\ status' = [status EXCEPT ![r] = "pending"]
                               /\ UNCHANGED <<deciding, raced>>
  <2>1. PICK r \in Requests : /\ status[r] = "none" /\ status' = [status EXCEPT ![r] = "pending"]
                              /\ UNCHANGED <<deciding, raced>>
      BY <1>1
  <2>2. /\ status \in [Requests -> R!Statuses] /\ raced' = raced /\ deciding' = deciding
        /\ status' \in [Requests -> R!Statuses]
        /\ \A q \in Requests : status'[q] = IF q = r THEN "pending" ELSE status[q]
      BY <2>1 DEF RequestsSound, R!Statuses
  <2>3. SettledKept
      BY <2>1, <2>2 DEF SettledKept, R!Settled
  <2>4. DecidingSound(status', deciding', raced')
    <3>1. DecidingSound(status, deciding, raced)
        BY DEF RequestsSound
    <3>2. \A h \in R!Handlers : deciding[h] # R!Idle => deciding[h].id \in Requests
        BY <3>1 DEF DecidingSound, R!Decisions
    <3> QED
        BY <2>2, <3>1, <3>2 DEF DecidingSound
  <2> QED
      BY <2>2, <2>3, <2>4, OthersStep DEF R!Others
<1>2. CASE \E h \in R!Handlers, d \in R!Decisions :
              /\ R!Spare(h) /\ status[d.id] # "none" /\ R!Open(d.id)
              /\ d.op = "cancel" => d.id \notin Mine
              /\ R!Begin(h, d) /\ UNCHANGED status
  <2>1. PICK h \in R!Handlers, d \in R!Decisions :
              R!Spare(h) /\ R!Open(d.id) /\ R!Begin(h, d) /\ UNCHANGED status
      BY <1>2
  <2>2. deciding[h] = R!Idle /\ h \notin Slots
      BY <2>1, SlotsHandle DEF R!Spare
  <2>3. /\ DecidingSound(status, deciding', raced') /\ raced \subseteq raced'
        /\ \A k \in R!Handlers : deciding'[k] = IF k = h THEN d ELSE deciding[k]
      BY <2>1, <2>2, Begun DEF RequestsSound
  <2>4. SettledKept /\ DecidingSound(status', deciding', raced')
      BY <2>1, <2>3, SettledSame DEF RequestsSound
  <2> QED
      BY <2>2, <2>3, <2>4, SlotsHandle, OthersStep DEF R!Others
<1> QED
    BY <1>1, <1>2 DEF R!Others

LEMMA OthersCommitSound ==
    ASSUME RequestsSound, NEW h \in R!Handlers, R!OthersCommit(h)
    PROVE  RequestsSound'
<1>1. deciding[h] # R!Idle /\ R!Commit(h) /\ UNCHANGED <<reqs, reqCalls>>
    BY DEF R!OthersCommit
<1>2. /\ SettledKept /\ DecidingSound(status', deciding', raced')
      /\ \A k \in R!Handlers : deciding'[k] = IF k = h THEN R!Idle ELSE deciding[k]
    BY <1>1, Committed DEF RequestsSound
<1> QED
    BY <1>1, <1>2, SlotsHandle, OthersStep

\* Losses are counted up to their bound.
LEMMA RequestLosses ==
    ASSUME lost \in 0..MaxLost, R!RequestAnswers
    PROVE  lost' \in 0..MaxLost
<1>1. lost' = lost \/ (lost < MaxLost /\ lost' = lost + 1)
  <2>1. CASE \E h \in R!Handlers : R!OthersCommit(h)
      BY <2>1 DEF R!OthersCommit
  <2>2. CASE \E s \in R!Slots : R!LoadMine(s) \/ R!LoadApprovals(s) \/ R!LoadArrives(s)
      BY <2>2 DEF R!LoadMine, R!LoadApprovals, R!LoadArrives
  <2>3. CASE \E s \in R!Slots : R!LoadFails(s) \/ R!Lost(s)
      BY <2>3 DEF R!LoadFails, R!Lost
  <2>4. CASE \E s \in R!Slots : R!Look(s) \/ R!Serve(s) \/ R!Succeeds(s) \/ R!Fails(s)
      BY <2>4 DEF R!Look, R!Serve, R!Succeeds, R!Fails
  <2> QED
      BY <2>1, <2>2, <2>3, <2>4 DEF R!RequestAnswers
<1> QED
    BY <1>1, BoundAssumption

LEMMA RequestAnswersSound ==
    ASSUME RequestsSound, R!RequestAnswers
    PROVE  RequestsSound'
<1>1. CASE \E h \in R!Handlers : R!OthersCommit(h)
    BY <1>1, OthersCommitSound
<1>2. CASE \E s \in R!Slots :
        \/ R!LoadMine(s) \/ R!LoadApprovals(s) \/ R!LoadArrives(s) \/ R!LoadFails(s)
        \/ R!Look(s) \/ R!Serve(s) \/ R!Lost(s) \/ R!Succeeds(s) \/ R!Fails(s)
    BY <1>2, SlotsHandle, LoadMineSound, LoadApprovalsSound, LoadArrivesSound, LoadFailsSound,
       LookSound, ServeSound, LostSound, SucceedsSound, FailsSound
<1> QED
    BY <1>1, <1>2 DEF R!RequestAnswers

LEMMA RequestClicksSound ==
    ASSUME RequestsSound, R!RequestClicks
    PROVE  RequestsSound' /\ UNCHANGED lost
<1>1. CASE \E r \in Requests : R!Review(r) \/ R!ViewNotes(r)
    BY <1>1, ReviewSound DEF R!Review, R!ViewNotes
<1>2. CASE R!CloseDialog
    BY <1>2, ReviewSound, RequestAssumption DEF R!CloseDialog
<1>3. CASE \E s \in R!Slots : R!handleApprove(s) \/ R!handleReject(s) \/ \E r \in Mine : R!handleCancel(s, r)
  <2>1. PICK s \in Slots : R!handleApprove(s) \/ R!handleReject(s) \/ \E r \in Mine : R!handleCancel(s, r)
      BY <1>3 DEF R!Slots, Slots
  <2>2. CASE R!handleApprove(s) \/ R!handleReject(s)
      BY <2>2, DecisionSound DEF R!handleApprove, R!handleReject, R!handleDecision
  <2>3. CASE \E r \in Mine : R!handleCancel(s, r)
      BY <2>3, CancelSound DEF R!handleCancel
  <2> QED
      BY <2>1, <2>2, <2>3
<1> QED
    BY <1>1, <1>2, <1>3 DEF R!RequestClicks

-----------------------------------------------------------------------------
(***************************************************************************)
(* Compartments.  A call knows what kind of list it got, and one that adds  *)
(* a member is about a compartment.                                         *)
(***************************************************************************)

OnMembers == {"members", "add", "remove"}
Changes == {"create", "edit", "delete", "add", "remove"}
Sent == {"sent", "ok", "refused", "failed"}

TreeCallSound(call) ==
    /\ call.phase \in Sent => call.op \in Changes
    /\ call.phase \in Sent /\ call.op = "add" => call.comp \in C!CompIds
    /\ call.phase = "got" /\ call.op \in OnMembers => call.got \in SUBSET C!RowIds
    /\ call.phase = "got" /\ call.op \notin OnMembers => call.got \in SUBSET C!CompIds

TreeCallsSound ==
    /\ treeCalls \in [Slots -> C!CallSet]
    /\ \A s \in Slots : TreeCallSound(treeCalls[s])

CompartmentTables ==
    /\ comps \in Seq(C!CompSet) /\ Len(comps) <= MaxComps
    /\ rows \in Seq(C!RowSet) /\ Len(rows) <= MaxRows

CompartmentsSound == CompartmentTables /\ tree \in C!PageSet /\ TreeCallsSound

LEMMA CompIdsAreIds ==
    ASSUME CompartmentTables
    PROVE  DOMAIN comps \subseteq C!CompIds /\ DOMAIN rows \subseteq C!RowIds
    BY BoundAssumption DEF CompartmentTables, C!CompIds, C!RowIds

LEMMA TreeTyped ==
    /\ C!NewPage \in C!PageSet
    /\ C!NoCall \in C!CallSet /\ TreeCallSound(C!NoCall)
    /\ C!NoCall.phase = "free"
    BY DEF C!NewPage, C!PageSet, C!NoCall, C!CallSet, C!None, TreeCallSound, Sent

LEMMA ReadingTyped ==
    ASSUME NEW op \in {"load", "members"}, NEW c \in {C!None} \cup C!CompIds
    PROVE  C!Reading(op, c) \in C!CallSet /\ TreeCallSound(C!Reading(op, c))
    BY DEF C!Reading, C!NoCall, C!CallSet, C!None, TreeCallSound, Sent

LEMMA TreeCallOf ==
    ASSUME TreeCallsSound, NEW s \in Slots
    PROVE  treeCalls[s] \in C!CallSet /\ TreeCallSound(treeCalls[s])
    BY DEF TreeCallsSound

LEMMA TreeCallsKept ==
    ASSUME TreeCallsSound, UNCHANGED treeCalls
    PROVE  TreeCallsSound'
    BY DEF TreeCallsSound, TreeCallSound, C!CallSet, Slots

LEMMA TreeCallPut ==
    ASSUME TreeCallsSound, NEW s \in Slots, NEW call \in C!CallSet, TreeCallSound(call),
           treeCalls' = [treeCalls EXCEPT ![s] = call]
    PROVE  TreeCallsSound'
<1>1. treeCalls' \in [Slots -> C!CallSet] /\ \A t \in Slots : treeCalls'[t] \in {call, treeCalls[t]}
    BY Put DEF TreeCallsSound
<1>2. \A t \in Slots : TreeCallSound(treeCalls'[t])
    BY <1>1 DEF TreeCallsSound
<1> QED
    BY <1>1, <1>2 DEF TreeCallsSound, TreeCallSound, C!CallSet, Slots

LEMMA TablesKept ==
    ASSUME CompartmentTables, UNCHANGED <<comps, rows>>
    PROVE  CompartmentTables'
    BY DEF CompartmentTables

\* The page and one call change, the tables do not.
LEMMA TreeStep ==
    ASSUME CompartmentsSound, UNCHANGED <<comps, rows>>, tree' \in C!PageSet,
           NEW s \in Slots, NEW call \in C!CallSet, TreeCallSound(call),
           treeCalls' = [treeCalls EXCEPT ![s] = call]
    PROVE  CompartmentsSound'
<1>1. TreeCallsSound'
    BY TreeCallPut DEF CompartmentsSound
<1> QED
    BY <1>1, TablesKept DEF CompartmentsSound

\* The page changes alone.
LEMMA TreePageStep ==
    ASSUME CompartmentsSound, UNCHANGED <<comps, rows, treeCalls>>, tree' \in C!PageSet
    PROVE  CompartmentsSound'
    BY TablesKept, TreeCallsKept DEF CompartmentsSound

LEMMA OpenCompartmentsSound ==
    ASSUME CompartmentsSound, NEW s \in Slots, C!OpenCompartments(s)
    PROVE  CompartmentsSound'
<1>1. C!Reading("load", C!None) \in C!CallSet /\ TreeCallSound(C!Reading("load", C!None))
    BY ReadingTyped
<1> QED
    BY <1>1, TreeTyped, TreeStep DEF C!OpenCompartments, C!server

LEMMA LeaveCompartmentsSound ==
    ASSUME CompartmentsSound, C!LeaveCompartments
    PROVE  CompartmentsSound'
<1>1. ASSUME NEW s \in Slots
      PROVE  treeCalls'[s] \in C!CallSet /\ TreeCallSound(treeCalls'[s])
  <2>1. treeCalls[s] \in C!CallSet /\ TreeCallSound(treeCalls[s])
      BY TreeCallOf DEF CompartmentsSound
  <2> DEFINE left == [treeCalls[s] EXCEPT !.live = FALSE]
  <2>2. left \in C!CallSet /\ left.op = treeCalls[s].op /\ left.comp = treeCalls[s].comp
        /\ left.phase = treeCalls[s].phase /\ left.got = treeCalls[s].got
      BY <2>1 DEF C!CallSet
  <2>3. treeCalls'[s] \in {C!NoCall, left}
      BY DEF C!LeaveCompartments, C!Slots, Slots
  <2> HIDE DEF left
  <2> QED
      BY <2>1, <2>2, <2>3, TreeTyped DEF TreeCallSound
<1>2. treeCalls' \in [Slots -> C!CallSet]
    BY <1>1 DEF C!LeaveCompartments, C!Slots, Slots
<1>3. TreeCallsSound'
    BY <1>1, <1>2 DEF TreeCallsSound, TreeCallSound, C!CallSet, Slots
<1>4. CompartmentTables' /\ tree' \in C!PageSet
    BY TablesKept, TreeTyped DEF C!LeaveCompartments, C!server, CompartmentsSound
<1> QED
    BY <1>3, <1>4 DEF CompartmentsSound, C!PageSet

-----------------------------------------------------------------------------
\* Clicks on the compartments page.

LEMMA SelectSound ==
    ASSUME CompartmentsSound, NEW s \in Slots, NEW c \in DOMAIN comps, C!Select(s, c)
    PROVE  CompartmentsSound'
<1>1. c \in C!CompIds
    BY CompIdsAreIds DEF CompartmentsSound
<1>2. tree' \in C!PageSet
    BY <1>1 DEF CompartmentsSound, C!Select, C!PageSet
<1>3. C!Reading("members", c) \in C!CallSet /\ TreeCallSound(C!Reading("members", c))
    BY <1>1, ReadingTyped
<1> QED
    BY <1>2, <1>3, TreeStep DEF C!Select, C!server

LEMMA OpenDialogSound ==
    ASSUME CompartmentsSound, NEW kind \in {"create", "edit", "delete", "member"},
           NEW target \in {C!None} \cup DOMAIN comps, C!OpenDialog(kind, target)
    PROVE  CompartmentsSound'
<1>1. target \in {C!None} \cup C!CompIds
    BY CompIdsAreIds DEF CompartmentsSound
<1>2. tree' \in C!PageSet
    BY <1>1 DEF CompartmentsSound, C!OpenDialog, C!PageSet
<1> QED
    BY <1>2, TreePageStep DEF C!OpenDialog, C!server

LEMMA CloseDialogSound ==
    ASSUME CompartmentsSound, C!CloseDialog
    PROVE  CompartmentsSound'
<1>1. tree' \in C!PageSet
    BY DEF CompartmentsSound, C!CloseDialog, C!PageSet, C!None
<1> QED
    BY <1>1, TreePageStep DEF C!CloseDialog, C!server

LEMMA TypeEmailSound ==
    ASSUME CompartmentsSound, NEW email \in Emails, C!TypeEmail(email)
    PROVE  CompartmentsSound'
<1>1. tree' \in C!PageSet
    BY DEF CompartmentsSound, C!TypeEmail, C!PageSet
<1> QED
    BY <1>1, TreePageStep DEF C!TypeEmail, C!server

\* A call that is made has one of the five operations.
LEMMA TreeSent ==
    ASSUME CompartmentsSound, UNCHANGED <<comps, rows>>, tree' \in C!PageSet, NEW s \in Slots,
           NEW call \in C!CallSet, call.op \in Changes, call.op = "add" => call.comp \in C!CompIds,
           C!Start(s, call)
    PROVE  CompartmentsSound'
<1> DEFINE new == [call EXCEPT !.phase = "sent", !.live = TRUE]
<1>1. new \in C!CallSet /\ new.phase = "sent" /\ new.op = call.op /\ new.comp = call.comp
    BY DEF C!CallSet
<1>2. treeCalls' = [treeCalls EXCEPT ![s] = new]
    BY DEF C!Start
<1> HIDE DEF new
<1>3. TreeCallSound(new)
    BY <1>1 DEF TreeCallSound
<1> QED
    BY <1>1, <1>2, <1>3, TreeStep

LEMMA SaveSound ==
    ASSUME CompartmentsSound, NEW s \in Slots, C!handleSaveCompartment(s)
    PROVE  CompartmentsSound'
<1> DEFINE call == [C!NoCall EXCEPT !.op = tree.dialog, !.comp = tree.target]
<1>1. tree \in C!PageSet /\ tree.dialog \in {"create", "edit"}
    BY DEF CompartmentsSound, C!handleSaveCompartment, C!Dialog
<1>2. call \in C!CallSet /\ call.op = tree.dialog
    BY <1>1, TreeTyped DEF C!PageSet, C!CallSet
<1>3. tree' \in C!PageSet
    BY <1>1 DEF C!handleSaveCompartment, C!PageSet
<1>4. C!Start(s, call) /\ UNCHANGED <<comps, rows>>
    BY DEF C!handleSaveCompartment, C!server
<1> HIDE DEF call
<1> QED
    BY <1>1, <1>2, <1>3, <1>4, TreeSent DEF Changes

LEMMA ConfirmDeleteSound ==
    ASSUME CompartmentsSound, NEW s \in Slots, C!handleConfirmDelete(s)
    PROVE  CompartmentsSound'
<1> DEFINE call == [C!NoCall EXCEPT !.op = "delete", !.comp = tree.target, !.selected = tree.selected]
<1>1. tree \in C!PageSet
    BY DEF CompartmentsSound
<1>2. call \in C!CallSet /\ call.op = "delete"
    BY <1>1, TreeTyped DEF C!PageSet, C!CallSet
<1>3. tree' \in C!PageSet
    BY <1>1 DEF C!handleConfirmDelete, C!PageSet, C!None
<1>4. C!Start(s, call) /\ UNCHANGED <<comps, rows>>
    BY DEF C!handleConfirmDelete, C!server
<1> HIDE DEF call
<1> QED
    BY <1>2, <1>3, <1>4, TreeSent DEF Changes

LEMMA AddMemberSound ==
    ASSUME CompartmentsSound, NEW s \in Slots, C!handleAddMember(s)
    PROVE  CompartmentsSound'
<1> DEFINE call == [C!NoCall EXCEPT !.op = "add", !.comp = tree.selected, !.email = tree.email]
<1>1. tree \in C!PageSet /\ tree.selected # C!None
    BY DEF CompartmentsSound, C!handleAddMember
<1>2. call \in C!CallSet /\ call.op = "add" /\ call.comp \in C!CompIds
    BY <1>1, TreeTyped DEF C!PageSet, C!CallSet
<1>3. tree' \in C!PageSet
    BY <1>1 DEF C!handleAddMember, C!PageSet
<1>4. C!Start(s, call) /\ UNCHANGED <<comps, rows>>
    BY DEF C!handleAddMember, C!server
<1> HIDE DEF call
<1> QED
    BY <1>2, <1>3, <1>4, TreeSent DEF Changes

LEMMA RemoveMemberSound ==
    ASSUME CompartmentsSound, NEW s \in Slots, NEW m \in DOMAIN rows, C!handleRemoveMember(s, m)
    PROVE  CompartmentsSound'
<1> DEFINE call == [C!NoCall EXCEPT !.op = "remove", !.comp = tree.selected, !.row = m]
<1>1. tree \in C!PageSet /\ m \in C!RowIds
    BY CompIdsAreIds DEF CompartmentsSound
<1>2. call \in C!CallSet /\ call.op = "remove"
    BY <1>1, TreeTyped DEF C!PageSet, C!CallSet
<1>3. C!Start(s, call) /\ UNCHANGED <<comps, rows, tree>>
    BY DEF C!handleRemoveMember, C!server
<1> HIDE DEF call
<1> QED
    BY <1>1, <1>2, <1>3, TreeSent DEF Changes

-----------------------------------------------------------------------------
\* Queries of the compartments page.

LEMMA ReadSound ==
    ASSUME CompartmentsSound, NEW s \in Slots, C!Read(s)
    PROVE  CompartmentsSound'
<1> DEFINE call == treeCalls[s]
           got == IF call.op \in OnMembers THEN C!list_members(call.comp) ELSE C!list_compartments
           new == [[call EXCEPT !.phase = "got"] EXCEPT !.got = got]
<1>1. C!list_members(call.comp) \in SUBSET C!RowIds
    BY CompIdsAreIds DEF CompartmentsSound, C!list_members
<1>2. C!list_compartments \in SUBSET C!CompIds
  <2>1. C!list_compartments \subseteq DOMAIN comps
      BY DEF C!list_compartments
  <2> QED
      BY <2>1, CompIdsAreIds DEF CompartmentsSound
<1>3. call \in C!CallSet
    BY TreeCallOf DEF CompartmentsSound
<1>4. treeCalls' = [treeCalls EXCEPT ![s] = new] /\ UNCHANGED <<comps, rows, tree>>
    BY DEF C!Read, C!server, OnMembers, TreeCallsSound, CompartmentsSound
<1> HIDE DEF call
<1>5. got \in SUBSET (C!CompIds \cup C!RowIds)
    BY <1>1, <1>2
<1> HIDE DEF got
<1>6. new \in C!CallSet /\ new.phase = "got" /\ new.op = call.op /\ new.got = got
    BY <1>3, <1>5 DEF C!CallSet
<1> HIDE DEF new
<1>7. TreeCallSound(new)
    BY <1>1, <1>2, <1>6 DEF TreeCallSound, got, Sent
<1> QED
    BY <1>4, <1>6, <1>7, TreeStep DEF CompartmentsSound

LEMMA FinishTyped ==
    ASSUME NEW shown \in C!PageSet, NEW op
    PROVE  C!Finish(shown, op) \in C!PageSet
<1> DEFINE saving == shown.saving /\ op \notin {"create", "edit"}
           deleting == shown.deleting /\ op # "delete"
           adding == shown.adding /\ op # "add"
<1>1. C!Finish(shown, op) =
         [[[shown EXCEPT !.saving = saving] EXCEPT !.deleting = deleting] EXCEPT !.adding = adding]
    BY Zenon DEF C!Finish
<1>2. saving \in BOOLEAN /\ deleting \in BOOLEAN /\ adding \in BOOLEAN
    OBVIOUS
<1> HIDE DEF saving, deleting, adding
<1> QED
    BY <1>1, <1>2 DEF C!PageSet

LEMMA MembersArriveSound ==
    ASSUME CompartmentsSound, NEW s \in Slots, C!MembersArrive(s)
    PROVE  CompartmentsSound'
<1> DEFINE call == treeCalls[s]
           shown == [tree EXCEPT !.members = call.got]
<1>1. call.got \in SUBSET C!RowIds
    BY TreeCallOf DEF CompartmentsSound, TreeCallSound, C!MembersArrive, OnMembers
<1>2. shown \in C!PageSet
    BY <1>1 DEF CompartmentsSound, C!PageSet
<1>3. /\ tree' = C!Finish(shown, call.op) /\ UNCHANGED <<comps, rows>>
      /\ treeCalls' = [treeCalls EXCEPT ![s] = C!NoCall]
    BY DEF C!MembersArrive, C!server
<1> HIDE DEF shown, call
<1> QED
    BY <1>2, <1>3, FinishTyped, TreeTyped, TreeStep

LEMMA CompartmentsArriveSound ==
    ASSUME CompartmentsSound, NEW s \in Slots, C!CompartmentsArrive(s)
    PROVE  CompartmentsSound'
<1> DEFINE call == treeCalls[s]
           shown == [tree EXCEPT !.shown = call.got, !.loading = FALSE]
           page2 == C!Finish(shown, call.op)
           first == {c \in call.got : C!IsRoot(c) /\ \A d \in call.got : C!IsRoot(d) => c <= d}
<1>1. call.got \in SUBSET C!CompIds
    BY TreeCallOf DEF CompartmentsSound, TreeCallSound, C!CompartmentsArrive, OnMembers
<1>2. shown \in C!PageSet
    BY <1>1 DEF CompartmentsSound, C!PageSet
<1>3. /\ IF tree.selected = C!None /\ first # {}
         THEN \E c \in first : /\ tree' = [page2 EXCEPT !.selected = c]
                               /\ treeCalls' = [treeCalls EXCEPT ![s] = C!Reading("members", c)]
         ELSE tree' = page2 /\ treeCalls' = [treeCalls EXCEPT ![s] = C!NoCall]
      /\ UNCHANGED <<comps, rows>>
    BY DEF C!CompartmentsArrive, C!server
<1>4. first \subseteq C!CompIds
    BY <1>1
<1> HIDE DEF shown, call, first
<1>5. page2 \in C!PageSet
    BY <1>2, FinishTyped
<1> HIDE DEF page2
<1>6. CASE tree.selected = C!None /\ first # {}
  <2>1. PICK c \in first : /\ tree' = [page2 EXCEPT !.selected = c]
                           /\ treeCalls' = [treeCalls EXCEPT ![s] = C!Reading("members", c)]
      BY <1>3, <1>6
  <2>2. tree' \in C!PageSet
      BY <1>4, <1>5, <2>1 DEF C!PageSet
  <2>3. C!Reading("members", c) \in C!CallSet /\ TreeCallSound(C!Reading("members", c))
      BY <1>4, ReadingTyped
  <2> QED
      BY <1>3, <2>1, <2>2, <2>3, TreeStep
<1>7. CASE ~(tree.selected = C!None /\ first # {})
    BY <1>3, <1>5, <1>7, TreeTyped, TreeStep
<1> QED
    BY <1>6, <1>7

LEMMA QueryFailsSound ==
    ASSUME CompartmentsSound, NEW s \in Slots, C!QueryFails(s)
    PROVE  CompartmentsSound'
<1> DEFINE shown == IF treeCalls[s].op \in OnMembers THEN tree ELSE [tree EXCEPT !.loading = FALSE]
<1>1. shown \in C!PageSet
    BY DEF CompartmentsSound, C!PageSet
<1>2. /\ tree' = C!Finish(shown, treeCalls[s].op) /\ UNCHANGED <<comps, rows>>
      /\ treeCalls' = [treeCalls EXCEPT ![s] = C!NoCall]
    BY DEF C!QueryFails, C!server, OnMembers
<1> HIDE DEF shown
<1> QED
    BY <1>1, <1>2, FinishTyped, TreeTyped, TreeStep

-----------------------------------------------------------------------------
\* Calls that change compartments and members.

\* A row of a table changes in one field, or a row is added.
LEMMA SameLength ==
    ASSUME NEW S, NEW list \in Seq(S), NEW i, NEW row,
           i \in DOMAIN list => row \in S
    PROVE  /\ [list EXCEPT ![i] = row] \in Seq(S) /\ Len([list EXCEPT ![i] = row]) = Len(list)
           /\ \A j \in DOMAIN list : j # i => [list EXCEPT ![i] = row][j] = list[j]
<1>1. CASE i \in 1..Len(list)
    BY <1>1, ExceptSeq
<1>2. CASE i \notin 1..Len(list)
  <2>1. list \in [1..Len(list) -> S]
      OBVIOUS
  <2>2. [list EXCEPT ![i] = row] = list
      BY <1>2, <2>1
  <2> QED
      BY <2>2
<1> QED
    BY <1>1, <1>2

LEMMA CompDeleted ==
    ASSUME CompartmentTables, NEW c, comps' = C!delete_compartment(c), UNCHANGED rows
    PROVE  CompartmentTables'
<1> DEFINE row == [comps[c] EXCEPT !.active = FALSE]
<1>1. comps' = [comps EXCEPT ![c] = row]
    BY DEF C!delete_compartment
<1>2. c \in DOMAIN comps => row \in C!CompSet
  <2> SUFFICES ASSUME c \in DOMAIN comps PROVE row \in C!CompSet
      OBVIOUS
  <2>1. comps[c] \in C!CompSet
      BY DEF CompartmentTables
  <2> QED
      BY <2>1 DEF C!CompSet
<1> HIDE DEF row
<1>3. comps' \in Seq(C!CompSet) /\ Len(comps') = Len(comps)
    BY <1>1, <1>2, SameLength DEF CompartmentTables
<1> QED
    BY <1>3 DEF CompartmentTables

LEMMA CompCreated ==
    ASSUME CompartmentTables, NEW parent \in {C!None} \cup C!CompIds, Len(comps) < MaxComps,
           comps' = C!create_compartment(parent), UNCHANGED rows
    PROVE  CompartmentTables'
<1> DEFINE row == [parent |-> parent, active |-> TRUE]
<1>1. row \in C!CompSet /\ comps' = Append(comps, row)
    BY DEF C!CompSet, C!create_compartment
<1> HIDE DEF row
<1> QED
    BY <1>1, BoundAssumption DEF CompartmentTables

LEMMA RowRemoved ==
    ASSUME CompartmentTables, NEW c, NEW m, rows' = C!remove_member(c, m), UNCHANGED comps
    PROVE  /\ CompartmentTables'
           /\ \A n \in DOMAIN rows : rows[n].active /\ ~rows'[n].active => rows[n].comp = c
<1>1. CASE ~C!Found(c, m)
    BY <1>1 DEF CompartmentTables, C!remove_member
<1>2. CASE C!Found(c, m)
  <2> DEFINE row == [rows[m] EXCEPT !.active = FALSE]
  <2>1. rows' = [rows EXCEPT ![m] = row]
      BY <1>2 DEF C!remove_member
  <2>2. m \in DOMAIN rows => row \in C!RowSet
    <3> SUFFICES ASSUME m \in DOMAIN rows PROVE row \in C!RowSet
        OBVIOUS
    <3>1. rows[m] \in C!RowSet
        BY DEF CompartmentTables
    <3> QED
        BY <3>1 DEF C!RowSet
  <2> HIDE DEF row
  <2>3. /\ rows' \in Seq(C!RowSet) /\ Len(rows') = Len(rows)
        /\ \A n \in DOMAIN rows : n # m => rows'[n] = rows[n]
      BY <2>1, <2>2, SameLength DEF CompartmentTables
  <2> QED
      BY <1>2, <2>3 DEF CompartmentTables, C!Found
<1> QED
    BY <1>1, <1>2

LEMMA RowAdded ==
    ASSUME CompartmentTables, NEW c \in C!CompIds, NEW u, C!CanAdd(c, u), Len(rows) < MaxRows,
           rows' = C!add_member(c, u), UNCHANGED comps
    PROVE  CompartmentTables' /\ \A n \in DOMAIN rows : rows'[n] = rows[n]
<1> DEFINE row == [comp |-> c, user |-> u, active |-> TRUE]
<1>1. row \in C!RowSet /\ rows' = Append(rows, row)
    BY DEF C!RowSet, C!add_member, C!CanAdd
<1> HIDE DEF row
<1> QED
    BY <1>1, BoundAssumption DEF CompartmentTables

\* The same call with another phase.
LEMMA TreePhaseSet ==
    ASSUME TreeCallsSound, NEW s \in Slots, treeCalls[s].phase \in Sent,
           NEW phase \in Sent \cup {"asked"}, treeCalls' = [treeCalls EXCEPT ![s].phase = phase]
    PROVE  TreeCallsSound'
<1> DEFINE new == [treeCalls[s] EXCEPT !.phase = phase]
<1>1. /\ new \in C!CallSet /\ new.phase = phase
      /\ new.op = treeCalls[s].op /\ new.comp = treeCalls[s].comp
    BY TreeCallOf DEF C!CallSet, Sent
<1>2. treeCalls' = [treeCalls EXCEPT ![s] = new]
    OBVIOUS
<1> HIDE DEF new
<1>3. TreeCallSound(new)
    BY <1>1, TreeCallOf DEF TreeCallSound, Sent
<1> QED
    BY <1>1, <1>2, <1>3, TreeCallPut

\* What the server does with a call, by operation.  A removal that finds its row
\* concerns the compartment of the call.
LEMMA ServedCompartments ==
    ASSUME CompartmentsSound, NEW s \in Slots, C!Serve(s)
    PROVE  /\ CompartmentTables'
           /\ \E phase \in {"ok", "refused"} : treeCalls' = [treeCalls EXCEPT ![s].phase = phase]
           /\ \A n \in DOMAIN rows :
                 rows[n].active /\ ~rows'[n].active => rows[n].comp = treeCalls[s].comp
<1> DEFINE call == treeCalls[s]
<1>1. call \in C!CallSet /\ call.op \in Changes /\ (call.op = "add" => call.comp \in C!CompIds)
    BY TreeCallOf DEF CompartmentsSound, TreeCallSound, C!Serve, Sent
<1>2. CompartmentTables
    BY DEF CompartmentsSound
<1>3. CASE call.op = "create"
  <2>1. Len(comps) < MaxComps /\ comps' = C!create_compartment(call.comp) /\ UNCHANGED rows
        /\ treeCalls' = [treeCalls EXCEPT ![s].phase = "ok"]
      BY <1>3 DEF C!Serve
  <2>2. call.comp \in {C!None} \cup C!CompIds
      BY <1>1 DEF C!CallSet
  <2> QED
      BY <1>2, <2>1, <2>2, CompCreated
<1>4. CASE call.op = "edit"
  <2>1. UNCHANGED <<comps, rows>> /\ treeCalls' = [treeCalls EXCEPT ![s].phase = "ok"]
      BY <1>4 DEF C!Serve, C!server
  <2> QED
      BY <1>2, <2>1, TablesKept
<1>5. CASE call.op = "delete"
  <2>1. comps' = C!delete_compartment(call.comp) /\ UNCHANGED rows
        /\ treeCalls' = [treeCalls EXCEPT ![s].phase = "ok"]
      BY <1>5 DEF C!Serve
  <2> QED
      BY <1>2, <2>1, CompDeleted
<1>6. CASE call.op = "add" /\ C!CanAdd(call.comp, call.email)
  <2>1. Len(rows) < MaxRows /\ rows' = C!add_member(call.comp, call.email) /\ UNCHANGED comps
        /\ treeCalls' = [treeCalls EXCEPT ![s].phase = "ok"]
      BY <1>6 DEF C!Serve
  <2> QED
      BY <1>1, <1>2, <1>6, <2>1, RowAdded
<1>7. CASE call.op = "add" /\ ~C!CanAdd(call.comp, call.email)
  <2>1. UNCHANGED <<comps, rows>> /\ treeCalls' = [treeCalls EXCEPT ![s].phase = "refused"]
      BY <1>7 DEF C!Serve, C!server
  <2> QED
      BY <1>2, <2>1, TablesKept
<1>8. CASE call.op = "remove"
  <2>1. /\ rows' = C!remove_member(call.comp, call.row) /\ UNCHANGED comps
        /\ treeCalls' = [treeCalls EXCEPT ![s].phase =
                IF C!Found(call.comp, call.row) THEN "ok" ELSE "refused"]
      BY <1>8 DEF C!Serve
  <2>2. \E phase \in {"ok", "refused"} : treeCalls' = [treeCalls EXCEPT ![s].phase = phase]
      BY <2>1
  <2> QED
      BY <1>2, <2>1, <2>2, RowRemoved
<1> QED
    BY <1>1, <1>3, <1>4, <1>5, <1>6, <1>7, <1>8 DEF Changes

LEMMA TreeServeSound ==
    ASSUME CompartmentsSound, NEW s \in Slots, C!Serve(s)
    PROVE  CompartmentsSound'
<1>1. PICK phase \in {"ok", "refused"} : treeCalls' = [treeCalls EXCEPT ![s].phase = phase]
    BY ServedCompartments
<1>2. TreeCallsSound'
    BY <1>1, TreePhaseSet DEF CompartmentsSound, C!Serve, Sent
<1> QED
    BY <1>2, ServedCompartments DEF CompartmentsSound, C!Serve

LEMMA TreeLostSound ==
    ASSUME CompartmentsSound, NEW s \in Slots, C!Lost(s)
    PROVE  CompartmentsSound'
<1>1. PICK phase \in {"sent", "failed"} : treeCalls' = [treeCalls EXCEPT ![s].phase = phase]
    BY DEF C!Lost
<1>2. TreeCallsSound'
    BY <1>1, TreePhaseSet DEF CompartmentsSound, C!Lost, Sent
<1> QED
    BY <1>2, TablesKept DEF CompartmentsSound, C!Lost, C!server

LEMMA AfterOkTyped ==
    ASSUME CompartmentsSound, NEW call \in C!CallSet, call.op \in Changes
    PROVE  C!AfterOk(call) \in C!PageSet
<1>1. tree \in C!PageSet
    BY DEF CompartmentsSound
<1>2. \A dialogs : C!Closed(dialogs) \in C!PageSet
    BY <1>1 DEF C!Closed, C!PageSet, C!None
<1>3. CASE call.op \in {"create", "edit"}
  <2>1. C!AfterOk(call) = [C!Closed({"create", "edit"}) EXCEPT !.loading = TRUE]
      BY <1>3 DEF C!AfterOk
  <2> QED
      BY <1>2, <2>1 DEF C!PageSet
<1>4. CASE call.op = "delete"
  <2> DEFINE closed == C!Closed({"delete"})
  <2>1. C!AfterOk(call) = [closed EXCEPT !.loading = TRUE,
             !.selected = IF call.selected = call.comp THEN C!None ELSE @]
      BY <1>4 DEF C!AfterOk
  <2>2. closed \in C!PageSet
      BY <1>2
  <2> HIDE DEF closed
  <2> QED
      BY <2>1, <2>2 DEF C!PageSet
<1>5. CASE call.op = "add"
  <2>1. C!AfterOk(call) = [C!Closed({"member"}) EXCEPT !.email = C!NoText, !.notRegistered = FALSE]
      BY <1>5 DEF C!AfterOk
  <2> QED
      BY <1>2, <2>1 DEF C!PageSet
<1>6. CASE call.op = "remove"
    BY <1>1, <1>6 DEF C!AfterOk
<1> QED
    BY <1>3, <1>4, <1>5, <1>6 DEF Changes

LEMMA TreeSucceedsSound ==
    ASSUME CompartmentsSound, NEW s \in Slots, C!Succeeds(s)
    PROVE  CompartmentsSound'
<1>1. treeCalls[s] \in C!CallSet /\ treeCalls[s].op \in Changes
    BY TreeCallOf DEF CompartmentsSound, TreeCallSound, C!Succeeds, Sent
<1>2. CASE treeCalls[s].live
  <2>1. tree' = C!AfterOk(treeCalls[s]) /\ treeCalls' = [treeCalls EXCEPT ![s].phase = "asked"]
      BY <1>2 DEF C!Succeeds
  <2>2. TreeCallsSound'
      BY <2>1, TreePhaseSet DEF CompartmentsSound, C!Succeeds, Sent
  <2>3. tree' \in C!PageSet
      BY <1>1, <2>1, AfterOkTyped
  <2> QED
      BY <2>2, <2>3, TablesKept DEF CompartmentsSound, C!Succeeds, C!server
<1>3. CASE ~treeCalls[s].live
  <2>1. UNCHANGED <<comps, rows, tree>> /\ treeCalls' = [treeCalls EXCEPT ![s] = C!NoCall]
      BY <1>3 DEF C!Succeeds, C!server
  <2> QED
      BY <2>1, TreeTyped, TreeStep DEF CompartmentsSound
<1> QED
    BY <1>2, <1>3

LEMMA TreeFailsSound ==
    ASSUME CompartmentsSound, NEW s \in Slots, C!Fails(s)
    PROVE  CompartmentsSound'
<1> DEFINE call == treeCalls[s]
           shown == [tree EXCEPT !.notRegistered =
                        @ \/ (call.op = "add" /\ call.phase = "refused")]
<1>1. tree \in C!PageSet
    BY DEF CompartmentsSound
<1>2. shown \in C!PageSet
    BY <1>1 DEF C!PageSet
<1>3. /\ tree' = IF ~call.live THEN tree ELSE C!Finish(shown, call.op)
      /\ UNCHANGED <<comps, rows>> /\ treeCalls' = [treeCalls EXCEPT ![s] = C!NoCall]
    BY DEF C!Fails, C!server
<1> HIDE DEF shown, call
<1>4. tree' \in C!PageSet
    BY <1>1, <1>2, <1>3, FinishTyped
<1> QED
    BY <1>3, <1>4, TreeTyped, TreeStep

LEMMA OthersManageSound ==
    ASSUME CompartmentsSound, C!OthersManage
    PROVE  CompartmentsSound'
<1>1. CompartmentTables
    BY DEF CompartmentsSound
<1>2. CompartmentTables'
  <2>1. CASE \E c \in DOMAIN comps : ~C!IsRoot(c) /\ comps' = C!delete_compartment(c) /\ UNCHANGED rows
      BY <1>1, <2>1, CompDeleted
  <2>2. CASE \E c \in DOMAIN comps, u \in Users :
                C!CanAdd(c, u) /\ Len(rows) < MaxRows /\ rows' = C!add_member(c, u) /\ UNCHANGED comps
      BY <1>1, <2>2, RowAdded, CompIdsAreIds
  <2>3. CASE \E m \in DOMAIN rows : rows' = C!remove_member(rows[m].comp, m) /\ UNCHANGED comps
      BY <1>1, <2>3, RowRemoved
  <2> QED
      BY <2>1, <2>2, <2>3 DEF C!OthersManage
<1> QED
    BY <1>2, TreeCallsKept DEF CompartmentsSound, C!OthersManage

LEMMA TreeLosses ==
    ASSUME lost \in 0..MaxLost, C!CompartmentAnswers
    PROVE  lost' \in 0..MaxLost
<1>1. lost' = lost \/ (lost < MaxLost /\ lost' = lost + 1)
  <2>1. PICK s \in C!Slots :
          \/ C!Read(s) \/ C!MembersArrive(s) \/ C!CompartmentsArrive(s) \/ C!QueryFails(s)
          \/ C!Serve(s) \/ C!Lost(s) \/ C!Succeeds(s) \/ C!Fails(s)
      BY DEF C!CompartmentAnswers
  <2>2. CASE C!Read(s) \/ C!MembersArrive(s) \/ C!CompartmentsArrive(s)
      BY <2>2 DEF C!Read, C!MembersArrive, C!CompartmentsArrive
  <2>3. CASE C!QueryFails(s) \/ C!Lost(s)
      BY <2>3 DEF C!QueryFails, C!Lost
  <2>4. CASE C!Serve(s) \/ C!Succeeds(s) \/ C!Fails(s)
      BY <2>4 DEF C!Serve, C!Succeeds, C!Fails
  <2> QED
      BY <2>1, <2>2, <2>3, <2>4
<1> QED
    BY <1>1, BoundAssumption

LEMMA CompartmentAnswersSound ==
    ASSUME CompartmentsSound, C!CompartmentAnswers
    PROVE  CompartmentsSound'
<1>1. PICK s \in Slots :
        \/ C!Read(s) \/ C!MembersArrive(s) \/ C!CompartmentsArrive(s) \/ C!QueryFails(s)
        \/ C!Serve(s) \/ C!Lost(s) \/ C!Succeeds(s) \/ C!Fails(s)
    BY DEF C!CompartmentAnswers, C!Slots, Slots
<1> QED
    BY <1>1, ReadSound, MembersArriveSound, CompartmentsArriveSound, QueryFailsSound,
       TreeServeSound, TreeLostSound, TreeSucceedsSound, TreeFailsSound

\* Clicks leave the tables alone.
LEMMA CompartmentClicksSound ==
    ASSUME CompartmentsSound, C!CompartmentClicks
    PROVE  CompartmentsSound' /\ UNCHANGED <<comps, rows, lost>>
<1>1. CASE \E c \in DOMAIN comps :
              \/ C!handleEditCompartment(c) \/ C!handleDeleteCompartment(c)
              \/ \E s \in C!Slots : C!Select(s, c)
  <2>1. PICK c \in DOMAIN comps :
              \/ C!handleEditCompartment(c) \/ C!handleDeleteCompartment(c)
              \/ \E s \in C!Slots : C!Select(s, c)
      BY <1>1
  <2>2. CASE C!handleEditCompartment(c) \/ C!handleDeleteCompartment(c)
      BY <2>2, OpenDialogSound
         DEF C!handleEditCompartment, C!handleDeleteCompartment, C!OpenDialog, C!server
  <2>3. CASE \E s \in C!Slots : C!Select(s, c)
      BY <2>3, SelectSound DEF C!Select, C!server, C!Slots, Slots
  <2> QED
      BY <2>1, <2>2, <2>3
<1>2. CASE \E parent \in {C!None} \cup DOMAIN comps : C!handleCreateCompartment(parent)
    BY <1>2, OpenDialogSound DEF C!handleCreateCompartment, C!OpenDialog, C!server
<1>3. CASE C!OpenMemberDialog
    BY <1>3, OpenDialogSound DEF C!OpenMemberDialog, C!OpenDialog, C!server
<1>4. CASE C!CloseDialog
    BY <1>4, CloseDialogSound DEF C!CloseDialog, C!server
<1>5. CASE \E email \in Emails : C!TypeEmail(email)
    BY <1>5, TypeEmailSound DEF C!TypeEmail, C!server
<1>6. CASE \E s \in C!Slots :
              \/ C!handleSaveCompartment(s) \/ C!handleConfirmDelete(s) \/ C!handleAddMember(s)
              \/ \E m \in DOMAIN rows : C!handleRemoveMember(s, m)
  <2>1. PICK s \in Slots :
              \/ C!handleSaveCompartment(s) \/ C!handleConfirmDelete(s) \/ C!handleAddMember(s)
              \/ \E m \in DOMAIN rows : C!handleRemoveMember(s, m)
      BY <1>6 DEF C!Slots, Slots
  <2>2. CASE C!handleSaveCompartment(s)
      BY <2>2, SaveSound DEF C!handleSaveCompartment, C!server
  <2>3. CASE C!handleConfirmDelete(s)
      BY <2>3, ConfirmDeleteSound DEF C!handleConfirmDelete, C!server
  <2>4. CASE C!handleAddMember(s)
      BY <2>4, AddMemberSound DEF C!handleAddMember, C!server
  <2>5. CASE \E m \in DOMAIN rows : C!handleRemoveMember(s, m)
      BY <2>5, RemoveMemberSound DEF C!handleRemoveMember, C!server
  <2> QED
      BY <2>1, <2>2, <2>3, <2>4, <2>5
<1> QED
    BY <1>1, <1>2, <1>3, <1>4, <1>5, <1>6 DEF C!CompartmentClicks

-----------------------------------------------------------------------------
(***************************************************************************)
(* The team.  What a granted call did is not undone: a removed row stays    *)
(* removed, no invitation disappears, and one that is settled stays as it   *)
(* is unless two handlers had found it pending.                             *)
(***************************************************************************)

TeamTables ==
    /\ team \in Seq(T!MemberSet) /\ Len(team) <= MaxTeam
    /\ invites \in Seq(T!InviteSet) /\ Len(invites) <= MaxInvites

\* What a handler of the server is about.
WorkSound(work, members, invitations, crossings) ==
    /\ work.op = "invite" => work.person \in People
    /\ work.op = "remove" => work.about \in DOMAIN members
    /\ T!OnInvite(work) =>
          /\ work.about \in DOMAIN invitations
          /\ work.about \notin crossings => invitations[work.about].status = "pending"

ManagingSound(works, members, invitations, crossings) ==
    /\ works \in [T!Handlers -> {T!Idle} \cup T!WorkSet] /\ crossings \subseteq T!InviteIds
    /\ \A h \in T!Handlers : WorkSound(works[h], members, invitations, crossings)
    /\ \A h, k \in T!Handlers :
          h # k /\ T!OnInvite(works[h]) /\ T!OnInvite(works[k]) /\ works[h].about = works[k].about
            => works[h].about \in crossings

\* What an operation leaves behind in the tables.
Done(call, members, invitations, crossings) ==
    /\ call.op = "remove" => call.about \in DOMAIN members /\ members[call.about].gone
    /\ call.op = "revoke" =>
          /\ call.about \in DOMAIN invitations /\ invitations[call.about].status # "pending"
          /\ call.about \notin crossings => invitations[call.about].status = "revoked"
    /\ call.op = "invite" => \E i \in DOMAIN invitations : invitations[i].person = call.person

TeamCallSound(call, members, invitations, crossings) ==
    /\ call.phase \in {"sent", "ok", "refused"} =>
          /\ call.op \in {"invite", "revoke", "role", "remove"}
          /\ call.op = "invite" => call.person \in People
          /\ call.op = "revoke" => call.about \in DOMAIN invitations
    /\ call.phase = "ok" => Done(call, members, invitations, crossings)

\* Handler s serves the call of slot s.
ServedTeam(call, work) == work # T!Idle => call.phase = "sent" /\ work = T!Work(call)

TeamCallsSound ==
    /\ teamCalls \in [Slots -> T!CallSet]
    /\ \A s \in Slots : TeamCallSound(teamCalls[s], team, invites, crossed)
    /\ \A s \in Slots : ServedTeam(teamCalls[s], managing[s])

DeskSound == desk \in T!PageSet /\ Done(desk.success, team, invites, crossed)

TeamSound ==
    /\ TeamTables /\ ManagingSound(managing, team, invites, crossed)
    /\ DeskSound /\ TeamCallsSound

\* Rows stay, and what is final stays so.
TeamKept ==
    /\ TeamTables' /\ crossed \subseteq crossed'
    /\ \A m \in DOMAIN team : m \in DOMAIN team' /\ (team[m].gone => team'[m].gone)
    /\ \A i \in DOMAIN invites :
          /\ i \in DOMAIN invites' /\ invites'[i].person = invites[i].person
          /\ invites[i].status # "pending" =>
                /\ invites'[i].status # "pending"
                /\ i \notin crossed' => invites'[i].status = invites[i].status

LEMMA TeamSlotsHandle == Slots \subseteq T!Handlers /\ Slots = T!Slots
    BY BoundAssumption DEF Slots, T!Slots, T!Handlers

LEMMA TeamIds ==
    ASSUME TeamTables
    PROVE  DOMAIN team \subseteq T!RowIds /\ DOMAIN invites \subseteq T!InviteIds
    BY BoundAssumption DEF TeamTables, T!RowIds, T!InviteIds

LEMMA TeamSame ==
    ASSUME TeamTables, UNCHANGED <<team, invites>>, crossed \subseteq crossed'
    PROVE  TeamKept
    BY DEF TeamKept, TeamTables

LEMMA DoneKept ==
    ASSUME TeamKept, NEW call, Done(call, team, invites, crossed)
    PROVE  Done(call, team', invites', crossed')
    BY DEF Done, TeamKept

LEMMA TeamCallKept ==
    ASSUME TeamKept, NEW call, TeamCallSound(call, team, invites, crossed)
    PROVE  TeamCallSound(call, team', invites', crossed')
    BY DoneKept DEF TeamCallSound, TeamKept

LEMMA TeamCallOf ==
    ASSUME TeamCallsSound, NEW s \in Slots
    PROVE  /\ teamCalls[s] \in T!CallSet /\ TeamCallSound(teamCalls[s], team, invites, crossed)
           /\ ServedTeam(teamCalls[s], managing[s])
    BY DEF TeamCallsSound

LEMMA TeamCallsAre ==
    ASSUME teamCalls' \in [Slots -> T!CallSet],
           \A s \in Slots : TeamCallSound(teamCalls'[s], team', invites', crossed')
                            /\ ServedTeam(teamCalls'[s], managing'[s])
    PROVE  TeamCallsSound'
    BY DEF TeamCallsSound, TeamCallSound, ServedTeam, Done, Slots, T!CallSet, T!RowIds, T!InviteIds,
        T!Unread, T!Listed, T!NoneYet, T!Idle, T!Work

\* The tables change, the calls do not.
LEMMA TeamCallsKept ==
    ASSUME TeamKept, TeamCallsSound, UNCHANGED teamCalls,
           \A s \in Slots : managing'[s] \in {managing[s], T!Idle}
    PROVE  TeamCallsSound'
<1>1. \A s \in Slots : TeamCallSound(teamCalls[s], team', invites', crossed')
    BY TeamCallKept DEF TeamCallsSound
<1>2. \A s \in Slots : ServedTeam(teamCalls[s], managing'[s])
    BY DEF TeamCallsSound, ServedTeam
<1>3. teamCalls' = teamCalls /\ teamCalls \in [Slots -> T!CallSet]
    BY DEF TeamCallsSound
<1> QED
    BY <1>1, <1>2, <1>3, TeamCallsAre

\* One call changes, and so may what the server does for it.
LEMMA TeamCallPut ==
    ASSUME TeamKept, TeamCallsSound, NEW s \in Slots, NEW call \in T!CallSet,
           TeamCallSound(call, team', invites', crossed'), ServedTeam(call, managing'[s]),
           \A t \in Slots : t # s => managing'[t] \in {managing[t], T!Idle},
           teamCalls' = [teamCalls EXCEPT ![s] = call]
    PROVE  TeamCallsSound'
<1>1. /\ teamCalls' \in [Slots -> T!CallSet]
      /\ \A t \in Slots : teamCalls'[t] = IF t = s THEN call ELSE teamCalls[t]
    BY Put DEF TeamCallsSound
<1>2. \A t \in Slots : TeamCallSound(teamCalls'[t], team', invites', crossed')
    BY <1>1, TeamCallKept DEF TeamCallsSound
<1>3. \A t \in Slots : ServedTeam(teamCalls'[t], managing'[t])
    BY <1>1 DEF TeamCallsSound, ServedTeam
<1> QED
    BY <1>1, <1>2, <1>3, TeamCallsAre

LEMMA NothingDone ==
    \A members, invitations, crossings : Done(T!NoSuccess, members, invitations, crossings)
    BY DEF Done, T!NoSuccess

LEMMA DeskKept ==
    ASSUME TeamKept, DeskSound, desk' \in T!PageSet, desk'.success \in {desk.success, T!NoSuccess}
    PROVE  DeskSound'
<1>1. Done(desk'.success, team', invites', crossed')
    BY DoneKept, NothingDone DEF DeskSound
<1> QED
    BY <1>1 DEF DeskSound, Done

LEMMA TeamIs ==
    ASSUME TeamKept, ManagingSound(managing', team', invites', crossed'), DeskSound', TeamCallsSound'
    PROVE  TeamSound'
    BY DEF TeamSound, TeamKept, ManagingSound, WorkSound, T!Handlers, T!Idle, T!WorkSet, T!OnInvite,
        T!RowIds, T!InviteIds, T!UserRole

LEMMA TeamTyped ==
    /\ T!NewPage \in T!PageSet /\ T!NewPage.success = T!NoSuccess
    /\ T!NoCall \in T!CallSet /\ TeamCallSound(T!NoCall, team', invites', crossed')
    /\ TeamCallSound(T!NoCall, team, invites, crossed)
    BY DEF T!NewPage, T!PageSet, T!NoSuccess, T!NoCall, T!CallSet, T!None, T!UserRole, TeamCallSound

LEMMA TeamLoadingTyped ==
    ASSUME NEW call \in T!CallSet
    PROVE  /\ T!Loading(call) \in T!CallSet
           /\ TeamCallSound(T!Loading(call), team, invites, crossed)
           /\ TeamCallSound(T!Loading(call), team', invites', crossed')
<1> DEFINE new == T!Loading(call)
<1>1. new \in T!CallSet /\ new.phase = "loading"
    BY DEF T!Loading, T!CallSet
<1> QED
    BY <1>1 DEF TeamCallSound

LEMMA TeamServerSame ==
    ASSUME TeamSound, UNCHANGED T!server
    PROVE  TeamKept /\ ManagingSound(managing', team', invites', crossed')
<1>1. team' = team /\ invites' = invites /\ managing' = managing /\ crossed' = crossed
    BY DEF T!server, T!records
<1> QED
    BY <1>1, TeamSame DEF TeamSound

\* The page and one call, which the server is not serving, change; the tables do not.
LEMMA TeamStep ==
    ASSUME TeamSound, UNCHANGED T!server, desk' \in T!PageSet,
           desk'.success \in {desk.success, T!NoSuccess},
           NEW s \in Slots, teamCalls[s].phase # "sent",
           NEW call \in T!CallSet, TeamCallSound(call, team, invites, crossed),
           teamCalls' = [teamCalls EXCEPT ![s] = call]
    PROVE  TeamSound'
<1>1. TeamKept /\ ManagingSound(managing', team', invites', crossed')
    BY TeamServerSame
<1>2. team' = team /\ invites' = invites /\ managing' = managing /\ crossed' = crossed
    BY DEF T!server, T!records
<1>3. managing[s] = T!Idle
    BY TeamCallOf DEF ServedTeam, TeamSound
<1>4. TeamCallsSound'
    BY <1>1, <1>2, <1>3, TeamCallPut DEF TeamSound, ServedTeam
<1> QED
    BY <1>1, <1>4, DeskKept, TeamIs DEF TeamSound

\* The page changes alone.
LEMMA DeskStep ==
    ASSUME TeamSound, UNCHANGED <<T!server, teamCalls>>, desk' \in T!PageSet,
           desk'.success \in {desk.success, T!NoSuccess}
    PROVE  TeamSound'
<1>1. TeamKept /\ ManagingSound(managing', team', invites', crossed')
    BY TeamServerSame
<1>2. managing' = managing
    BY DEF T!server, T!records
<1> QED
    BY <1>1, <1>2, DeskKept, TeamCallsKept, TeamIs DEF TeamSound

LEMMA OpenTeamSound ==
    ASSUME TeamSound, NEW s \in Slots, T!OpenTeam(s)
    PROVE  TeamSound'
<1> DEFINE first == [T!NoCall EXCEPT !.op = "load", !.live = TRUE]
<1>1. first \in T!CallSet
    BY TeamTyped DEF T!CallSet
<1>2. desk' \in T!PageSet /\ desk'.success = T!NoSuccess
    BY TeamTyped DEF T!OpenTeam, T!loadTeamData, T!PageSet
<1>3. /\ teamCalls' = [teamCalls EXCEPT ![s] = T!Loading(first)] /\ UNCHANGED T!server
      /\ teamCalls[s].phase = "free"
    BY DEF T!OpenTeam, T!Free
<1> HIDE DEF first
<1> QED
    BY <1>1, <1>2, <1>3, TeamLoadingTyped, TeamStep

LEMMA LeaveTeamSound ==
    ASSUME TeamSound, T!LeaveTeam
    PROVE  TeamSound'
<1>1. TeamKept /\ ManagingSound(managing', team', invites', crossed')
    BY TeamServerSame DEF T!LeaveTeam
<1>2. team' = team /\ invites' = invites /\ managing' = managing /\ crossed' = crossed
    BY DEF T!LeaveTeam, T!server, T!records
<1>3. ASSUME NEW s \in Slots
      PROVE  /\ teamCalls'[s] \in T!CallSet
             /\ TeamCallSound(teamCalls'[s], team', invites', crossed')
             /\ ServedTeam(teamCalls'[s], managing'[s])
  <2>1. /\ teamCalls[s] \in T!CallSet /\ TeamCallSound(teamCalls[s], team', invites', crossed')
        /\ ServedTeam(teamCalls[s], managing'[s])
      BY <1>2, TeamCallOf DEF TeamSound
  <2> DEFINE left == [teamCalls[s] EXCEPT !.live = FALSE]
  <2>2. left \in T!CallSet /\ left.op = teamCalls[s].op /\ left.about = teamCalls[s].about
        /\ left.person = teamCalls[s].person /\ left.phase = teamCalls[s].phase
        /\ left.role = teamCalls[s].role
      BY <2>1 DEF T!CallSet
  <2>3. /\ teamCalls'[s] \in {T!NoCall, left}
        /\ teamCalls'[s] = T!NoCall => teamCalls[s].phase # "sent" \/ left = T!NoCall
      BY DEF T!LeaveTeam, T!Slots, Slots
  <2> HIDE DEF left
  <2>4. left.phase = "sent" => left # T!NoCall
      BY DEF T!NoCall
  <2>5. TeamCallSound(left, team', invites', crossed') /\ ServedTeam(left, managing'[s])
      BY <2>1, <2>2 DEF TeamCallSound, ServedTeam, Done, T!Work
  <2>6. teamCalls'[s] = T!NoCall => ServedTeam(teamCalls'[s], managing'[s])
      BY <2>1, <2>2, <2>3, <2>4 DEF ServedTeam
  <2> QED
      BY <2>2, <2>3, <2>5, <2>6, TeamTyped
<1>4. teamCalls' \in [Slots -> T!CallSet]
    BY <1>3 DEF T!LeaveTeam, T!Slots, Slots
<1>5. DeskSound'
    BY <1>1, TeamTyped, DeskKept DEF TeamSound, T!LeaveTeam
<1> QED
    BY <1>1, <1>3, <1>4, <1>5, TeamCallsAre, TeamIs

-----------------------------------------------------------------------------
\* Clicks on the team page.

LEMMA ClearedTyped ==
    ASSUME NEW shown \in T!PageSet
    PROVE  T!Cleared(shown) \in T!PageSet /\ T!Cleared(shown).success = T!NoSuccess
    BY DEF T!Cleared, T!PageSet, T!NoSuccess, T!None

LEMMA DialogsSound ==
    ASSUME TeamSound
    PROVE  /\ \A open \in BOOLEAN : T!setShowInviteDialog(open) => TeamSound'
           /\ \A person \in People : T!setInviteEmail(person) => TeamSound'
           /\ \A m \in {T!None} \cup DOMAIN team : T!setMemberToRemove(m) => TeamSound'
<1>1. desk \in T!PageSet
    BY DEF TeamSound, DeskSound
<1>2. ASSUME NEW open \in BOOLEAN, T!setShowInviteDialog(open)
      PROVE  TeamSound'
  <2>1. desk' \in T!PageSet /\ desk'.success = desk.success
      BY <1>1, <1>2 DEF T!setShowInviteDialog, T!PageSet
  <2> QED
      BY <1>2, <2>1, DeskStep DEF T!setShowInviteDialog
<1>3. ASSUME NEW person \in People, T!setInviteEmail(person)
      PROVE  TeamSound'
  <2>1. desk' \in T!PageSet /\ desk'.success = desk.success
      BY <1>1, <1>3 DEF T!setInviteEmail, T!PageSet
  <2> QED
      BY <1>3, <2>1, DeskStep DEF T!setInviteEmail
<1>4. ASSUME NEW m \in {T!None} \cup DOMAIN team, T!setMemberToRemove(m)
      PROVE  TeamSound'
  <2>1. m \in {T!None} \cup T!RowIds
      BY TeamIds DEF TeamSound
  <2>2. desk' \in T!PageSet /\ desk'.success = desk.success
      BY <1>1, <1>4, <2>1 DEF T!setMemberToRemove, T!PageSet
  <2> QED
      BY <1>4, <2>2, DeskStep DEF T!setMemberToRemove
<1> QED
    BY <1>2, <1>3, <1>4

\* A call that is made has one of the four operations and is about somebody or something.
LEMMA TeamSent ==
    ASSUME TeamSound, UNCHANGED T!server, desk' \in T!PageSet,
           desk'.success \in {desk.success, T!NoSuccess}, NEW s \in Slots,
           NEW call \in T!CallSet, call.op \in {"invite", "revoke", "role", "remove"},
           call.op = "invite" => call.person \in People,
           call.op = "revoke" => call.about \in DOMAIN invites,
           T!Start(s, call)
    PROVE  TeamSound'
<1> DEFINE new == [call EXCEPT !.phase = "sent", !.live = TRUE]
<1>1. /\ new \in T!CallSet /\ new.phase = "sent" /\ new.op = call.op
      /\ new.about = call.about /\ new.person = call.person
    BY DEF T!CallSet
<1>2. teamCalls' = [teamCalls EXCEPT ![s] = new] /\ teamCalls[s].phase = "free"
    BY DEF T!Start, T!Free
<1> HIDE DEF new
<1>3. TeamCallSound(new, team, invites, crossed)
    BY <1>1 DEF TeamCallSound
<1> QED
    BY <1>1, <1>2, <1>3, TeamStep

LEMMA InviteSound ==
    ASSUME TeamSound, NEW s \in Slots, T!handleInviteMember(s)
    PROVE  TeamSound'
<1>1. desk \in T!PageSet
    BY DEF TeamSound, DeskSound
<1>2. CASE desk.email = T!NoText
  <2>1. UNCHANGED <<T!server, desk, teamCalls>>
      BY <1>2 DEF T!handleInviteMember
  <2> QED
      BY <1>1, <2>1, DeskStep
<1>3. CASE desk.email # T!NoText
  <2> DEFINE call == [T!NoCall EXCEPT !.op = "invite", !.person = desk.email]
  <2>1. desk.email \in People
      BY <1>1, <1>3 DEF T!PageSet
  <2>2. call \in T!CallSet /\ call.op = "invite" /\ call.person = desk.email
      BY <2>1, TeamTyped DEF T!CallSet
  <2>3. /\ T!Start(s, call) /\ desk' = [T!Cleared(desk) EXCEPT !.inviting = TRUE]
        /\ UNCHANGED T!server
      BY <1>3 DEF T!handleInviteMember
  <2>4. desk' \in T!PageSet /\ desk'.success = T!NoSuccess
      BY <1>1, <2>3, ClearedTyped DEF T!PageSet
  <2> HIDE DEF call
  <2> QED
      BY <2>1, <2>2, <2>3, <2>4, TeamSent
<1> QED
    BY <1>2, <1>3

LEMMA RevokeSound ==
    ASSUME TeamSound, NEW s \in Slots, NEW i \in DOMAIN invites, T!handleRevokeInvitation(s, i)
    PROVE  TeamSound'
<1> DEFINE call == [T!NoCall EXCEPT !.op = "revoke", !.about = i]
<1>1. i \in T!InviteIds
    BY TeamIds DEF TeamSound
<1>2. call \in T!CallSet /\ call.op = "revoke" /\ call.about = i
    BY <1>1, TeamTyped DEF T!CallSet
<1>3. T!Start(s, call) /\ UNCHANGED <<T!server, desk>>
    BY DEF T!handleRevokeInvitation
<1> HIDE DEF call
<1> QED
    BY <1>2, <1>3, TeamSent DEF TeamSound, DeskSound

LEMMA UpdateRoleSound ==
    ASSUME TeamSound, NEW s \in Slots, NEW m \in DOMAIN team, NEW role \in T!Offered,
           T!handleUpdateRole(s, m, role)
    PROVE  TeamSound'
<1> DEFINE call == [T!NoCall EXCEPT !.op = "role", !.about = m, !.role = role]
<1>1. m \in T!RowIds /\ role \in T!UserRole /\ desk \in T!PageSet
    BY TeamIds DEF TeamSound, DeskSound, T!Offered, T!UserRole
<1>2. call \in T!CallSet /\ call.op = "role"
    BY <1>1, TeamTyped DEF T!CallSet
<1>3. /\ T!Start(s, call) /\ desk' = [T!Cleared(desk) EXCEPT !.updating = m]
      /\ UNCHANGED T!server
    BY DEF T!handleUpdateRole
<1>4. desk' \in T!PageSet /\ desk'.success = T!NoSuccess
    BY <1>1, <1>3, ClearedTyped DEF T!PageSet
<1> HIDE DEF call
<1> QED
    BY <1>2, <1>3, <1>4, TeamSent

LEMMA RemoveSound ==
    ASSUME TeamSound, NEW s \in Slots, T!handleRemoveMember(s)
    PROVE  TeamSound'
<1> DEFINE call == [T!NoCall EXCEPT !.op = "remove", !.about = desk.toRemove]
<1>1. desk \in T!PageSet
    BY DEF TeamSound, DeskSound
<1>2. call \in T!CallSet /\ call.op = "remove"
    BY <1>1, TeamTyped DEF T!PageSet, T!CallSet
<1>3. /\ T!Start(s, call) /\ UNCHANGED T!server
      /\ desk' = [T!Cleared(desk) EXCEPT !.removing = TRUE, !.toRemove = T!None]
    BY DEF T!handleRemoveMember
<1>4. desk' \in T!PageSet /\ desk'.success = T!NoSuccess
    BY <1>1, <1>3, ClearedTyped DEF T!PageSet, T!None
<1> HIDE DEF call
<1> QED
    BY <1>2, <1>3, <1>4, TeamSent

-----------------------------------------------------------------------------
\* The lists of the team page.

LEMMA LoadMembersSound ==
    ASSUME TeamSound, NEW s \in Slots, T!LoadMembers(s)
    PROVE  TeamSound'
<1> DEFINE list == T!list_organization_members
           new == [teamCalls[s] EXCEPT !.members = list]
<1>1. list \in SUBSET T!Listed
  <2>1. ASSUME NEW m \in T!Present
        PROVE  [id |-> m, role |-> team[m].role] \in T!Listed
    <3>1. m \in T!RowIds /\ m \in DOMAIN team
        BY TeamIds DEF T!Present, TeamSound
    <3>2. team[m] \in T!MemberSet
        BY <3>1 DEF TeamSound, TeamTables
    <3> QED
        BY <3>1, <3>2 DEF T!MemberSet, T!Listed
  <2> QED
      BY <2>1 DEF T!list_organization_members
<1>2. teamCalls[s] \in T!CallSet /\ teamCalls[s].phase = "loading"
    BY TeamCallOf DEF TeamSound, T!LoadMembers
<1>3. teamCalls' = [teamCalls EXCEPT ![s] = new] /\ UNCHANGED <<T!server, desk>>
    BY DEF T!LoadMembers
<1> HIDE DEF list
<1>4. new \in T!CallSet /\ new.phase = "loading"
    BY <1>1, <1>2 DEF T!CallSet
<1> HIDE DEF new
<1> QED
    BY <1>2, <1>3, <1>4, TeamStep DEF TeamSound, DeskSound, TeamCallSound

LEMMA LoadInvitationsSound ==
    ASSUME TeamSound, NEW s \in Slots, T!LoadInvitations(s)
    PROVE  TeamSound'
<1> DEFINE list == T!list_organization_invites
           new == [teamCalls[s] EXCEPT !.pending = list]
<1>1. list \in SUBSET T!InviteIds
    BY TeamIds DEF T!list_organization_invites, TeamSound
<1>2. teamCalls[s] \in T!CallSet /\ teamCalls[s].phase = "loading"
    BY TeamCallOf DEF TeamSound, T!LoadInvitations
<1>3. teamCalls' = [teamCalls EXCEPT ![s] = new] /\ UNCHANGED <<T!server, desk>>
    BY DEF T!LoadInvitations
<1> HIDE DEF list
<1>4. new \in T!CallSet /\ new.phase = "loading"
    BY <1>1, <1>2 DEF T!CallSet
<1> HIDE DEF new
<1> QED
    BY <1>2, <1>3, <1>4, TeamStep DEF TeamSound, DeskSound, TeamCallSound

LEMMA TeamFinishTyped ==
    ASSUME NEW shown \in T!PageSet, NEW op
    PROVE  T!Finish(shown, op) \in T!PageSet /\ T!Finish(shown, op).success = shown.success
<1> DEFINE inviting == shown.inviting /\ op # "invite"
           removing == shown.removing /\ op # "remove"
           updating == IF op = "role" THEN T!None ELSE shown.updating
<1>1. T!Finish(shown, op) = [[[shown EXCEPT !.inviting = inviting] EXCEPT !.removing = removing]
                                 EXCEPT !.updating = updating]
    BY Zenon DEF T!Finish
<1>2. inviting \in BOOLEAN /\ removing \in BOOLEAN
    OBVIOUS
<1>3. updating \in {T!None} \cup T!RowIds
    BY DEF T!PageSet
<1> HIDE DEF inviting, removing, updating
<1> QED
    BY <1>1, <1>2, <1>3, ZenonT(40) DEF T!PageSet

LEMMA TeamLoadArrivesSound ==
    ASSUME TeamSound, NEW s \in Slots, T!LoadArrives(s)
    PROVE  TeamSound'
<1> DEFINE call == teamCalls[s]
           shown == [desk EXCEPT !.members = call.members, !.invitations = call.pending,
                                 !.loading = FALSE]
<1>1. /\ call \in T!CallSet /\ call.members # T!Unread /\ call.pending # T!NoneYet
      /\ teamCalls[s].phase = "loading"
    BY TeamCallOf DEF TeamSound, T!LoadArrives
<1>2. call.members \in SUBSET T!Listed /\ call.pending \in SUBSET T!InviteIds
    BY <1>1 DEF T!CallSet
<1>3. desk \in T!PageSet
    BY DEF TeamSound, DeskSound
<1>4. /\ desk' = T!Finish(shown, call.op) /\ UNCHANGED T!server
      /\ teamCalls' = [teamCalls EXCEPT ![s] = T!NoCall]
    BY DEF T!LoadArrives
<1> HIDE DEF call
<1>5. shown \in T!PageSet /\ shown.success = desk.success
    BY <1>2, <1>3 DEF T!PageSet
<1> HIDE DEF shown
<1>6. desk' \in T!PageSet /\ desk'.success = desk.success
    BY <1>4, <1>5, TeamFinishTyped
<1> QED
    BY <1>1, <1>4, <1>6, TeamTyped, TeamStep

LEMMA TeamLoadFailsSound ==
    ASSUME TeamSound, NEW s \in Slots, T!LoadFails(s)
    PROVE  TeamSound'
<1> DEFINE shown == [desk EXCEPT !.loading = FALSE]
<1>1. /\ desk' = T!Finish(shown, teamCalls[s].op) /\ UNCHANGED T!server
      /\ teamCalls' = [teamCalls EXCEPT ![s] = T!NoCall] /\ teamCalls[s].phase = "loading"
    BY DEF T!LoadFails
<1>2. shown \in T!PageSet /\ shown.success = desk.success
    BY DEF TeamSound, DeskSound, T!PageSet
<1> HIDE DEF shown
<1>3. desk' \in T!PageSet /\ desk'.success = desk.success
    BY <1>1, <1>2, TeamFinishTyped
<1> QED
    BY <1>1, <1>3, TeamTyped, TeamStep

LEMMA TeamFailsSound ==
    ASSUME TeamSound, NEW s \in Slots, T!Fails(s)
    PROVE  TeamSound'
<1>1. /\ desk' \in {desk, T!Finish(desk, teamCalls[s].op)} /\ UNCHANGED T!server
      /\ teamCalls' = [teamCalls EXCEPT ![s] = T!NoCall] /\ teamCalls[s].phase = "refused"
    BY DEF T!Fails
<1>2. desk' \in T!PageSet /\ desk'.success = desk.success
    BY <1>1, TeamFinishTyped DEF TeamSound, DeskSound
<1> QED
    BY <1>1, <1>2, TeamTyped, TeamStep

-----------------------------------------------------------------------------
\* What changes the team and its invitations.

LEMMA MemberChanged ==
    ASSUME TeamTables, NEW m, NEW row, m \in DOMAIN team => row \in T!MemberSet,
           m \in DOMAIN team /\ team[m].gone => row.gone,
           team' = [team EXCEPT ![m] = row], UNCHANGED <<invites, crossed>>
    PROVE  TeamKept /\ (m \in DOMAIN team => team'[m] = row)
<1> DEFINE new == [team EXCEPT ![m] = row]
<1>0. /\ new \in Seq(T!MemberSet) /\ Len(new) = Len(team)
      /\ \A n \in DOMAIN team : n # m => new[n] = team[n]
  <2>1. team \in Seq(T!MemberSet)
    BY DEF TeamTables
  <2> QED
    BY <2>1, SameLength
<1>1. /\ team' \in Seq(T!MemberSet) /\ Len(team') = Len(team)
      /\ \A n \in DOMAIN team : n # m => team'[n] = team[n]
  <2>1. team' = new
    OBVIOUS
  <2> HIDE DEF new
  <2> QED
    BY <1>0, <2>1
<1>2. m \in DOMAIN team => team'[m] = row
    OBVIOUS
<1>3. DOMAIN team' = DOMAIN team
    OBVIOUS
<1>4. TeamTables'
    BY <1>1 DEF TeamTables
<1> QED
    BY <1>1, <1>2, <1>3, <1>4 DEF TeamKept

LEMMA InviteChanged ==
    ASSUME TeamTables, NEW i \in DOMAIN invites, NEW to \in {"accepted", "revoked"},
           i \in crossed \/ invites[i].status = "pending", UNCHANGED crossed,
           invites' = [invites EXCEPT ![i].status = to],
           team' \in Seq(T!MemberSet), Len(team') <= MaxTeam,
           \A m \in DOMAIN team : m \in DOMAIN team' /\ team'[m] = team[m]
    PROVE  TeamKept /\ i \in DOMAIN invites' /\ invites'[i].status = to
<1> DEFINE row == [invites[i] EXCEPT !.status = to]
<1>1. invites[i] \in T!InviteSet
    BY DEF TeamTables
<1>2. row \in T!InviteSet /\ row.status = to /\ row.person = invites[i].person
    BY <1>1 DEF T!InviteSet
<1>3. invites' = [invites EXCEPT ![i] = row] /\ invites'[i] = row /\ DOMAIN invites' = DOMAIN invites
    OBVIOUS
<1> HIDE DEF row
<1>4. /\ invites' \in Seq(T!InviteSet) /\ Len(invites') = Len(invites)
      /\ \A j \in DOMAIN invites : j # i => invites'[j] = invites[j]
  <2>1. /\ [invites EXCEPT ![i] = row] \in Seq(T!InviteSet)
        /\ Len([invites EXCEPT ![i] = row]) = Len(invites)
        /\ \A j \in DOMAIN invites : j # i => [invites EXCEPT ![i] = row][j] = invites[j]
      BY <1>2, SameLength DEF TeamTables
  <2>2. invites' = [invites EXCEPT ![i] = row]
      BY <1>3
  <2> QED
      BY <2>1, <2>2
<1>5. TeamTables'
    BY <1>4 DEF TeamTables
<1> QED
    BY <1>2, <1>3, <1>4, <1>5 DEF TeamKept

LEMMA Invited ==
    ASSUME TeamTables, NEW person \in People, Len(invites) < MaxInvites,
           invites' = T!invite_user_to_organization(person), UNCHANGED <<team, crossed>>
    PROVE  TeamKept /\ \E i \in DOMAIN invites' : invites'[i].person = person
<1> DEFINE row == [person |-> person, status |-> "pending"]
<1>1. row \in T!InviteSet /\ row.person = person /\ invites' = Append(invites, row)
    BY DEF T!InviteSet, T!invite_user_to_organization
<1> HIDE DEF row
<1>2. /\ invites' \in Seq(T!InviteSet) /\ Len(invites') = Len(invites) + 1
      /\ invites'[Len(invites) + 1] = row /\ Len(invites) + 1 \in DOMAIN invites'
      /\ \A i \in DOMAIN invites : i \in DOMAIN invites' /\ invites'[i] = invites[i]
    BY <1>1 DEF TeamTables
<1>3. TeamTables'
    BY <1>2, BoundAssumption DEF TeamTables
<1> QED
    BY <1>1, <1>2, <1>3 DEF TeamKept

LEMMA Revoked ==
    ASSUME TeamTables, NEW i \in DOMAIN invites, i \in crossed \/ invites[i].status = "pending",
           invites' = T!revoke_invite(i), UNCHANGED <<team, crossed>>
    PROVE  TeamKept /\ i \in DOMAIN invites' /\ invites'[i].status = "revoked"
    BY InviteChanged DEF TeamTables, T!revoke_invite

LEMMA Accepted ==
    ASSUME TeamTables, NEW i \in DOMAIN invites, i \in crossed \/ invites[i].status = "pending",
           Len(team) < MaxTeam, UNCHANGED crossed, T!accept_organization_invite(i)
    PROVE  TeamKept
<1> DEFINE row == T!Member(invites[i].person, "viewer")
<1>1. invites[i] \in T!InviteSet
    BY DEF TeamTables
<1>2. row \in T!MemberSet
    BY <1>1 DEF T!Member, T!MemberSet, T!InviteSet, T!UserRole
<1>3. team' = Append(team, row) /\ invites' = [invites EXCEPT ![i].status = "accepted"]
    BY DEF T!accept_organization_invite
<1> HIDE DEF row
<1>4. /\ team' \in Seq(T!MemberSet) /\ Len(team') <= MaxTeam
      /\ \A m \in DOMAIN team : m \in DOMAIN team' /\ team'[m] = team[m]
  <2>1. team \in Seq(T!MemberSet)
    BY DEF TeamTables
  <2>2. team' = Append(team, row)
    BY <1>3
  <2>3. /\ Append(team, row) \in Seq(T!MemberSet) /\ Len(Append(team, row)) = Len(team) + 1
        /\ \A m \in 1..Len(team) : Append(team, row)[m] = team[m]
    BY <1>2, <2>1
  <2>4. Len(team) \in Nat /\ DOMAIN team = 1..Len(team)
        /\ DOMAIN Append(team, row) = 1..Len(Append(team, row))
    BY <2>1, <2>3
  <2>5. team' \in Seq(T!MemberSet) /\ Len(team') = Len(team) + 1 /\ DOMAIN team' = 1..Len(team')
    BY <2>2, <2>3, <2>4
  <2>6. Len(team') <= MaxTeam
    BY <2>4, <2>5, BoundAssumption
  <2>7. \A m \in DOMAIN team : m \in DOMAIN team' /\ team'[m] = team[m]
    BY <2>2, <2>3, <2>4, <2>5
  <2> QED
    BY <2>5, <2>6, <2>7
<1> QED
    BY <1>1, <1>3, <1>4, InviteChanged

LEMMA RoleUpdated ==
    ASSUME TeamTables, NEW m, NEW role \in T!UserRole,
           team' = T!update_member_role(m, role), UNCHANGED <<invites, crossed>>
    PROVE  TeamKept
<1> DEFINE row == [team[m] EXCEPT !.role = role]
<1>1. ASSUME m \in DOMAIN team
      PROVE  row \in T!MemberSet /\ row.gone = team[m].gone
  <2>1. team[m] \in T!MemberSet
      BY <1>1 DEF TeamTables
  <2> QED
      BY <2>1 DEF T!MemberSet
<1>2. team' = [team EXCEPT ![m] = row]
    BY DEF T!update_member_role
<1> HIDE DEF row
<1> QED
    BY <1>1, <1>2, MemberChanged

LEMMA Removed ==
    ASSUME TeamTables, NEW m \in DOMAIN team, team' = T!remove_member(m),
           UNCHANGED <<invites, crossed>>
    PROVE  TeamKept /\ m \in DOMAIN team' /\ team'[m].gone
<1> DEFINE row == [team[m] EXCEPT !.gone = TRUE]
<1>2. team[m] \in T!MemberSet
    BY DEF TeamTables
<1>3. row \in T!MemberSet /\ row.gone
    BY <1>2 DEF T!MemberSet
<1>4. team' = [team EXCEPT ![m] = row] /\ DOMAIN team' = DOMAIN team
    BY DEF T!remove_member
<1> HIDE DEF row
<1> QED
    BY <1>3, <1>4, MemberChanged

-----------------------------------------------------------------------------
\* Handlers of the server.

\* A handler whose queries found all well joins the others.
LEMMA TeamBegun ==
    ASSUME TeamTables, ManagingSound(managing, team, invites, crossed),
           NEW h \in T!Handlers, managing[h] = T!Idle, NEW work \in T!WorkSet,
           work.op = "invite" => work.person \in People, T!Begin(h, work)
    PROVE  /\ ManagingSound(managing', team, invites, crossed') /\ crossed \subseteq crossed'
           /\ \A k \in T!Handlers : managing'[k] = IF k = h THEN work ELSE managing[k]
<1>1. /\ managing \in [T!Handlers -> {T!Idle} \cup T!WorkSet] /\ crossed \subseteq T!InviteIds
      /\ managing' = [managing EXCEPT ![h] = work] /\ T!Allowed(work)
      /\ work.op \in {"invite", "revoke", "accept", "role", "remove"}
    BY DEF ManagingSound, T!Begin, T!WorkSet
<1>2. /\ managing' \in [T!Handlers -> {T!Idle} \cup T!WorkSet]
      /\ \A k \in T!Handlers : managing'[k] = IF k = h THEN work ELSE managing[k]
    BY <1>1
<1>3. /\ T!OnInvite(work) => /\ work.about \in DOMAIN invites
                             /\ invites[work.about].status = "pending"
      /\ work.op = "remove" => work.about \in DOMAIN team
    BY <1>1 DEF T!Allowed, T!OnInvite, T!list_organization_invites, T!CanRemove, T!Present
<1>4. /\ crossed \subseteq crossed' /\ crossed' \subseteq T!InviteIds
      /\ (T!OnInvite(work) /\ \E k \in T!Handlers : T!OnInvite(managing[k]) /\ managing[k].about = work.about)
           => work.about \in crossed'
    BY <1>1, <1>3, TeamIds DEF T!Begin
<1>5. ~T!OnInvite(T!Idle)
    BY DEF T!OnInvite, T!Idle
<1>6. ASSUME NEW k \in T!Handlers
      PROVE  WorkSound(managing'[k], team, invites, crossed')
    BY <1>2, <1>3, <1>4 DEF ManagingSound, WorkSound
<1>7. ASSUME NEW k \in T!Handlers, NEW l \in T!Handlers, k # l, T!OnInvite(managing'[k]),
             T!OnInvite(managing'[l]), managing'[k].about = managing'[l].about
      PROVE  managing'[k].about \in crossed'
    BY <1>2, <1>4, <1>5, <1>7 DEF ManagingSound
<1> QED
    BY <1>2, <1>4, <1>6, <1>7 DEF ManagingSound

\* The tables after a commit, and what it did.
LEMMA TeamWritten ==
    ASSUME TeamTables, ManagingSound(managing, team, invites, crossed),
           NEW h \in T!Handlers, managing[h] # T!Idle, T!Commit(h)
    PROVE  /\ TeamKept /\ (~T!Fruitless(managing[h]) => Done(managing[h], team', invites', crossed'))
           /\ \A i \in DOMAIN invites :
                 invites'[i] = invites[i] \/ (T!OnInvite(managing[h]) /\ managing[h].about = i)
<1> DEFINE work == managing[h]
<1>1. /\ work \in T!WorkSet /\ WorkSound(work, team, invites, crossed) /\ UNCHANGED crossed
      /\ work.op \in {"invite", "revoke", "accept", "role", "remove"} /\ work.role \in T!UserRole
    BY DEF ManagingSound, T!Commit, T!WorkSet
<1>2. CASE work.op = "invite"
  <2>1. /\ work.person \in People /\ Len(invites) < MaxInvites
        /\ invites' = T!invite_user_to_organization(work.person) /\ UNCHANGED team
      BY <1>1, <1>2 DEF WorkSound, T!Commit
  <2>2. TeamKept /\ \E i \in DOMAIN invites' : invites'[i].person = work.person
      BY <1>1, <2>1, Invited
  <2>3. \A i \in DOMAIN invites : invites'[i] = invites[i]
      BY <2>1 DEF T!invite_user_to_organization, TeamTables, T!InviteSet
  <2> QED
      BY <1>2, <2>2, <2>3 DEF Done
<1>3. CASE work.op \in {"revoke", "accept"}
  <2>1. /\ work.about \in DOMAIN invites /\ T!OnInvite(work)
        /\ work.about \in crossed \/ invites[work.about].status = "pending"
      BY <1>1, <1>3 DEF WorkSound, T!OnInvite
  <2>2. \A i \in DOMAIN invites : i # work.about => invites'[i] = invites[i]
    <3>1. CASE work.op = "revoke"
      <4>1. invites' = T!revoke_invite(work.about)
          BY <3>1 DEF T!Commit
      <4> QED
          BY <4>1 DEF T!revoke_invite, TeamTables
    <3>2. CASE work.op = "accept"
      <4>1. T!accept_organization_invite(work.about)
          BY <3>2 DEF T!Commit
      <4> QED
          BY <4>1 DEF T!accept_organization_invite, TeamTables
    <3> QED
        BY <1>3, <3>1, <3>2
  <2>3. CASE work.op = "revoke"
    <3>1. invites' = T!revoke_invite(work.about) /\ UNCHANGED team
        BY <2>3 DEF T!Commit
    <3>2. /\ TeamKept /\ work.about \in DOMAIN invites'
          /\ invites'[work.about].status = "revoked"
        BY <1>1, <2>1, <3>1, Revoked
    <3> QED
        BY <2>1, <2>2, <2>3, <3>2 DEF Done
  <2>4. CASE work.op = "accept"
    <3>1. Len(team) < MaxTeam /\ T!accept_organization_invite(work.about)
        BY <2>4 DEF T!Commit
    <3>2. TeamKept
        BY <1>1, <2>1, <3>1, Accepted
    <3> QED
        BY <2>1, <2>2, <2>4, <3>2 DEF Done
  <2> QED
      BY <1>3, <2>3, <2>4
<1>4. CASE work.op = "role"
  <2>1. /\ team' = team \/ team' = T!update_member_role(work.about, work.role)
        /\ UNCHANGED invites
      BY <1>4 DEF T!Commit
  <2>2. TeamKept
      BY <1>1, <2>1, TeamSame, RoleUpdated
  <2> QED
      BY <1>4, <2>1, <2>2 DEF Done
<1>5. CASE work.op = "remove"
  <2>1. /\ work.about \in DOMAIN team /\ team' = T!remove_member(work.about)
        /\ UNCHANGED invites
      BY <1>1, <1>5 DEF WorkSound, T!Commit
  <2>2. TeamKept /\ work.about \in DOMAIN team' /\ team'[work.about].gone
      BY <1>1, <2>1, Removed
  <2> QED
      BY <1>5, <2>1, <2>2 DEF Done
<1> QED
    BY <1>1, <1>2, <1>3, <1>4, <1>5

LEMMA TeamCommitted ==
    ASSUME TeamTables, ManagingSound(managing, team, invites, crossed),
           NEW h \in T!Handlers, managing[h] # T!Idle, T!Commit(h)
    PROVE  /\ TeamKept /\ (~T!Fruitless(managing[h]) => Done(managing[h], team', invites', crossed'))
           /\ ManagingSound(managing', team', invites', crossed')
           /\ \A k \in T!Handlers : managing'[k] = IF k = h THEN T!Idle ELSE managing[k]
<1>1. /\ TeamKept /\ (~T!Fruitless(managing[h]) => Done(managing[h], team', invites', crossed'))
      /\ \A i \in DOMAIN invites :
            invites'[i] = invites[i] \/ (T!OnInvite(managing[h]) /\ managing[h].about = i)
    BY TeamWritten
<1>2. /\ managing \in [T!Handlers -> {T!Idle} \cup T!WorkSet] /\ crossed \subseteq T!InviteIds
      /\ crossed' = crossed
    BY DEF ManagingSound, T!Commit
<1>3. /\ managing' \in [T!Handlers -> {T!Idle} \cup T!WorkSet]
      /\ \A k \in T!Handlers : managing'[k] = IF k = h THEN T!Idle ELSE managing[k]
    BY <1>2 DEF T!Commit
<1>4. WorkSound(T!Idle, team', invites', crossed') /\ ~T!OnInvite(T!Idle)
    BY DEF WorkSound, T!Idle, T!OnInvite
<1>5. /\ DOMAIN team \subseteq DOMAIN team' /\ DOMAIN invites \subseteq DOMAIN invites'
    BY <1>1 DEF TeamKept
<1>6. ASSUME NEW k \in T!Handlers, k # h
      PROVE  WorkSound(managing[k], team', invites', crossed')
    BY <1>1, <1>2, <1>5, <1>6 DEF ManagingSound, WorkSound
<1>7. \A k \in T!Handlers : WorkSound(managing'[k], team', invites', crossed')
    BY <1>3, <1>4, <1>6
<1>8. ASSUME NEW k \in T!Handlers, NEW l \in T!Handlers, k # l, T!OnInvite(managing'[k]),
             T!OnInvite(managing'[l]), managing'[k].about = managing'[l].about
      PROVE  managing'[k].about \in crossed'
    BY <1>2, <1>3, <1>4, <1>8 DEF ManagingSound
<1>9. ManagingSound(managing', team', invites', crossed')
    BY <1>2, <1>3, <1>7, <1>8 DEF ManagingSound
<1> QED
    BY <1>1, <1>3, <1>9

LEMMA TeamPhaseTyped ==
    ASSUME NEW call \in T!CallSet, NEW phase \in {"sent", "ok", "refused"}
    PROVE  /\ [call EXCEPT !.phase = phase] \in T!CallSet
           /\ [call EXCEPT !.phase = phase].op = call.op
           /\ [call EXCEPT !.phase = phase].about = call.about
           /\ [call EXCEPT !.phase = phase].person = call.person
           /\ [call EXCEPT !.phase = phase].role = call.role
           /\ [call EXCEPT !.phase = phase].phase = phase
    BY DEF T!CallSet

\* The server and one call change, the page does not.
LEMMA TeamServerStep ==
    ASSUME TeamSound, UNCHANGED desk, TeamKept, ManagingSound(managing', team', invites', crossed'),
           NEW s \in Slots, NEW phase \in {"sent", "ok", "refused"},
           teamCalls[s].phase \in {"sent", "ok", "refused"},
           phase = "ok" => Done(teamCalls[s], team', invites', crossed'),
           managing'[s] = T!Idle \/ (phase = "sent" /\ managing'[s] = T!Work(teamCalls[s])),
           \A t \in Slots : t # s => managing'[t] \in {managing[t], T!Idle},
           teamCalls' = [teamCalls EXCEPT ![s].phase = phase]
    PROVE  TeamSound'
<1> DEFINE call == teamCalls[s]
<1>1. PICK new : new = [teamCalls[s] EXCEPT !.phase = phase]
    OBVIOUS
<1>2. teamCalls' = [teamCalls EXCEPT ![s] = new]
    BY <1>1, Zenon
<1>3. call \in T!CallSet /\ TeamCallSound(call, team', invites', crossed')
    BY TeamCallOf, TeamCallKept DEF TeamSound
<1>4. /\ new \in T!CallSet /\ new.op = call.op /\ new.about = call.about
      /\ new.person = call.person /\ new.role = call.role /\ new.phase = phase
    BY <1>1, <1>3, TeamPhaseTyped
<1>5. /\ call.phase \in {"sent", "ok", "refused"}
      /\ phase = "ok" => Done(call, team', invites', crossed')
      /\ managing'[s] = T!Idle \/ (phase = "sent" /\ managing'[s] = T!Work(call))
    OBVIOUS
<1> HIDE DEF call
<1>6. TeamCallSound(new, team', invites', crossed') /\ ServedTeam(new, managing'[s])
    BY <1>3, <1>4, <1>5 DEF TeamCallSound, ServedTeam, Done, T!Work
<1>7. TeamCallsSound'
    BY <1>2, <1>4, <1>6, TeamCallPut DEF TeamSound
<1>8. DeskSound'
    BY DeskKept DEF TeamSound, DeskSound
<1> QED
    BY <1>7, <1>8, TeamIs

LEMMA TeamLookSound ==
    ASSUME TeamSound, NEW s \in Slots, T!Look(s)
    PROVE  TeamSound'
<1> DEFINE call == teamCalls[s]
           work == T!Work(call)
<1>1. /\ TeamTables /\ ManagingSound(managing, team, invites, crossed) /\ call \in T!CallSet
      /\ call.phase = "sent" /\ managing[s] = T!Idle /\ s \in T!Handlers
      /\ call.op \in {"invite", "revoke", "role", "remove"}
      /\ call.op = "invite" => call.person \in People
    BY TeamCallOf, TeamSlotsHandle DEF TeamSound, TeamCallSound, T!Look
<1>2. team' = team /\ invites' = invites /\ UNCHANGED desk
    BY DEF T!Look, T!records
<1>3. /\ work \in T!WorkSet /\ work.op = call.op /\ work.person = call.person
    BY <1>1 DEF T!Work, T!WorkSet, T!CallSet
<1>4. CASE T!IsManager /\ T!Allowed(work)
  <2>1. T!Begin(s, work) /\ UNCHANGED teamCalls
      BY <1>4 DEF T!Look
  <2> HIDE DEF work
  <2>2. /\ ManagingSound(managing', team, invites, crossed') /\ crossed \subseteq crossed'
        /\ \A k \in T!Handlers : managing'[k] = IF k = s THEN work ELSE managing[k]
      BY <1>1, <1>3, <2>1, TeamBegun
  <2>3. TeamKept
      BY <1>1, <1>2, <2>2, TeamSame
  <2>4. teamCalls' = [teamCalls EXCEPT ![s].phase = "sent"]
    <3>1. teamCalls[s] = [teamCalls[s] EXCEPT !.phase = "sent"]
        BY <1>1 DEF T!CallSet
    <3>2. teamCalls \in [Slots -> T!CallSet]
        BY DEF TeamSound, TeamCallsSound
    <3> QED
        BY <2>1, <3>1, <3>2
  <2>5. managing'[s] = T!Work(teamCalls[s])
      BY <1>1, <2>2 DEF work
  <2>6. ManagingSound(managing', team', invites', crossed')
      BY <1>2, <2>2
  <2> QED
      BY <1>1, <1>2, <2>2, <2>3, <2>4, <2>5, <2>6, TeamSlotsHandle, TeamServerStep
<1>5. CASE ~(T!IsManager /\ T!Allowed(work))
  <2>1. /\ teamCalls' = [teamCalls EXCEPT ![s].phase = "refused"]
        /\ managing' = managing /\ crossed' = crossed
      BY <1>5 DEF T!Look
  <2>2. TeamKept /\ ManagingSound(managing', team', invites', crossed')
      BY <1>1, <1>2, <2>1, TeamSame
  <2> QED
      BY <1>1, <1>2, <2>1, <2>2, TeamServerStep
<1> QED
    BY <1>4, <1>5

LEMMA TeamServeSound ==
    ASSUME TeamSound, NEW s \in Slots, T!Serve(s)
    PROVE  TeamSound'
<1>1. /\ s \in T!Handlers /\ managing[s] # T!Idle /\ T!Commit(s) /\ UNCHANGED desk
      /\ teamCalls' = [teamCalls EXCEPT
            ![s].phase = IF T!Fruitless(managing[s]) THEN "sent" ELSE "ok"]
    BY TeamSlotsHandle DEF T!Serve
<1>2. PICK phase \in {"sent", "ok"} : /\ teamCalls' = [teamCalls EXCEPT ![s].phase = phase]
                                      /\ phase = "ok" => ~T!Fruitless(managing[s])
    BY <1>1
<1>3. teamCalls[s].phase = "sent" /\ managing[s] = T!Work(teamCalls[s])
    BY <1>1, TeamCallOf DEF ServedTeam, TeamSound
<1>4. /\ TeamKept /\ ManagingSound(managing', team', invites', crossed')
      /\ ~T!Fruitless(managing[s]) => Done(managing[s], team', invites', crossed')
      /\ \A k \in T!Handlers : managing'[k] = IF k = s THEN T!Idle ELSE managing[k]
    BY <1>1, TeamCommitted DEF TeamSound
<1>5. phase = "ok" => Done(teamCalls[s], team', invites', crossed')
    BY <1>2, <1>3, <1>4 DEF Done, T!Work
<1> QED
    BY <1>1, <1>2, <1>3, <1>4, <1>5, TeamSlotsHandle, TeamServerStep

\* A lost call's handler goes on for nobody, or is gone.
LEMMA TeamLostSound ==
    ASSUME TeamSound, NEW s \in Slots, T!Lost(s)
    PROVE  TeamSound'
<1>1. PICK phase \in {"sent", "refused"} : teamCalls' = [teamCalls EXCEPT ![s].phase = phase]
    BY DEF T!Lost
<1>2. /\ teamCalls[s].phase \in {"sent", "ok", "refused"} /\ s \in T!Handlers
      /\ team' = team /\ invites' = invites /\ crossed' = crossed /\ UNCHANGED desk
    BY TeamSlotsHandle DEF T!Lost, T!records
<1>3. ManagingSound(managing, team, invites, crossed) /\ TeamKept
    BY <1>2, TeamSame DEF TeamSound
<1>4. ~T!OnInvite(T!Idle) /\ WorkSound(T!Idle, team, invites, crossed)
    BY DEF T!OnInvite, T!Idle, WorkSound
<1>5. /\ ManagingSound(managing', team, invites, crossed) /\ managing'[s] = T!Idle
      /\ \A t \in Slots : t # s => managing'[t] \in {managing[t], T!Idle}
  <2>0. managing \in [T!Handlers -> {T!Idle} \cup T!WorkSet]
      BY <1>3 DEF ManagingSound
  <2>1. CASE managing' = [managing EXCEPT ![s] = T!Idle]
    <3>1. /\ managing' \in [T!Handlers -> {T!Idle} \cup T!WorkSet]
          /\ \A k \in T!Handlers : managing'[k] = IF k = s THEN T!Idle ELSE managing[k]
        BY <1>2, <2>0, <2>1
    <3> QED
        BY <1>2, <1>3, <1>4, <3>1, TeamSlotsHandle DEF ManagingSound
  <2>2. CASE \E h \in T!Handlers :
                /\ T!Spare(h) /\ managing[s] # T!Idle
                /\ managing' = [managing EXCEPT ![s] = T!Idle, ![h] = managing[s]]
    <3>1. PICK h \in T!Handlers :
                /\ T!Spare(h) /\ managing[s] # T!Idle
                /\ managing' = [managing EXCEPT ![s] = T!Idle, ![h] = managing[s]]
        BY <2>2
    <3>2. managing[h] = T!Idle /\ h \notin Slots /\ h # s
        BY <3>1, TeamSlotsHandle DEF T!Spare
    <3>3. managing[s] \in {T!Idle} \cup T!WorkSet
        BY <1>2, <2>0
    <3>4. /\ managing' \in [T!Handlers -> {T!Idle} \cup T!WorkSet]
          /\ \A k \in T!Handlers : managing'[k] = IF k = s THEN T!Idle
                                                 ELSE IF k = h THEN managing[s] ELSE managing[k]
        BY <1>2, <2>0, <3>1, <3>2, <3>3
    <3>5. ASSUME NEW k \in T!Handlers
          PROVE  WorkSound(managing'[k], team, invites, crossed)
        BY <1>2, <1>3, <1>4, <3>4 DEF ManagingSound
    <3>6. ASSUME NEW k \in T!Handlers, NEW l \in T!Handlers, k # l, T!OnInvite(managing'[k]),
                 T!OnInvite(managing'[l]), managing'[k].about = managing'[l].about
          PROVE  managing'[k].about \in crossed
        BY <1>2, <1>3, <1>4, <3>2, <3>4, <3>6 DEF ManagingSound
    <3> QED
        BY <1>2, <1>3, <3>2, <3>4, <3>5, <3>6, TeamSlotsHandle DEF ManagingSound
  <2> QED
      BY <2>1, <2>2 DEF T!Lost
<1>6. ManagingSound(managing', team', invites', crossed')
    BY <1>2, <1>5
<1> QED
    BY <1>1, <1>2, <1>3, <1>5, <1>6, TeamServerStep

\* What a handler reports is what the server did.
LEMMA TeamSucceedsSound ==
    ASSUME TeamSound, NEW s \in Slots, T!Succeeds(s)
    PROVE  TeamSound'
<1> DEFINE call == teamCalls[s]
           success == [op |-> call.op, about |-> call.about, person |-> call.person]
<1>1. /\ call \in T!CallSet /\ desk \in T!PageSet /\ call.phase = "ok"
      /\ call.op \in {"invite", "revoke", "role", "remove"} /\ Done(call, team, invites, crossed)
      /\ ServedTeam(call, managing[s])
    BY TeamCallOf DEF TeamSound, DeskSound, TeamCallSound, T!Succeeds
<1>2. UNCHANGED T!server
    BY DEF T!Succeeds
<1>3. CASE ~call.live
  <2>1. UNCHANGED desk /\ teamCalls' = [teamCalls EXCEPT ![s] = T!NoCall]
      BY <1>3 DEF T!Succeeds
  <2> QED
      BY <1>1, <1>2, <2>1, TeamTyped, TeamStep
<1>4. CASE call.live
  <2> DEFINE told == [desk EXCEPT !.success = success]
             invited == [told EXCEPT !.showInvite = FALSE, !.email = T!NoText]
             removed == [told EXCEPT !.toRemove = T!None]
             after == T!AfterOk(call)
  <2>1. told \in T!PageSet /\ told.success = success
      BY <1>1 DEF T!PageSet, T!CallSet
  <2>2. after \in {told, invited, removed}
      BY <1>1 DEF T!AfterOk
  <2> HIDE DEF told, after, success
  <2>3. invited \in T!PageSet /\ invited.success = success
        /\ removed \in T!PageSet /\ removed.success = success
      BY <2>1 DEF T!PageSet
  <2>4. after \in T!PageSet /\ after.success = success
      BY <2>1, <2>2, <2>3
  <2>5. desk' = T!loadTeamData(after) /\ teamCalls' = [teamCalls EXCEPT ![s] = T!Loading(call)]
      BY <1>4 DEF T!Succeeds, after
  <2>6. desk' \in T!PageSet /\ desk'.success = success
      BY <2>4, <2>5 DEF T!loadTeamData, T!PageSet
  <2>7. team' = team /\ invites' = invites /\ managing' = managing /\ crossed' = crossed
      BY <1>2 DEF T!server, T!records
  <2>8. TeamKept /\ ManagingSound(managing', team', invites', crossed')
      BY <1>2, TeamServerSame
  <2>9. DeskSound'
    <3>1. Done(desk'.success, team', invites', crossed')
        BY <1>1, <2>6, <2>7 DEF Done, success
    <3> QED
        BY <2>6, <3>1 DEF DeskSound, Done
  <2>10. managing[s] = T!Idle
      BY <1>1 DEF ServedTeam
  <2> HIDE DEF call
  <2>11. TeamCallsSound'
      BY <1>1, <2>5, <2>7, <2>8, <2>10, TeamLoadingTyped, TeamCallPut DEF TeamSound, ServedTeam
  <2> QED
      BY <2>8, <2>9, <2>11, TeamIs
<1> QED
    BY <1>3, <1>4

\* The server changes for others.
LEMMA OthersTeamStep ==
    ASSUME TeamSound, UNCHANGED <<desk, teamCalls>>, TeamKept,
           ManagingSound(managing', team', invites', crossed'),
           \A t \in Slots : managing'[t] \in {managing[t], T!Idle}
    PROVE  TeamSound'
<1>1. DeskSound'
    BY DeskKept DEF TeamSound, DeskSound
<1> QED
    BY <1>1, TeamCallsKept, TeamIs DEF TeamSound

LEMMA OthersTeamSound ==
    ASSUME TeamSound, T!OthersManage
    PROVE  TeamSound'
<1>1. PICK h \in T!Handlers, work \in T!Theirs : T!Spare(h) /\ T!Begin(h, work)
    BY DEF T!OthersManage
<1>2. TeamTables /\ ManagingSound(managing, team, invites, crossed)
    BY DEF TeamSound
<1>3. managing[h] = T!Idle /\ h \notin Slots
    BY <1>1, TeamSlotsHandle DEF T!Spare
<1>4. work \in T!WorkSet /\ work.op # "invite"
  <2>1. DOMAIN invites \subseteq T!InviteIds /\ DOMAIN team \subseteq T!RowIds
      BY <1>2, TeamIds
  <2> QED
      BY <2>1 DEF T!Theirs, T!WorkSet, T!UserRole
<1>5. /\ ManagingSound(managing', team, invites, crossed') /\ crossed \subseteq crossed'
      /\ \A k \in T!Handlers : managing'[k] = IF k = h THEN work ELSE managing[k]
    BY <1>1, <1>2, <1>3, <1>4, TeamBegun
<1>6. team' = team /\ invites' = invites /\ UNCHANGED <<desk, teamCalls>>
    BY DEF T!OthersManage, T!records
<1>7. TeamKept /\ ManagingSound(managing', team', invites', crossed')
    BY <1>2, <1>5, <1>6, TeamSame
<1> QED
    BY <1>3, <1>5, <1>6, <1>7, TeamSlotsHandle, OthersTeamStep

LEMMA OthersTeamCommitSound ==
    ASSUME TeamSound, NEW h \in T!Handlers, T!OthersCommit(h)
    PROVE  TeamSound'
<1>1. managing[h] # T!Idle /\ T!Commit(h) /\ UNCHANGED <<desk, teamCalls>>
    BY DEF T!OthersCommit
<1>2. /\ TeamKept /\ ManagingSound(managing', team', invites', crossed')
      /\ \A k \in T!Handlers : managing'[k] = IF k = h THEN T!Idle ELSE managing[k]
    BY <1>1, TeamCommitted DEF TeamSound
<1> QED
    BY <1>1, <1>2, TeamSlotsHandle, OthersTeamStep

LEMMA TeamLosses ==
    ASSUME lost \in 0..MaxLost, T!TeamAnswers
    PROVE  lost' \in 0..MaxLost
<1>1. lost' = lost \/ (lost < MaxLost /\ lost' = lost + 1)
  <2>1. CASE \E h \in T!Handlers : T!OthersCommit(h)
      BY <2>1 DEF T!OthersCommit
  <2>2. CASE \E s \in T!Slots : T!LoadMembers(s) \/ T!LoadInvitations(s) \/ T!LoadArrives(s)
      BY <2>2 DEF T!LoadMembers, T!LoadInvitations, T!LoadArrives
  <2>3. CASE \E s \in T!Slots : T!LoadFails(s) \/ T!Lost(s)
      BY <2>3 DEF T!LoadFails, T!Lost
  <2>4. CASE \E s \in T!Slots : T!Look(s) \/ T!Serve(s) \/ T!Succeeds(s) \/ T!Fails(s)
      BY <2>4 DEF T!Look, T!Serve, T!Succeeds, T!Fails
  <2> QED
      BY <2>1, <2>2, <2>3, <2>4 DEF T!TeamAnswers
<1> QED
    BY <1>1, BoundAssumption

LEMMA TeamAnswersSound ==
    ASSUME TeamSound, T!TeamAnswers
    PROVE  TeamSound'
<1>1. CASE \E h \in T!Handlers : T!OthersCommit(h)
    BY <1>1, OthersTeamCommitSound
<1>2. CASE \E s \in T!Slots :
        \/ T!LoadMembers(s) \/ T!LoadInvitations(s) \/ T!LoadArrives(s) \/ T!LoadFails(s)
        \/ T!Look(s) \/ T!Serve(s) \/ T!Lost(s) \/ T!Succeeds(s) \/ T!Fails(s)
    BY <1>2, TeamSlotsHandle, LoadMembersSound, LoadInvitationsSound, TeamLoadArrivesSound,
       TeamLoadFailsSound, TeamLookSound, TeamServeSound, TeamLostSound, TeamSucceedsSound,
       TeamFailsSound
<1> QED
    BY <1>1, <1>2 DEF T!TeamAnswers

LEMMA TeamClicksSound ==
    ASSUME TeamSound, T!TeamClicks
    PROVE  TeamSound' /\ UNCHANGED lost
<1>1. CASE \E open \in BOOLEAN : T!setShowInviteDialog(open)
    BY <1>1, DialogsSound DEF T!setShowInviteDialog
<1>2. CASE \E person \in People : T!setInviteEmail(person)
    BY <1>2, DialogsSound DEF T!setInviteEmail
<1>3. CASE \E m \in {T!None} \cup DOMAIN team : T!setMemberToRemove(m)
    BY <1>3, DialogsSound DEF T!setMemberToRemove
<1>4. CASE \E s \in T!Slots :
              \/ T!handleInviteMember(s) \/ T!handleRemoveMember(s)
              \/ \E i \in DOMAIN invites : T!handleRevokeInvitation(s, i)
              \/ \E m \in DOMAIN team, role \in T!Offered : T!handleUpdateRole(s, m, role)
  <2>1. PICK s \in Slots :
              \/ T!handleInviteMember(s) \/ T!handleRemoveMember(s)
              \/ \E i \in DOMAIN invites : T!handleRevokeInvitation(s, i)
              \/ \E m \in DOMAIN team, role \in T!Offered : T!handleUpdateRole(s, m, role)
      BY <1>4 DEF T!Slots, Slots
  <2>2. CASE T!handleInviteMember(s)
      BY <2>2, InviteSound DEF T!handleInviteMember
  <2>3. CASE T!handleRemoveMember(s)
      BY <2>3, RemoveSound DEF T!handleRemoveMember
  <2>4. CASE \E i \in DOMAIN invites : T!handleRevokeInvitation(s, i)
      BY <2>4, RevokeSound DEF T!handleRevokeInvitation
  <2>5. CASE \E m \in DOMAIN team, role \in T!Offered : T!handleUpdateRole(s, m, role)
      BY <2>5, UpdateRoleSound DEF T!handleUpdateRole
  <2> QED
      BY <2>1, <2>2, <2>3, <2>4, <2>5
<1> QED
    BY <1>1, <1>2, <1>3, <1>4 DEF T!TeamClicks

-----------------------------------------------------------------------------
(***************************************************************************)
(* The three pages together.                                                *)
(***************************************************************************)

IInv ==
    /\ page \in {"away", "requests", "compartments", "team"}
    /\ clicks \in 0..MaxClicks /\ others \in 0..MaxOthers /\ lost \in 0..MaxLost
    /\ RequestsSound /\ CompartmentsSound /\ TeamSound

LEMMA RequestsStart == ASSUME Init PROVE RequestsSound
<1>1. status \in [Requests -> R!Statuses]
    BY DEF Init, R!RequestsInit, R!Statuses
<1>2. RequestPageSound
    BY PageTyped DEF Init, R!RequestsInit, RequestPageSound, RequestSuccessIsTrue
<1>3. R!NoCall \in R!CallSet /\ RequestCallSound(R!NoCall, status, raced)
    BY RequestCallTyped DEF RequestCallSound, R!NoCall
<1>4. deciding = [h \in R!Handlers |-> R!Idle] /\ raced = {}
    BY DEF Init, R!RequestsInit
<1>5. RequestCallsSound
  <2>1. \A s \in Slots : Served(reqCalls[s], deciding[s])
      BY <1>4, SlotsHandle DEF Served
  <2> QED
      BY <1>3, <2>1 DEF Init, R!RequestsInit, RequestCallsSound, R!Slots, Slots
<1>6. DecidingSound(status, deciding, raced)
    BY <1>4 DEF DecidingSound
<1> QED
    BY <1>1, <1>2, <1>5, <1>6 DEF RequestsSound

LEMMA CompartmentsStart == ASSUME Init PROVE CompartmentsSound
<1> DEFINE below == [C!Root EXCEPT !.parent = 1]
<1>1. C!Root \in C!CompSet /\ below \in C!CompSet /\ comps = <<C!Root, below>>
  <2>1. comps = <<C!Root, below>>
      BY DEF Init, C!CompartmentsInit
  <2>2. 1 \in C!CompIds
      BY BoundAssumption DEF C!CompIds
  <2>3. C!Root \in C!CompSet
      BY DEF C!Root, C!CompSet
  <2>4. below \in C!CompSet
      BY <2>2, <2>3 DEF C!CompSet
  <2> QED
      BY <2>1, <2>3, <2>4
<1> HIDE DEF below
<1>2. comps \in Seq(C!CompSet) /\ Len(comps) = 2 /\ DOMAIN comps = 1..2
    BY <1>1
<1>3. PICK u \in Users : rows = <<[comp |-> 2, user |-> u, active |-> TRUE]>>
    BY DEF Init, C!CompartmentsInit
<1> DEFINE row == [comp |-> 2, user |-> u, active |-> TRUE]
<1>4. row \in C!RowSet
    BY <1>2, BoundAssumption DEF C!RowSet, C!CompIds
<1>5. rows = <<row>>
    BY <1>3
<1> HIDE DEF row
<1>6. rows \in Seq(C!RowSet) /\ Len(rows) = 1
    BY <1>4, <1>5
<1>7. TreeCallsSound
    BY TreeTyped DEF Init, C!CompartmentsInit, TreeCallsSound, C!Slots, Slots
<1> QED
    BY <1>2, <1>6, <1>7, TreeTyped, BoundAssumption
       DEF Init, C!CompartmentsInit, CompartmentsSound, CompartmentTables

LEMMA TeamStart == ASSUME Init PROVE TeamSound
<1>1. PICK role \in T!Offered : team = <<T!Member("me", role), T!Member("founder", "owner")>>
    BY DEF Init, T!TeamInit
<1> DEFINE me == T!Member("me", role)
           founder == T!Member("founder", "owner")
<1>2. me \in T!MemberSet /\ founder \in T!MemberSet /\ team = <<me, founder>>
    BY <1>1 DEF T!Member, T!MemberSet, T!Offered, T!UserRole
<1> HIDE DEF me, founder
<1>3. team \in Seq(T!MemberSet) /\ Len(team) = 2
    BY <1>2
<1>4. PICK p \in People : invites = <<[person |-> p, status |-> "pending"]>>
    BY DEF Init, T!TeamInit
<1> DEFINE row == [person |-> p, status |-> "pending"]
<1>5. row \in T!InviteSet /\ invites = <<row>>
    BY <1>4 DEF T!InviteSet
<1> HIDE DEF row
<1>6. invites \in Seq(T!InviteSet) /\ Len(invites) = 1
    BY <1>5
<1>7. TeamTables
    BY <1>3, <1>6, BoundAssumption DEF TeamTables
<1>8. DeskSound
    BY TeamTyped, NothingDone DEF Init, T!TeamInit, DeskSound
<1>9. managing = [h \in T!Handlers |-> T!Idle] /\ crossed = {}
    BY DEF Init, T!TeamInit
<1>10. TeamCallsSound
  <2>1. \A s \in Slots : ServedTeam(teamCalls[s], managing[s])
      BY <1>9, TeamSlotsHandle DEF ServedTeam
  <2> QED
      BY <2>1, TeamTyped DEF Init, T!TeamInit, TeamCallsSound, T!Slots, Slots
<1>11. ManagingSound(managing, team, invites, crossed)
  <2>1. WorkSound(T!Idle, team, invites, crossed) /\ ~T!OnInvite(T!Idle)
      BY DEF WorkSound, T!Idle, T!OnInvite
  <2> QED
      BY <1>9, <2>1 DEF ManagingSound
<1> QED
    BY <1>7, <1>8, <1>10, <1>11 DEF TeamSound

LEMMA IInvInit == ASSUME Init PROVE IInv
<1>1. page = "away" /\ clicks = 0 /\ others = 0 /\ lost = 0
    BY DEF Init, R!RequestsInit
<1> QED
    BY <1>1, RequestsStart, CompartmentsStart, TeamStart, BoundAssumption DEF IInv

\* A page that another is working on keeps what it has.
LEMMA RequestsUntouched == ASSUME RequestsSound, UNCHANGED requestVars PROVE RequestsSound'
<1>1. UNCHANGED <<R!server, reqs, reqCalls>>
    BY DEF requestVars, R!server
<1> QED
    BY <1>1, RequestPageStep DEF RequestsSound, RequestPageSound

LEMMA CompartmentsUntouched ==
    ASSUME CompartmentsSound, UNCHANGED compartmentVars
    PROVE  CompartmentsSound'
    BY TreePageStep DEF CompartmentsSound, compartmentVars

LEMMA TeamUntouched == ASSUME TeamSound, UNCHANGED teamVars PROVE TeamSound'
<1>1. UNCHANGED <<T!server, desk, teamCalls>>
    BY DEF teamVars, T!server, T!records
<1> QED
    BY <1>1, DeskStep DEF TeamSound, DeskSound

LEMMA Clicked ==
    ASSUME clicks \in 0..MaxClicks, others \in 0..MaxOthers, Click
    PROVE  clicks' \in 0..MaxClicks /\ others' \in 0..MaxOthers
    BY BoundAssumption DEF Click

LEMMA IInvStep == ASSUME IInv, [Next]_vars PROVE IInv'
<1>0. /\ clicks \in 0..MaxClicks /\ others \in 0..MaxOthers /\ lost \in 0..MaxLost
      /\ page \in {"away", "requests", "compartments", "team"}
      /\ RequestsSound /\ CompartmentsSound /\ TeamSound
    BY DEF IInv
<1>1. CASE OpenRequests
  <2>1. PICK s \in Slots : R!OpenRequests(s)
      BY <1>1 DEF OpenRequests, Slots
  <2>2. RequestsSound' /\ CompartmentsSound' /\ TeamSound'
      BY <1>0, <1>1, <2>1, OpenRequestsSound, LeaveCompartmentsSound, LeaveTeamSound DEF OpenRequests
  <2>3. page' = "requests" /\ UNCHANGED lost
      BY <1>1, <2>1 DEF OpenRequests, Visit, R!OpenRequests
  <2> QED
      BY <1>0, <1>1, <2>2, <2>3, Clicked DEF IInv, OpenRequests, Visit
<1>2. CASE OpenCompartments
  <2>1. PICK s \in Slots : C!OpenCompartments(s)
      BY <1>2 DEF OpenCompartments, Slots
  <2>2. RequestsSound' /\ CompartmentsSound' /\ TeamSound'
      BY <1>0, <1>2, <2>1, LeaveRequestsSound, OpenCompartmentsSound, LeaveTeamSound
         DEF OpenCompartments
  <2>3. page' = "compartments" /\ UNCHANGED lost
      BY <1>2, <2>1 DEF OpenCompartments, Visit, C!OpenCompartments
  <2> QED
      BY <1>0, <1>2, <2>2, <2>3, Clicked DEF IInv, OpenCompartments, Visit
<1>3. CASE OpenTeam
  <2>1. PICK s \in Slots : T!OpenTeam(s)
      BY <1>3 DEF OpenTeam, Slots
  <2>2. RequestsSound' /\ CompartmentsSound' /\ TeamSound'
      BY <1>0, <1>3, <2>1, LeaveRequestsSound, LeaveCompartmentsSound, OpenTeamSound DEF OpenTeam
  <2>3. page' = "team" /\ UNCHANGED lost
      BY <1>3, <2>1 DEF OpenTeam, Visit, T!OpenTeam
  <2> QED
      BY <1>0, <1>3, <2>2, <2>3, Clicked DEF IInv, OpenTeam, Visit
<1>4. CASE Others
  <2>1. others' \in 0..MaxOthers /\ UNCHANGED <<page, clicks>>
      BY <1>0, <1>4, BoundAssumption DEF Others
  <2>2. CASE R!Others /\ UNCHANGED <<compartmentVars, teamVars>>
    <3>1. UNCHANGED lost
        BY <2>2 DEF R!Others
    <3> QED
        BY <1>0, <2>1, <2>2, <3>1, OthersSound, CompartmentsUntouched, TeamUntouched DEF IInv
  <2>3. CASE C!OthersManage /\ UNCHANGED <<requestVars, teamVars>>
    <3>1. UNCHANGED lost
        BY <2>3 DEF C!OthersManage
    <3> QED
        BY <1>0, <2>1, <2>3, <3>1, OthersManageSound, RequestsUntouched, TeamUntouched DEF IInv
  <2>4. CASE T!OthersManage /\ UNCHANGED <<requestVars, compartmentVars>>
    <3>1. UNCHANGED lost
        BY <2>4 DEF T!OthersManage
    <3> QED
        BY <1>0, <2>1, <2>4, <3>1, OthersTeamSound, RequestsUntouched, CompartmentsUntouched DEF IInv
  <2> QED
      BY <1>4, <2>2, <2>3, <2>4 DEF Others
<1>5. CASE Requesting
  <2>1. CompartmentsSound' /\ TeamSound' /\ UNCHANGED page
      BY <1>0, <1>5, CompartmentsUntouched, TeamUntouched DEF Requesting
  <2>2. CASE R!RequestAnswers /\ UNCHANGED <<clicks, others>>
      BY <1>0, <2>1, <2>2, RequestAnswersSound, RequestLosses DEF IInv
  <2>3. CASE R!RequestClicks /\ Click
      BY <1>0, <2>1, <2>3, RequestClicksSound, Clicked DEF IInv
  <2> QED
      BY <1>5, <2>2, <2>3 DEF Requesting
<1>6. CASE Managing
  <2>1. RequestsSound' /\ TeamSound' /\ UNCHANGED page
      BY <1>0, <1>6, RequestsUntouched, TeamUntouched DEF Managing
  <2>2. CASE C!CompartmentAnswers /\ UNCHANGED <<clicks, others>>
      BY <1>0, <2>1, <2>2, CompartmentAnswersSound, TreeLosses DEF IInv
  <2>3. CASE C!CompartmentClicks /\ Click
      BY <1>0, <2>1, <2>3, CompartmentClicksSound, Clicked DEF IInv
  <2> QED
      BY <1>6, <2>2, <2>3 DEF Managing
<1>7. CASE Teaming
  <2>1. RequestsSound' /\ CompartmentsSound' /\ UNCHANGED page
      BY <1>0, <1>7, RequestsUntouched, CompartmentsUntouched DEF Teaming
  <2>2. CASE T!TeamAnswers /\ UNCHANGED <<clicks, others>>
      BY <1>0, <2>1, <2>2, TeamAnswersSound, TeamLosses DEF IInv
  <2>3. CASE T!TeamClicks /\ Click
      BY <1>0, <2>1, <2>3, TeamClicksSound, Clicked DEF IInv
  <2> QED
      BY <1>7, <2>2, <2>3 DEF Teaming
<1>8. CASE UNCHANGED vars
  <2>1. UNCHANGED <<page, clicks, others, lost, requestVars, compartmentVars, teamVars>>
      BY <1>8 DEF vars
  <2> QED
      BY <1>0, <2>1, RequestsUntouched, CompartmentsUntouched, TeamUntouched DEF IInv
<1> QED
    BY <1>1, <1>2, <1>3, <1>4, <1>5, <1>6, <1>7, <1>8 DEF Next

LEMMA IInvAlways == Spec => []IInv
<1>1. Init => IInv
    BY IInvInit
<1>2. IInv /\ [Next]_vars => IInv'
    BY IInvStep
<1> QED
    BY <1>1, <1>2, PTL DEF Spec

LEMMA IInvTyped == ASSUME IInv PROVE TypeOK
<1>1. R!RequestsTypeOK
    BY DEF IInv, RequestsSound, RequestPageSound, RequestCallsSound, DecidingSound, R!RequestsTypeOK,
        R!Slots, Slots
<1>2. C!CompartmentsTypeOK
    BY DEF IInv, CompartmentsSound, CompartmentTables, TreeCallsSound, C!CompartmentsTypeOK, C!Slots, Slots
<1>3. T!TeamTypeOK
    BY DEF IInv, TeamSound, TeamTables, ManagingSound, DeskSound, TeamCallsSound, T!TeamTypeOK,
        T!Slots, Slots
<1> QED
    BY <1>1, <1>2, <1>3 DEF IInv, TypeOK

\* Tables, page states and calls of the three pages keep to their values: requests,
\* compartments, members and invitations are never about something that cannot exist.
THEOREM TypeCorrect == Spec => []TypeOK
<1>1. IInv => TypeOK
    BY IInvTyped
<1> QED
    BY <1>1, IInvAlways, PTL

LEMMA IInvTrue == ASSUME IInv PROVE SuccessIsTrue
<1>1. RequestSuccessIsTrue
    BY DEF IInv, RequestsSound, RequestPageSound
<1>2. TeamSuccessIsTrue
    BY DEF IInv, TeamSound, DeskSound, Done, TeamSuccessIsTrue
<1> QED
    BY <1>1, <1>2 DEF SuccessIsTrue

\* Whoever else settles requests, accepts or removes in between, on any number of workers,
\* and however often a call is sent again, what a page reports as done is so, unless two
\* handlers had both read the request, or the invitation, as pending before either
\* committed (approve_request, revoke_invite, handleApprove, handleRemoveMember, ...).
THEOREM ReportsAreTrue == Spec => []SuccessIsTrue
<1>1. IInv => SuccessIsTrue
    BY IInvTrue
<1> QED
    BY <1>1, IInvAlways, PTL

-----------------------------------------------------------------------------
(***************************************************************************)
(* Removals.                                                                *)
(***************************************************************************)

InSelection ==
    \A s \in 1..MaxCalls, m \in DOMAIN rows :
       treeCalls[s].phase = "sent" /\ treeCalls'[s].phase # "sent"
         /\ rows[m].active /\ ~rows'[m].active
       => rows[m].comp = treeCalls[s].comp

\* A row changes when the server does something for a call of this page, and then no
\* other call leaves "sent", or when others do something, and then none does.
LEMMA RemovalStep == ASSUME IInv, [Next]_vars PROVE InSelection
<1>0. CompartmentsSound
    BY DEF IInv
<1>1. CASE UNCHANGED rows
    BY <1>1 DEF InSelection
<1>2. CASE UNCHANGED treeCalls
    BY <1>2 DEF InSelection
<1>3. CASE C!CompartmentAnswers
  <2>1. PICK s \in Slots :
          \/ C!Read(s) \/ C!MembersArrive(s) \/ C!CompartmentsArrive(s) \/ C!QueryFails(s)
          \/ C!Serve(s) \/ C!Lost(s) \/ C!Succeeds(s) \/ C!Fails(s)
      BY <1>3 DEF C!CompartmentAnswers, C!Slots, Slots
  <2>2. CASE C!Serve(s)
    <3>1. /\ \E phase \in {"ok", "refused"} : treeCalls' = [treeCalls EXCEPT ![s].phase = phase]
          /\ \A n \in DOMAIN rows :
                rows[n].active /\ ~rows'[n].active => rows[n].comp = treeCalls[s].comp
        BY <1>0, <2>2, ServedCompartments
    <3>2. \A t \in Slots : t # s => treeCalls'[t] = treeCalls[t]
        BY <3>1 DEF CompartmentsSound, TreeCallsSound
    <3> QED
        BY <3>1, <3>2 DEF InSelection, Slots
  <2>3. CASE \/ C!Read(s) \/ C!MembersArrive(s) \/ C!CompartmentsArrive(s) \/ C!QueryFails(s)
             \/ C!Lost(s) \/ C!Succeeds(s) \/ C!Fails(s)
    <3>1. UNCHANGED rows
        BY <2>3 DEF C!Read, C!MembersArrive, C!CompartmentsArrive, C!QueryFails, C!Lost, C!Succeeds,
            C!Fails, C!server
    <3> QED
        BY <1>1, <3>1
  <2> QED
      BY <2>1, <2>2, <2>3
<1>4. UNCHANGED rows \/ UNCHANGED treeCalls \/ C!CompartmentAnswers
  <2>1. CASE OpenRequests \/ OpenTeam
      BY <2>1 DEF OpenRequests, OpenTeam, C!LeaveCompartments, C!server
  <2>2. CASE OpenCompartments
      BY <2>2 DEF OpenCompartments, C!OpenCompartments, C!server
  <2>3. CASE Others
      BY <2>3 DEF Others, C!OthersManage, compartmentVars
  <2>4. CASE Requesting \/ Teaming
      BY <2>4 DEF Requesting, Teaming, compartmentVars
  <2>5. CASE Managing
      BY <1>0, <2>5, CompartmentClicksSound DEF Managing
  <2>6. CASE UNCHANGED vars
      BY <2>6 DEF vars, compartmentVars
  <2> QED
      BY <2>1, <2>2, <2>3, <2>4, <2>5, <2>6 DEF Next
<1> QED
    BY <1>1, <1>2, <1>3, <1>4

\* Although the members on display may be those of a compartment selected before, a removal
\* ends a membership of the compartment selected at the click (remove_member of
\* routes/compartments.py looks the row up in it).
THEOREM RemovalsKeepToSelection == Spec => RemovalStaysInSelection
<1>1. IInv /\ [Next]_vars => [InSelection]_vars
    BY RemovalStep
<1> QED
    BY <1>1, IInvAlways, PTL DEF Spec, RemovalStaysInSelection, InSelection
=============================================================================
