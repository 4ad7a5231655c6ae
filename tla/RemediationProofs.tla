--------------------------- MODULE RemediationProofs ---------------------------
(***************************************************************************)
(* Theorems about Remediation, for any issues and rules and any bounds on  *)
(* executions, jobs, losses and clicks: both desks keep to their values,   *)
(* what the jobs of the issues page count as done the server did, and      *)
(* nothing is made that was not asked for or sent again after a loss.      *)
(***************************************************************************)
EXTENDS Remediation, FiniteSetTheorems, TLAPS

--------------------------------------------------------------------------------
(***************************************************************************)
(* The inductive invariant.                                                *)
(***************************************************************************)

\* A job is about an issue; what it counted, and what it was just told, is resolved.
JobSound(job, rows) ==
    /\ job \in I!JobSet
    /\ job.phase # "free" => job.at \in Issues /\ job.request # "none"
    /\ job.at \notin job.todo
    /\ job.request # "unresolve" => \A i \in job.good : rows[i].status # "open"
    /\ job.request # "unresolve" /\ job.phase = "ok" => rows[job.at].status # "open"

JobsSound(js, rows) == js \in [I!Slots -> I!JobSet] /\ \A s \in I!Slots : JobSound(js[s], rows)

Inv ==
    /\ issues \in I!IssueSet
    /\ E!IsTable(runs)
    /\ desk \in I!DeskSet
    /\ JobsSound(jobs, issues)

\* No request and no run makes an issue open that is not.
Later(rows, new) == \A i \in Issues : rows[i].status # "open" => new[i].status # "open"

--------------------------------------------------------------------------------
(***************************************************************************)
(* Lemmas about the handlers.                                              *)
(***************************************************************************)

LEMMA NoIssueApart == I!NoIssue \notin Issues
    BY IssueAssumption DEF I!NoIssue

LEMMA NewDeskSound == I!NewDesk \in I!DeskSet
    BY IssueAssumption DEF I!NewDesk, I!DeskSet, I!MaybeIssue

LEMMA NoJobSound == ASSUME NEW rows PROVE JobSound(I!NoJob, rows)
    BY DEF JobSound, I!NoJob, I!JobSet, I!MaybeIssue

LEMMA EffectSound ==
    ASSUME issues \in I!IssueSet, NEW request \in {"fix", "resolve", "unresolve"}, NEW i \in Issues,
           I!Effect(request, i)
    PROVE  /\ issues' \in I!IssueSet
           /\ Later(issues, issues')
           /\ request # "unresolve" => issues'[i].status # "open"
<1>1. CASE request # "unresolve"
  <2>1. issues' = [issues EXCEPT ![i].status = "resolved"]
    BY <1>1 DEF I!Effect, I!create_fix, I!resolve_issue
  <2> QED
    BY <2>1 DEF I!IssueSet, Later, I!Statuses
<1>2. CASE request = "unresolve"
  <2>1. issues' = [issues EXCEPT ![i].status = IF @ = "resolved" THEN "reopened" ELSE @]
    BY <1>2 DEF I!Effect, I!unresolve_issue
  <2> QED
    BY <1>2, <2>1 DEF I!IssueSet, Later, I!Statuses
<1> QED
    BY <1>1, <1>2

LEMMA JobLater ==
    ASSUME NEW job, NEW rows, NEW new, JobSound(job, rows), Later(rows, new)
    PROVE  JobSound(job, new)
    BY DEF JobSound, Later, I!JobSet

LEMMA JobsLater ==
    ASSUME NEW rows, NEW new, JobsSound(jobs, rows), Later(rows, new)
    PROVE  JobsSound(jobs, new)
    BY JobLater DEF JobsSound

\* One job takes a step.
LEMMA OneJob ==
    ASSUME NEW rows, JobsSound(jobs, rows), NEW s \in I!Slots, NEW job, JobSound(job, rows)
    PROVE  JobsSound([jobs EXCEPT ![s] = job], rows)
<1>1. job \in I!JobSet
    BY DEF JobSound
<1> QED
    BY <1>1 DEF JobsSound

LEMMA RefreshedSound ==
    ASSUME JobsSound(jobs, issues)
    PROVE  /\ JobsSound(I!Refreshed, issues)
           /\ JobsSound([s \in I!Slots |-> [I!Refreshed[s] EXCEPT !.live = FALSE]], issues)
<1>1. ASSUME NEW s \in I!Slots
      PROVE  JobSound(I!Refreshed[s], issues) /\ JobSound([I!Refreshed[s] EXCEPT !.live = FALSE], issues)
  <2>1. JobSound(jobs[s], issues)
    BY DEF JobsSound
  <2>2. I!Refreshed[s] = IF jobs[s].phase = "refresh" THEN [jobs[s] EXCEPT !.phase = "refreshed"]
                         ELSE jobs[s]
    BY DEF I!Refreshed
  <2>3. JobSound(I!Refreshed[s], issues)
    <3>1. CASE jobs[s].phase = "refresh"
      <4>1. I!Refreshed[s] = [jobs[s] EXCEPT !.phase = "refreshed"]
        BY <2>2, <3>1
      <4> QED
        BY <2>1, <3>1, <4>1 DEF JobSound, I!JobSet
    <3>2. CASE jobs[s].phase # "refresh"
      BY <2>1, <2>2, <3>2
    <3> QED
      BY <3>1, <3>2
  <2> DEFINE job == I!Refreshed[s]
  <2> HIDE DEF job
  <2>4. JobSound(job, issues)
    BY <2>3 DEF job
  <2>5. JobSound([job EXCEPT !.live = FALSE], issues)
    BY <2>4 DEF JobSound, I!JobSet
  <2> QED
    BY <2>3, <2>5 DEF job
<1>2. I!Refreshed = [s \in I!Slots |-> I!Refreshed[s]]
    BY DEF I!Refreshed
<1>3. \A s \in I!Slots : I!Refreshed[s] \in I!JobSet /\ [I!Refreshed[s] EXCEPT !.live = FALSE] \in I!JobSet
    BY <1>1 DEF JobSound
<1>4. I!Refreshed \in [I!Slots -> I!JobSet]
    BY <1>2, <1>3
<1> QED
    BY <1>1, <1>3, <1>4 DEF JobsSound

\* What an answer adds to the count is what the server did.
LEMMA AnsweredSound ==
    ASSUME NEW job, JobSound(job, issues), job.phase \in {"ok", "failed"}
    PROVE  /\ JobSound(I!Answered(job), issues)
           /\ I!Answered(job).phase = job.phase /\ I!Answered(job).todo = job.todo
           /\ I!Answered(job).request = job.request
<1>1. CASE job.phase = "ok"
  <2>1. I!Answered(job) = [job EXCEPT !.good = @ \cup {job.at}]
    BY <1>1 DEF I!Answered
  <2>2. job \in I!JobSet /\ job.at \in Issues /\ job.request # "none"
    BY <1>1 DEF JobSound
  <2>3. I!Answered(job) \in I!JobSet
    <3> DEFINE more == job.good \cup {job.at}
    <3>1. more \in SUBSET Issues
      BY <2>2 DEF I!JobSet
    <3>2. I!Answered(job) = [job EXCEPT !.good = more]
      BY <2>1
    <3> HIDE DEF more
    <3> QED
      BY <2>2, <3>1, <3>2 DEF I!JobSet
  <2>4. /\ I!Answered(job).good = job.good \cup {job.at} /\ I!Answered(job).at = job.at
        /\ I!Answered(job).phase = job.phase /\ I!Answered(job).todo = job.todo
        /\ I!Answered(job).request = job.request
    BY <2>1, <2>2 DEF I!JobSet
  <2> QED
    BY <1>1, <2>2, <2>3, <2>4 DEF JobSound
<1>2. CASE job.phase = "failed"
    BY <1>2 DEF I!Answered
<1> QED
    BY <1>1, <1>2

LEMMA StartSound ==
    ASSUME Inv, NEW s \in I!Slots, NEW op \in {"one", "unresolve", "bulk fix", "bulk"},
           NEW request \in {"fix", "resolve", "unresolve"}, NEW S \in SUBSET Issues,
           I!Start(s, op, request, S)
    PROVE  JobsSound(jobs', issues') /\ issues' = issues
<1>1. PICK i \in S : jobs' = [jobs EXCEPT ![s] =
          [I!NoJob EXCEPT !.op = op, !.request = request, !.todo = S \ {i}, !.at = i,
                          !.phase = "sent", !.live = TRUE, !.viewed = (desk.selectedIssueId = i)]]
    BY DEF I!Start
<1>2. JobSound([I!NoJob EXCEPT !.op = op, !.request = request, !.todo = S \ {i}, !.at = i,
                               !.phase = "sent", !.live = TRUE, !.viewed = (desk.selectedIssueId = i)], issues)
    BY DEF JobSound, I!NoJob, I!JobSet, I!MaybeIssue
<1>3. issues' = issues
    BY DEF I!Start
<1> QED
    BY <1>1, <1>2, <1>3, OneJob DEF Inv

LEMMA InvUnchanged ==
    ASSUME Inv, UNCHANGED <<issues, runs, desk, jobs>> PROVE Inv'
    BY DEF Inv, JobsSound, JobSound

\* A step of the issues page that leaves the table and the runs alone.
LEMMA DeskStep ==
    ASSUME Inv, UNCHANGED <<issues, runs>>, desk' \in I!DeskSet, JobsSound(jobs', issues')
    PROVE  Inv'
    BY DEF Inv, JobsSound, JobSound

LEMMA DeskAlone ==
    ASSUME Inv, UNCHANGED <<issues, runs, jobs>>, desk' \in I!DeskSet PROVE Inv'
    BY DEF Inv, JobsSound, JobSound

LEMMA IssueAnswersStep == ASSUME Inv, I!IssueAnswers, UNCHANGED runs PROVE Inv'
<1>a. /\ issues \in I!IssueSet /\ desk \in I!DeskSet /\ JobsSound(jobs, issues)
      /\ \A s \in I!Slots : JobSound(jobs[s], issues) /\ jobs[s] \in I!JobSet
    BY DEF Inv, JobsSound, JobSound
<1>1. CASE I!FetchRead
    BY <1>1, InvUnchanged DEF I!FetchRead
<1>2. CASE I!FetchArrives \/ I!FetchFails
    BY <1>a, <1>2, RefreshedSound, DeskStep DEF I!FetchArrives, I!FetchFails
<1>3. ASSUME NEW s \in I!Slots, I!Serve(s) PROVE Inv'
  <2> DEFINE request == jobs[s].request
             i == jobs[s].at
             job == [jobs[s] EXCEPT !.phase = "ok"]
  <2>1. i \in Issues /\ request \in {"fix", "resolve", "unresolve"}
    BY <1>a, <1>3 DEF I!Serve, JobSound, I!JobSet
  <2>2. /\ issues' \in I!IssueSet /\ Later(issues, issues')
        /\ request # "unresolve" => issues'[i].status # "open"
    BY <1>a, <1>3, <2>1, EffectSound DEF I!Serve
  <2>3. JobsSound(jobs, issues') /\ JobSound(jobs[s], issues')
    BY <1>a, <2>2, JobsLater, JobLater
  <2>4. jobs' = [jobs EXCEPT ![s] = job]
    BY <1>3 DEF I!Serve
  <2>5. jobs[s] \in I!JobSet
    BY <1>a
  <2>6. /\ job \in I!JobSet /\ job.at = i /\ job.request = request /\ job.good = jobs[s].good
    BY <2>5 DEF I!JobSet
  <2>7. JobSound(job, issues')
    BY <2>1, <2>2, <2>3, <2>6 DEF JobSound
  <2>8. JobsSound(jobs', issues')
    BY <2>3, <2>4, <2>7, OneJob
  <2> QED
    BY <1>a, <1>3, <2>2, <2>8 DEF I!Serve, Inv
<1>4. ASSUME NEW s \in I!Slots, I!Lost(s) PROVE Inv'
  <2>1. PICK phase \in {"sent", "failed"} : jobs' = [jobs EXCEPT ![s] = [jobs[s] EXCEPT !.phase = phase]]
    BY <1>4 DEF I!Lost
  <2>2. JobSound([jobs[s] EXCEPT !.phase = phase], issues)
    BY <1>a, <1>4 DEF I!Lost, JobSound, I!JobSet
  <2>3. JobsSound(jobs', issues) /\ UNCHANGED <<issues, desk>>
    BY <1>a, <1>4, <2>1, <2>2, OneJob DEF I!Lost
  <2> QED
    BY <1>a, <2>3, DeskStep
<1>5. ASSUME NEW s \in I!Slots, I!NextIssue(s) PROVE Inv'
  <2> DEFINE job == I!Answered(jobs[s])
  <2>1. PICK i \in jobs[s].todo : jobs' = [jobs EXCEPT ![s] =
            [job EXCEPT !.at = i, !.todo = jobs[s].todo \ {i}, !.phase = "sent"]]
    BY <1>5 DEF I!NextIssue
  <2>2. JobSound(job, issues) /\ job \in I!JobSet /\ jobs[s].todo \subseteq Issues
    BY <1>a, <1>5, AnsweredSound DEF I!NextIssue, JobSound, I!JobSet
  <2>3. job.phase # "free"
    BY <1>a, <1>5, AnsweredSound DEF I!NextIssue
  <2> HIDE DEF job
  <2>4. JobSound([job EXCEPT !.at = i, !.todo = jobs[s].todo \ {i}, !.phase = "sent"], issues)
    BY <2>2, <2>3 DEF JobSound, I!JobSet, I!MaybeIssue
  <2>5. JobsSound(jobs', issues) /\ UNCHANGED <<issues, desk>>
    BY <1>a, <1>5, <2>1, <2>4, OneJob DEF I!NextIssue
  <2> QED
    BY <1>a, <2>5, DeskStep
<1>6. ASSUME NEW s \in I!Slots, I!Refresh(s) PROVE Inv'
  <2> DEFINE job == I!Answered(jobs[s])
  <2>1. PICK phase \in {"refresh", "refreshed"} : jobs' = [jobs EXCEPT ![s] = [job EXCEPT !.phase = phase]]
    BY <1>6 DEF I!Refresh
  <2>2. JobSound(job, issues) /\ job \in I!JobSet /\ job.phase # "free"
    BY <1>a, <1>6, AnsweredSound DEF I!Refresh, JobSound
  <2> HIDE DEF job
  <2>3. JobSound([job EXCEPT !.phase = phase], issues)
    BY <2>2 DEF JobSound, I!JobSet
  <2>4. JobsSound(jobs', issues)
    BY <1>a, <2>1, <2>3, OneJob
  <2>7. UNCHANGED issues
    BY <1>6 DEF I!Refresh
  <2>5. desk' \in {desk, [desk EXCEPT !.selected = {}, !.bulkOpen = FALSE], [desk EXCEPT !.selected = {}]}
    BY <1>6 DEF I!Refresh, I!AfterRequests
  <2>6. desk' \in I!DeskSet
    BY <1>a, <2>5 DEF I!DeskSet
  <2> QED
    BY <2>4, <2>6, <2>7, DeskStep
<1>7. ASSUME NEW s \in I!Slots, I!RefreshEnds(s) PROVE Inv'
  <2> DEFINE closed == IF jobs[s].viewed THEN I!WithoutDetails(desk) ELSE desk
  <2>1. closed \in I!DeskSet
    BY <1>a DEF I!DeskSet, I!WithoutDetails, I!MaybeIssue
  <2>2. desk' \in {desk, [closed EXCEPT !.fixing = I!NoIssue, !.toFix = I!NoIssue],
                   [closed EXCEPT !.unresolving = I!NoIssue], [desk EXCEPT !.bulkOpen = FALSE]}
    BY <1>7 DEF I!RefreshEnds, I!Done
  <2> HIDE DEF closed
  <2>3. desk' \in I!DeskSet
    <3>1. I!NoIssue \in I!MaybeIssue
      BY DEF I!MaybeIssue
    <3>2. [closed EXCEPT !.fixing = I!NoIssue, !.toFix = I!NoIssue] \in I!DeskSet
      BY <2>1, <3>1 DEF I!DeskSet
    <3>3. [closed EXCEPT !.unresolving = I!NoIssue] \in I!DeskSet
      BY <2>1, <3>1 DEF I!DeskSet
    <3>4. [desk EXCEPT !.bulkOpen = FALSE] \in I!DeskSet
      BY <1>a DEF I!DeskSet
    <3> QED
      BY <1>a, <2>2, <3>2, <3>3, <3>4
  <2>4. JobsSound(jobs', issues')
    BY <1>a, <1>7, OneJob, NoJobSound DEF I!RefreshEnds
  <2> QED
    BY <1>7, <2>3, <2>4, DeskStep DEF I!RefreshEnds
<1>8. ASSUME NEW s \in I!Slots, I!Fails(s) PROVE Inv'
  <2>1. desk' \in {desk, [desk EXCEPT !.fixing = I!NoIssue], [desk EXCEPT !.unresolving = I!NoIssue]}
    BY <1>8 DEF I!Fails
  <2>2. desk' \in I!DeskSet
    BY <1>a, <2>1 DEF I!DeskSet, I!MaybeIssue
  <2>3. JobsSound(jobs', issues')
    BY <1>a, <1>8, OneJob, NoJobSound DEF I!Fails
  <2> QED
    BY <1>8, <2>2, <2>3, DeskStep DEF I!Fails
<1> QED
    BY <1>1, <1>2, <1>3, <1>4, <1>5, <1>6, <1>7, <1>8 DEF I!IssueAnswers

\* Of what the page does without asking the server, only the state of the page changes.
LEMMA IssueMovesStep == ASSUME Inv, I!IssueMoves, UNCHANGED runs PROVE Inv'
<1>a. desk \in I!DeskSet
    BY DEF Inv
<1>1. UNCHANGED <<issues, jobs>>
    BY DEF I!IssueMoves, I!Poll, I!DetailArrives, I!CloseDetails, I!CloseFixDialog,
           I!CloseBulkDialog, I!ApplyFixIgnored, I!BulkFixIgnored
<1>2. ASSUME I!Poll PROVE desk' \in I!DeskSet
    BY <1>a, <1>2 DEF I!Poll
<1>3. ASSUME I!DetailArrives PROVE desk' \in I!DeskSet
    BY <1>a, <1>3 DEF I!DetailArrives, I!get_issue, I!DeskSet
<1>4. ASSUME I!CloseDetails PROVE desk' \in I!DeskSet
    BY <1>a, <1>4 DEF I!CloseDetails, I!WithoutDetails, I!DeskSet, I!MaybeIssue
<1>5. ASSUME I!CloseFixDialog \/ I!ApplyFixIgnored PROVE desk' \in I!DeskSet
    BY <1>a, <1>5 DEF I!CloseFixDialog, I!ApplyFixIgnored, I!DeskSet, I!MaybeIssue
<1>6. ASSUME I!CloseBulkDialog \/ I!BulkFixIgnored PROVE desk' \in I!DeskSet
    BY <1>a, <1>6 DEF I!CloseBulkDialog, I!BulkFixIgnored, I!DeskSet
<1>7. desk' \in I!DeskSet
    BY <1>a, <1>2, <1>3, <1>4, <1>5, <1>6 DEF I!IssueMoves, I!Poll
<1> QED
    BY <1>1, <1>7, DeskAlone

LEMMA IssueClicksStep == ASSUME Inv, I!IssueClicks, UNCHANGED runs PROVE Inv'
<1>a. desk \in I!DeskSet /\ desk.selected \subseteq Issues /\ desk.toFix \in I!MaybeIssue
    BY DEF Inv, I!DeskSet
<1>1. CASE I!onBulkFix
    BY <1>a, <1>1, DeskAlone DEF I!onBulkFix, I!DeskSet
<1>2. ASSUME NEW f \in Filters, I!SetStatusFilter(f) PROVE Inv'
    BY <1>a, <1>2, DeskAlone DEF I!SetStatusFilter, I!DeskSet
<1>3. ASSUME NEW i \in Issues, I!onSelectIssue(i) PROVE Inv'
    BY <1>a, <1>3, DeskAlone DEF I!onSelectIssue, I!DeskSet
<1>4. ASSUME NEW i \in Issues, I!handleViewIssue(i) PROVE Inv'
  <2>1. PICK seen0 \in {"unloaded", "open", I!get_issue(i)} :
            desk' = [desk EXCEPT !.selectedIssueId = i, !.showDetails = TRUE, !.detail = seen0]
    BY <1>4 DEF I!handleViewIssue
  <2>2. seen0 \in {"unloaded", "open", "resolved"}
    BY DEF I!get_issue
  <2>3. desk' \in I!DeskSet
    BY <1>a, <2>1, <2>2 DEF I!DeskSet, I!MaybeIssue
  <2> QED
    BY <1>4, <2>3, DeskAlone DEF I!handleViewIssue
<1>5. ASSUME NEW i \in Issues, I!handleOpenFixDialog(i) PROVE Inv'
    BY <1>a, <1>5, DeskAlone DEF I!handleOpenFixDialog, I!WithoutDetails, I!DeskSet, I!MaybeIssue
<1>6. ASSUME NEW S \in I!Shown, I!onSelectAll(S) PROVE Inv'
  <2>1. S \subseteq Issues
    BY DEF I!Shown, I!Listed
  <2> QED
    BY <1>a, <1>6, <2>1, DeskAlone DEF I!onSelectAll, I!DeskSet
<1>7. ASSUME NEW s \in I!Slots, I!handleApplyFix(s) PROVE Inv'
  <2>1. desk.toFix \in Issues
    BY <1>a, <1>7 DEF I!handleApplyFix, I!FixDialog, I!MaybeIssue
  <2>a. PICK request \in {"fix", "resolve"} : I!Start(s, "one", request, {desk.toFix})
    BY <1>7 DEF I!handleApplyFix
  <2>b. {desk.toFix} \in SUBSET Issues
    BY <2>1
  <2>2. JobsSound(jobs', issues') /\ issues' = issues
    BY <2>a, <2>b, StartSound
  <2>3. desk' \in I!DeskSet
    BY <1>a, <1>7 DEF I!handleApplyFix, I!DeskSet
  <2> QED
    BY <2>2, <2>3, DeskStep
<1>8. ASSUME NEW s \in I!Slots, I!handleBulkFix(s) \/ I!handleBulkIgnore(s) \/ I!handleBulkResolve(s)
      PROVE  Inv'
  <2>1. JobsSound(jobs', issues') /\ issues' = issues
    BY <1>a, <1>8, StartSound DEF I!handleBulkFix, I!handleBulkIgnore, I!handleBulkResolve
  <2> QED
    BY <1>a, <1>8, <2>1, DeskStep DEF I!handleBulkFix, I!handleBulkIgnore, I!handleBulkResolve
<1>9. ASSUME NEW s \in I!Slots, NEW i \in Issues, I!handleUnresolveIssue(s, i) PROVE Inv'
  <2>a. I!Start(s, "unresolve", "unresolve", {i})
    BY <1>9 DEF I!handleUnresolveIssue
  <2>b. {i} \in SUBSET Issues
    OBVIOUS
  <2>1. JobsSound(jobs', issues') /\ issues' = issues
    BY <2>a, <2>b, StartSound
  <2>2. desk' \in I!DeskSet
    BY <1>a, <1>9 DEF I!handleUnresolveIssue, I!DeskSet, I!MaybeIssue
  <2> QED
    BY <2>1, <2>2, DeskStep
<1> QED
    BY <1>1, <1>2, <1>3, <1>4, <1>5, <1>6, <1>7, <1>8, <1>9 DEF I!IssueClicks

LEMMA OthersStep == ASSUME Inv, I!OthersResolve, UNCHANGED runs PROVE Inv'
<1>1. PICK i \in Issues, request \in {"resolve", "unresolve"} : I!Effect(request, i)
    BY DEF I!OthersResolve
<1>2. issues' \in I!IssueSet /\ Later(issues, issues')
    BY <1>1, EffectSound DEF Inv
<1>3. JobsSound(jobs, issues') /\ UNCHANGED <<desk, jobs>>
    BY <1>2, JobsLater DEF Inv, I!OthersResolve
<1> QED
    BY <1>2, <1>3 DEF Inv

LEMMA LeaveStep == ASSUME Inv, I!LeaveIssues, UNCHANGED runs PROVE Inv'
<1>1. JobsSound(jobs', issues) /\ issues' = issues
    BY RefreshedSound DEF Inv, I!LeaveIssues
<1> QED
    BY <1>1, DeskStep, NewDeskSound DEF I!LeaveIssues

\* An execution adds to what an issue was found by, and leaves its status.
LEMMA RunsStep ==
    ASSUME Inv, UNCHANGED <<desk, jobs>>, E!IsTable(runs'),
           issues' \in I!IssueSet, Later(issues, issues')
    PROVE  Inv'
<1>1. JobsSound(jobs, issues')
    BY JobsLater DEF Inv
<1> QED
    BY <1>1 DEF Inv

\* An execution that ends, and one that begins.
LEMMA RunEnded ==
    ASSUME E!IsTable(runs), NEW e \in DOMAIN runs, NEW status \in E!RunStatuses
    PROVE  E!IsTable([runs EXCEPT ![e] = status]) /\ Len([runs EXCEPT ![e] = status]) = Len(runs)
<1>1. Len([runs EXCEPT ![e] = status]) = Len(runs) /\ runs \in Seq(E!RunStatuses) /\ Len(runs) <= MaxRuns
    BY DEF E!IsTable
<1>2. [runs EXCEPT ![e] = status] \in Seq(E!RunStatuses)
    BY <1>1
<1> QED
    BY <1>1, <1>2 DEF E!IsTable

LEMMA RunBegun ==
    ASSUME E!IsTable(runs), Len(runs) < MaxRuns
    PROVE  /\ E!IsTable(Append(runs, "running")) /\ Len(Append(runs, "running")) = Len(runs) + 1
           /\ Len(runs) \in Nat /\ Append(runs, "running")[Len(runs) + 1] = "running"
           /\ \A e \in DOMAIN runs : Append(runs, "running")[e] = runs[e]
    BY BoundAssumption DEF E!IsTable, E!RunStatuses

LEMMA RunShown ==
    ASSUME E!IsTable(runs), NEW e \in DOMAIN runs
    PROVE  E!get_execution(e) \in E!RunStatuses
<1>1. runs[e] \in E!RunStatuses
    BY DEF E!IsTable
<1> QED
    BY <1>1 DEF E!get_execution, E!RunStatuses

LEMMA RunsShown == ASSUME E!IsTable(runs) PROVE E!IsTable(E!get_executions)
<1>1. runs \in Seq(E!RunStatuses) /\ Len(runs) <= MaxRuns /\ DOMAIN runs = 1..Len(runs) /\ Len(runs) \in Nat
    BY DEF E!IsTable
<1> DEFINE shown == [e \in 1..Len(runs) |-> E!get_execution(e)]
<1>2. E!get_executions = shown
    BY <1>1 DEF E!get_executions
<1>3. \A e \in 1..Len(runs) : E!get_execution(e) \in E!RunStatuses
    BY <1>1, RunShown
<1>4. shown \in Seq(E!RunStatuses) /\ Len(shown) = Len(runs)
    BY <1>1, <1>3
<1> QED
    BY <1>1, <1>2, <1>4 DEF E!IsTable

LEMMA RunNumber == ASSUME E!IsTable(runs), NEW e \in DOMAIN runs PROVE e \in 1..MaxRuns /\ e \in 1..Len(runs)
<1>1. runs \in Seq(E!RunStatuses) /\ Len(runs) <= MaxRuns /\ Len(runs) \in Nat
    BY DEF E!IsTable
<1>2. DOMAIN runs = 1..Len(runs)
    BY <1>1
<1> QED
    BY <1>1, <1>2, BoundAssumption

LEMMA ExecutionAnswersStep == ASSUME Inv, E!ExecutionAnswers, UNCHANGED <<desk, jobs>> PROVE Inv'
<1>a. issues \in I!IssueSet /\ E!IsTable(runs)
    BY DEF Inv
<1>b. Later(issues, issues)
    BY DEF Later
<1>1. CASE E!TableRead \/ E!TableArrives \/ E!TableFails \/ E!LoadExecution \/ E!LoadIssues
    BY <1>1, InvUnchanged DEF E!TableRead, E!TableArrives, E!TableFails, E!LoadExecution, E!LoadIssues
<1>2. ASSUME NEW e \in DOMAIN runs, E!EndRun(e) PROVE Inv'
  <2>1. PICK status \in E!RunStatuses,
             new \in SUBSET {i \in Issues : issues[i].found = 0} :
          /\ runs' = [runs EXCEPT ![e] = status]
          /\ issues' = [i \in Issues |-> IF i \in new THEN [issues[i] EXCEPT !.found = e] ELSE issues[i]]
    BY <1>2 DEF E!EndRun
  <2>2. e \in 0..MaxRuns
    BY <1>a, RunNumber, BoundAssumption
  <2>3. \A i \in Issues : /\ issues'[i] \in [found : 0..MaxRuns, status : I!Statuses]
                          /\ issues'[i].status = issues[i].status
    BY <1>a, <2>1, <2>2 DEF I!IssueSet
  <2>4. issues' \in I!IssueSet /\ Later(issues, issues')
    BY <2>1, <2>3 DEF I!IssueSet, Later
  <2>5. E!IsTable(runs')
    BY <1>a, <2>1, RunEnded
  <2> QED
    BY <2>4, <2>5, RunsStep
<1>3. ASSUME NEW e \in DOMAIN runs, E!RunRaises(e) PROVE Inv'
  <2>1. runs' = [runs EXCEPT ![e] = "stuck"] /\ issues' = issues
    BY <1>3 DEF E!RunRaises
  <2>2. E!IsTable(runs')
    BY <1>a, <2>1, RunEnded DEF E!RunStatuses
  <2> QED
    BY <1>a, <1>b, <2>1, <2>2, RunsStep
<1>4. ASSUME NEW e \in DOMAIN runs, E!CancelRefused(e) PROVE Inv'
    BY <1>4, InvUnchanged DEF E!CancelRefused
<1>5. ASSUME NEW s \in E!PostSlots, E!BeginRun(s) PROVE Inv'
  <2>1. runs' = Append(runs, "running") /\ issues' = issues /\ Len(runs) < MaxRuns
    BY <1>5 DEF E!BeginRun
  <2>2. E!IsTable(runs')
    BY <1>a, <2>1, RunBegun
  <2> QED
    BY <1>a, <1>b, <2>1, <2>2, RunsStep
<1>6. ASSUME NEW s \in E!PostSlots, E!PostLost(s) \/ E!Refused(s) PROVE Inv'
    BY <1>6, InvUnchanged DEF E!PostLost, E!Refused
<1> QED
    BY <1>1, <1>2, <1>3, <1>4, <1>5, <1>6 DEF E!ExecutionAnswers

LEMMA StepInv == Inv /\ [Next]_vars => Inv'
<1> SUFFICES ASSUME Inv, [Next]_vars PROVE Inv'
    OBVIOUS
<1>1. CASE OpenIssues
  <2>1. UNCHANGED <<issues, runs, jobs>> /\ desk' = I!NewDesk
    BY <1>1 DEF OpenIssues, I!OpenIssues, E!LeaveExecutions
  <2> QED
    BY <2>1, DeskAlone, NewDeskSound
<1>2. ASSUME Leaving, UNCHANGED <<issues, runs>> PROVE Inv'
    BY <1>2, LeaveStep, InvUnchanged DEF Leaving, deskVars
<1>3. CASE OpenExecutions
    BY <1>2, <1>3 DEF OpenExecutions, E!OpenExecutions
<1>4. CASE OpenCreate
    BY <1>4, InvUnchanged DEF OpenCreate, E!OpenCreate, deskVars
<1>5. CASE Working
    BY <1>5, IssueAnswersStep, IssueMovesStep, IssueClicksStep, OthersStep
       DEF Working, executionVars
<1>6. CASE Running
  <2>1. UNCHANGED <<desk, jobs>>
    BY <1>6 DEF Running, deskVars
  <2>2. ASSUME E!ExecutionMoves PROVE Inv'
    BY <2>1, <2>2, InvUnchanged DEF E!ExecutionMoves, E!SelectDataset, E!handleSelectAllRules,
       E!handleRuleToggle, E!handleCancel
  <2>3. ASSUME NEW s \in 1..MaxJobs, E!handleSubmit(s) PROVE Inv'
    BY <2>1, <2>3, InvUnchanged DEF E!handleSubmit
  <2>4. ASSUME NEW e \in DOMAIN runs, E!LinkToExecution(e) PROVE Inv'
    BY <2>1, <2>4, InvUnchanged DEF E!LinkToExecution, E!OpenExecution
  <2> QED
    BY <1>6, <2>1, <2>2, <2>3, <2>4, ExecutionAnswersStep DEF Running
<1>7. CASE Created
    BY <1>2, <1>7 DEF Created, E!Created
<1>8. CASE UNCHANGED vars
    BY <1>8, InvUnchanged DEF vars, deskVars, executionVars
<1> QED
    BY <1>1, <1>3, <1>4, <1>5, <1>6, <1>7, <1>8 DEF Next

LEMMA InitInv == Init => Inv
<1> SUFFICES ASSUME Init PROVE Inv
    OBVIOUS
<1>0. 0 \in 0..MaxRuns /\ 1 \in 0..MaxRuns
    BY BoundAssumption
<1>1. issues \in I!IssueSet /\ desk \in I!DeskSet
  <2>1. PICK e \in 0..MaxRuns : issues = [i \in Issues |-> [found |-> e, status |-> "open"]]
    BY <1>0 DEF Init, I!IssuesInit
  <2>2. issues \in I!IssueSet
    BY <2>1 DEF I!IssueSet, I!Statuses
  <2> QED
    BY <2>2, NewDeskSound DEF Init, I!IssuesInit
<1>2. jobs = [s \in I!Slots |-> I!NoJob]
    BY DEF Init, I!IssuesInit
<1>3. I!NoJob \in I!JobSet
    BY NoJobSound DEF JobSound
<1>4. JobsSound(jobs, issues)
    BY <1>2, <1>3, NoJobSound DEF JobsSound
<1>5. E!IsTable(runs)
    BY BoundAssumption DEF Init, E!ExecutionsInit, E!RunStatuses, E!IsTable
<1> QED
    BY <1>1, <1>4, <1>5 DEF Inv

--------------------------------------------------------------------------------

\* What a job of the issues page counts as fixed or resolved, the server resolved, however
\* jobs, executions, losses and other members' work overlap (issues/page.tsx: successCount).
THEOREM CountedIsResolved == Spec => []SuccessesAreResolved
<1>1. Inv => SuccessesAreResolved
    BY DEF Inv, JobsSound, JobSound, SuccessesAreResolved, I!Slots
<1>2. Spec => []Inv
    BY InitInv, StepInv, PTL DEF Spec
<1> QED
    BY <1>1, <1>2, PTL
--------------------------------------------------------------------------------
(***************************************************************************)
(* The values of both desks.                                               *)
(***************************************************************************)

Lists ==
    /\ fixes \in Nat /\ asked \in Nat /\ lost \in 0..MaxLost
    /\ I!ListType(list)

\* A request that runs or was answered has an execution, and no two wait for the same.
PostsSound(ps, n) ==
    /\ ps \in [E!PostSlots -> E!PostSet]
    /\ \A s \in E!PostSlots : ps[s].phase \in {"running", "ok"} => ps[s].run \in 1..n
    /\ \A s, t \in E!PostSlots :
           ps[s].phase = "running" /\ ps[t].phase = "running" /\ ps[s].run = ps[t].run => s = t

Pages ==
    /\ submits \in Nat
    /\ form \in [dataset : BOOLEAN, rules : SUBSET Rules]
    /\ PostsSound(posts, Len(runs))
    /\ E!TableType(table)
    /\ viewed \in 0..Len(runs)
    /\ seen \in [1..MaxRuns -> E!SeenSet]
    /\ reading \subseteq E!Queries
    /\ cancelling \subseteq DOMAIN runs

LEMMA OneLost == ASSUME lost \in 0..MaxLost, lost < MaxLost, lost' = lost + 1
                 PROVE  lost' \in 0..MaxLost /\ lost' = lost + 1 /\ lost \in Nat
    BY BoundAssumption

LEMMA SizeOfSelection == ASSUME NEW S \in SUBSET Issues PROVE IsFiniteSet(S) /\ Cardinality(S) \in Nat
    BY IssueAssumption, FS_Subset, FS_CardinalityType

LEMMA FetchType == ASSUME I!ListType(list) PROVE I!ListType(I!Fetch(list))
<1>1. I!Fetch(list) = [list EXCEPT !.fetch = I!Fetch(list).fetch]
    BY DEF I!ListType, I!Fetch
<1>2. I!Fetch(list).fetch \in {list.fetch, I!Asked}
    BY DEF I!ListType, I!Fetch
<1> QED
    BY <1>1, <1>2 DEF I!ListType

LEMMA NewListType == /\ I!ListType(I!NewList) /\ I!ListType([data |-> I!Unloaded, fetch |-> I!Idle])
    BY DEF I!ListType, I!NewList

LEMMA ReadType == ASSUME NEW f PROVE I!IsSnapshot(I!get_issues(f))
<1> DEFINE J == {j \in Issues : /\ issues[j].found > 0
                                /\ f = "open" => ~I!Resolved(j)
                                /\ f = "resolved" => I!Resolved(j)}
<1>1. I!get_issues(f) = [i \in J |-> I!Resolved(i)]
    BY DEF I!get_issues
<1>2. J \subseteq Issues /\ \A i \in J : I!Resolved(i) \in BOOLEAN
    BY DEF I!Resolved
<1> HIDE DEF J
<1>3. [i \in J |-> I!Resolved(i)] \in [J -> BOOLEAN]
    BY <1>2
<1> QED
    BY <1>1, <1>2, <1>3 DEF I!IsSnapshot

LEMMA ListsKept == ASSUME Lists, UNCHANGED <<fixes, asked, list, lost>> PROVE Lists'
    BY DEF Lists

LEMMA SameCardinality == ASSUME NEW S PROVE I!Cardinality(S) = Cardinality(S)
    BY Zenon DEF I!Cardinality, Cardinality

LEMMA StartLists ==
    ASSUME Lists, NEW s, NEW op, NEW request, NEW S \in SUBSET Issues, I!Start(s, op, request, S)
    PROVE  Lists'
<1>1. UNCHANGED <<fixes, list, lost>> /\ asked' = asked + (IF request = "fix" THEN Cardinality(S) ELSE 0)
    BY SameCardinality DEF I!Start
<1>2. asked' \in Nat
    BY <1>1, SizeOfSelection DEF Lists
<1> QED
    BY <1>1, <1>2 DEF Lists

LEMMA IssueAnswersLists == ASSUME Inv, Lists, I!IssueAnswers PROVE Lists'
<1>a. fixes \in Nat /\ asked \in Nat /\ lost \in 0..MaxLost /\ I!ListType(list)
    BY DEF Lists
<1>1. CASE I!FetchRead
  <2>1. list' = [list EXCEPT !.fetch = I!get_issues(desk.filter)] /\ UNCHANGED <<fixes, asked, lost>>
    BY <1>1 DEF I!FetchRead
  <2>2. I!ListType(list')
    BY <1>a, <2>1, ReadType DEF I!ListType
  <2> QED
    BY <2>1, <2>2, <1>a DEF Lists
<1>2. CASE I!FetchArrives
  <2>1. list' = [data |-> list.fetch, fetch |-> I!Idle] /\ UNCHANGED <<fixes, asked, lost>>
        /\ list.fetch \notin {I!Idle, I!Asked}
    BY <1>2 DEF I!FetchArrives
  <2>2. I!ListType(list')
    BY <1>a, <2>1 DEF I!ListType
  <2> QED
    BY <2>1, <2>2, <1>a DEF Lists
<1>3. CASE I!FetchFails
  <2>1. /\ list' = [list EXCEPT !.fetch = I!Idle] /\ UNCHANGED <<fixes, asked>>
        /\ lost < MaxLost /\ lost' = lost + 1
    BY <1>3 DEF I!FetchFails
  <2>2. I!ListType(list')
    BY <1>a, <2>1 DEF I!ListType
  <2> QED
    BY <2>1, <2>2, <1>a, OneLost DEF Lists
<1>4. ASSUME NEW s \in I!Slots, I!Serve(s) PROVE Lists'
  <2>0. jobs[s].request \in {"fix", "resolve", "unresolve"}
    BY <1>4 DEF I!Serve, Inv, JobsSound, JobSound, I!JobSet
  <2>1. fixes' \in {fixes, fixes + 1}
    BY <1>4, <2>0 DEF I!Serve, I!Effect, I!create_fix, I!resolve_issue, I!unresolve_issue
  <2> QED
    BY <1>4, <1>a, <2>1 DEF I!Serve, Lists
<1>5. ASSUME NEW s \in I!Slots, I!Lost(s) PROVE Lists'
  <2>1. UNCHANGED <<fixes, asked, list>> /\ lost < MaxLost /\ lost' = lost + 1
    BY <1>5 DEF I!Lost
  <2> QED
    BY <2>1, <1>a, OneLost DEF Lists
<1>6. ASSUME NEW s \in I!Slots, I!NextIssue(s) \/ I!RefreshEnds(s) \/ I!Fails(s) PROVE Lists'
    BY <1>6, ListsKept DEF I!NextIssue, I!RefreshEnds, I!Fails
<1>7. ASSUME NEW s \in I!Slots, I!Refresh(s) PROVE Lists'
  <2>1. list' \in {I!Fetch(list), list} /\ UNCHANGED <<fixes, asked, lost>>
    BY <1>7 DEF I!Refresh
  <2> QED
    BY <2>1, <1>a, FetchType DEF Lists
<1> QED
    BY <1>1, <1>2, <1>3, <1>4, <1>5, <1>6, <1>7 DEF I!IssueAnswers

LEMMA IssueMovesLists == ASSUME Lists, I!IssueMoves PROVE Lists'
<1>1. CASE I!Poll
    BY <1>1, FetchType DEF I!Poll, Lists
<1>2. CASE ~I!Poll
    BY <1>2, ListsKept DEF I!IssueMoves, I!DetailArrives, I!CloseDetails, I!CloseFixDialog,
       I!CloseBulkDialog, I!ApplyFixIgnored, I!BulkFixIgnored
<1> QED
    BY <1>1, <1>2

LEMMA IssueClicksLists == ASSUME Inv, Lists, I!IssueClicks PROVE Lists'
<1>a. desk.selected \in SUBSET Issues /\ desk.toFix \in I!MaybeIssue
    BY DEF Inv, I!DeskSet
<1>1. CASE I!onBulkFix
    BY <1>1, ListsKept DEF I!onBulkFix
<1>2. ASSUME NEW f \in Filters, I!SetStatusFilter(f) PROVE Lists'
    BY <1>2, NewListType DEF I!SetStatusFilter, Lists
<1>3. ASSUME NEW i \in Issues, I!onSelectIssue(i) \/ I!handleViewIssue(i) \/ I!handleOpenFixDialog(i)
      PROVE  Lists'
    BY <1>3, ListsKept DEF I!onSelectIssue, I!handleViewIssue, I!handleOpenFixDialog
<1>4. ASSUME NEW S \in I!Shown, I!onSelectAll(S) PROVE Lists'
    BY <1>4, ListsKept DEF I!onSelectAll
<1>5. ASSUME NEW s \in I!Slots, I!handleApplyFix(s) PROVE Lists'
  <2>1. {desk.toFix} \in SUBSET Issues
    BY <1>a, <1>5 DEF I!handleApplyFix, I!FixDialog, I!MaybeIssue
  <2> QED
    BY <1>5, <2>1, StartLists DEF I!handleApplyFix
<1>6. ASSUME NEW s \in I!Slots, I!handleBulkFix(s) \/ I!handleBulkIgnore(s) \/ I!handleBulkResolve(s)
      PROVE  Lists'
    BY <1>6, <1>a, StartLists DEF I!handleBulkFix, I!handleBulkIgnore, I!handleBulkResolve
<1>7. ASSUME NEW s \in I!Slots, NEW i \in Issues, I!handleUnresolveIssue(s, i) PROVE Lists'
  <2>1. {i} \in SUBSET Issues
    OBVIOUS
  <2> QED
    BY <1>7, <2>1, StartLists DEF I!handleUnresolveIssue
<1> QED
    BY <1>1, <1>2, <1>3, <1>4, <1>5, <1>6, <1>7 DEF I!IssueClicks

LEMMA OthersLists == ASSUME Lists, I!OthersResolve PROVE Lists'
<1>1. UNCHANGED <<fixes, asked, list, lost>>
    BY DEF I!OthersResolve, I!Effect, I!resolve_issue, I!unresolve_issue
<1> QED
    BY <1>1, ListsKept

\* Frame: what the pages of the executions hold.
LEMMA PagesKept == ASSUME Pages, UNCHANGED executionVars PROVE Pages'
    BY DEF Pages, executionVars

LEMMA PostLeft ==
    ASSUME PostsSound(posts, Len(runs)), E!LeaveCreate PROVE PostsSound(posts', Len(runs))
<1>1. \A s \in E!PostSlots : /\ posts'[s] \in E!PostSet
                             /\ posts'[s].phase = posts[s].phase /\ posts'[s].run = posts[s].run
    BY DEF PostsSound, E!LeaveCreate, E!PostSet
<1>2. posts' = [s \in E!PostSlots |-> posts'[s]]
    BY DEF E!LeaveCreate
<1>3. posts' \in [E!PostSlots -> E!PostSet]
    BY <1>1, <1>2
<1> QED
    BY <1>1, <1>3 DEF PostsSound

\* What a post may become, by its own end or by the end of its execution.
LEMMA OnePost ==
    ASSUME NEW n, PostsSound(posts, n), NEW s \in E!PostSlots, NEW post \in E!PostSet,
           post.phase \notin {"running", "ok"}
    PROVE  PostsSound([posts EXCEPT ![s] = post], n)
<1> DEFINE new == [posts EXCEPT ![s] = post]
<1>1. /\ new \in [E!PostSlots -> E!PostSet] /\ new[s] = post
      /\ \A t \in E!PostSlots : t # s => new[t] = posts[t]
    BY DEF PostsSound
<1> HIDE DEF new
<1>2. PostsSound(new, n)
    BY <1>1 DEF PostsSound
<1> QED
    BY <1>2 DEF new

LEMMA RunAnswered ==
    ASSUME NEW n, PostsSound(posts, n), NEW e, NEW phase \in {"sent", "ok", "refused"},
           posts' = [s \in E!PostSlots |-> IF posts[s].phase = "running" /\ posts[s].run = e
                                           THEN [posts[s] EXCEPT !.phase = phase] ELSE posts[s]]
    PROVE  PostsSound(posts', n)
<1>1. \A s \in E!PostSlots :
          /\ posts'[s] \in E!PostSet /\ posts'[s].run = posts[s].run
          /\ posts'[s].phase = posts[s].phase \/ (posts[s].phase = "running" /\ posts'[s].phase = phase)
    BY DEF PostsSound, E!PostSet
<1>2. posts' = [s \in E!PostSlots |-> posts'[s]]
    OBVIOUS
<1>3. posts' \in [E!PostSlots -> E!PostSet]
    BY <1>1, <1>2
<1> QED
    BY <1>1, <1>3 DEF PostsSound

\* The new execution is the last, and no request waits for it yet.
LEMMA PostBegins ==
    ASSUME NEW n \in Nat, n < MaxRuns, PostsSound(posts, n), NEW s \in E!PostSlots
    PROVE  PostsSound([posts EXCEPT ![s] = [posts[s] EXCEPT !.phase = "running", !.run = n + 1]], n + 1)
<1> DEFINE post == [posts[s] EXCEPT !.phase = "running", !.run = n + 1]
           new == [posts EXCEPT ![s] = post]
<1>0. n + 1 \in 0..MaxRuns
    BY BoundAssumption
<1>a. \A r \in 0..MaxRuns : LET p == [posts[s] EXCEPT !.phase = "running", !.run = r]
                             IN  p \in E!PostSet /\ p.phase = "running" /\ p.run = r
    BY DEF PostsSound, E!PostSet
<1>1. post \in E!PostSet /\ post.phase = "running" /\ post.run = n + 1
    BY <1>0, <1>a
<1> HIDE DEF post
<1>2. /\ new \in [E!PostSlots -> E!PostSet] /\ new[s] = post
      /\ \A t \in E!PostSlots : t # s => new[t] = posts[t]
    BY <1>1 DEF PostsSound
<1> HIDE DEF new
<1>3. \A t \in E!PostSlots : new[t].phase \in {"running", "ok"} => new[t].run \in 1..n + 1
    BY <1>1, <1>2 DEF PostsSound
<1>4. \A t \in E!PostSlots : t # s /\ new[t].phase = "running" => new[t].run # n + 1
    BY <1>2 DEF PostsSound
<1>5. PostsSound(new, n + 1)
    BY <1>1, <1>2, <1>3, <1>4 DEF PostsSound
<1> QED
    BY <1>5 DEF new, post

LEMMA PostsLonger ==
    ASSUME NEW ps, NEW n \in Nat, PostsSound(ps, n) PROVE PostsSound(ps, n + 1)
    BY DEF PostsSound

LEMMA NoPostType == E!NoPost \in E!PostSet /\ E!NoPost.phase = "free"
    BY BoundAssumption DEF E!NoPost, E!PostSet

LEMMA SlotPost == ASSUME Pages, NEW s \in E!PostSlots PROVE posts[s] \in E!PostSet
    BY DEF Pages, PostsSound

\* The parts of Pages that a step of the list or of the details can change.
LEMMA QueryStep ==
    ASSUME Pages, UNCHANGED <<runs, submits, form, posts, cancelling>>,
           E!TableType(table'), viewed' \in 0..Len(runs),
           seen' \in [1..MaxRuns -> E!SeenSet], reading' \subseteq E!Queries
    PROVE  Pages'
    BY DEF Pages

\* A step of the runs and of the requests that wait for them.
LEMMA PostStep ==
    ASSUME Pages, UNCHANGED <<submits, form, table, viewed, seen, reading, cancelling>>,
           Len(runs) \in Nat, Len(runs') \in {Len(runs), Len(runs) + 1}, DOMAIN runs \subseteq DOMAIN runs',
           PostsSound(posts', Len(runs'))
    PROVE  Pages'
<1>1. viewed' \in 0..Len(runs') /\ cancelling' \subseteq DOMAIN runs'
    BY DEF Pages
<1> QED
    BY <1>1 DEF Pages

LEMMA ExecutionAnswersPages ==
    ASSUME Inv, Pages, lost \in 0..MaxLost, E!ExecutionAnswers PROVE Pages' /\ lost' \in 0..MaxLost
<1>a. /\ E!TableType(table) /\ viewed \in 0..Len(runs) /\ seen \in [1..MaxRuns -> E!SeenSet]
      /\ reading \subseteq E!Queries /\ PostsSound(posts, Len(runs))
    BY DEF Pages
<1>b. E!IsTable(runs) /\ Len(runs) \in Nat /\ issues \in I!IssueSet /\ DOMAIN runs = 1..Len(runs)
    BY DEF Inv, E!IsTable
<1>1. CASE E!TableRead
  <2>1. table' = [table EXCEPT !.fetch = E!get_executions]
    BY <1>1 DEF E!TableRead
  <2>2. E!TableType(table')
    <3>1. E!IsTable(E!get_executions)
      BY <1>b, RunsShown
    <3> QED
      BY <1>a, <2>1, <3>1 DEF E!TableType
  <2> QED
    BY <1>1, <1>a, <2>2, QueryStep DEF E!TableRead
<1>2. CASE E!TableArrives
  <2>1. table' = [data |-> table.fetch, fetch |-> E!Idle, stale |-> FALSE] /\ table.fetch \notin {E!Idle, E!Asked}
    BY <1>2 DEF E!TableArrives
  <2>2. E!TableType(table')
    BY <1>a, <2>1 DEF E!TableType
  <2> QED
    BY <1>2, <1>a, <2>2, QueryStep DEF E!TableArrives
<1>3. CASE E!TableFails
  <2>1. table' = [table EXCEPT !.fetch = E!Idle]
    BY <1>3 DEF E!TableFails
  <2>2. E!TableType(table')
    BY <1>a, <2>1 DEF E!TableType
  <2>3. lost' \in 0..MaxLost
    BY <1>3, OneLost DEF E!TableFails
  <2> QED
    BY <1>3, <1>a, <2>2, <2>3, QueryStep DEF E!TableFails
<1>4. CASE E!LoadExecution
  <2>1. seen' = [seen EXCEPT ![viewed].execution = E!get_execution(viewed)] /\ reading' \subseteq reading
    BY <1>4 DEF E!LoadExecution
  <2>2. seen' \in [1..MaxRuns -> E!SeenSet]
    <3>1. CASE viewed = 0
      <4>1. viewed \notin 1..MaxRuns
        BY <3>1
      <4> QED
        BY <1>a, <2>1, <4>1
    <3>2. CASE viewed # 0
      <4>1. E!get_execution(viewed) \in E!RunStatuses
        BY <1>a, <1>b, <3>2, RunShown
      <4> QED
        BY <1>a, <2>1, <4>1 DEF E!SeenSet
    <3> QED
      BY <3>1, <3>2
  <2> QED
    BY <1>4, <1>a, <2>1, <2>2, QueryStep DEF E!LoadExecution
<1>5. CASE E!LoadIssues
  <2>1. seen' = [seen EXCEPT ![viewed].issues = E!get_execution_issues(viewed)] /\ reading' \subseteq reading
    BY <1>5 DEF E!LoadIssues
  <2>2. E!get_execution_issues(viewed) \in SUBSET Issues
    BY DEF E!get_execution_issues
  <2>3. seen' \in [1..MaxRuns -> E!SeenSet]
    BY <1>a, <2>1, <2>2 DEF E!SeenSet
  <2> QED
    BY <1>5, <1>a, <2>1, <2>3, QueryStep DEF E!LoadIssues
<1>6. ASSUME NEW e \in DOMAIN runs, E!EndRun(e) PROVE Pages' /\ lost' \in 0..MaxLost
  <2>1. PICK status \in E!RunStatuses : runs' = [runs EXCEPT ![e] = status]
    BY <1>6 DEF E!EndRun
  <2>2. Len(runs') = Len(runs) /\ DOMAIN runs' = DOMAIN runs
    BY <1>b, <2>1, RunEnded
  <2>3. posts' = [s \in E!PostSlots |-> IF posts[s].phase = "running" /\ posts[s].run = e
                                        THEN [posts[s] EXCEPT !.phase = "ok"] ELSE posts[s]]
    BY <1>6 DEF E!EndRun
  <2>4. PostsSound(posts', Len(runs))
    BY <1>a, <2>3, RunAnswered
  <2> QED
    BY <1>6, <1>b, <2>2, <2>4, PostStep DEF E!EndRun, E!queryVars
<1>7. ASSUME NEW e \in DOMAIN runs, E!RunRaises(e) PROVE Pages' /\ lost' \in 0..MaxLost
  <2>1. runs' = [runs EXCEPT ![e] = "stuck"] /\ "stuck" \in E!RunStatuses
    BY <1>7 DEF E!RunRaises, E!RunStatuses
  <2>2. Len(runs') = Len(runs) /\ DOMAIN runs' = DOMAIN runs
    BY <1>b, <2>1, RunEnded
  <2>3. PICK phase \in {"sent", "refused"} :
            posts' = [s \in E!PostSlots |-> IF posts[s].phase = "running" /\ posts[s].run = e
                                            THEN [posts[s] EXCEPT !.phase = phase] ELSE posts[s]]
    BY <1>7 DEF E!RunRaises
  <2>4. PostsSound(posts', Len(runs))
    BY <1>a, <2>3, RunAnswered
  <2>5. lost' \in 0..MaxLost
    BY <1>7, OneLost DEF E!RunRaises
  <2> QED
    BY <1>7, <1>b, <2>2, <2>4, <2>5, PostStep DEF E!RunRaises, E!queryVars
<1>8. ASSUME NEW e \in DOMAIN runs, E!CancelRefused(e) PROVE Pages' /\ lost' \in 0..MaxLost
    BY <1>8 DEF E!CancelRefused, E!queryVars, Pages
<1>9. ASSUME NEW s \in E!PostSlots, E!BeginRun(s) PROVE Pages' /\ lost' \in 0..MaxLost
  <2>1. /\ Len(runs) < MaxRuns /\ runs' = Append(runs, "running")
        /\ posts' = [posts EXCEPT ![s] = [posts[s] EXCEPT !.phase = "running", !.run = Len(runs) + 1]]
    BY <1>9 DEF E!BeginRun
  <2>2. Len(runs') = Len(runs) + 1
    BY <1>b, <2>1, RunBegun
  <2>3. DOMAIN runs' = 1..Len(runs) + 1
    BY <1>b, <2>1, <2>2, RunBegun DEF E!IsTable
  <2>4. PostsSound(posts', Len(runs'))
    BY <1>a, <1>b, <2>1, <2>2, PostBegins
  <2>5. DOMAIN runs \subseteq DOMAIN runs'
    BY <1>b, <2>3
  <2> QED
    BY <1>9, <1>b, <2>2, <2>4, <2>5, PostStep DEF E!BeginRun, E!queryVars
<1>10. ASSUME NEW s \in E!PostSlots, E!PostLost(s) PROVE Pages' /\ lost' \in 0..MaxLost
  <2>1. PICK phase \in {"sent", "refused"} : posts' = [posts EXCEPT ![s] = [posts[s] EXCEPT !.phase = phase]]
    BY <1>10 DEF E!PostLost
  <2>2. /\ [posts[s] EXCEPT !.phase = phase] \in E!PostSet
        /\ [posts[s] EXCEPT !.phase = phase].phase \notin {"running", "ok"}
    BY SlotPost DEF E!PostSet
  <2>3. PostsSound(posts', Len(runs))
    BY <1>a, <2>1, <2>2, OnePost
  <2>4. lost' \in 0..MaxLost
    BY <1>10, OneLost DEF E!PostLost
  <2> QED
    BY <1>10, <1>b, <2>3, <2>4, PostStep DEF E!PostLost, E!queryVars
<1>11. ASSUME NEW s \in E!PostSlots, E!Refused(s) PROVE Pages' /\ lost' \in 0..MaxLost
  <2>1. posts' = [posts EXCEPT ![s] = E!NoPost]
    BY <1>11 DEF E!Refused
  <2>3. PostsSound(posts', Len(runs))
    BY <1>a, <2>1, OnePost, NoPostType
  <2> QED
    BY <1>11, <1>b, <2>3, PostStep DEF E!Refused, E!queryVars
<1> QED
    BY <1>1, <1>2, <1>3, <1>4, <1>5, <1>6, <1>7, <1>8, <1>9, <1>10, <1>11 DEF E!ExecutionAnswers

LEMMA FormStep ==
    ASSUME Pages, UNCHANGED <<runs, submits, posts, table, viewed, seen, reading, cancelling>>,
           form' \in [dataset : BOOLEAN, rules : SUBSET Rules]
    PROVE  Pages'
    BY DEF Pages

LEMMA ExecutionMovesPages == ASSUME Pages, E!ExecutionMoves PROVE Pages' /\ UNCHANGED lost
<1>a. form \in [dataset : BOOLEAN, rules : SUBSET Rules] /\ form.rules \subseteq Rules
    BY DEF Pages
<1>1. CASE E!SelectDataset
  <2>1. form' \in [dataset : BOOLEAN, rules : SUBSET Rules]
    BY <1>a, <1>1 DEF E!SelectDataset
  <2> QED
    BY <1>1, <2>1, FormStep DEF E!SelectDataset, E!queryVars
<1>2. CASE E!handleSelectAllRules
  <2>1. form' \in [dataset : BOOLEAN, rules : SUBSET Rules]
    BY <1>a, <1>2 DEF E!handleSelectAllRules
  <2> QED
    BY <1>2, <2>1, FormStep DEF E!handleSelectAllRules, E!queryVars
<1>3. ASSUME NEW q \in Rules, E!handleRuleToggle(q) PROVE Pages' /\ UNCHANGED lost
  <2>1. form' \in {[form EXCEPT !.rules = form.rules \ {q}], [form EXCEPT !.rules = form.rules \cup {q}]}
    BY <1>3 DEF E!handleRuleToggle
  <2>2. form.rules \ {q} \in SUBSET Rules /\ form.rules \cup {q} \in SUBSET Rules
    BY <1>a
  <2>3. form' \in [dataset : BOOLEAN, rules : SUBSET Rules]
    BY <1>a, <2>1, <2>2
  <2> QED
    BY <1>3, <2>3, FormStep DEF E!handleRuleToggle, E!queryVars
<1>4. ASSUME NEW e \in DOMAIN runs, E!handleCancel(e) PROVE Pages' /\ UNCHANGED lost
    BY <1>4 DEF E!handleCancel, E!queryVars, Pages
<1> QED
    BY <1>1, <1>2, <1>3, <1>4 DEF E!ExecutionMoves

LEMMA SubmitPages == ASSUME Inv, Pages, NEW s \in E!PostSlots, E!handleSubmit(s) PROVE Pages' /\ UNCHANGED lost
<1>1. /\ posts' = [posts EXCEPT ![s] = [phase |-> "sent", run |-> 0, here |-> TRUE]]
      /\ submits' = submits + 1
      /\ UNCHANGED <<runs, form, table, viewed, seen, reading, cancelling, lost>>
    BY DEF E!handleSubmit, E!queryVars
<1>2. [phase |-> "sent", run |-> 0, here |-> TRUE] \in E!PostSet
    BY BoundAssumption DEF E!PostSet
<1>3. PostsSound(posts', Len(runs))
    BY <1>1, <1>2, OnePost DEF Pages
<1>4. submits' \in Nat
    BY <1>1 DEF Pages
<1> QED
    BY <1>1, <1>3, <1>4 DEF Pages

LEMMA MissingQueries == ASSUME NEW e PROVE E!Missing(e) \subseteq E!Queries
    BY DEF E!Missing

LEMMA LinkPages == ASSUME Inv, Pages, NEW e \in DOMAIN runs, E!LinkToExecution(e) PROVE Pages' /\ UNCHANGED lost
<1>1. /\ viewed' = e /\ reading' \in {E!Missing(e), E!Queries}
      /\ UNCHANGED <<runs, submits, form, posts, table, seen, cancelling, lost>>
    BY DEF E!LinkToExecution, E!OpenExecution
<1>2. viewed' \in 0..Len(runs)
    BY <1>1, RunNumber DEF Inv
<1>3. reading' \subseteq E!Queries
    BY <1>1, MissingQueries
<1> QED
    BY <1>1, <1>2, <1>3, QueryStep DEF Pages

LEMMA CreatedPages == ASSUME Inv, Pages, NEW s \in E!PostSlots, E!Created(s) PROVE Pages' /\ UNCHANGED lost
<1>a. /\ PostsSound(posts, Len(runs)) /\ E!TableType(table) /\ posts[s].phase = "ok"
      /\ UNCHANGED <<runs, submits, form, seen, cancelling, lost>>
    BY DEF Pages, E!Created
<1>1. viewed' \in 0..Len(runs)
    BY <1>a DEF PostsSound, E!Created
<1>2. reading' \subseteq E!Queries
    BY MissingQueries DEF E!Created
<1>3. E!TableType(table')
  <2>1. \E fetch \in {table.fetch, E!Asked} :
            table' \in {[table EXCEPT !.fetch = fetch, !.stale = TRUE], [table EXCEPT !.stale = TRUE]}
    BY DEF E!Created
  <2> QED
    BY <1>a, <2>1 DEF E!TableType
<1>4. PostsSound(posts', Len(runs))
  <2>1. posts' = [t \in E!PostSlots |-> IF t = s THEN E!NoPost ELSE [posts[t] EXCEPT !.here = FALSE]]
    BY DEF E!Created
  <2>2. \A t \in E!PostSlots :
            /\ posts'[t] \in E!PostSet
            /\ posts'[t].phase = "free" \/ (posts'[t].phase = posts[t].phase /\ posts'[t].run = posts[t].run)
    <3> TAKE t \in E!PostSlots
    <3>1. CASE t = s
      BY <2>1, <3>1, NoPostType
    <3>2. CASE t # s
      BY <1>a, <2>1, <3>2 DEF PostsSound, E!PostSet
    <3> QED
      BY <3>1, <3>2
  <2>3. posts' \in [E!PostSlots -> E!PostSet]
    BY <2>1, <2>2
  <2> QED
    BY <1>a, <2>2, <2>3 DEF PostsSound
<1> QED
    BY <1>a, <1>1, <1>2, <1>3, <1>4 DEF Pages

LEMMA OpenExecutionsPages == ASSUME Pages, E!OpenExecutions PROVE Pages'
<1>1. PostsSound(posts', Len(runs))
    BY PostLeft DEF Pages, E!OpenExecutions
<1>2. \E fetch \in {table.fetch, E!Asked} : table' = [table EXCEPT !.fetch = fetch]
    BY DEF E!OpenExecutions
<1>3. E!TableType(table')
    BY <1>2 DEF Pages, E!TableType
<1> QED
    BY <1>1, <1>3 DEF Pages, E!OpenExecutions

LEMMA OpenCreatePages == ASSUME Pages, E!OpenCreate PROVE Pages'
<1>1. PostsSound(posts', Len(runs))
    BY PostLeft DEF Pages, E!OpenCreate
<1>2. E!NewForm \in [dataset : BOOLEAN, rules : SUBSET Rules]
    BY DEF E!NewForm
<1> QED
    BY <1>1, <1>2 DEF Pages, E!OpenCreate

LEMMA LeaveExecutionsPages == ASSUME Pages, E!LeaveExecutions PROVE Pages'
<1>1. PostsSound(posts', Len(runs))
    BY PostLeft DEF Pages, E!LeaveExecutions
<1> QED
    BY <1>1 DEF Pages, E!LeaveExecutions

\* One step of the system and the values of both desks.
Values ==
    /\ page \in {"issues", "executions", "create", "execution"}
    /\ clicks \in 0..MaxClicks
    /\ Lists /\ Pages

LEMMA ClickCounts == ASSUME clicks \in 0..MaxClicks, Click PROVE clicks' \in 0..MaxClicks
    BY BoundAssumption DEF Click

LEMMA LeavingLists == ASSUME Lists, Leaving, UNCHANGED lost PROVE Lists'
<1>1. CASE page = "issues"
    BY <1>1, NewListType DEF Leaving, I!LeaveIssues, Lists
<1>2. CASE page # "issues"
    BY <1>2, ListsKept DEF Leaving, deskVars
<1> QED
    BY <1>1, <1>2

LEMMA StepValues == Inv /\ Values /\ [Next]_vars => Values'
<1> SUFFICES ASSUME Inv, Values, [Next]_vars PROVE Values'
    OBVIOUS
<1>a. page \in {"issues", "executions", "create", "execution"} /\ clicks \in 0..MaxClicks /\ Lists /\ Pages
    BY DEF Values
<1>b. lost \in 0..MaxLost
    BY <1>a DEF Lists
<1>1. CASE OpenIssues
  <2>1. Lists'
    BY <1>1, <1>a, NewListType DEF OpenIssues, I!OpenIssues, Lists
  <2> QED
    BY <1>1, <1>a, <2>1, ClickCounts, LeaveExecutionsPages DEF OpenIssues, Visit, Values
<1>2. CASE OpenExecutions
  <2>1. Lists'
    BY <1>2, <1>a, LeavingLists DEF OpenExecutions, E!OpenExecutions
  <2> QED
    BY <1>2, <1>a, <2>1, ClickCounts, OpenExecutionsPages DEF OpenExecutions, Visit, Values
<1>3. CASE OpenCreate
  <2>1. Lists'
    BY <1>3, <1>a, ListsKept DEF OpenCreate, E!OpenCreate, deskVars
  <2> QED
    BY <1>3, <1>a, <2>1, ClickCounts, OpenCreatePages DEF OpenCreate, Visit, Values
<1>4. CASE Working
  <2>1. Lists'
    BY <1>4, <1>a, IssueAnswersLists, IssueMovesLists, IssueClicksLists, OthersLists DEF Working
  <2>2. clicks' \in 0..MaxClicks
    BY <1>4, <1>a, ClickCounts DEF Working
  <2> QED
    BY <1>4, <1>a, <2>1, <2>2, PagesKept DEF Working, Values
<1>5. CASE Running
  <2>0. UNCHANGED <<fixes, asked, list>>
    BY <1>5 DEF Running, deskVars
  <2>1. CASE E!ExecutionAnswers /\ UNCHANGED clicks
    <3>1. Pages' /\ lost' \in 0..MaxLost
      BY <1>a, <1>b, <2>1, ExecutionAnswersPages
    <3>2. page' = page
      BY <2>1 DEF E!ExecutionAnswers, E!TableRead, E!TableArrives, E!TableFails, E!LoadExecution,
         E!LoadIssues, E!EndRun, E!RunRaises, E!CancelRefused, E!BeginRun, E!PostLost, E!Refused
    <3> QED
      BY <1>a, <2>0, <2>1, <3>1, <3>2 DEF Values, Lists
  <2>2. CASE E!ExecutionMoves /\ UNCHANGED clicks
    <3>1. Pages' /\ UNCHANGED lost
      BY <1>a, <2>2, ExecutionMovesPages
    <3>2. page' = page
      BY <2>2 DEF E!ExecutionMoves, E!SelectDataset, E!handleSelectAllRules, E!handleRuleToggle, E!handleCancel
    <3> QED
      BY <1>a, <2>0, <2>2, <3>1, <3>2 DEF Values, Lists
  <2>3. ASSUME NEW s \in 1..MaxJobs, E!handleSubmit(s), Click PROVE Values'
    <3>1. Pages' /\ UNCHANGED lost
      BY <1>a, <2>3, SubmitPages DEF E!PostSlots
    <3>2. page' = page
      BY <2>3 DEF E!handleSubmit
    <3> QED
      BY <1>a, <2>0, <2>3, <3>1, <3>2, ClickCounts DEF Values, Lists
  <2>4. ASSUME NEW e \in DOMAIN runs, E!LinkToExecution(e), Click PROVE Values'
    <3>1. Pages' /\ UNCHANGED lost
      BY <1>a, <2>4, LinkPages
    <3>2. page' = "execution"
      BY <2>4 DEF E!LinkToExecution
    <3> QED
      BY <1>a, <2>0, <2>4, <3>1, <3>2, ClickCounts DEF Values, Lists
  <2> QED
    BY <1>5, <2>1, <2>2, <2>3, <2>4 DEF Running
<1>6. CASE Created
  <2>1. PICK s \in E!PostSlots : E!Created(s)
    BY <1>6 DEF Created, E!PostSlots
  <2>2. Pages' /\ UNCHANGED lost /\ page' = "execution"
    BY <1>a, <2>1, CreatedPages DEF E!Created
  <2>3. Lists'
    BY <1>6, <1>a, <2>2, LeavingLists DEF Created
  <2> QED
    BY <1>6, <1>a, <2>2, <2>3 DEF Created, Values
<1>7. CASE UNCHANGED vars
    BY <1>7, <1>a, ListsKept, PagesKept DEF vars, deskVars, Values
<1> QED
    BY <1>1, <1>2, <1>3, <1>4, <1>5, <1>6, <1>7 DEF Next

LEMMA InitValues == Init => Values
<1> SUFFICES ASSUME Init PROVE Values
    OBVIOUS
<1>1. Lists
  <2>1. list = [data |-> I!Unloaded, fetch |-> I!Idle] /\ fixes = 0 /\ asked = 0 /\ lost = 0
    BY DEF Init, I!IssuesInit
  <2> QED
    BY <2>1, NewListType, BoundAssumption DEF Lists
<1>2. PostsSound(posts, Len(runs))
  <2>1. posts = [s \in E!PostSlots |-> E!NoPost]
    BY DEF Init, E!ExecutionsInit
  <2> QED
    BY <2>1, NoPostType DEF PostsSound
<1>3. E!TableType(table)
    BY DEF Init, E!ExecutionsInit, E!TableType
<1>4. seen \in [1..MaxRuns -> E!SeenSet]
    BY DEF Init, E!ExecutionsInit, E!SeenSet, E!NothingSeen
<1>5. form \in [dataset : BOOLEAN, rules : SUBSET Rules]
    BY DEF Init, E!ExecutionsInit, E!NewForm
<1>6. Len(runs) = 1
    BY DEF Init, E!ExecutionsInit
<1>7. Pages
    BY <1>2, <1>3, <1>4, <1>5, <1>6 DEF Init, E!ExecutionsInit, Pages
<1> QED
    BY <1>1, <1>7, BoundAssumption DEF Init, Values

LEMMA Invariants == Spec => [](Inv /\ Values)
    BY InitInv, StepInv, InitValues, StepValues, PTL DEF Spec

\* Whatever the issues and rules, both desks, their dialogs, queries, requests and jobs
\* keep to their values (issues/page.tsx, executions/create/page.tsx, executions/[id]/page.tsx).
THEOREM TypeCorrect == Spec => []TypeOK
<1>1. Inv /\ Values => TypeOK
  <2> SUFFICES ASSUME Inv, Values PROVE TypeOK
    OBVIOUS
  <2>1. jobs \in [I!Slots -> I!JobSet] /\ issues \in I!IssueSet /\ desk \in I!DeskSet /\ E!IsTable(runs)
    BY DEF Inv, JobsSound
  <2>2. I!IssuesTypeOK
    BY <2>1 DEF Values, Lists, I!IssuesTypeOK
  <2>3. viewed \in 0..MaxRuns
    BY <2>1, BoundAssumption DEF Values, Pages, E!IsTable
  <2>4. E!ExecutionsTypeOK
    BY <2>1, <2>3 DEF Values, Pages, PostsSound, E!ExecutionsTypeOK
  <2> QED
    BY <2>2, <2>4 DEF Values, TypeOK
<1> QED
    BY <1>1, Invariants, PTL

--------------------------------------------------------------------------------
(***************************************************************************)
(* What is made and what was asked for.  A fix that a job still has to     *)
(* send, or has sent, is owed; so is the execution of a posted form.  What *)
(* is there and what is owed never exceeds what was asked for and what was *)
(* lost on the way.                                                        *)
(***************************************************************************)

Owes(job) ==
    {i \in Issues : job.request = "fix" /\ (i \in job.todo \/ (i = job.at /\ job.phase = "sent"))}
Owed(js) == {p \in I!Slots \X Issues : p[2] \in Owes(js[p[1]])}
Posted(ps) == {s \in E!PostSlots : ps[s].phase = "sent"}

FixesDue == fixes + Cardinality(Owed(jobs))
RunsDue == Len(runs) + Cardinality(Posted(posts))

Balance == FixesDue + RunsDue <= 1 + asked + submits + lost

\* Sets that differ by a member.
LEMMA Smaller ==
    ASSUME NEW B, IsFiniteSet(B), NEW A \in SUBSET B
    PROVE  /\ IsFiniteSet(A) /\ Cardinality(A) \in Nat /\ Cardinality(B) \in Nat
           /\ Cardinality(A) <= Cardinality(B)
    BY FS_Subset, FS_CardinalityType

LEMMA OneMore ==
    ASSUME NEW B, IsFiniteSet(B), NEW x, NEW A \in SUBSET (B \cup {x})
    PROVE  Cardinality(A) <= Cardinality(B) + 1
<1>0. Cardinality(B) \in Nat
    BY FS_CardinalityType
<1>a. /\ IsFiniteSet(B \cup {x})
      /\ Cardinality(B \cup {x}) = IF x \in B THEN Cardinality(B) ELSE Cardinality(B) + 1
    BY FS_AddElement
<1>1. IsFiniteSet(B \cup {x}) /\ Cardinality(B \cup {x}) <= Cardinality(B) + 1
    BY <1>0, <1>a
<1>2. Cardinality(A) <= Cardinality(B \cup {x})
    BY <1>1, FS_Subset
<1>3. Cardinality(A) \in Nat /\ Cardinality(B) \in Nat /\ Cardinality(B \cup {x}) \in Nat
    BY <1>1, Smaller
<1> QED
    BY <1>1, <1>2, <1>3

LEMMA OneFewer ==
    ASSUME NEW B, IsFiniteSet(B), NEW x \in B, NEW A \in SUBSET (B \ {x})
    PROVE  Cardinality(A) + 1 <= Cardinality(B)
<1>1. IsFiniteSet(B \ {x}) /\ Cardinality(B \ {x}) = Cardinality(B) - 1
    BY FS_RemoveElement
<1>2. Cardinality(A) <= Cardinality(B \ {x}) /\ Cardinality(A) \in Nat
    BY <1>1, Smaller
<1>3. Cardinality(B) \in Nat
    BY FS_CardinalityType
<1> QED
    BY <1>1, <1>2, <1>3

LEMMA OwedFinite == ASSUME NEW js PROVE IsFiniteSet(Owed(js)) /\ Cardinality(Owed(js)) \in Nat
<1>1. IsFiniteSet(I!Slots)
    BY BoundAssumption, FS_Interval DEF I!Slots
<1>2. IsFiniteSet(I!Slots \X Issues)
    BY <1>1, IssueAssumption, FS_Product
<1>3. Owed(js) \in SUBSET (I!Slots \X Issues)
    BY DEF Owed
<1> QED
    BY <1>2, <1>3, Smaller

LEMMA PostedFinite == ASSUME NEW ps PROVE IsFiniteSet(Posted(ps)) /\ Cardinality(Posted(ps)) \in Nat
<1>1. IsFiniteSet(E!PostSlots)
    BY BoundAssumption, FS_Interval DEF E!PostSlots
<1>2. Posted(ps) \in SUBSET E!PostSlots
    BY DEF Posted
<1> QED
    BY <1>1, <1>2, Smaller

\* A job takes a step: what is owed changes by what this job owes.
LEMMA OwedPut ==
    ASSUME NEW js \in [I!Slots -> I!JobSet], NEW s \in I!Slots, NEW job
    PROVE  \A p \in Owed([js EXCEPT ![s] = job]) :
              /\ p \in I!Slots \X Issues /\ p = <<p[1], p[2]>>
              /\ p \in Owed(js) \/ (p[1] = s /\ p[2] \in Owes(job))
<1> TAKE p \in Owed([js EXCEPT ![s] = job])
<1> DEFINE new == [js EXCEPT ![s] = job]
<1>1. \A t \in I!Slots : new[t] = IF t = s THEN job ELSE js[t]
    OBVIOUS
<1> HIDE DEF new
<1>2. p \in I!Slots \X Issues /\ p[1] \in I!Slots /\ p[2] \in Owes(new[p[1]]) /\ p = <<p[1], p[2]>>
    BY DEF Owed, new
<1>3. CASE p[1] = s
    BY <1>1, <1>2, <1>3
<1>4. CASE p[1] # s
    BY <1>1, <1>2, <1>4 DEF Owed
<1> QED
    BY <1>2, <1>3, <1>4

LEMMA DebtNoMore ==
    ASSUME NEW js \in [I!Slots -> I!JobSet], NEW s \in I!Slots, NEW job,
           Owes(job) \subseteq Owes(js[s])
    PROVE  Cardinality(Owed([js EXCEPT ![s] = job])) <= Cardinality(Owed(js))
<1>1. Owed([js EXCEPT ![s] = job]) \in SUBSET Owed(js)
    BY OwedPut DEF Owed
<1> QED
    BY <1>1, OwedFinite, Smaller

LEMMA DebtOneMore ==
    ASSUME NEW js \in [I!Slots -> I!JobSet], NEW s \in I!Slots, NEW job, NEW x,
           Owes(job) \subseteq Owes(js[s]) \cup {x}
    PROVE  Cardinality(Owed([js EXCEPT ![s] = job])) <= Cardinality(Owed(js)) + 1
<1>1. Owed([js EXCEPT ![s] = job]) \in SUBSET (Owed(js) \cup {<<s, x>>})
    BY OwedPut DEF Owed
<1> QED
    BY <1>1, OwedFinite, OneMore

LEMMA DebtOneFewer ==
    ASSUME NEW js \in [I!Slots -> I!JobSet], NEW s \in I!Slots, NEW job, NEW x \in Owes(js[s]),
           Owes(job) \subseteq Owes(js[s]) \ {x}
    PROVE  Cardinality(Owed([js EXCEPT ![s] = job])) + 1 <= Cardinality(Owed(js))
<1>1. <<s, x>> \in Owed(js)
    BY DEF Owed, Owes
<1>2. Owed([js EXCEPT ![s] = job]) \in SUBSET (Owed(js) \ {<<s, x>>})
  <2> SUFFICES ASSUME NEW p \in Owed([js EXCEPT ![s] = job]) PROVE p \in Owed(js) /\ p # <<s, x>>
    OBVIOUS
  <2>1. [js EXCEPT ![s] = job][s] = job
    OBVIOUS
  <2>2. p[1] = s => p[2] \in Owes(job)
    BY <2>1 DEF Owed
  <2> QED
    BY <2>2, OwedPut DEF Owed
<1> QED
    BY <1>1, <1>2, OwedFinite, OneFewer

LEMMA DebtStart ==
    ASSUME NEW js \in [I!Slots -> I!JobSet], NEW s \in I!Slots, NEW job, NEW S \in SUBSET Issues,
           Owes(job) \subseteq S
    PROVE  Cardinality(Owed([js EXCEPT ![s] = job])) <= Cardinality(Owed(js)) + Cardinality(S)
<1> DEFINE all == Owed(js) \cup ({s} \X S)
<1>1. Owed([js EXCEPT ![s] = job]) \in SUBSET all
  <2> DEFINE new == Owed([js EXCEPT ![s] = job])
  <2>a. \A p \in new : /\ p \in I!Slots \X Issues /\ p = <<p[1], p[2]>>
                       /\ p \in Owed(js) \/ (p[1] = s /\ p[2] \in Owes(job))
    BY OwedPut
  <2> HIDE DEF new
  <2> SUFFICES ASSUME NEW p \in new PROVE p \in all
    BY DEF new
  <2>1. p = <<p[1], p[2]>> /\ (p \in Owed(js) \/ (p[1] = s /\ p[2] \in S))
    BY <2>a
  <2>2. CASE p[1] = s /\ p[2] \in S
    <3>1. <<s, p[2]>> \in {s} \X S
      BY <2>2
    <3>2. p = <<s, p[2]>>
      BY <2>1, <2>2
    <3> QED
      BY <3>1, <3>2
  <2> QED
    BY <2>1, <2>2
<1>2. IsFiniteSet({s} \X S) /\ Cardinality({s} \X S) = Cardinality(S) /\ Cardinality(S) \in Nat
  <2>1. IsFiniteSet({s}) /\ Cardinality({s}) = 1
    BY FS_Singleton
  <2>2. IsFiniteSet({s} \X S) /\ Cardinality({s} \X S) = 1 * Cardinality(S)
    BY <2>1, SizeOfSelection, FS_Product, ZenonT(40)
  <2> QED
    BY <2>2, SizeOfSelection
<1>3. /\ IsFiniteSet(all)
      /\ Cardinality(all) = Cardinality(Owed(js)) + Cardinality({s} \X S) - Cardinality(Owed(js) \cap ({s} \X S))
    BY <1>2, OwedFinite, FS_Union
<1>4. Cardinality(Owed(js) \cap ({s} \X S)) \in Nat
    BY OwedFinite, Smaller
<1>5. Cardinality(Owed([js EXCEPT ![s] = job])) <= Cardinality(all) /\ Cardinality(all) \in Nat
    BY <1>1, <1>3, Smaller
<1> HIDE DEF all
<1> QED
    BY <1>2, <1>3, <1>4, <1>5, OwedFinite

\* What the end of a fetch and the end of a page do to the jobs.
LEMMA DebtOfRefreshed ==
    ASSUME JobsSound(jobs, issues)
    PROVE  Owed(I!Refreshed) = Owed(jobs)
           /\ Owed([s \in I!Slots |-> [I!Refreshed[s] EXCEPT !.live = FALSE]]) = Owed(jobs)
<1>1. ASSUME NEW s \in I!Slots
      PROVE  /\ Owes(I!Refreshed[s]) = Owes(jobs[s])
             /\ Owes([I!Refreshed[s] EXCEPT !.live = FALSE]) = Owes(jobs[s])
  <2>1. jobs[s] \in I!JobSet
    BY DEF JobsSound
  <2>2. I!Refreshed[s] = IF jobs[s].phase = "refresh" THEN [jobs[s] EXCEPT !.phase = "refreshed"]
                         ELSE jobs[s]
    BY DEF I!Refreshed
  <2>3. /\ I!Refreshed[s] \in I!JobSet
        /\ I!Refreshed[s].request = jobs[s].request /\ I!Refreshed[s].todo = jobs[s].todo
        /\ I!Refreshed[s].at = jobs[s].at
        /\ I!Refreshed[s].phase = "sent" <=> jobs[s].phase = "sent"
    BY <2>1, <2>2 DEF I!JobSet
  <2> QED
    BY <2>3 DEF Owes, I!JobSet
<1> QED
    BY <1>1 DEF Owed

\* The same for the posted forms.
LEMMA PostedPut ==
    ASSUME NEW ps \in [E!PostSlots -> E!PostSet], NEW s \in E!PostSlots, NEW post
    PROVE  /\ Cardinality(Posted([ps EXCEPT ![s] = post])) <= Cardinality(Posted(ps)) + 1
           /\ post.phase # "sent" =>
                 Cardinality(Posted([ps EXCEPT ![s] = post])) <= Cardinality(Posted(ps))
           /\ post.phase # "sent" /\ ps[s].phase = "sent" =>
                 Cardinality(Posted([ps EXCEPT ![s] = post])) + 1 <= Cardinality(Posted(ps))
<1> DEFINE new == [ps EXCEPT ![s] = post]
<1>1. new[s] = post /\ \A t \in E!PostSlots : t # s => new[t] = ps[t]
    OBVIOUS
<1> HIDE DEF new
<1>2. Posted(new) \in SUBSET (Posted(ps) \cup {s})
    BY <1>1 DEF Posted
<1>3. post.phase # "sent" => Posted(new) \in SUBSET Posted(ps) /\ s \notin Posted(new)
    BY <1>1 DEF Posted
<1>4. ps[s].phase = "sent" => s \in Posted(ps)
    BY DEF Posted
<1>5. Cardinality(Posted(new)) <= Cardinality(Posted(ps)) + 1
    BY <1>2, PostedFinite, OneMore
<1>6. post.phase # "sent" => Cardinality(Posted(new)) <= Cardinality(Posted(ps))
    BY <1>3, PostedFinite, Smaller
<1>7. ASSUME post.phase # "sent", ps[s].phase = "sent"
      PROVE  Cardinality(Posted(new)) + 1 <= Cardinality(Posted(ps))
  <2>1. Posted(new) \in SUBSET (Posted(ps) \ {s}) /\ s \in Posted(ps)
    BY <1>3, <1>4, <1>7
  <2> QED
    BY <2>1, PostedFinite, OneFewer
<1> QED
    BY <1>5, <1>6, <1>7 DEF new

\* An execution that ends answers its request; one that raises may send it back.
LEMMA PostedAnswered ==
    ASSUME NEW n, PostsSound(posts, n), NEW e,
           posts' = [s \in E!PostSlots |-> IF posts[s].phase = "running" /\ posts[s].run = e
                                           THEN [posts[s] EXCEPT !.phase = "ok"] ELSE posts[s]]
    PROVE  Cardinality(Posted(posts')) <= Cardinality(Posted(posts))
<1>1. \A s \in E!PostSlots : posts'[s].phase = "sent" => posts[s].phase = "sent"
    BY DEF PostsSound, E!PostSet
<1>2. Posted(posts') \in SUBSET Posted(posts)
    BY <1>1 DEF Posted
<1> QED
    BY <1>2, PostedFinite, Smaller

LEMMA PostedBack ==
    ASSUME NEW n, PostsSound(posts, n), NEW e, NEW phase,
           posts' = [s \in E!PostSlots |-> IF posts[s].phase = "running" /\ posts[s].run = e
                                           THEN [posts[s] EXCEPT !.phase = phase] ELSE posts[s]]
    PROVE  Cardinality(Posted(posts')) <= Cardinality(Posted(posts)) + 1
<1>1. \A s \in E!PostSlots : posts'[s].phase = "sent" =>
          posts[s].phase = "sent" \/ (posts[s].phase = "running" /\ posts[s].run = e)
    BY DEF PostsSound, E!PostSet
<1>2. \E s : Posted(posts') \in SUBSET (Posted(posts) \cup {s})
  <2>1. CASE \E s \in E!PostSlots : posts[s].phase = "running" /\ posts[s].run = e
    <3>1. PICK s \in E!PostSlots : posts[s].phase = "running" /\ posts[s].run = e
      BY <2>1
    <3>2. \A t \in E!PostSlots : posts[t].phase = "running" /\ posts[t].run = e => t = s
      BY <3>1 DEF PostsSound
    <3> QED
      BY <1>1, <3>2 DEF Posted
  <2>2. CASE ~\E s \in E!PostSlots : posts[s].phase = "running" /\ posts[s].run = e
    BY <1>1, <2>2 DEF Posted
  <2> QED
    BY <2>1, <2>2
<1> QED
    BY <1>2, PostedFinite, OneMore

\* A step adds to what is there and owed no more than it adds to what was asked for and lost.
DeskBalanced ==
    fixes' + Cardinality(Owed(jobs')) + asked + lost
        <= fixes + Cardinality(Owed(jobs)) + asked' + lost'
RunsBalanced ==
    Len(runs') + Cardinality(Posted(posts')) + submits + lost
        <= Len(runs) + Cardinality(Posted(posts)) + submits' + lost'

LEMMA DeskIdle == ASSUME UNCHANGED <<fixes, asked, jobs, lost>>, Lists PROVE DeskBalanced
    BY OwedFinite, BoundAssumption DEF Lists, DeskBalanced

LEMMA NoJobOwes == Owes(I!NoJob) = {}
    BY DEF Owes, I!NoJob

\* A step of one job that asks for nothing and makes nothing.
LEMMA JobIdle ==
    ASSUME JobsSound(jobs, issues), Lists, UNCHANGED <<fixes, asked, lost>>, NEW s \in I!Slots, NEW job,
           jobs' = [jobs EXCEPT ![s] = job], Owes(job) \subseteq Owes(jobs[s])
    PROVE  DeskBalanced
<1>1. Cardinality(Owed(jobs')) <= Cardinality(Owed(jobs))
    BY DebtNoMore DEF JobsSound
<1> QED
    BY <1>1, OwedFinite, BoundAssumption DEF Lists, DeskBalanced

LEMMA IssueAnswersBalance == ASSUME Inv, Lists, I!IssueAnswers PROVE DeskBalanced
<1>a. /\ JobsSound(jobs, issues) /\ jobs \in [I!Slots -> I!JobSet]
      /\ \A s \in I!Slots : jobs[s] \in I!JobSet /\ JobSound(jobs[s], issues)
    BY DEF Inv, JobsSound
<1>b. fixes \in Nat /\ asked \in Nat /\ lost \in Nat /\ Cardinality(Owed(jobs)) \in Nat
      /\ Cardinality(Owed(jobs')) \in Nat
    BY OwedFinite, BoundAssumption DEF Lists
<1>1. CASE I!FetchRead
    BY <1>1, DeskIdle DEF I!FetchRead
<1>2. CASE I!FetchArrives \/ I!FetchFails
  <2>1. Owed(jobs') = Owed(jobs)
    BY <1>a, <1>2, DebtOfRefreshed DEF I!FetchArrives, I!FetchFails
  <2>2. UNCHANGED <<fixes, asked>> /\ lost' \in {lost, lost + 1}
    BY <1>2 DEF I!FetchArrives, I!FetchFails
  <2> QED
    BY <1>b, <2>1, <2>2 DEF DeskBalanced
<1>3. ASSUME NEW s \in I!Slots, I!Serve(s) PROVE DeskBalanced
  <2> DEFINE job == [jobs[s] EXCEPT !.phase = "ok"]
  <2>1. /\ jobs' = [jobs EXCEPT ![s] = job] /\ UNCHANGED <<asked, lost>> /\ jobs[s].phase = "sent"
        /\ I!Effect(jobs[s].request, jobs[s].at)
    BY <1>3 DEF I!Serve
  <2>2. /\ job.request = jobs[s].request /\ job.todo = jobs[s].todo /\ job.at = jobs[s].at
        /\ job.phase = "ok"
    BY <1>a DEF I!JobSet
  <2>3. /\ jobs[s].request \in {"fix", "resolve", "unresolve"}
        /\ jobs[s].at \in Issues /\ jobs[s].at \notin jobs[s].todo
    BY <1>a, <2>1 DEF JobSound, I!JobSet
  <2> HIDE DEF job
  <2>4. CASE jobs[s].request = "fix"
    <3>1. fixes' = fixes + 1
      BY <2>1, <2>4 DEF I!Effect, I!create_fix
    <3>2. jobs[s].at \in Owes(jobs[s]) /\ Owes(job) \subseteq Owes(jobs[s]) \ {jobs[s].at}
      BY <2>1, <2>2, <2>3, <2>4 DEF Owes
    <3>3. Cardinality(Owed(jobs')) + 1 <= Cardinality(Owed(jobs))
      BY <1>a, <2>1, <3>2, DebtOneFewer
    <3> QED
      BY <1>b, <2>1, <3>1, <3>3 DEF DeskBalanced
  <2>5. CASE jobs[s].request # "fix"
    <3>1. fixes' = fixes
      BY <2>1, <2>3, <2>5 DEF I!Effect, I!resolve_issue, I!unresolve_issue
    <3>2. Owes(job) \subseteq Owes(jobs[s])
      BY <2>2, <2>5 DEF Owes
    <3> QED
      BY <1>a, <2>1, <3>1, <3>2, JobIdle
  <2> QED
    BY <2>4, <2>5
<1>4. ASSUME NEW s \in I!Slots, I!Lost(s) PROVE DeskBalanced
  <2>1. PICK phase \in {"sent", "failed"} : jobs' = [jobs EXCEPT ![s] = [jobs[s] EXCEPT !.phase = phase]]
    BY <1>4 DEF I!Lost
  <2>2. UNCHANGED <<fixes, asked>> /\ lost' = lost + 1
    BY <1>4 DEF I!Lost
  <2> DEFINE job == [jobs[s] EXCEPT !.phase = phase]
  <2>3. job.request = jobs[s].request /\ job.todo = jobs[s].todo /\ job.at = jobs[s].at
    BY <1>a DEF I!JobSet
  <2> HIDE DEF job
  <2>4. Owes(job) \subseteq Owes(jobs[s]) \cup {jobs[s].at}
    BY <2>3 DEF Owes
  <2>5. Cardinality(Owed(jobs')) <= Cardinality(Owed(jobs)) + 1
    BY <1>a, <2>1, <2>4, DebtOneMore DEF job
  <2> QED
    BY <1>b, <2>2, <2>5 DEF DeskBalanced
<1>5. ASSUME NEW s \in I!Slots, I!NextIssue(s) PROVE DeskBalanced
  <2> DEFINE was == I!Answered(jobs[s])
  <2>1. PICK i \in jobs[s].todo : jobs' = [jobs EXCEPT ![s] =
            [was EXCEPT !.at = i, !.todo = jobs[s].todo \ {i}, !.phase = "sent"]]
    BY <1>5 DEF I!NextIssue
  <2>2. was.request = jobs[s].request /\ was \in I!JobSet
    BY <1>a, <1>5, AnsweredSound DEF I!NextIssue, JobSound
  <2> HIDE DEF was
  <2> DEFINE job == [was EXCEPT !.at = i, !.todo = jobs[s].todo \ {i}, !.phase = "sent"]
  <2>3. job.request = jobs[s].request /\ job.todo = jobs[s].todo \ {i} /\ job.at = i
    BY <2>2 DEF I!JobSet
  <2> HIDE DEF job
  <2>4. Owes(job) \subseteq Owes(jobs[s])
    BY <2>3 DEF Owes
  <2> QED
    BY <1>5, <1>a, <2>1, <2>4, JobIdle DEF I!NextIssue, job
<1>6. ASSUME NEW s \in I!Slots, I!Refresh(s) PROVE DeskBalanced
  <2> DEFINE was == I!Answered(jobs[s])
  <2>1. PICK phase \in {"refresh", "refreshed"} : jobs' = [jobs EXCEPT ![s] = [was EXCEPT !.phase = phase]]
    BY <1>6 DEF I!Refresh
  <2>2. was \in I!JobSet /\ was.todo = {}
    BY <1>a, <1>6, AnsweredSound DEF I!Refresh, JobSound
  <2> HIDE DEF was
  <2> DEFINE job == [was EXCEPT !.phase = phase]
  <2>3. job.todo = {} /\ job.phase # "sent"
    BY <2>2 DEF I!JobSet
  <2> HIDE DEF job
  <2>4. Owes(job) \subseteq Owes(jobs[s])
    BY <2>3 DEF Owes
  <2> QED
    BY <1>6, <1>a, <2>1, <2>4, JobIdle DEF I!Refresh, job
<1>7. ASSUME NEW s \in I!Slots, I!RefreshEnds(s) \/ I!Fails(s) PROVE DeskBalanced
    BY <1>7, <1>a, NoJobOwes, JobIdle DEF I!RefreshEnds, I!Fails
<1> QED
    BY <1>1, <1>2, <1>3, <1>4, <1>5, <1>6, <1>7 DEF I!IssueAnswers

LEMMA StartBalance ==
    ASSUME Inv, Lists, NEW s \in I!Slots, NEW op, NEW request, NEW S \in SUBSET Issues,
           I!Start(s, op, request, S)
    PROVE  DeskBalanced
<1>a. JobsSound(jobs, issues) /\ jobs \in [I!Slots -> I!JobSet]
    BY DEF Inv, JobsSound
<1>b. fixes \in Nat /\ asked \in Nat /\ lost \in Nat /\ Cardinality(Owed(jobs)) \in Nat
      /\ Cardinality(Owed(jobs')) \in Nat /\ Cardinality(S) \in Nat
    BY OwedFinite, SizeOfSelection, BoundAssumption DEF Lists
<1>1. UNCHANGED <<fixes, lost>> /\ asked' = asked + (IF request = "fix" THEN Cardinality(S) ELSE 0)
    BY SameCardinality DEF I!Start
<1>2. PICK i \in S : jobs' = [jobs EXCEPT ![s] =
          [I!NoJob EXCEPT !.op = op, !.request = request, !.todo = S \ {i}, !.at = i,
                          !.phase = "sent", !.live = TRUE, !.viewed = (desk.selectedIssueId = i)]]
    BY DEF I!Start
<1> DEFINE job == [I!NoJob EXCEPT !.op = op, !.request = request, !.todo = S \ {i}, !.at = i,
                                  !.phase = "sent", !.live = TRUE, !.viewed = (desk.selectedIssueId = i)]
<1>3. job.request = request /\ job.todo = S \ {i} /\ job.at = i
    BY DEF I!NoJob
<1> HIDE DEF job
<1>4. CASE request = "fix"
  <2>1. Owes(job) \subseteq S
    BY <1>3 DEF Owes
  <2>2. Cardinality(Owed(jobs')) <= Cardinality(Owed(jobs)) + Cardinality(S)
    BY <1>a, <1>2, <2>1, DebtStart DEF job
  <2> QED
    BY <1>b, <1>1, <1>4, <2>2 DEF DeskBalanced
<1>5. CASE request # "fix"
  <2>1. Owes(job) \subseteq Owes(jobs[s])
    BY <1>3, <1>5 DEF Owes
  <2>2. asked' = asked
    BY <1>b, <1>1, <1>5
  <2> QED
    BY <1>a, <1>1, <1>2, <2>1, <2>2, JobIdle DEF job
<1> QED
    BY <1>4, <1>5

LEMMA IssueClicksBalance == ASSUME Inv, Lists, I!IssueClicks PROVE DeskBalanced
<1>a. desk.selected \in SUBSET Issues /\ desk.toFix \in I!MaybeIssue
    BY DEF Inv, I!DeskSet
<1>1. CASE I!onBulkFix
    BY <1>1, DeskIdle DEF I!onBulkFix
<1>2. ASSUME NEW f \in Filters, I!SetStatusFilter(f) PROVE DeskBalanced
    BY <1>2, DeskIdle DEF I!SetStatusFilter
<1>3. ASSUME NEW i \in Issues, I!onSelectIssue(i) \/ I!handleViewIssue(i) \/ I!handleOpenFixDialog(i)
      PROVE  DeskBalanced
    BY <1>3, DeskIdle DEF I!onSelectIssue, I!handleViewIssue, I!handleOpenFixDialog
<1>4. ASSUME NEW S \in I!Shown, I!onSelectAll(S) PROVE DeskBalanced
    BY <1>4, DeskIdle DEF I!onSelectAll
<1>5. ASSUME NEW s \in I!Slots, I!handleApplyFix(s) PROVE DeskBalanced
  <2>1. {desk.toFix} \in SUBSET Issues
    BY <1>a, <1>5 DEF I!handleApplyFix, I!FixDialog, I!MaybeIssue
  <2> QED
    BY <1>5, <2>1, StartBalance DEF I!handleApplyFix
<1>6. ASSUME NEW s \in I!Slots, I!handleBulkFix(s) \/ I!handleBulkIgnore(s) \/ I!handleBulkResolve(s)
      PROVE  DeskBalanced
    BY <1>6, <1>a, StartBalance DEF I!handleBulkFix, I!handleBulkIgnore, I!handleBulkResolve
<1>7. ASSUME NEW s \in I!Slots, NEW i \in Issues, I!handleUnresolveIssue(s, i) PROVE DeskBalanced
  <2>1. {i} \in SUBSET Issues
    OBVIOUS
  <2> QED
    BY <1>7, <2>1, StartBalance DEF I!handleUnresolveIssue
<1> QED
    BY <1>1, <1>2, <1>3, <1>4, <1>5, <1>6, <1>7 DEF I!IssueClicks

LEMMA IssueMovesBalance == ASSUME Lists, I!IssueMoves PROVE DeskBalanced
<1>1. UNCHANGED <<fixes, asked, jobs, lost>>
    BY DEF I!IssueMoves, I!Poll, I!DetailArrives, I!CloseDetails, I!CloseFixDialog,
       I!CloseBulkDialog, I!ApplyFixIgnored, I!BulkFixIgnored
<1> QED
    BY <1>1, DeskIdle

LEMMA OthersBalance == ASSUME Lists, I!OthersResolve PROVE DeskBalanced
<1>1. UNCHANGED <<fixes, asked, jobs, lost>>
    BY DEF I!OthersResolve, I!Effect, I!resolve_issue, I!unresolve_issue
<1> QED
    BY <1>1, DeskIdle

LEMMA LeavingBalance == ASSUME Inv, Lists, Leaving, UNCHANGED lost PROVE DeskBalanced
<1>1. CASE page = "issues"
  <2>1. Owed(jobs') = Owed(jobs) /\ UNCHANGED <<fixes, asked>>
    BY <1>1, DebtOfRefreshed DEF Leaving, I!LeaveIssues, Inv
  <2> QED
    BY <2>1, OwedFinite, BoundAssumption DEF Lists, DeskBalanced
<1>2. CASE page # "issues"
    BY <1>2, DeskIdle DEF Leaving, deskVars
<1> QED
    BY <1>1, <1>2

\* The numbers that a step of the runs is about.
LEMMA RunNumbers ==
    ASSUME Inv, Values
    PROVE  /\ Len(runs) \in Nat /\ submits \in Nat /\ lost \in Nat /\ fixes \in Nat /\ asked \in Nat
           /\ Cardinality(Posted(posts)) \in Nat /\ Cardinality(Posted(posts')) \in Nat
           /\ Cardinality(Owed(jobs)) \in Nat /\ Cardinality(Owed(jobs')) \in Nat
           /\ posts \in [E!PostSlots -> E!PostSet]
<1>1. Len(runs) \in Nat
    BY DEF Inv, E!IsTable
<1>2. submits \in Nat /\ lost \in Nat /\ fixes \in Nat /\ asked \in Nat
    BY BoundAssumption DEF Values, Lists, Pages
<1>3. posts \in [E!PostSlots -> E!PostSet]
    BY DEF Values, Pages, PostsSound
<1> QED
    BY <1>1, <1>2, <1>3, OwedFinite, PostedFinite

LEMMA RunsIdle == ASSUME Inv, Values, UNCHANGED <<runs, submits, posts, lost>> PROVE RunsBalanced
    BY RunNumbers DEF RunsBalanced

LEMMA LeftPosted ==
    ASSUME posts \in [E!PostSlots -> E!PostSet], E!LeaveCreate PROVE Posted(posts') = Posted(posts)
    BY DEF E!LeaveCreate, E!PostSet, Posted

LEMMA ExecutionAnswersBalance == ASSUME Inv, Values, E!ExecutionAnswers PROVE RunsBalanced
<1>a. /\ PostsSound(posts, Len(runs)) /\ E!IsTable(runs) /\ posts \in [E!PostSlots -> E!PostSet]
      /\ \A s \in E!PostSlots : posts[s] \in E!PostSet
    BY DEF Inv, Values, Pages, PostsSound
<1>1. CASE E!TableRead \/ E!TableArrives \/ E!LoadExecution \/ E!LoadIssues
    BY <1>1, RunsIdle DEF E!TableRead, E!TableArrives, E!LoadExecution, E!LoadIssues
<1>2. CASE E!TableFails
    BY <1>2, RunNumbers DEF E!TableFails, RunsBalanced
<1>3. ASSUME NEW e \in DOMAIN runs, E!EndRun(e) PROVE RunsBalanced
  <2>1. PICK status \in E!RunStatuses : runs' = [runs EXCEPT ![e] = status]
    BY <1>3 DEF E!EndRun
  <2>2. Len(runs') = Len(runs)
    BY <1>a, <2>1, RunEnded
  <2>3. posts' = [s \in E!PostSlots |-> IF posts[s].phase = "running" /\ posts[s].run = e
                                        THEN [posts[s] EXCEPT !.phase = "ok"] ELSE posts[s]]
    BY <1>3 DEF E!EndRun
  <2>4. Cardinality(Posted(posts')) <= Cardinality(Posted(posts))
    BY <1>a, <2>3, PostedAnswered
  <2>5. UNCHANGED <<submits, lost>>
    BY <1>3 DEF E!EndRun
  <2> QED
    BY <2>2, <2>4, <2>5, RunNumbers DEF RunsBalanced
<1>4. ASSUME NEW e \in DOMAIN runs, E!RunRaises(e) PROVE RunsBalanced
  <2>1. runs' = [runs EXCEPT ![e] = "stuck"] /\ "stuck" \in E!RunStatuses
    BY <1>4 DEF E!RunRaises, E!RunStatuses
  <2>2. Len(runs') = Len(runs)
    BY <1>a, <2>1, RunEnded
  <2>3. PICK phase \in {"sent", "refused"} :
            posts' = [s \in E!PostSlots |-> IF posts[s].phase = "running" /\ posts[s].run = e
                                            THEN [posts[s] EXCEPT !.phase = phase] ELSE posts[s]]
    BY <1>4 DEF E!RunRaises
  <2>4. Cardinality(Posted(posts')) <= Cardinality(Posted(posts)) + 1
    BY <1>a, <2>3, PostedBack
  <2>5. UNCHANGED submits /\ lost' = lost + 1
    BY <1>4 DEF E!RunRaises
  <2> QED
    BY <2>2, <2>4, <2>5, RunNumbers, SMTT(20) DEF RunsBalanced
<1>5. ASSUME NEW e \in DOMAIN runs, E!CancelRefused(e) PROVE RunsBalanced
    BY <1>5, RunsIdle DEF E!CancelRefused
<1>6. ASSUME NEW s \in E!PostSlots, E!BeginRun(s) PROVE RunsBalanced
  <2> DEFINE post == [posts[s] EXCEPT !.phase = "running", !.run = Len(runs) + 1]
  <2>1. /\ runs' = Append(runs, "running") /\ posts[s].phase = "sent" /\ posts' = [posts EXCEPT ![s] = post]
        /\ Len(runs) < MaxRuns /\ UNCHANGED <<submits, lost>>
    BY <1>6 DEF E!BeginRun
  <2>2. Len(runs') = Len(runs) + 1
    BY <1>a, <2>1, RunBegun
  <2>3. post.phase # "sent"
    BY <1>a DEF E!PostSet
  <2> HIDE DEF post
  <2>4. Cardinality(Posted(posts')) + 1 <= Cardinality(Posted(posts))
    BY <1>a, <2>1, <2>3, PostedPut
  <2> QED
    BY <2>1, <2>2, <2>4, RunNumbers, SMTT(20) DEF RunsBalanced
<1>7. ASSUME NEW s \in E!PostSlots, E!PostLost(s) PROVE RunsBalanced
  <2>1. PICK phase \in {"sent", "refused"} : posts' = [posts EXCEPT ![s] = [posts[s] EXCEPT !.phase = phase]]
    BY <1>7 DEF E!PostLost
  <2>2. UNCHANGED <<runs, submits>> /\ lost' = lost + 1
    BY <1>7 DEF E!PostLost
  <2>3. Cardinality(Posted(posts')) <= Cardinality(Posted(posts)) + 1
    BY <1>a, <2>1, PostedPut
  <2> QED
    BY <2>2, <2>3, RunNumbers, SMTT(20) DEF RunsBalanced
<1>8. ASSUME NEW s \in E!PostSlots, E!Refused(s) PROVE RunsBalanced
  <2>1. posts' = [posts EXCEPT ![s] = E!NoPost] /\ E!NoPost.phase # "sent"
    BY <1>8, NoPostType DEF E!Refused
  <2>2. UNCHANGED <<runs, submits, lost>>
    BY <1>8 DEF E!Refused
  <2>3. Cardinality(Posted(posts')) <= Cardinality(Posted(posts))
    BY <1>a, <2>1, PostedPut
  <2> QED
    BY <2>2, <2>3, RunNumbers DEF RunsBalanced
<1> QED
    BY <1>1, <1>2, <1>3, <1>4, <1>5, <1>6, <1>7, <1>8 DEF E!ExecutionAnswers

LEMMA SubmitBalance == ASSUME Inv, Values, NEW s \in E!PostSlots, E!handleSubmit(s) PROVE RunsBalanced
<1>1. /\ posts' = [posts EXCEPT ![s] = [phase |-> "sent", run |-> 0, here |-> TRUE]]
      /\ submits' = submits + 1 /\ UNCHANGED <<runs, lost>>
    BY DEF E!handleSubmit
<1>2. Cardinality(Posted(posts')) <= Cardinality(Posted(posts)) + 1
    BY <1>1, RunNumbers, PostedPut
<1> QED
    BY <1>1, <1>2, RunNumbers, SMTT(20) DEF RunsBalanced

LEMMA CreatedBalance == ASSUME Inv, Values, NEW s \in E!PostSlots, E!Created(s) PROVE RunsBalanced
<1>1. posts' = [t \in E!PostSlots |-> IF t = s THEN E!NoPost ELSE [posts[t] EXCEPT !.here = FALSE]]
    BY DEF E!Created
<1>2. Posted(posts') \in SUBSET Posted(posts)
  <2> SUFFICES ASSUME NEW t \in Posted(posts') PROVE t \in Posted(posts)
    OBVIOUS
  <2>1. t \in E!PostSlots /\ posts'[t].phase = "sent"
    BY DEF Posted
  <2>2. t # s
    BY <1>1, <2>1, NoPostType
  <2>3. posts'[t].phase = posts[t].phase
    BY <1>1, <2>1, <2>2, RunNumbers DEF E!PostSet
  <2> QED
    BY <2>1, <2>3 DEF Posted
<1>3. Cardinality(Posted(posts')) <= Cardinality(Posted(posts))
    BY <1>2, PostedFinite, Smaller
<1>4. UNCHANGED <<runs, submits, lost>>
    BY DEF E!Created
<1> QED
    BY <1>3, <1>4, RunNumbers DEF RunsBalanced

LEMMA NextNumbers ==
    ASSUME Inv', Values'
    PROVE  Len(runs') \in Nat /\ submits' \in Nat /\ lost' \in Nat /\ fixes' \in Nat /\ asked' \in Nat
<1>1. Len(runs') \in Nat
    BY DEF Inv, E!IsTable
<1> QED
    BY <1>1, BoundAssumption DEF Values, Lists, Pages

LEMMA DueNumbers ==
    ASSUME Inv, Values
    PROVE  FixesDue \in Nat /\ RunsDue \in Nat /\ asked \in Nat /\ submits \in Nat /\ lost \in Nat
    BY RunNumbers DEF FixesDue, RunsDue

LEMMA NextDue ==
    ASSUME Inv', Values'
    PROVE  FixesDue' \in Nat /\ RunsDue' \in Nat /\ asked' \in Nat /\ submits' \in Nat /\ lost' \in Nat
<1>1. Cardinality(Owed(jobs')) \in Nat /\ Cardinality(Posted(posts')) \in Nat
    BY OwedFinite, PostedFinite
<1> QED
    BY <1>1, NextNumbers DEF FixesDue, RunsDue

LEMMA DeskPays ==
    ASSUME Inv, Values, Balance, DeskBalanced, UNCHANGED <<runs, submits>>,
           Cardinality(Posted(posts')) <= Cardinality(Posted(posts)), Inv', Values'
    PROVE  Balance'
<1>1. FixesDue' + asked + lost <= FixesDue + asked' + lost'
    BY DEF DeskBalanced, FixesDue
<1>2. RunsDue' <= RunsDue
    BY RunNumbers DEF RunsDue
<1>3. FixesDue + RunsDue <= 1 + asked + submits + lost /\ submits' = submits
    BY DEF Balance
<1>4. FixesDue' + RunsDue' <= 1 + asked' + submits' + lost'
    BY <1>1, <1>2, <1>3, DueNumbers, NextDue
<1> QED
    BY <1>4 DEF Balance

LEMMA RunsPay ==
    ASSUME Inv, Values, Balance, RunsBalanced, UNCHANGED <<fixes, asked>>,
           Cardinality(Owed(jobs')) <= Cardinality(Owed(jobs)), Inv', Values'
    PROVE  Balance'
<1>1. RunsDue' + submits + lost <= RunsDue + submits' + lost'
    BY DEF RunsBalanced, RunsDue
<1>2. FixesDue' <= FixesDue
    BY RunNumbers DEF FixesDue
<1>3. FixesDue + RunsDue <= 1 + asked + submits + lost /\ asked' = asked
    BY DEF Balance
<1>4. FixesDue' + RunsDue' <= 1 + asked' + submits' + lost'
    BY <1>1, <1>2, <1>3, DueNumbers, NextDue
<1> QED
    BY <1>4 DEF Balance

LEMMA StepBalance == Inv /\ Values /\ Balance /\ [Next]_vars => Balance'
<1> SUFFICES ASSUME Inv, Values, Balance, [Next]_vars PROVE Balance'
    OBVIOUS
<1>a. Inv' /\ Values' /\ Lists
    BY StepInv, StepValues DEF Values
<1>b. \A n \in {Cardinality(Posted(posts)), Cardinality(Owed(jobs))} : n <= n
    BY RunNumbers
<1>1. CASE OpenIssues
  <2>1. UNCHANGED <<fixes, asked, jobs, lost, runs, submits>>
    BY <1>1 DEF OpenIssues, I!OpenIssues, E!LeaveExecutions
  <2>2. Posted(posts') = Posted(posts)
    BY <1>1, RunNumbers, LeftPosted DEF OpenIssues, E!LeaveExecutions
  <2> QED
    BY <1>a, <1>b, <2>1, <2>2, DeskIdle, DeskPays
<1>2. CASE OpenExecutions
  <2>1. DeskBalanced
    BY <1>2, <1>a, LeavingBalance DEF OpenExecutions, E!OpenExecutions
  <2>2. Posted(posts') = Posted(posts) /\ UNCHANGED <<runs, submits>>
    BY <1>2, RunNumbers, LeftPosted DEF OpenExecutions, E!OpenExecutions
  <2> QED
    BY <1>a, <1>b, <2>1, <2>2, DeskPays
<1>3. CASE OpenCreate
  <2>1. UNCHANGED <<fixes, asked, jobs, lost, runs, submits>>
    BY <1>3 DEF OpenCreate, E!OpenCreate, deskVars
  <2>2. Posted(posts') = Posted(posts)
    BY <1>3, RunNumbers, LeftPosted DEF OpenCreate, E!OpenCreate
  <2> QED
    BY <1>a, <1>b, <2>1, <2>2, DeskIdle, DeskPays
<1>4. CASE Working
  <2>1. DeskBalanced
    BY <1>4, <1>a, IssueAnswersBalance, IssueMovesBalance, IssueClicksBalance, OthersBalance DEF Working
  <2>2. UNCHANGED <<runs, submits, posts>>
    BY <1>4 DEF Working, executionVars
  <2> QED
    BY <1>a, <1>b, <2>1, <2>2, DeskPays
<1>5. CASE Running
  <2>0. UNCHANGED <<fixes, asked, jobs>>
    BY <1>5 DEF Running, deskVars
  <2>1. ASSUME E!ExecutionMoves PROVE RunsBalanced
    BY <2>1, RunsIdle DEF E!ExecutionMoves, E!SelectDataset, E!handleSelectAllRules,
       E!handleRuleToggle, E!handleCancel
  <2>2. ASSUME NEW s \in 1..MaxJobs, E!handleSubmit(s) PROVE RunsBalanced
    BY <2>2, SubmitBalance DEF E!PostSlots
  <2>3. ASSUME NEW e \in DOMAIN runs, E!LinkToExecution(e) PROVE RunsBalanced
    BY <2>3, RunsIdle DEF E!LinkToExecution, E!OpenExecution
  <2>4. RunsBalanced
    BY <1>5, <2>1, <2>2, <2>3, ExecutionAnswersBalance DEF Running
  <2> QED
    BY <1>a, <1>b, <2>0, <2>4, RunsPay
<1>6. CASE Created
  <2>1. PICK s \in E!PostSlots : E!Created(s)
    BY <1>6 DEF Created, E!PostSlots
  <2>2. RunsBalanced /\ UNCHANGED <<runs, submits, lost>>
    BY <2>1, CreatedBalance DEF E!Created
  <2>3. Cardinality(Posted(posts')) <= Cardinality(Posted(posts))
    BY <2>2, RunNumbers DEF RunsBalanced
  <2>4. DeskBalanced
    BY <1>6, <1>a, <2>2, LeavingBalance DEF Created
  <2> QED
    BY <1>a, <2>2, <2>3, <2>4, DeskPays
<1>7. CASE UNCHANGED vars
    BY <1>7, <1>a, <1>b, DeskIdle, DeskPays DEF vars, deskVars, executionVars
<1> QED
    BY <1>1, <1>2, <1>3, <1>4, <1>5, <1>6, <1>7 DEF Next

LEMMA InitBalance == Init => Balance
<1> SUFFICES ASSUME Init PROVE Balance
    OBVIOUS
<1>1. Owed(jobs) = {}
  <2>1. \A s \in I!Slots : jobs[s] = I!NoJob
    BY DEF Init, I!IssuesInit
  <2> QED
    BY <2>1, NoJobOwes DEF Owed
<1>2. Posted(posts) = {}
    BY NoPostType DEF Init, E!ExecutionsInit, Posted
<1>3. Cardinality(Owed(jobs)) = 0 /\ Cardinality(Posted(posts)) = 0
    BY <1>1, <1>2, FS_EmptySet
<1>4. fixes = 0 /\ asked = 0 /\ submits = 0 /\ lost = 0 /\ Len(runs) = 1
    BY DEF Init, I!IssuesInit, E!ExecutionsInit
<1> QED
    BY <1>3, <1>4 DEF Balance, FixesDue, RunsDue

\* However jobs, bulk runs and executions overlap, outlive their page and are sent again, the
\* server holds no more fixes and executions than were submitted, but for one more for each
\* request or answer that was lost (lib/api.ts: the retries of a request that is not repeatable).
THEOREM MadeAsAsked == Spec => []OnlyAskedFor
<1>1. Inv /\ Values /\ Balance => OnlyAskedFor
  <2> SUFFICES ASSUME Inv, Values, Balance PROVE OnlyAskedFor
    OBVIOUS
  <2>1. fixes <= FixesDue /\ Len(runs) <= RunsDue
    BY RunNumbers DEF FixesDue, RunsDue
  <2> QED
    BY <2>1, RunNumbers, DueNumbers, SMTT(20) DEF Balance, OnlyAskedFor
<1>2. Spec => []Balance
    BY Invariants, InitBalance, StepBalance, PTL DEF Spec
<1> QED
    BY <1>1, <1>2, Invariants, PTL
================================================================================
