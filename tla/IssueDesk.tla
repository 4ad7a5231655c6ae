----------------------------- MODULE IssueDesk -----------------------------
(***************************************************************************)
(* The issues page.  Its list is a query polled every 10 s.  A fix, a       *)
(* reopening or a bulk run is a job: it sends one request after the other,  *)
(* counts the answers, then awaits the refresh of the list.  Only a fix and *)
(* a reopening are kept from overlapping with their own kind; a job goes on *)
(* when its dialog is closed or its page is left.  Left out: what is still  *)
(* cached of a filter used before, shown until the filter is fetched again. *)
(***************************************************************************)
EXTENDS Integers, FiniteSets

CONSTANTS
    Issues,      \* ids of issues
    Filters,     \* of "all", "open" and "resolved"
    MaxJobs,     \* jobs under way at once
    MaxRuns,     \* executions issues are found by
    MaxLost      \* bound on lost requests and answers

VARIABLES
    issues,      \* rows of the issues table: found by which execution, status
    fixes,       \* how many rows the fixes table has
    asked,       \* fixes asked for by the jobs so far
    desk,        \* state of IssuesPage and its dialogs
    list,        \* the list query of the filter: data and fetch
    jobs,
    lost

issueVars == <<issues, fixes, asked, desk, list, jobs>>

Slots == 1..MaxJobs
NoIssue == "no issue"
MaybeIssue == Issues \cup {NoIssue}
\* "reopened": resolved at some time, and unresolved.
Statuses == {"open", "resolved", "reopened"}
\* Values of a query that has no data or no answer yet.
Unloaded == [i \in {"unloaded"} |-> FALSE]
Idle == [i \in {"idle"} |-> FALSE]
Asked == [i \in {"asked"} |-> FALSE]
IsSnapshot(data) == data \in [DOMAIN data -> BOOLEAN] /\ DOMAIN data \subseteq Issues

NewDesk ==
    [filter |-> "all", selected |-> {}, toFix |-> NoIssue, fixing |-> NoIssue,
     unresolving |-> NoIssue, bulkOpen |-> FALSE, selectedIssueId |-> NoIssue,
     showDetails |-> FALSE, detail |-> "unloaded"]
NewList == [data |-> Unloaded, fetch |-> Asked]

NoJob == [op |-> "none", request |-> "none", todo |-> {}, at |-> NoIssue,
          good |-> {}, phase |-> "free", live |-> FALSE, viewed |-> FALSE]

IssueSet == [Issues -> [found : 0..MaxRuns, status : Statuses]]
DeskSet == [filter : Filters, selected : SUBSET Issues, toFix : MaybeIssue,
            fixing : MaybeIssue, unresolving : MaybeIssue, bulkOpen : BOOLEAN,
            selectedIssueId : MaybeIssue, showDetails : BOOLEAN,
            detail : {"unloaded", "open", "resolved"}]
JobSet == [op : {"none", "one", "unresolve", "bulk fix", "bulk"},
           request : {"none", "fix", "resolve", "unresolve"},
           todo : SUBSET Issues, at : MaybeIssue, good : SUBSET Issues,
           phase : {"free", "sent", "ok", "failed", "refresh", "refreshed"}, live : BOOLEAN,
           viewed : BOOLEAN]

-----------------------------------------------------------------------------
\* routes/issues.py

Resolved(i) == issues[i].status = "resolved"

\* get_issues for a filter; the limit of 500 is not reached.
get_issues(f) ==
    [i \in {j \in Issues : /\ issues[j].found > 0
                           /\ f = "open" => ~Resolved(j)
                           /\ f = "resolved" => Resolved(j)} |-> Resolved(i)]

get_issue(i) == IF Resolved(i) THEN "resolved" ELSE "open"

\* Whatever the status was.  Only create_fix leaves a row, every time it is called.
resolve_issue(i) == issues' = [issues EXCEPT ![i].status = "resolved"] /\ UNCHANGED fixes
create_fix(i) == issues' = [issues EXCEPT ![i].status = "resolved"] /\ fixes' = fixes + 1
unresolve_issue(i) ==
    /\ issues' = [issues EXCEPT ![i].status = IF @ = "resolved" THEN "reopened" ELSE @]
    /\ UNCHANGED fixes

Effect(request, i) ==
    CASE request = "fix" -> create_fix(i)
      [] request = "resolve" -> resolve_issue(i)
      [] request = "unresolve" -> unresolve_issue(i)

-----------------------------------------------------------------------------
\* Every issue was found by execution e; none is found yet if e = 0.
IssuesInit(e) ==
    /\ issues = [i \in Issues |-> [found |-> e, status |-> "open"]]
    /\ fixes = 0 /\ asked = 0
    /\ desk = NewDesk
    /\ list = [data |-> Unloaded, fetch |-> Idle]
    /\ jobs = [s \in Slots |-> NoJob]

FixDialog == desk.toFix # NoIssue
\* The issue that was viewed last stays selected when its details are closed.
Details(i) == desk.showDetails /\ desk.selectedIssueId = i
\* Dialogs are modal.
ListPanel == ~FixDialog /\ ~desk.bulkOpen /\ ~desk.showDetails

Listed == DOMAIN list.data \cap Issues

\* Search, column and date filters and the pager show some of the list.
Shown == SUBSET Listed

\* A fetch of the list starts; one that is on its way is started again, unless
\* there is nothing to show yet.
Fetch(query) ==
    [query EXCEPT !.fetch = IF @ # Idle /\ query.data = Unloaded THEN @ ELSE Asked]

\* The jobs that await the refresh go on.
Refreshed == [s \in Slots |-> IF jobs[s].phase = "refresh"
                              THEN [jobs[s] EXCEPT !.phase = "refreshed"] ELSE jobs[s]]

OpenIssues ==
    /\ desk' = NewDesk /\ list' = NewList
    /\ UNCHANGED <<issues, fixes, asked, jobs, lost>>

\* The jobs go on; what they set is not there any more.
LeaveIssues ==
    /\ desk' = NewDesk /\ list' = [data |-> Unloaded, fetch |-> Idle]
    /\ jobs' = [s \in Slots |-> [Refreshed[s] EXCEPT !.live = FALSE]]
    /\ UNCHANGED <<issues, fixes, asked, lost>>

SetStatusFilter(f) ==
    /\ ListPanel /\ f # desk.filter
    /\ desk' = [desk EXCEPT !.filter = f]
    /\ list' = NewList
    /\ UNCHANGED <<issues, fixes, asked, jobs, lost>>

\* refetchInterval of useIssues.
Poll ==
    /\ list.fetch = Idle
    /\ list' = Fetch(list)
    /\ UNCHANGED <<issues, fixes, asked, desk, jobs, lost>>

FetchRead ==
    /\ list.fetch = Asked
    /\ list' = [list EXCEPT !.fetch = get_issues(desk.filter)]
    /\ UNCHANGED <<issues, fixes, asked, desk, jobs, lost>>

FetchArrives ==
    /\ list.fetch \notin {Idle, Asked}
    /\ list' = [data |-> list.fetch, fetch |-> Idle]
    /\ jobs' = Refreshed
    /\ UNCHANGED <<issues, fixes, asked, desk, lost>>

\* Given up after its retries: the list stays as it was, and no error is shown.
FetchFails ==
    /\ list.fetch # Idle /\ lost < MaxLost
    /\ lost' = lost + 1
    /\ list' = [list EXCEPT !.fetch = Idle]
    /\ jobs' = Refreshed
    /\ UNCHANGED <<issues, fixes, asked, desk>>

-----------------------------------------------------------------------------
\* Clicks on the list.

onSelectAll(S) ==
    /\ ListPanel /\ S \in Shown
    /\ desk' = [desk EXCEPT !.selected = S]
    /\ UNCHANGED <<issues, fixes, asked, list, jobs, lost>>

onSelectIssue(i) ==
    /\ ListPanel /\ i \in Listed
    /\ desk' = [desk EXCEPT !.selected = IF i \in @ THEN @ \ {i} ELSE @ \cup {i}]
    /\ UNCHANGED <<issues, fixes, asked, list, jobs, lost>>

\* The details are a query of their own that no fix invalidates: opened again,
\* they are what was cached at any time before, or are fetched.
handleViewIssue(i) ==
    /\ ListPanel /\ i \in Listed
    /\ \E seen \in {"unloaded", "open", get_issue(i)} :
          desk' = [desk EXCEPT !.selectedIssueId = i, !.showDetails = TRUE, !.detail = seen]
    /\ UNCHANGED <<issues, fixes, asked, list, jobs, lost>>

DetailArrives ==
    /\ desk.showDetails /\ desk.detail = "unloaded"
    /\ desk' = [desk EXCEPT !.detail = get_issue(desk.selectedIssueId)]
    /\ UNCHANGED <<issues, fixes, asked, list, jobs, lost>>

WithoutDetails(d) == [d EXCEPT !.showDetails = FALSE, !.detail = "unloaded"]

CloseDetails ==
    /\ desk.showDetails
    /\ desk' = WithoutDetails(desk)
    /\ UNCHANGED <<issues, fixes, asked, list, jobs, lost>>

\* "Fix Issue" in a row and "Mark as Resolved" in the details.
FixButton(i) ==
    /\ i \in Listed /\ desk.fixing # i
    /\ \/ ListPanel /\ ~list.data[i]
       \/ Details(i) /\ desk.detail = "open"

\* "Unresolve" in a row and "Unresolve Issue" in the details.
UnresolveButton(i) ==
    /\ i \in Listed /\ desk.unresolving # i
    /\ \/ ListPanel /\ list.data[i]
       \/ Details(i) /\ desk.detail = "resolved"

handleOpenFixDialog(i) ==
    /\ FixButton(i)
    /\ desk' = [WithoutDetails(desk) EXCEPT !.toFix = i]
    /\ UNCHANGED <<issues, fixes, asked, list, jobs, lost>>

\* Cancel while nothing is submitted; Esc at any time.
CloseFixDialog ==
    /\ FixDialog
    /\ desk' = [desk EXCEPT !.toFix = NoIssue]
    /\ UNCHANGED <<issues, fixes, asked, list, jobs, lost>>

onBulkFix ==
    /\ ListPanel /\ desk.selected # {}
    /\ desk' = [desk EXCEPT !.bulkOpen = TRUE]
    /\ UNCHANGED <<issues, fixes, asked, list, jobs, lost>>

CloseBulkDialog ==
    /\ desk.bulkOpen
    /\ desk' = [desk EXCEPT !.bulkOpen = FALSE]
    /\ UNCHANGED <<issues, fixes, asked, list, jobs, lost>>

-----------------------------------------------------------------------------
\* Jobs.

Free(s) == jobs[s].phase = "free" /\ \A t \in Slots : t < s => jobs[t].phase # "free"

Start(s, op, request, S) ==
    /\ Free(s)
    /\ \E i \in S :
          jobs' = [jobs EXCEPT ![s] =
              [NoJob EXCEPT !.op = op, !.request = request, !.todo = S \ {i}, !.at = i,
                            !.phase = "sent", !.live = TRUE,
                            !.viewed = (desk.selectedIssueId = i)]]
    /\ asked' = asked + (IF request = "fix" THEN Cardinality(S) ELSE 0)
    /\ UNCHANGED <<issues, fixes, list, lost>>

\* A new value makes a fix; a comment alone is dropped and the issue resolved.
handleApplyFix(s) ==
    /\ FixDialog /\ desk.fixing = NoIssue
    /\ \E request \in {"fix", "resolve"} : Start(s, "one", request, {desk.toFix})
    /\ desk' = [desk EXCEPT !.fixing = desk.toFix]

\* A fix is on its way: nothing is sent, and the dialog closes as if it had been.
ApplyFixIgnored ==
    /\ FixDialog /\ desk.fixing \notin {NoIssue, desk.toFix}
    /\ desk' = [desk EXCEPT !.toFix = NoIssue]
    /\ UNCHANGED <<issues, fixes, asked, list, jobs, lost>>

handleUnresolveIssue(s, i) ==
    /\ UnresolveButton(i) /\ desk.unresolving = NoIssue
    /\ Start(s, "unresolve", "unresolve", {i})
    /\ desk' = [desk EXCEPT !.unresolving = i]

\* The whole selection, listed or not.  The dialog asks for a value or a comment.
handleBulkFix(s) ==
    /\ desk.bulkOpen /\ desk.selected # {}
    /\ Start(s, "bulk fix", "fix", desk.selected)
    /\ UNCHANGED desk

\* The dialog stays while a run clears the selection; a submit then only closes it.
BulkFixIgnored ==
    /\ desk.bulkOpen /\ desk.selected = {}
    /\ desk' = [desk EXCEPT !.bulkOpen = FALSE]
    /\ UNCHANGED <<issues, fixes, asked, list, jobs, lost>>

handleBulkIgnore(s) ==
    /\ ListPanel /\ desk.selected # {}
    /\ Start(s, "bulk", "fix", desk.selected)
    /\ UNCHANGED desk

handleBulkResolve(s) ==
    /\ ListPanel /\ desk.selected # {}
    /\ Start(s, "bulk", "resolve", desk.selected)
    /\ UNCHANGED desk

Serve(s) ==
    /\ jobs[s].phase = "sent"
    /\ Effect(jobs[s].request, jobs[s].at)
    /\ jobs' = [jobs EXCEPT ![s].phase = "ok"]
    /\ UNCHANGED <<asked, desk, list, lost>>

\* The request or its answer is lost; it is sent again or given up.
Lost(s) ==
    /\ jobs[s].phase \in {"sent", "ok"} /\ lost < MaxLost
    /\ lost' = lost + 1
    /\ \E phase \in {"sent", "failed"} : jobs' = [jobs EXCEPT ![s].phase = phase]
    /\ UNCHANGED <<issues, fixes, asked, desk, list>>

\* Mutant of Answered: an error is counted as a success.
AnsweredAlwaysGood(job) == [job EXCEPT !.good = @ \cup {job.at}]

\* successCount; what is left of the job's issues is errorCount.
Answered(job) ==
    IF job.phase = "ok" THEN [job EXCEPT !.good = @ \cup {job.at}] ELSE job

\* Mutant of NextIssue: the loop does not advance.
NextIssueForever(s) ==
    /\ jobs[s].phase \in {"ok", "failed"} /\ jobs[s].todo # {}
    /\ \E i \in jobs[s].todo : jobs' = [jobs EXCEPT ![s] =
           [Answered(jobs[s]) EXCEPT !.at = i, !.phase = "sent"]]
    /\ UNCHANGED <<issues, fixes, asked, desk, list, lost>>

\* The loop goes on after an error.
NextIssue(s) ==
    /\ jobs[s].phase \in {"ok", "failed"} /\ jobs[s].todo # {}
    /\ \E i \in jobs[s].todo : jobs' = [jobs EXCEPT ![s] =
           [Answered(jobs[s]) EXCEPT !.at = i, !.todo = jobs[s].todo \ {i}, !.phase = "sent"]]
    /\ UNCHANGED <<issues, fixes, asked, desk, list, lost>>

\* What the end of the requests sets, if the page is still there.
AfterRequests(job) ==
    CASE ~job.live -> desk
      [] job.op = "bulk fix" -> [desk EXCEPT !.selected = {}, !.bulkOpen = FALSE]
      [] job.op = "bulk" -> [desk EXCEPT !.selected = {}]
      [] OTHER -> desk

\* invalidateIssuesData and refetch.
Refresh(s) ==
    /\ jobs[s].phase \in {"ok", "failed"} /\ jobs[s].todo = {}
    /\ jobs[s].op \in {"one", "unresolve"} => jobs[s].phase = "ok"
    /\ jobs' = [jobs EXCEPT ![s] = [Answered(jobs[s]) EXCEPT
           !.phase = IF jobs[s].live THEN "refresh" ELSE "refreshed"]]
    /\ desk' = AfterRequests(jobs[s])
    /\ list' = IF jobs[s].live THEN Fetch(list) ELSE list
    /\ UNCHANGED <<issues, fixes, asked, lost>>

\* finally of the handler, and the dialogs: it closes the details that are open now
\* if its issue was the one selected when it began, and the fix dialog, which may
\* have been opened for another issue since.
Done(job) ==
    LET closed == IF job.viewed THEN WithoutDetails(desk) ELSE desk IN
    CASE ~job.live -> desk
      [] job.op = "one" -> [closed EXCEPT !.fixing = NoIssue, !.toFix = NoIssue]
      [] job.op = "unresolve" -> [closed EXCEPT !.unresolving = NoIssue]
      [] job.op = "bulk fix" -> [desk EXCEPT !.bulkOpen = FALSE]
      [] OTHER -> desk

RefreshEnds(s) ==
    /\ jobs[s].phase = "refreshed"
    /\ desk' = Done(jobs[s])
    /\ jobs' = [jobs EXCEPT ![s] = NoJob]
    /\ UNCHANGED <<issues, fixes, asked, list, lost>>

\* A toast; the fix dialog stays open with the error.
Fails(s) ==
    /\ jobs[s].phase = "failed" /\ jobs[s].op \in {"one", "unresolve"}
    /\ desk' = IF jobs[s].live
               THEN IF jobs[s].op = "one" THEN [desk EXCEPT !.fixing = NoIssue]
                                          ELSE [desk EXCEPT !.unresolving = NoIssue]
               ELSE desk
    /\ jobs' = [jobs EXCEPT ![s] = NoJob]
    /\ UNCHANGED <<issues, fixes, asked, list, lost>>

-----------------------------------------------------------------------------
\* Other members resolve and reopen issues.
OthersResolve ==
    /\ \E i \in Issues, request \in {"resolve", "unresolve"} :
          issues[i].found > 0 /\ Effect(request, i) /\ issues' # issues
    /\ UNCHANGED <<asked, desk, list, jobs, lost>>

IssueAnswers ==
    \/ FetchRead \/ FetchArrives \/ FetchFails
    \/ \E s \in Slots :
          Serve(s) \/ Lost(s) \/ NextIssue(s) \/ Refresh(s) \/ RefreshEnds(s) \/ Fails(s)

\* What the page does by itself, or without asking the server anything.
IssueMoves ==
    Poll \/ DetailArrives \/ CloseDetails \/ CloseFixDialog \/ CloseBulkDialog
         \/ ApplyFixIgnored \/ BulkFixIgnored

IssueClicks ==
    \/ onBulkFix
    \/ \E f \in Filters : SetStatusFilter(f)
    \/ \E i \in Issues : onSelectIssue(i) \/ handleViewIssue(i) \/ handleOpenFixDialog(i)
    \/ \E S \in Shown : onSelectAll(S)
    \/ \E s \in Slots :
          \/ handleApplyFix(s) \/ handleBulkFix(s) \/ handleBulkIgnore(s) \/ handleBulkResolve(s)
          \/ \E i \in Issues : handleUnresolveIssue(s, i)

ListType(query) ==
    /\ DOMAIN query = {"data", "fetch"}
    /\ query.data = Unloaded \/ IsSnapshot(query.data)
    /\ query.fetch \in {Idle, Asked} \/ IsSnapshot(query.fetch)

IssuesTypeOK ==
    /\ issues \in IssueSet
    /\ fixes \in Nat /\ asked \in Nat
    /\ desk \in DeskSet
    /\ ListType(list)
    /\ jobs \in [Slots -> JobSet]
    /\ lost \in 0..MaxLost
=============================================================================
