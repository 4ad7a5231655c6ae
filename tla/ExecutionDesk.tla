--------------------------- MODULE ExecutionDesk ---------------------------
(***************************************************************************)
(* The execution pages: the list, the form that starts a run and the        *)
(* details of one.  Starting is one long request that is answered when the  *)
(* rules have run; a client that gives up sends it again while the first    *)
(* run goes on.  Queries are kept for 5 minutes and nothing polls them.     *)
(***************************************************************************)
EXTENDS Integers, Sequences, FiniteSets

CONSTANTS
    Issues,      \* ids of issues
    Rules,       \* ids of active rules
    MaxRuns,     \* bound on executions
    MaxJobs,     \* submissions under way at once
    MaxLost      \* bound on lost requests and answers

VARIABLES
    page,        \* the page that is mounted
    issues,      \* rows of the issues table
    runs,        \* status of each execution, in the order they were created
    submits,     \* how often the form was submitted
    form,        \* state of CreateExecutionPage
    posts,       \* its requests
    table,       \* the query of the list
    viewed,      \* the execution whose details are open
    seen,        \* what the queries of each execution hold
    reading,     \* those of the viewed one that are loading
    cancelling,  \* executions whose cancellation was sent
    lost

executionVars == <<runs, submits, form, posts, table, viewed, seen, reading, cancelling>>
queryVars == <<table, viewed, seen, reading>>

PostSlots == 1..MaxJobs
\* "stuck": the run has raised, and its row says running for good.
RunStatuses == {"running", "stuck", "succeeded", "partially_succeeded", "failed"}
\* Values of a query that has no data or no answer yet.
NotLoaded == <<"not loaded">>
Idle == <<"idle">>
Asked == <<"asked">>
IsTable(data) == data \in Seq(RunStatuses) /\ Len(data) <= MaxRuns

NewForm == [dataset |-> FALSE, rules |-> {}]
\* run: the execution the request waits for.  here: the form is still mounted.
NoPost == [phase |-> "free", run |-> 0, here |-> FALSE]
Queries == {"execution", "issues"}
NoIssues == {"not loaded"}
NothingSeen == [execution |-> "not loaded", issues |-> NoIssues]
PostSet == [phase : {"free", "sent", "running", "ok", "refused"}, run : 0..MaxRuns, here : BOOLEAN]
SeenSet == [execution : {"not loaded"} \cup RunStatuses, issues : {NoIssues} \cup SUBSET Issues]

-----------------------------------------------------------------------------
\* routes/executions.py and the rule engine behind it.

\* Mutant of BeginRun: the request waits for the execution after its own.
BeginRunNext(s) ==
    /\ posts[s].phase = "sent" /\ Len(runs) < MaxRuns
    /\ runs' = Append(runs, "running")
    /\ posts' = [posts EXCEPT ![s] = [@ EXCEPT !.phase = "running", !.run = Len(runs) + 2]]
    /\ UNCHANGED <<page, issues, submits, form, queryVars, cancelling, lost>>

\* The row is committed as running before the rules run.
BeginRun(s) ==
    /\ posts[s].phase = "sent" /\ Len(runs) < MaxRuns
    /\ runs' = Append(runs, "running")
    /\ posts' = [posts EXCEPT ![s] = [@ EXCEPT !.phase = "running", !.run = Len(runs) + 1]]
    /\ UNCHANGED <<page, issues, submits, form, queryVars, cancelling, lost>>

\* The issues of a run are shown with its final status here; RuleExecution has the
\* commits in between.  Only the request that started the run is answered.
EndRun(e) ==
    /\ runs[e] = "running"
    /\ \E status \in RunStatuses \ {"running", "stuck"}, new \in SUBSET {i \in Issues : issues[i].found = 0} :
          /\ status = "succeeded" => new = {}
          /\ runs' = [runs EXCEPT ![e] = status]
          /\ issues' = [i \in Issues |-> IF i \in new THEN [issues[i] EXCEPT !.found = e] ELSE issues[i]]
    /\ posts' = [s \in PostSlots |->
           IF posts[s].phase = "running" /\ posts[s].run = e
           THEN [posts[s] EXCEPT !.phase = "ok"] ELSE posts[s]]
    /\ UNCHANGED <<page, submits, form, queryVars, cancelling, lost>>

\* A run that raises cannot record that it failed, see RuleExecution: 500, which the
\* interceptor sends again.
RunRaises(e) ==
    /\ runs[e] = "running" /\ lost < MaxLost
    /\ lost' = lost + 1
    /\ runs' = [runs EXCEPT ![e] = "stuck"]
    /\ \E phase \in {"sent", "refused"} :
          posts' = [s \in PostSlots |->
              IF posts[s].phase = "running" /\ posts[s].run = e
              THEN [posts[s] EXCEPT !.phase = phase] ELSE posts[s]]
    /\ UNCHANGED <<page, issues, submits, form, queryVars, cancelling>>

get_execution(e) == IF runs[e] = "stuck" THEN "running" ELSE runs[e]
get_executions == [e \in DOMAIN runs |-> get_execution(e)]
get_execution_issues(e) == {i \in Issues : issues[i].found = e}

-----------------------------------------------------------------------------
ExecutionsInit ==
    /\ runs = <<"succeeded">>
    /\ submits = 0 /\ form = NewForm
    /\ posts = [s \in PostSlots |-> NoPost]
    /\ table = [data |-> NotLoaded, stale |-> FALSE,
                fetch |-> IF page = "executions" THEN Asked ELSE Idle]
    /\ viewed = 0
    /\ seen = [e \in 1..MaxRuns |-> NothingSeen]
    /\ reading = {}
    /\ cancelling = {}

\* The form is gone: its requests go on.
LeaveCreate == posts' = [s \in PostSlots |-> [posts[s] EXCEPT !.here = FALSE]]

\* Mounting useExecutions fetches what is missing, invalidated or older than 5 minutes.
OpenExecutions ==
    /\ \E old \in BOOLEAN : table' =
          [table EXCEPT !.fetch = IF @ = Idle /\ (old \/ table.stale \/ table.data = NotLoaded)
                                  THEN Asked ELSE @]
    /\ reading' = {} /\ LeaveCreate
    /\ UNCHANGED <<issues, runs, submits, form, viewed, seen, cancelling, lost>>

OpenCreate ==
    /\ form' = NewForm /\ reading' = {} /\ LeaveCreate
    /\ UNCHANGED <<issues, runs, submits, table, viewed, seen, cancelling, lost>>

LeaveExecutions ==
    /\ reading' = {} /\ LeaveCreate
    /\ UNCHANGED <<runs, submits, form, table, viewed, seen, cancelling>>

Missing(e) ==
    {q \in Queries : (q = "execution" /\ seen[e].execution = "not loaded")
                    \/ (q = "issues" /\ seen[e].issues = NoIssues)}

OpenExecution(e) ==
    /\ viewed' = e
    /\ reading' \in {Missing(e), Queries}
    /\ UNCHANGED <<issues, runs, submits, form, table, seen, cancelling>>

LinkToExecution(e) ==
    /\ page = "executions" /\ table.data # NotLoaded /\ e \in DOMAIN table.data
    /\ page' = "execution"
    /\ OpenExecution(e)
    /\ UNCHANGED <<posts, lost>>

-----------------------------------------------------------------------------
\* The list.  A fetch that is on its way goes on when the page is left.
TableRead ==
    /\ table.fetch = Asked
    /\ table' = [table EXCEPT !.fetch = get_executions]
    /\ UNCHANGED <<page, issues, runs, submits, form, posts, viewed, seen, reading, cancelling, lost>>

TableArrives ==
    /\ table.fetch \notin {Idle, Asked}
    /\ table' = [data |-> table.fetch, fetch |-> Idle, stale |-> FALSE]
    /\ UNCHANGED <<page, issues, runs, submits, form, posts, viewed, seen, reading, cancelling, lost>>

TableFails ==
    /\ table.fetch # Idle /\ lost < MaxLost
    /\ lost' = lost + 1
    /\ table' = [table EXCEPT !.fetch = Idle]
    /\ UNCHANGED <<page, issues, runs, submits, form, posts, viewed, seen, reading, cancelling>>

\* The details.  The queries are independent: each shows its own moment.
LoadExecution ==
    /\ "execution" \in reading
    /\ seen' = [seen EXCEPT ![viewed].execution = get_execution(viewed)]
    /\ reading' = reading \ {"execution"}
    /\ UNCHANGED <<page, issues, runs, submits, form, posts, table, viewed, cancelling, lost>>

LoadIssues ==
    /\ "issues" \in reading
    /\ seen' = [seen EXCEPT ![viewed].issues = get_execution_issues(viewed)]
    /\ reading' = reading \ {"issues"}
    /\ UNCHANGED <<page, issues, runs, submits, form, posts, table, viewed, cancelling, lost>>

canCancel(e) ==
    \/ page = "executions" /\ table.data # NotLoaded
       /\ e \in DOMAIN table.data /\ table.data[e] = "running"
    \/ page = "execution" /\ viewed = e /\ seen[e].execution = "running"

handleCancel(e) ==
    /\ canCancel(e) /\ e \notin cancelling
    /\ cancelling' = cancelling \cup {e}
    /\ UNCHANGED <<page, issues, runs, submits, form, posts, queryVars, lost>>

\* 400 when it has ended, 500 when it has not: SQLAlchemy 2 does not execute the
\* string "SELECT NOW()", and nothing was committed before it.
CancelRefused(e) ==
    /\ e \in cancelling
    /\ cancelling' = cancelling \ {e}
    /\ UNCHANGED <<page, issues, runs, submits, form, posts, queryVars, lost>>

-----------------------------------------------------------------------------
\* The form.

SelectDataset ==
    /\ page = "create"
    /\ form' = [form EXCEPT !.dataset = TRUE]
    /\ UNCHANGED <<page, issues, runs, submits, posts, queryVars, cancelling, lost>>

handleRuleToggle(q) ==
    /\ page = "create"
    /\ form' = [form EXCEPT !.rules = IF q \in @ THEN @ \ {q} ELSE @ \cup {q}]
    /\ UNCHANGED <<page, issues, runs, submits, posts, queryVars, cancelling, lost>>

handleSelectAllRules ==
    /\ page = "create"
    /\ form' = [form EXCEPT !.rules = IF @ = Rules THEN {} ELSE Rules]
    /\ UNCHANGED <<page, issues, runs, submits, posts, queryVars, cancelling, lost>>

Pending == \E s \in PostSlots : posts[s].here /\ posts[s].phase # "free"

canSubmit == form.dataset /\ form.rules # {} /\ ~Pending

handleSubmit(s) ==
    /\ page = "create" /\ canSubmit
    /\ posts[s].phase = "free" /\ \A t \in PostSlots : t < s => posts[t].phase # "free"
    /\ posts' = [posts EXCEPT ![s] = [phase |-> "sent", run |-> 0, here |-> TRUE]]
    /\ submits' = submits + 1
    /\ UNCHANGED <<page, issues, runs, form, queryVars, cancelling, lost>>

\* The request or its answer is lost, or 30 s are over while the rules run.
PostLost(s) ==
    /\ posts[s].phase \in {"sent", "running", "ok"} /\ lost < MaxLost
    /\ lost' = lost + 1
    /\ \E phase \in {"sent", "refused"} : posts' = [posts EXCEPT ![s].phase = phase]
    /\ UNCHANGED <<page, issues, runs, submits, form, queryVars, cancelling>>

\* The list is invalidated and, from whatever page, the details are opened.
Created(s) ==
    /\ posts[s].phase = "ok"
    /\ page' = "execution"
    /\ viewed' = posts[s].run
    /\ reading' \in {Missing(posts[s].run), Queries}
    /\ table' = IF page = "executions"
                THEN [table EXCEPT !.fetch = IF @ # Idle /\ table.data = NotLoaded THEN @ ELSE Asked,
                                   !.stale = TRUE]
                ELSE [table EXCEPT !.stale = TRUE]
    /\ posts' = [t \in PostSlots |-> IF t = s THEN NoPost ELSE [posts[t] EXCEPT !.here = FALSE]]
    /\ UNCHANGED <<issues, runs, submits, form, seen, cancelling, lost>>

\* An alert; the form stays as it is.
Refused(s) ==
    /\ posts[s].phase = "refused"
    /\ posts' = [posts EXCEPT ![s] = NoPost]
    /\ UNCHANGED <<page, issues, runs, submits, form, queryVars, cancelling, lost>>

-----------------------------------------------------------------------------
ExecutionAnswers ==
    \/ TableRead \/ TableArrives \/ TableFails \/ LoadExecution \/ LoadIssues
    \/ \E e \in DOMAIN runs : EndRun(e) \/ RunRaises(e) \/ CancelRefused(e)
    \/ \E s \in PostSlots : BeginRun(s) \/ PostLost(s) \/ Refused(s)

ExecutionMoves ==
    \/ SelectDataset \/ handleSelectAllRules \/ \E q \in Rules : handleRuleToggle(q)
    \/ \E e \in DOMAIN runs : handleCancel(e)

TableType(query) ==
    /\ DOMAIN query = {"data", "fetch", "stale"} /\ query.stale \in BOOLEAN
    /\ query.data = NotLoaded \/ IsTable(query.data)
    /\ query.fetch \in {Idle, Asked} \/ IsTable(query.fetch)

ExecutionsTypeOK ==
    /\ IsTable(runs)
    /\ submits \in Nat
    /\ form \in [dataset : BOOLEAN, rules : SUBSET Rules]
    /\ posts \in [PostSlots -> PostSet]
    /\ TableType(table)
    /\ viewed \in 0..MaxRuns
    /\ seen \in [1..MaxRuns -> SeenSet]
    /\ reading \subseteq Queries
    /\ cancelling \subseteq DOMAIN runs
=============================================================================
