----------------------------- MODULE RuleExecution -----------------------------
(***************************************************************************)
(* Executions of rules on a dataset version, and the quality metrics that  *)
(* are cached for them.                                                    *)
(*                                                                         *)
(* POST /executions runs the engine inside the request: it commits a row   *)
(* in state `running`, loads the data, runs the rules, commits their rows  *)
(* and issues and ends with a last commit.  GET .../quality-metrics reads  *)
(* those rows from another request.  As in DatasetVersions, a worker is    *)
(* one server process and runs one request at a time.                      *)
(***************************************************************************)
EXTENDS Integers, FiniteSets

CONSTANTS
    Workers,              \* the server processes
    Runs,                 \* the executions that are ever started
    Rules,                \* the active rules
    Rows,                 \* rows of the dataset a rule may flag
    MinRulesForParallel,  \* MIN_RULES_FOR_PARALLEL
    None                  \* no value

ASSUME ConstantsAssumption == MinRulesForParallel \in Nat \ {0}

VARIABLES
    \* database
    status,    \* executions.status, "none" before the row exists
    chosen,    \* the rules of a run (executions.total_rules counts them)
    summary,   \* executions.summary: [ok, failed, found] or None
    ruleRows,  \* rows of execution_rules: what each rule of a run reported
    issues,    \* rows of issues: [rule, row] per run
    metrics,   \* rows of data_quality_metrics: cached metrics per run, or None
    \* server
    job,       \* job[w]: the request worker w is running
    \* history
    broken     \* how a run was cut off: "no", "raised" or "killed"

records == <<status, chosen, summary, ruleRows, issues>>
vars == <<records, metrics, job, broken>>

Finished == {"succeeded", "partially_succeeded", "failed"}

Idle == [pc |-> "idle", run |-> None, todo |-> {}, ok |-> {}, failed |-> {},
         found |-> {}, seen |-> {}, dirty |-> {}]

At(w, pc) == job[w].pc = pc

\* Where a request is that runs the engine.
EnginePcs == {"load", "rules", "parallel"}

\* A row of execution_rules; `note` is set for a rule that failed.
RuleRow(rule, flagged, note) == [rule |-> rule, flagged |-> flagged, note |-> note]

\* The issues a rule creates.
Found(rule, flagged) == {[rule |-> rule, row |-> x] : x \in flagged}

\* compute_quality_metrics as a function of what it reads.  DQI depends on the
\* rows each rule flagged, CleanRowsPct on the rows with an issue.
NotAvailable == [dqi |-> {}, dirty |-> {}]
Computed(rows, dirty) ==
    IF rows = {} THEN NotAvailable
    ELSE [dqi |-> {[rule |-> x.rule, flagged |-> x.flagged] : x \in rows}, dirty |-> dirty]

DirtyRows(r) == {i.row : i \in issues[r]}

Init ==
    /\ status = [r \in Runs |-> "none"]
    /\ chosen = [r \in Runs |-> {}]
    /\ summary = [r \in Runs |-> None]
    /\ ruleRows = [r \in Runs |-> {}]
    /\ issues = [r \in Runs |-> {}]
    /\ metrics = [r \in Runs |-> None]
    /\ job = [w \in Workers |-> Idle]
    /\ broken = [r \in Runs |-> "no"]

(***************************************************************************)
(* POST /executions.                                                       *)
(***************************************************************************)

\* Mutant: the row of the execution is left to the first rule's commit.
StartRunUncommitted(w, r) ==
    /\ At(w, "idle")
    /\ status[r] = "none"
    /\ \E rules \in (SUBSET Rules) \ {{}} :
         /\ chosen' = [chosen EXCEPT ![r] = rules]
         /\ job' = [job EXCEPT ![w] = [Idle EXCEPT !.pc = "load", !.run = r, !.todo = rules]]
    /\ UNCHANGED <<status, summary, ruleRows, issues, metrics, broken>>

\* Picks the rules and commits the execution as running.
StartRun(w, r) ==
    /\ At(w, "idle")
    /\ status[r] = "none"
    /\ \E rules \in (SUBSET Rules) \ {{}} :
         /\ chosen' = [chosen EXCEPT ![r] = rules]
         /\ job' = [job EXCEPT ![w] = [Idle EXCEPT !.pc = "load", !.run = r, !.todo = rules]]
    /\ status' = [status EXCEPT ![r] = "running"]
    /\ UNCHANGED <<summary, ruleRows, issues, metrics, broken>>

\* Loads the data and chooses a strategy; the size of the data and the free
\* memory decide with the number of rules.
Load(w) ==
    /\ At(w, "load")
    /\ \/ job' = [job EXCEPT ![w].pc = "rules"]
       \/ /\ Cardinality(job[w].todo) >= MinRulesForParallel
          /\ job' = [job EXCEPT ![w].pc = "parallel"]
    /\ UNCHANGED <<records, metrics, broken>>

\* Mutant: the counter is only raised when the rule found something.
RulePassesUncounted(w) ==
    /\ At(w, "rules")
    /\ \E rule \in job[w].todo, flagged \in SUBSET Rows :
         LET r == job[w].run IN
         /\ ruleRows' = [ruleRows EXCEPT ![r] = @ \cup {RuleRow(rule, flagged, FALSE)}]
         /\ issues' = [issues EXCEPT ![r] = @ \cup Found(rule, flagged)]
         /\ job' = [job EXCEPT ![w].todo = @ \ {rule},
                               ![w].ok = IF flagged = {} THEN @ ELSE @ \cup {rule},
                               ![w].found = @ \cup Found(rule, flagged)]
    /\ UNCHANGED <<status, chosen, summary, metrics, broken>>

\* Mutant: the issues are kept for the last commit, which does not write them.
RulePassesWithoutIssues(w) ==
    /\ At(w, "rules")
    /\ \E rule \in job[w].todo, flagged \in SUBSET Rows :
         /\ ruleRows' = [ruleRows EXCEPT ![job[w].run] =
                            @ \cup {RuleRow(rule, flagged, FALSE)}]
         /\ job' = [job EXCEPT ![w].todo = @ \ {rule}, ![w].ok = @ \cup {rule},
                               ![w].found = @ \cup Found(rule, flagged)]
    /\ UNCHANGED <<status, chosen, summary, issues, metrics, broken>>

\* _execute_rules_sequential: one rule, with its issues, in one commit.
RulePasses(w) ==
    /\ At(w, "rules")
    /\ \E rule \in job[w].todo, flagged \in SUBSET Rows :
         LET r == job[w].run IN
         /\ ruleRows' = [ruleRows EXCEPT ![r] = @ \cup {RuleRow(rule, flagged, FALSE)}]
         /\ issues' = [issues EXCEPT ![r] = @ \cup Found(rule, flagged)]
         /\ job' = [job EXCEPT ![w].todo = @ \ {rule}, ![w].ok = @ \cup {rule},
                               ![w].found = @ \cup Found(rule, flagged)]
    /\ UNCHANGED <<status, chosen, summary, metrics, broken>>

\* The validator raises: the row is committed with a note.
RuleRaises(w) ==
    /\ At(w, "rules")
    /\ \E rule \in job[w].todo :
         LET r == job[w].run IN
         /\ ruleRows' = [ruleRows EXCEPT ![r] = @ \cup {RuleRow(rule, {}, TRUE)}]
         /\ job' = [job EXCEPT ![w].todo = @ \ {rule}, ![w].failed = @ \cup {rule}]
    /\ UNCHANGED <<status, chosen, summary, issues, metrics, broken>>

\* The final status from the two counters.
Verdict(ok, failed) ==
    CASE failed = {} -> "succeeded"
      [] failed # {} /\ ok # {} -> "partially_succeeded"
      [] OTHER -> "failed"

\* Mutant: the run is only closed when some rule succeeded.
FinishSuccessful(w) ==
    /\ At(w, "rules")
    /\ job[w].todo = {}
    /\ job[w].ok # {}
    /\ LET r == job[w].run IN
       /\ status' = [status EXCEPT ![r] = Verdict(job[w].ok, job[w].failed)]
       /\ summary' = [summary EXCEPT ![r] =
              [ok |-> job[w].ok, failed |-> job[w].failed, found |-> job[w].found]]
    /\ job' = [job EXCEPT ![w] = Idle]
    /\ UNCHANGED <<chosen, ruleRows, issues, metrics, broken>>

\* The last commit of a sequential run.
Finish(w) ==
    /\ At(w, "rules")
    /\ job[w].todo = {}
    /\ LET r == job[w].run IN
       /\ status' = [status EXCEPT ![r] = Verdict(job[w].ok, job[w].failed)]
       /\ summary' = [summary EXCEPT ![r] =
              [ok |-> job[w].ok, failed |-> job[w].failed, found |-> job[w].found]]
    /\ job' = [job EXCEPT ![w] = Idle]
    /\ UNCHANGED <<chosen, ruleRows, issues, metrics, broken>>

\* A parallel run: the threads only return results; rows, issues and the final
\* status are committed together.
FinishParallel(w) ==
    /\ At(w, "parallel")
    /\ \E ok \in SUBSET job[w].todo : \E flagged \in [ok -> SUBSET Rows] :
         LET r == job[w].run
             failed == job[w].todo \ ok
             found == UNION {Found(rule, flagged[rule]) : rule \in ok}
         IN  /\ ruleRows' = [ruleRows EXCEPT ![r] =
                    @ \cup {RuleRow(rule, flagged[rule], FALSE) : rule \in ok}
                      \cup {RuleRow(rule, {}, TRUE) : rule \in failed}]
             /\ issues' = [issues EXCEPT ![r] = @ \cup found]
             /\ status' = [status EXCEPT ![r] = Verdict(ok, failed)]
             /\ summary' = [summary EXCEPT ![r] =
                    [ok |-> ok, failed |-> failed, found |-> found]]
    /\ job' = [job EXCEPT ![w] = Idle]
    /\ UNCHANGED <<chosen, metrics, broken>>

\* An exception outside the loop's own try: the data cannot be loaded, or a
\* commit is refused.  The except branch puts the tracked metrics into the
\* summary, and json.dumps raises on their start time; so nothing is saved, the
\* route rolls back, and the database keeps what was committed before.
RunRaises(w) ==
    /\ job[w].pc \in EnginePcs
    /\ broken' = [broken EXCEPT ![job[w].run] = "raised"]
    /\ job' = [job EXCEPT ![w] = Idle]
    /\ UNCHANGED <<records, metrics>>

\* The process dies; gunicorn kills a worker that is silent for its timeout.
WorkerKilled(w) ==
    /\ job[w].pc \in EnginePcs
    /\ broken' = [broken EXCEPT ![job[w].run] = "killed"]
    /\ job' = [job EXCEPT ![w] = Idle]
    /\ UNCHANGED <<records, metrics>>

(***************************************************************************)
(* DELETE /executions/{id}.                                                *)
(***************************************************************************)

ReadForCancel(w, r) ==
    /\ At(w, "idle")
    /\ status[r] = "running"
    /\ job' = [job EXCEPT ![w] = [Idle EXCEPT !.pc = "cancel", !.run = r]]
    /\ UNCHANGED <<records, metrics, broken>>

\* Mutant: the cancellation as written would be if the statement ran: it sets
\* the status it read earlier to failed.
CancelBlindly(w) ==
    /\ At(w, "cancel")
    /\ status' = [status EXCEPT ![job[w].run] = "failed"]
    /\ job' = [job EXCEPT ![w] = Idle]
    /\ UNCHANGED <<chosen, summary, ruleRows, issues, metrics, broken>>

\* db.execute is given a plain string, which SQLAlchemy 2 refuses: the request
\* answers 500 before its commit.
Cancel(w) ==
    /\ At(w, "cancel")
    /\ job' = [job EXCEPT ![w] = Idle]
    /\ UNCHANGED <<records, metrics, broken>>

(***************************************************************************)
(* GET /executions/{id}/quality-metrics.                                   *)
(***************************************************************************)

\* A cached row is returned as it is; otherwise the metrics are computed.  The
\* status of the execution is not looked at.
CheckCache(w, r) ==
    /\ At(w, "idle")
    /\ status[r] # "none"
    /\ metrics[r] = None
    /\ job' = [job EXCEPT ![w] = [Idle EXCEPT !.pc = "readRules", !.run = r]]
    /\ UNCHANGED <<records, metrics, broken>>

ReadRules(w) ==
    /\ At(w, "readRules")
    /\ job' = [job EXCEPT ![w].pc = IF ruleRows[job[w].run] = {} THEN "cache" ELSE "readIssues",
                          ![w].seen = ruleRows[job[w].run]]
    /\ UNCHANGED <<records, metrics, broken>>

ReadIssues(w) ==
    /\ At(w, "readIssues")
    /\ job' = [job EXCEPT ![w].pc = "cache", ![w].dirty = DirtyRows(job[w].run)]
    /\ UNCHANGED <<records, metrics, broken>>

\* Mutant: the rows of the rules are fetched again when the score is computed.
CacheMetricsOfNow(w) ==
    /\ At(w, "cache")
    /\ metrics[job[w].run] = None
    /\ metrics' = [metrics EXCEPT ![job[w].run] = Computed(ruleRows[job[w].run], job[w].dirty)]
    /\ job' = [job EXCEPT ![w] = Idle]
    /\ UNCHANGED <<records, broken>>

\* Inserts the row; execution_id is unique, so a second insert is refused.
CacheMetrics(w) ==
    /\ At(w, "cache")
    /\ metrics[job[w].run] = None
    /\ metrics' = [metrics EXCEPT ![job[w].run] = Computed(job[w].seen, job[w].dirty)]
    /\ job' = [job EXCEPT ![w] = Idle]
    /\ UNCHANGED <<records, broken>>

\* The insert is refused, or the process dies.
MetricsFail(w) ==
    /\ job[w].pc \in {"readRules", "readIssues", "cache"}
    /\ job' = [job EXCEPT ![w] = Idle]
    /\ UNCHANGED <<records, metrics, broken>>

(***************************************************************************)
(* Specification.                                                          *)
(***************************************************************************)

\* The steps the engine takes once a run is started.
Engine(w) ==
    \/ Load(w)
    \/ RulePasses(w)
    \/ RuleRaises(w)
    \/ Finish(w)
    \/ FinishParallel(w)

QualityMetrics(w) == ReadRules(w) \/ ReadIssues(w) \/ CacheMetrics(w)

Next ==
    \E w \in Workers :
        \/ \E r \in Runs : StartRun(w, r) \/ ReadForCancel(w, r) \/ CheckCache(w, r)
        \/ Engine(w)
        \/ Cancel(w)
        \/ QualityMetrics(w)
        \/ RunRaises(w)
        \/ WorkerKilled(w)
        \/ MetricsFail(w)

Spec == Init /\ [][Next]_vars

\* A worker goes on with the request it has begun: the handler is straight-line
\* code on one thread and waits for nothing but the database.
FairSpec == Spec /\ \A w \in Workers : WF_vars(Engine(w))

--------------------------------------------------------------------------------
(***************************************************************************)
(* Properties.                                                             *)
(***************************************************************************)

Statuses == {"none", "running"} \cup Finished

RuleRowSet == [rule : Rules, flagged : SUBSET Rows, note : BOOLEAN]
IssueSet == [rule : Rules, row : Rows]
Summaries == [ok : SUBSET Rules, failed : SUBSET Rules, found : SUBSET IssueSet]
Metrics == [dqi : SUBSET [rule : Rules, flagged : SUBSET Rows], dirty : SUBSET Rows]

Pcs == {"idle", "cancel", "readRules", "readIssues", "cache"} \cup EnginePcs

Job == [pc : Pcs, run : Runs \cup {None}, todo : SUBSET Rules, ok : SUBSET Rules,
        failed : SUBSET Rules, found : SUBSET IssueSet, seen : SUBSET RuleRowSet,
        dirty : SUBSET Rows]

\* The type invariant; a request in progress belongs to a run that exists.
TypeOK ==
    /\ status \in [Runs -> Statuses]
    /\ chosen \in [Runs -> SUBSET Rules]
    /\ summary \in [Runs -> Summaries \cup {None}]
    /\ ruleRows \in [Runs -> SUBSET RuleRowSet]
    /\ issues \in [Runs -> SUBSET IssueSet]
    /\ metrics \in [Runs -> Metrics \cup {None}]
    /\ job \in [Workers -> Job]
    /\ broken \in [Runs -> {"no", "raised", "killed"}]
    /\ \A w \in Workers : ~At(w, "idle") =>
          job[w].run \in Runs /\ status[job[w].run] # "none"

\* The summary of a run that came to its end is what its rows say: every rule
\* that was chosen has one row, noted if and only if it failed, the issues are
\* those that were counted, and the status follows from them, whatever part
\* of the rows was committed early.
OutcomeIsRecorded ==
    \A r \in Runs :
        summary[r] # None =>
            /\ summary[r].ok \cup summary[r].failed = chosen[r]
            /\ {x \in ruleRows[r] : ~x.note} =
                 {RuleRow(rule, {i.row : i \in {j \in issues[r] : j.rule = rule}}, FALSE) :
                    rule \in summary[r].ok}
            /\ {x \in ruleRows[r] : x.note} = {RuleRow(rule, {}, TRUE) : rule \in summary[r].failed}
            /\ issues[r] = summary[r].found
            /\ status[r] = Verdict(summary[r].ok, summary[r].failed)

\* At every moment, also inside a run and after one that was cut off, a rule's
\* row and its issues agree: they are committed together.
RowsAgreeWithIssues ==
    \A r \in Runs :
        /\ \A x \in ruleRows[r] : x.flagged = {i.row : i \in {j \in issues[r] : j.rule = x.rule}}
        /\ \A i \in issues[r] : \E x \in ruleRows[r] : x.rule = i.rule

\* A finished run is final: no later step of any request changes its status,
\* rows or issues.
FinishedIsFinal ==
    [][\A r \in Runs : status[r] \in Finished =>
          /\ status'[r] = status[r]
          /\ ruleRows'[r] = ruleRows[r]
          /\ issues'[r] = issues[r]]_vars

\* m are metrics of a part of what is recorded of run r, and of one part for both scores:
\* what DQI counts was reported, and CleanRowsPct counts each row that DQI counts.
AddsUp(m, r) ==
    /\ \A x \in m.dqi : \E y \in ruleRows[r] : x.rule = y.rule /\ x.flagged = y.flagged
    /\ \A x \in m.dqi : x.flagged \subseteq m.dirty
    /\ m.dirty \subseteq DirtyRows(r)

\* Cached metrics add up, although the rules are read before the issues while
\* another worker commits both: no row that a counted rule flagged is counted as
\* clean, and nothing is counted that the run did not report.
MetricsAddUp == \A r \in Runs : metrics[r] # None => AddsUp(metrics[r], r)

\* A run that neither raises nor is killed ends, on every path through the
\* engine, with a final status.
RunsEnd ==
    \A r \in Runs : status[r] = "running" ~> (status[r] \in Finished \/ broken[r] # "no")
================================================================================
