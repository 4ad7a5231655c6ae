------------------------------ MODULE RuleCatalog ------------------------------
(***************************************************************************)
(* The rule pages of one browser tab (list, detail, versions, wizard), the  *)
(* React Query cache they share, and the requests they have in flight       *)
(* against the rules of RuleServer.  Deletions are served by workers, step  *)
(* by step and several at a time; the other requests by one step each.      *)
(*                                                                         *)
(* Mutations are not awaited by the pages that start them: a request goes   *)
(* on when its page is left, and its continuation runs then.  The response  *)
(* interceptor of the ApiClient sends a request again after a lost answer   *)
(* or a 500, POSTs too.                                                     *)
(***************************************************************************)
EXTENDS Integers, Sequences, FiniteSets, RuleServer, RuleWizard

CONSTANTS
    Names,      \* names a user gives to rules
    TestNames,  \* the `__test_<time>` names of wizard tests
    Tests,      \* wizard tests that run at once
    Workers,    \* workers that serve deletions
    MaxRules,   \* bound on the rules ever created
    MaxFaults,  \* bound on lost answers, refusals, killed workers and reloads
    MaxLeaves   \* bound on navigations, cache expiries and other users' changes

ASSUME ConstantsAssumption ==
    /\ Names \cap TestNames = {} /\ Blank \notin Names \cup TestNames
    /\ Tests \cap {NoTest, "page", "nobody"} = {}
    /\ MaxRules \in Nat /\ MaxRules >= 3 /\ MaxFaults \in Nat /\ MaxLeaves \in Nat

VARIABLES
    rules,      \* the table
    lastId,     \* ids given so far
    manager,    \* the user is owner or admin
    cache,      \* React Query's entry of each key
    path,       \* the page on display
    wizard,     \* the wizard of that page
    editing,    \* isEditing of the detail page
    create,     \* createRule.mutateAsync of the wizard
    tests,      \* each runTest of the wizard
    delete,     \* deleteRule.mutate of the list or the detail page
    change,     \* the update, activate or deactivate of the detail page or the list
    jobs,       \* the deletion each worker serves
    overlapped, \* history: families two versions of which were being deleted at once
    orphans,    \* history: temporary rules no test is going to delete any more
    faults, leaves

page == <<path, wizard, editing>>
calls == <<create, tests, delete, change>>
server == <<rules, lastId, jobs, overlapped>>
bounds == <<faults, leaves>>
vars == <<server, manager, cache, page, calls, orphans, bounds>>

MaxRetries == 2
RuleIds == 1..MaxRules

-----------------------------------------------------------------------------
\* QUERY_KEYS and the cache.  Without arguments `rules` leaves its page and size
\* undefined, which partialMatchKey compares like any other value.

rulesKey(pageNo, size) == <<"rules", pageNo, size>>
ruleKey(id) == <<"rule", id>>
ruleVersionsKey(id) == <<"rule-versions", id>>

Keys == {rulesKey("1", "20")} \cup {ruleKey(id) : id \in RuleIds}
          \cup {ruleVersionsKey(id) : id \in RuleIds}

partialMatchKey(key, filter) ==
    Len(filter) <= Len(key) /\ \A i \in DOMAIN filter : key[i] = filter[i]

\* data is the ids shown; `wait` is "asked" (on its way), or what was served.
NoEntry == [known |-> FALSE, data |-> {}, stale |-> FALSE, error |-> FALSE,
            wait |-> "no", served |-> {}]

KeyOf(p) ==
    CASE p[1] = "list" -> {rulesKey("1", "20")}
      [] p[1] = "rule" -> {ruleKey(p[2])}
      [] p[1] = "versions" -> {ruleVersionsKey(p[2])}
      [] OTHER -> {}

Answer(key) ==
    CASE key[1] = "rules" -> list_rules(rules)
      [] key[1] = "rule" -> {key[2]} \cap DOMAIN rules
      [] key[1] = "rule-versions" -> get_rule_versions(rules, key[2])

\* A page that mounts asks for its query unless it is cached and fresh.
Mounted(c, p) ==
    [key \in Keys |->
        IF key \in KeyOf(p) /\ (~c[key].known \/ c[key].stale) /\ c[key].wait = "no"
        THEN [c[key] EXCEPT !.wait = "asked"]
        ELSE c[key]]

\* invalidateQueries: matching entries are stale, and asked for anew on display; the
\* first fetch of an entry is not given up for that.
invalidateQueries(c, filter) ==
    [key \in Keys |->
        IF partialMatchKey(key, filter) /\ c[key] # NoEntry
        THEN [c[key] EXCEPT !.stale = TRUE,
                            !.wait = IF key \in KeyOf(path) /\ (c[key].known \/ @ = "no")
                                     THEN "asked" ELSE @]
        ELSE c[key]]

\* onSuccess of useCreateRule, useUpdateRule, useDeleteRule and the toggles.
RefreshList(c) == invalidateQueries(c, rulesKey("undefined", "undefined"))

-----------------------------------------------------------------------------
Idle == [phase |-> "idle", rule |-> NoRule, name |-> Blank, tries |-> 0, from |-> <<"away">>]
Active(call) == call.phase # "idle"

\* The table before the column became NOT NULL may hold a rule of three versions.
OldVersion(n, v) == [name |-> n, family |-> 1, version |-> v, latest |-> v = 3]

OldRules ==
    {<<>>} \cup {<<OldVersion(a, 1), OldVersion(b, 2), OldVersion(c, 3)>> :
                       a \in Names, b \in Names, c \in Names}

Init ==
    /\ rules \in OldRules /\ lastId = 3
    /\ manager \in BOOLEAN
    /\ cache = [key \in Keys |-> NoEntry]
    /\ path = <<"away">> /\ wizard = initialState /\ editing = FALSE
    /\ create = Idle /\ tests = [t \in Tests |-> Idle] /\ delete = Idle /\ change = Idle
    /\ jobs = [w \in Workers |-> NoJob] /\ overlapped = {} /\ orphans = {}
    /\ faults = 0 /\ leaves = 0

Lose == faults < MaxFaults /\ faults' = faults + 1
Leave == leaves < MaxLeaves /\ leaves' = leaves + 1

\* The page p on display, with the state a new mount has.
GoTo(p, c) ==
    /\ path' = p
    /\ wizard' = initialState /\ editing' = FALSE
    /\ cache' = Mounted(c, p)

-----------------------------------------------------------------------------
\* Queries.

FetchServed(key) ==
    /\ cache[key].wait = "asked"
    /\ cache' = [cache EXCEPT ![key].wait = "served", ![key].served = Answer(key)]
    /\ UNCHANGED <<server, manager, page, calls, orphans, bounds>>

\* A 404 is an error that is not retried; what was shown before stays in data.
FetchArrives(key) ==
    /\ cache[key].wait = "served"
    /\ cache' = [cache EXCEPT ![key] =
           IF @.served = {} /\ key[1] # "rules"
           THEN [@ EXCEPT !.wait = "no", !.error = TRUE]
           ELSE [known |-> TRUE, data |-> @.served, stale |-> FALSE, error |-> FALSE,
                 wait |-> "no", served |-> {}]]
    /\ UNCHANGED <<server, manager, page, calls, orphans, bounds>>

\* Four attempts lost, each with its two retries.
FetchFails(key) ==
    /\ cache[key].wait # "no"
    /\ Lose
    /\ cache' = [cache EXCEPT ![key].wait = "no", ![key].error = TRUE, ![key].served = {}]
    /\ UNCHANGED <<server, manager, page, calls, orphans, leaves>>

\* staleTime passes; an entry that no page observes is collected in the end.
GoStale(key) ==
    /\ cache[key].known /\ Leave
    /\ cache' = [cache EXCEPT ![key] =
                    IF key \in KeyOf(path) \/ @.wait # "no" THEN [@ EXCEPT !.stale = TRUE]
                    ELSE NoEntry]
    /\ UNCHANGED <<server, manager, page, calls, orphans, faults>>

-----------------------------------------------------------------------------
\* Navigation.  The rows of the list and of the versions page link to rules.

Shown == UNION {cache[key].data : key \in {k \in KeyOf(path) : ~cache[k].error}}

Links ==
    {<<"list">>, <<"create">>, <<"away">>}
      \cup {<<"rule", id>> : id \in Shown}
      \cup {<<"versions", id>> : id \in IF path[1] = "list" THEN Shown ELSE {}}

OpenPage(p) ==
    /\ p \in Links /\ p # path /\ Leave
    /\ GoTo(p, cache)
    /\ UNCHANGED <<server, manager, calls, orphans, faults>>

Room == lastId < MaxRules
Grown(new) == lastId' = lastId + Cardinality(DOMAIN new \ DOMAIN rules)

\* The rules of the tests under way.
Tested == {tests[t].rule : t \in Tests} \ {NoRule}

\* The answers of the old document's requests are for nobody; a creation may still be
\* served.
Reload ==
    /\ Lose
    /\ \/ UNCHANGED rules /\ orphans' = orphans \cup Tested
       \/ /\ create.phase = "posting" /\ manager /\ Room
          /\ rules' = create_rule(rules, lastId + 1, create.name)
          /\ orphans' = orphans \cup Tested
       \/ /\ manager /\ Room
          /\ \E t \in Tests :
                tests[t].phase = "posting" /\ rules' = create_rule(rules, lastId + 1, tests[t].name)
          /\ orphans' = orphans \cup Tested \cup {lastId + 1}
    /\ Grown(rules')
    /\ path' = path /\ wizard' = initialState /\ editing' = FALSE
    /\ cache' = Mounted([key \in Keys |-> NoEntry], path)
    /\ create' = Idle /\ tests' = [t \in Tests |-> Idle] /\ delete' = Idle /\ change' = Idle
    /\ jobs' = [w \in Workers |-> [jobs[w] EXCEPT !.client = "nobody"]]
    /\ UNCHANGED <<manager, overlapped, leaves>>

\* Another user of the organization creates a rule.
OtherCreates ==
    /\ Leave /\ Room
    /\ \E name \in Names : rules' = create_rule(rules, lastId + 1, name)
    /\ Grown(rules')
    /\ UNCHANGED <<jobs, overlapped, manager, cache, page, calls, orphans, faults>>

-----------------------------------------------------------------------------
\* The wizard.

InWizard == path[1] = "create"

ChangeWizard ==
    /\ InWizard
    /\ \/ wizard' \in Inputs(wizard, Names)
       \/ wizard' = goNext(wizard)
       \/ wizard' = goBack(wizard)
       \/ \E step \in Steps : wizard' = goToStep(wizard, step)
    /\ UNCHANGED <<server, manager, cache, path, editing, calls, orphans, bounds>>

\* handleSubmit; the button is disabled while its own mutation is pending.
Submit ==
    /\ InWizard /\ wizard.step = ReviewStep /\ ~Active(create) /\ Room
    /\ create' = [Idle EXCEPT !.phase = "posting", !.name = wizard.name, !.from = path]
    /\ UNCHANGED <<server, manager, cache, page, tests, delete, change, orphans, bounds>>

\* router.push("/rules") runs wherever the user is by now.
CreateSucceeds ==
    /\ create.phase = "posting" /\ manager /\ ~NameTaken(rules, create.name) /\ Room
    /\ rules' = create_rule(rules, lastId + 1, create.name) /\ lastId' = lastId + 1
    /\ create' = Idle
    /\ GoTo(<<"list">>, RefreshList(cache))
    /\ UNCHANGED <<jobs, overlapped, manager, tests, delete, change, orphans, bounds>>

\* 403, 409, or the 500 of the unique index: the wizard stays as it is.
CreateFails ==
    /\ create.phase = "posting"
    /\ ~manager \/ NameTaken(rules, create.name)
    /\ create' = Idle
    /\ UNCHANGED <<server, manager, cache, page, tests, delete, change, orphans, bounds>>

Resend(call) ==
    IF call.tries < MaxRetries THEN [call EXCEPT !.tries = @ + 1] ELSE Idle

CreateLost ==
    /\ create.phase = "posting" /\ Lose /\ Room
    /\ \/ UNCHANGED rules
       \/ manager /\ rules' = create_rule(rules, lastId + 1, create.name)
    /\ Grown(rules')
    /\ create' = Resend(create)
    /\ UNCHANGED <<jobs, overlapped, manager, cache, page, tests, delete, change, orphans, leaves>>

-----------------------------------------------------------------------------
\* runTest creates a rule of its own, tests it, and deletes it in any case.  `testing`
\* belongs to the mounted step: whoever leaves it and comes back can start another.

SetTest(t, call) == tests' = [tests EXCEPT ![t] = call]

RunTest(t) ==
    /\ InWizard /\ wizard.step = TestStep /\ wizard.testing = NoTest
    /\ ~Active(tests[t]) /\ Room
    /\ \E name \in TestNames \ ({rules[id].name : id \in DOMAIN rules} \cup {tests[u].name : u \in Tests}) :
         SetTest(t, [Idle EXCEPT !.phase = "posting", !.name = name, !.from = path])
    /\ wizard' = [wizard EXCEPT !.testing = t]
    /\ UNCHANGED <<server, manager, cache, path, editing, create, delete, change, orphans, bounds>>

\* The outer finally, which a step that is gone does not notice.
TestEnds(t) ==
    /\ SetTest(t, Idle)
    /\ wizard' = [wizard EXCEPT !.testing = IF @ = t THEN NoTest ELSE @]

\* The test is over and its rule, if any, stays.
TestGivesUp(t) == TestEnds(t) /\ orphans' = orphans \cup ({tests[t].rule} \ {NoRule})

ResendTest(t) ==
    IF tests[t].tries < MaxRetries
    THEN SetTest(t, [tests[t] EXCEPT !.tries = @ + 1]) /\ UNCHANGED <<wizard, orphans>>
    ELSE TestGivesUp(t)

TestCreated(t) ==
    /\ tests[t].phase = "posting" /\ manager /\ ~NameTaken(rules, tests[t].name) /\ Room
    /\ rules' = create_rule(rules, lastId + 1, tests[t].name) /\ lastId' = lastId + 1
    /\ SetTest(t, [tests[t] EXCEPT !.phase = "testing", !.rule = lastId + 1, !.tries = 0])
    /\ UNCHANGED <<jobs, overlapped, manager, cache, page, create, delete, change, orphans, bounds>>

\* A refusal is shown as an error; the bound on rules reads as one.
TestRefused(t) ==
    /\ tests[t].phase = "posting"
    /\ ~(manager /\ ~NameTaken(rules, tests[t].name) /\ Room)
    /\ TestEnds(t)
    /\ UNCHANGED <<server, manager, cache, path, editing, create, delete, change, orphans, bounds>>

\* The creation is lost; if it was served, its repetition meets the name it gave.
TestLost(t) ==
    /\ tests[t].phase = "posting" /\ Lose
    /\ \/ UNCHANGED <<rules, lastId>> /\ ResendTest(t)
       \/ /\ manager /\ ~NameTaken(rules, tests[t].name) /\ Room
          /\ rules' = create_rule(rules, lastId + 1, tests[t].name) /\ lastId' = lastId + 1
          /\ SetTest(t, Resend(tests[t])) /\ orphans' = orphans \cup {lastId + 1}
          /\ wizard' = [wizard EXCEPT !.testing = IF @ = t /\ tests[t].tries = MaxRetries THEN NoTest ELSE @]
    /\ UNCHANGED <<jobs, overlapped, manager, cache, path, editing, create, delete, change, leaves>>

\* Mutant of TestRan: a test that fails is not cleaned up (no `finally`).
TestRanUncleaned(t) ==
    /\ tests[t].phase = "testing"
    /\ \/ SetTest(t, [tests[t] EXCEPT !.phase = "deleting", !.tries = 0])
       \/ SetTest(t, Idle)
    /\ UNCHANGED <<server, manager, cache, page, create, delete, change, orphans, bounds>>

\* The answer or an error; the inner finally deletes the rule.
TestRan(t) ==
    /\ tests[t].phase = "testing"
    /\ SetTest(t, [tests[t] EXCEPT !.phase = "deleting", !.tries = 0])
    /\ UNCHANGED <<server, manager, cache, page, create, delete, change, orphans, bounds>>

-----------------------------------------------------------------------------
\* Deletions are asked for by a test, by the page (from the menu of a row or from the
\* detail of a rule), or by others: nobody here waits for their answers.

OnDetail == path[1] = "rule" /\ Shown # {}

Delete(id) ==
    /\ id \in Shown /\ ~Active(delete)
    /\ path[1] = "list" \/ (OnDetail /\ ~editing)
    /\ delete' = [Idle EXCEPT !.phase = "deleting", !.rule = id, !.from = path]
    /\ UNCHANGED <<server, manager, cache, page, create, tests, change, orphans, bounds>>

Clients == Tests \cup {"page"}
CallOf(c) == IF c = "page" THEN delete ELSE tests[c]
Served(c) == \E w \in Workers : Busy(jobs[w]) /\ jobs[w].client = c
Waiting(c) == CallOf(c).phase = "deleting" /\ ~Served(c)

SetJob(w, job) == jobs' = [jobs EXCEPT ![w] = job]

\* What else is being deleted from the family of a rule.
Beside(id) == {w \in Workers : Busy(jobs[w]) /\ jobs[w].family = rules[id].family /\ jobs[w].rule # id}

LookAt(w, id, client) ==
    /\ ~Busy(jobs[w]) /\ id \in DOMAIN rules
    /\ SetJob(w, Looked(rules, id, client))
    /\ overlapped' = overlapped \cup (IF Beside(id) = {} THEN {} ELSE {rules[id].family})
    /\ UNCHANGED <<rules, lastId, manager, cache, page, calls, orphans, faults>>

DeletionStarts(w) ==
    \/ UNCHANGED leaves /\ \E c \in Clients : Waiting(c) /\ LookAt(w, CallOf(c).rule, c)
    \/ Leave /\ \E id \in DOMAIN rules : LookAt(w, id, "nobody")

DeletionChooses(w) ==
    /\ jobs[w].step = "looked"
    /\ SetJob(w, Chosen(rules, jobs[w]))
    /\ UNCHANGED <<rules, lastId, overlapped, manager, cache, page, calls, orphans, bounds>>

DeletionPromotes(w) ==
    /\ jobs[w].step = "chosen" /\ CanPromote(rules, jobs[w].previous)
    /\ rules' = promote_previous_version_to_latest(rules, jobs[w].previous)
    /\ SetJob(w, [jobs[w] EXCEPT !.step = "deleting"])
    /\ UNCHANGED <<lastId, overlapped, manager, cache, page, calls, orphans, bounds>>

\* The second commit.  mutate's own onSuccess runs only while its page is mounted.
DeletionEnds(w) ==
    LET client == jobs[w].client IN
    /\ jobs[w].step = "deleting"
    /\ rules' = delete_rule(rules, jobs[w].rule)
    /\ SetJob(w, NoJob)
    /\ \/ /\ client = "page" /\ delete' = Idle /\ UNCHANGED tests
          /\ IF path = delete.from /\ path[1] = "rule"
             THEN GoTo(<<"list">>, RefreshList(cache))
             ELSE cache' = RefreshList(cache) /\ UNCHANGED page
       \/ client \in Tests /\ TestEnds(client) /\ UNCHANGED <<delete, cache, path, editing>>
       \/ client = "nobody" /\ UNCHANGED <<delete, tests, cache, page>>
    /\ UNCHANGED <<lastId, overlapped, manager, create, change, orphans, bounds>>

\* What the interceptor does of a lost answer or a 500.
Resends(client) ==
    \/ client = "page" /\ delete' = Resend(delete) /\ UNCHANGED <<tests, wizard, orphans>>
    \/ client \in Tests /\ ResendTest(client) /\ UNCHANGED delete
    \/ client = "nobody" /\ UNCHANGED <<delete, tests, wizard, orphans>>

\* The commit of the promotion fails.
DeletionErrs(w) ==
    /\ jobs[w].step = "chosen" /\ ~CanPromote(rules, jobs[w].previous)
    /\ SetJob(w, NoJob) /\ Resends(jobs[w].client)
    /\ UNCHANGED <<rules, lastId, overlapped, manager, cache, path, editing, create, change, bounds>>

WorkerKilled(w) ==
    /\ Busy(jobs[w]) /\ Lose
    /\ SetJob(w, NoJob) /\ Resends(jobs[w].client)
    /\ UNCHANGED <<rules, lastId, overlapped, manager, cache, path, editing, create, change, leaves>>

\* The request or its answer is lost; what a worker has begun goes on.
DeletionLost(c) ==
    /\ CallOf(c).phase = "deleting" /\ Lose
    /\ jobs' = [w \in Workers |->
                   IF jobs[w].client = c THEN [jobs[w] EXCEPT !.client = "nobody"] ELSE jobs[w]]
    /\ Resends(c)
    /\ UNCHANGED <<rules, lastId, overlapped, manager, cache, path, editing, create, change, leaves>>

\* The row is gone: 404.
DeletionNotFound(c) ==
    /\ Waiting(c) /\ CallOf(c).rule \notin DOMAIN rules
    /\ \/ c = "page" /\ delete' = Idle /\ UNCHANGED <<tests, wizard>>
       \/ c \in Tests /\ TestEnds(c) /\ UNCHANGED delete
    /\ UNCHANGED <<server, manager, cache, path, editing, create, change, orphans, bounds>>

\* Any other 4xx (the token has expired, too many requests).  A test swallows it.
DeletionRefused(c) ==
    /\ Waiting(c) /\ Lose
    /\ \/ c = "page" /\ delete' = Idle /\ UNCHANGED <<tests, wizard, orphans>>
       \/ c \in Tests /\ TestGivesUp(c) /\ UNCHANGED delete
    /\ UNCHANGED <<server, manager, cache, path, editing, create, change, leaves>>

-----------------------------------------------------------------------------
\* Update, activate and deactivate.

Edit ==
    /\ OnDetail
    /\ editing' = ~editing
    /\ UNCHANGED <<server, manager, cache, path, wizard, calls, orphans, bounds>>

\* onSubmit with inputs that pass the schema and parse, handleActivateToggle, or
\* the toggle in the menu of a row.
Change ==
    /\ ~Active(change)
    /\ \E id \in Shown :
         /\ path[1] = "list" \/ OnDetail
         /\ change' = [Idle EXCEPT !.phase = "changing", !.rule = id, !.from = path]
    /\ UNCHANGED <<server, manager, cache, page, create, tests, delete, orphans, bounds>>

\* 403, 404 or the 500 of create_rule_version: onSuccess never runs, and the form
\* stays open.
ChangeFails ==
    /\ Active(change)
    /\ change' = Idle
    /\ UNCHANGED <<server, manager, cache, page, create, tests, delete, orphans, bounds>>

Next ==
    \/ \E key \in Keys : FetchServed(key) \/ FetchArrives(key) \/ FetchFails(key) \/ GoStale(key)
    \/ \E p \in Links : OpenPage(p)
    \/ Reload \/ OtherCreates
    \/ ChangeWizard \/ Submit \/ CreateSucceeds \/ CreateFails \/ CreateLost
    \/ \E t \in Tests : RunTest(t) \/ TestCreated(t) \/ TestRefused(t) \/ TestLost(t) \/ TestRan(t)
    \/ \E id \in RuleIds : Delete(id)
    \/ \E w \in Workers :
          \/ DeletionStarts(w) \/ DeletionChooses(w) \/ DeletionPromotes(w) \/ DeletionEnds(w)
          \/ DeletionErrs(w) \/ WorkerKilled(w)
    \/ \E c \in Clients : DeletionLost(c) \/ DeletionNotFound(c) \/ DeletionRefused(c)
    \/ Edit \/ Change \/ ChangeFails

Spec == Init /\ [][Next]_vars

-----------------------------------------------------------------------------
Pages == {<<"list">>, <<"create">>, <<"away">>}
           \cup {<<"rule", id>> : id \in RuleIds} \cup {<<"versions", id>> : id \in RuleIds}

RuleType == [name : Names \cup TestNames, family : 0..MaxRules, version : 1..3, latest : BOOLEAN]

CallType == [phase : {"idle", "posting", "testing", "deleting", "changing"},
             rule : 0..MaxRules, name : Names \cup TestNames \cup {Blank},
             tries : 0..MaxRetries, from : Pages]

EntryType == [known : BOOLEAN, data : SUBSET RuleIds, stale : BOOLEAN, error : BOOLEAN,
              wait : {"no", "asked", "served"}, served : SUBSET RuleIds]

WizardType == [step : Steps, name : Names \cup {Blank}, kinds : BOOLEAN, columns : BOOLEAN,
               rawJson : JsonTexts, useJsonMode : BOOLEAN, testing : Tests \cup {NoTest}]

JobType == [step : {"idle", "looked", "chosen", "deleting"}, rule : 0..MaxRules,
            family : 0..MaxRules, previous : 0..MaxRules, client : Clients \cup {"nobody"}]

TypeOK ==
    /\ DOMAIN rules \subseteq 1..lastId /\ \A id \in DOMAIN rules : rules[id] \in RuleType
    /\ lastId \in 3..MaxRules /\ manager \in BOOLEAN
    /\ cache \in [Keys -> EntryType]
    /\ path \in Pages /\ wizard \in WizardType /\ editing \in BOOLEAN
    /\ {create, delete, change} \subseteq CallType /\ tests \in [Tests -> CallType]
    /\ jobs \in [Workers -> JobType]
    /\ overlapped \subseteq 0..MaxRules /\ orphans \subseteq RuleIds
    /\ faults \in 0..MaxFaults /\ leaves \in 0..MaxLeaves

\* However deletions of one version are repeated, cut off by a killed worker or refused
\* by the unique index, a family has a latest version as long as it has its first
\* (delete_rule: "If deleting the latest version, the previous version is promoted to
\* latest"), unless two versions of it were being deleted at the same time.
FamilyHasLatest ==
    \A id \in DOMAIN rules :
        rules[id].family \notin overlapped \cup {NoRule}
            => \E x \in FamilyOf(rules, rules[id].family) : rules[x].latest

\* A rule is sent only with the inputs of every step still valid: whatever way the
\* user took through the steps, those behind the present one are.
StepsBehindAreValid ==
    \A step \in Steps : step < wizard.step => validateStep(wizard, step)

\* A temporary rule is there only while the test that created it runs (runTest: "Clean
\* up temporary rule"), whatever other tests run beside it and wherever the user goes
\* meanwhile, unless a request of that test was lost or refused or the page reloaded.
TestRulesAreCleaned ==
    \A id \in DOMAIN rules :
        rules[id].name \in TestNames =>
            id \in orphans \/ \E t \in Tests : Active(tests[t]) /\ tests[t].rule = id
================================================================================
