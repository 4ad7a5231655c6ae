# GRIME verification project

TLA+ models of GRIME, the TLC runs that check them and the TLAPS proofs about them. GRIME
is a data-quality service: users upload tables, run validation rules on them, review the
issues that were found and apply fixes, which makes new versions of a table. A FastAPI
process (`src/api/app`) serves the requests over PostgreSQL and keeps tables as files; a
Next.js application (`src/frontend/src`) is what users see. Both halves are modelled.

Contents: [the system](#the-system), [what is hard](#what-is-hard-about-it),
[modules](#modules-and-the-code), [runs](#runs), [proofs](#proofs),
[outside the source](#what-is-assumed-about-code-outside-the-repository),
[observations](#observations), [not modelled](#what-is-not-modelled), [next](#what-could-come-next).

## The system

### Server

| Part | State | Operations |
| --- | --- | --- |
| Dataset version store: `services/dataset_fixes.py`, `services/data_quality.py` (corrections), `services/data_import.py`, `services/data_catalog_service.py` | tables `datasets`, `dataset_versions`, `fixes`, `version_journal`; files `<dataset>_v<number>.parquet` and `.csv` | upload, import, create a fix, apply fixes, apply corrections, list unapplied fixes, list the fixes of a version, walk the lineage |
| Rule execution: `routes/executions.py`, `services/enhanced_rule_engine.py`, `utils/parallel_executor.py`, quality metrics in `services/data_quality.py` | `executions`, `execution_rules`, `issues`, `data_quality_metrics` | run rules on a version (sequential or parallel), cancel, compute and cache metrics |
| Organization membership: `routes/auth/auth.py`, `auth.py` | `users`, `organization_members`, `organization_invites`; the role in a token | register, invite, accept, revoke, change a role, remove a member, check a role |
| Rules: `routes/rules.py`, `services/rule_versioning.py` | `rules` (family, version, `is_latest`) | create, list, delete and promote, update |
| Governance: `routes/access_requests.py`, `routes/compartments.py` | requests and their status; a tree of compartments with members | approve, reject, cancel; create, soft-delete, add and remove members |
| Issues: `routes/issues.py` | `issues.resolved`, `fixes` | fix, resolve, reopen |
| Sources and import: `services/data_source_service.py`, `services/data_import.py`, `routes/upload/upload.py` | `data_sources`, `data_catalog_entries`, datasets | save a source, sync, import, upload, delete |
| Guests: `services/guest.py`, `services/guest_cleanup.py` | `guest_usage`, the guest's user | log in, expire, clean up in a loop per process |
| Rule dependencies, middleware, session per request, validators, sandbox, storage, exports, search, AI, connectors, cache | see `PROJECT.json` | |

### Browser

| Part | State | Operations |
| --- | --- | --- |
| Session: `lib/api.ts` (the `ApiClient` singleton), `lib/auth.ts`, `proxy.ts`, `components/providers/auth-provider.tsx`, `useAuthenticatedApi`, `organization-switcher.tsx` | the NextAuth cookie, the session of `SessionProvider`, `ApiClient.token`, the guest timer | sign in and out, expire, switch organization, retry, reload |
| Rule builder: `app/rules/builder/page.tsx`, `components/rules/builder/*` | groups of blocks, the canvas, custom blocks in `localStorage`, two timers | some thirty handlers, drag and drop, two modes, serializer |
| Rule pages: `app/rules/*`, `RuleCreationWizard.tsx`, `lib/hooks/useRules.ts` | the React Query cache, the wizard's steps, mutations | list, create, test, edit, delete |
| Governance pages: `app/dashboard/requests`, `compartments`, `team` | lists, selections, dialogs, calls on their way | decide, cancel, create, invite, remove |
| Issues and executions: `app/issues/page.tsx`, `components/issues/*`, `app/executions/*` | a polled list, dialogs, bulk jobs, a form, details | fix, resolve, reopen, bulk runs, start a run |
| Data pages: `app/data/upload`, `app/data/datasets`, `app/data-sources/*` | a form, a list, a catalog, redirects by timer | upload, delete, save, sync, import |
| Dashboards, reports, search, settings, demonstration pages, layout | own inputs and queries | read and draw |

### How the parts interact

* **Shared tables.** The parts of the server meet in the database. A fix points to an
  issue and, once applied, to a version; an execution points to a version and reads its
  file; a deletion touches all of them. There are no row locks, and the isolation level is
  PostgreSQL's default, READ COMMITTED.
* **Shared files.** The engine, the corrections and the fixes find a version's file by its
  *number*, in three ways (`Loadable`, `LoadLatest` and `HasFile` in `DatasetVersions`).
* **Processes.** The production image runs two gunicorn workers
  (`docker/backend/Dockerfile:88-91`), the production simulation four with a timeout of
  120 s (`docker/compose/docker-compose.prod-sim.yml:54-62`). A handler that is `async def`
  without an await after its input runs to its end on its worker; synchronous handlers and
  dependencies - the role check above all - run in a thread pool.
* **Transactions.** A handler commits where it says so, often several times; what was
  flushed since is lost when it raises or the process dies, while files that were written
  stay.
* **Requests.** Every page talks through the one `ApiClient`. Its interceptor sends a
  request again after a network error, a timeout of 30 s or a 5xx, whatever the method
  (`lib/api.ts:110`), and signs out after a 401 (`lib/api.ts:152`). A page does not cancel
  its requests when it is left: their continuations run on, against state that is gone or
  against the cache.
* **Caches.** React Query holds lists across pages; a mutation invalidates keys, and a key
  matches when what it defines is equal.

## What is hard about it

`PROJECT.json` lists the hazards line by line. They fall into these groups, and each group
decided something in the models:

1. *Check-then-act without a lock or a unique constraint* (version numbers, unapplied fixes,
   invites, owner count, catalog entries, requests to decide, versions of a rule to delete). One
   action per query, commit and file access, or one for the reads and one for the commit.
2. *Commits in the middle of a request* (rule by rule in the engine; file, row, status in
   the version store; promotion before deletion of a rule). A request can be cut off between
   them (`Abandon`, `RunRaises`, `WorkerKilled`).
3. *Files and rows that are not in one transaction.* Files are a variable of their own.
4. *One of several items failing* (a fix, a rule of a run, an issue of a bulk job). What
   succeeds is chosen nondeterministically.
5. *Stale decisions.* A role checked before the body; the row a dialog was opened for; the
   token a request was sent with. The value that was read is part of the request's record.
6. *Lost and repeated requests.* A request can be lost before or after it took effect and
   is then sent again; a request that timed out is served beside its successor.
7. *Continuations of pages that are gone.* A call outlives its page (`live`), and does what
   the code still does then.
8. *Answers out of order.* Calls live in slots and are answered in any order.
9. *Things that must go on although other things end them* (the sign-out of a dead guest).
10. *Long sequences of legal calls.* Every action is enabled whenever the code accepts it.

## Modules and the code

| Module | Role |
| --- | --- |
| `VersionHistory` | abstract specification: what the version API promises of one dataset |
| `DatasetVersions`, `MCDatasetVersions` | the version store with its requests, rows and files |
| `DatasetVersionsProofs` | its invariants; one worker implements `VersionHistory` |
| `RuleExecution`, `MCRuleExecution`, `RuleExecutionProofs` | executions and quality metrics |
| `Membership`, `MCMembership`, `MembershipProofs` | members and invites of an organization |
| `ClientSession`, `MCClientSession` | session and token of a browser tab |
| `Arrays` | the array methods the builder's handlers are written with |
| `RuleGroups`, `RuleCanvas` | the two ways to build a rule, handler by handler |
| `RuleBuilder`, `MCRuleBuilder` | the builder page, composed of both |
| `BrowserProofs` | theorems about `RuleBuilder` and `ClientSession` |
| `RuleServer`, `RuleWizard` | the rules table; the wizard |
| `RuleCatalog`, `MCRuleCatalog`, `RuleCatalogProofs` | the rule pages over cache, requests, server and wizard |
| `AccessRequests`, `Compartments`, `TeamDesk` | three governance pages with their routes |
| `Governance`, `MCGovernance`, `GovernanceProofs` | one tab that visits them |
| `IssueDesk`, `ExecutionDesk` | the issues page and the execution pages with their routes |
| `Remediation`, `MCRemediation`, `RemediationProofs` | both, over one issues table |
| `DataDesk`, `MCDataDesk`, `DataDeskProofs` | upload, datasets, sources, catalogs |

`Arrays`, `RuleGroups`, `RuleCanvas`, `RuleServer` and `RuleWizard` are operators: what a handler makes
of a value. The composing modules hold the state and the actions. `AccessRequests`,
`Compartments`, `TeamDesk`, `IssueDesk` and `ExecutionDesk` have variables and actions of
their own and are instantiated by the module that composes them, which says what is mounted
and which variables a step of the other leaves alone.

### DatasetVersions

The state of one dataset. `versions` is the table in commit order (a position stands for
a row id), `fixRows` and `appliedIn` are `fixes` and its column `applied_in_version_id`,
`status` is `datasets.status`, `files` is the directory, and `job[w]` is the local state of
the request that worker `w` is running.

| Action | Code |
| --- | --- |
| `CreateFix` | `POST /issues/{id}/fix` (`routes/issues.py`) |
| `ReadFixes`, `LoadSource`, `PickNumber`, `SaveCsv`, `CommitFixes` | `POST /datasets/{id}/versions/apply-fixes`: `apply_fixes_and_create_version`, one action per query, file access and commit |
| `ReadLatest`, `LoadLatest`, `SaveParquet`, `CommitEdits` | `POST /datasets/{id}/apply-corrections`: `apply_corrections` |
| `SetStatus` | the commit both routes make after the service's |
| `Abandon` | the load raises, a commit fails, the process dies |
| `Uploaded`, `UploadNotSaved`, `FromCatalog` (in `Init`) | the ways an import leaves version 1 |

An *edit* is "write this value into this cell", the data of a version is the set of edits its
cells hold over the upload, and a fix is identified with the edit it stores. Several fixes may
be about one cell (`CellOf`); the query has no ORDER BY, so any of them may be the last one
written (`Written`). The issue's `resolved` flag, the journal and row counts are left out:
no request of the module reads them. `content` and `applied` in a row are history variables.

`VersionHistory` has no workers, files or half-done requests: a history that only grows,
numbered 1, 2, 3, ..., in which a version made from fixes is its parent with exactly those
fixes written in and a fix is used at most once.

### RuleExecution

`status`, `chosen`, `summary`, `ruleRows`, `issues` are the rows of each execution, `metrics`
the cached quality metrics. `StartRun` commits the row as `running`; `Load` chooses the
strategy; `RulePasses` and `RuleRaises` are one iteration, with its commit, of the sequential
loop; `FinishParallel` collects the results of the threads and commits once; `Finish` is the
last commit. `RunRaises` is an exception outside the loop's own `try`: the `except` branch puts
the tracked metrics into the summary, `json.dumps` raises on a `datetime`, the route rolls
back, and the row stays `running`. `WorkerKilled` is the timeout or a crash. `ReadForCancel`
and `Cancel` are the cancellation (a plain string that SQLAlchemy 2 refuses to execute),
`CheckCache`, `ReadRules`, `ReadIssues`, `CacheMetrics`, `MetricsFail` the computation of
metrics. Which cells a rule flags is nondeterministic. Metrics are symbolic - the rows they
are computed from: a rule counts with the rows it flagged in its own row, a row of the table as
clean if no issue read later is about it. `broken` is a history variable: how a run was cut off.

### Membership

`members` and `invites` are the tables; a deleted membership keeps its place with the role
`removed`. `req[q]` is a request: `Authenticate` is the role check in the thread pool, the
other actions are the queries and commits of the bodies, and `WorkerFree` makes bodies of one
worker exclude each other. `Lapse` is the passing of the seven days; nothing marks a late
invite until somebody uses its token (`Expire`). An UPDATE that meets no row raises
(`SetRole`), a DELETE that meets no row does not (`Delete`).

### ClientSession

One tab. `cookie`, `session` and `apiToken` are the three places that hold a token: the
NextAuth cookie, React's session and the singleton. `RunEffects` is the effect of
`useAuthenticatedApi` with the one that arms the guest timer; `hook` and `timer.for` are the
dependencies they last ran with. `StartLeaving` is `onForceSignout`; each activation
(`leaving[h]`) goes through `TimerFires`, `SignOutPosted` or `SignOutLost`, `SignedOut` and
`LeavePage`. `Send`, `AnswerOk`, `Answer401` (with `AuthenticationFails`), `AnswerLost` and
`HandledTimeout` are the interceptors. `SignIn`, `SignInReads`, `SignInEnters` and `AskSwitch`,
`SwitchGranted`, `SwitchRefused`, `SwitchUpdated` are the awaits of the two forms. `OpenPage`
includes the redirects of `proxy.ts`; `OtherTab` is another tab that signs in or out.
`GuestExpires`, `GuestCleanup` and `TokenDies` are what the server does meanwhile.

### RuleBuilder

`groups` is the array the simple mode edits, `nodes` and `edges` are React Flow's, `registry`,
`customBlockDefs` and `storage` are the three copies of the custom blocks (module variable,
page state, `localStorage`). An action is one event; `DragEnd(over)` is `onDragEnd` with
everything the pointer can be over, from the keyboard sensor's and the mouse's places
(`Places`). Buttons and inputs answer to the keyboard while something is dragged, so every handler
of the page may run during a drag (`Page`), and a drag may end on what is gone by then: the group
or block it holds, or all groups. The timers (`TestDone`, `HideAlert`) fire during drags and dialogs.
A block's inputs are the set of its fields that are not blank, its switches a set of flags;
ids are drawn in order, and `TotalBlocks` counts blocks where `BlockIds` collects their ids.
A visit, and every save of a custom block, adds to the registry; a deletion takes one type out of
it; only a reload starts it anew (`Revisit`, `ReloadPage`).
`filter` is `Keep`: the elements at a set of places, in the order of the places (`InOrder`), a
definition a proof can reason from; `MCRuleBuilder` has TLC compare it with `SelectSeq`, and
`TotalBlocks` with the sum of the lengths, on all short inputs.
`Save` is judged through `serializeToRule`.

### RuleCatalog

`rules` is the table; `cache[key]` an entry of React Query - data, whether it is stale and
what its fetch has been answered - with `invalidateQueries` and `partialMatchKey` as React
Query defines them. `create`, `tests[t]`, `delete`, `change` are the awaited calls of the pages;
`CreateLost`, `TestLost`, `DeletionLost` are answers that never come, each followed by the
interceptor's next attempt, `DeletionRefused` a 4xx, which a test swallows. A test belongs to the
mounted step (`wizard.testing`): who leaves the step and comes back can start another beside it.

`delete_rule` is a job of the worker that serves it: `DeletionStarts` reads the rule and
`is_latest`, `DeletionChooses` the previous version, `DeletionPromotes` commits the promotion,
`DeletionEnds` the deletion; `WorkerKilled` and `DeletionErrs` (the unique index refuses the
promotion, or its row is gone) end it earlier. Jobs of any number of workers interleave, also
those nobody of this tab waits for. `overlapped` is a history variable, the families two versions
of which were being deleted at the same time; `orphans` another, the temporary rules whose
test was lost, refused or reloaded. Every update or activation ends in a 500 (`ChangeFails`, see
[observations](#observations)), so a family of three versions is in `Init` only, as rows from
before the organization column became NOT NULL, with all ways to have named them. A creation is
one step: between its check and its insert a unique index decides.

### Governance

`page` says which of the pages in `Pages` is mounted; `OpenRequests`, `OpenCompartments` and
`OpenTeam` unmount one and mount another. A call is sent by a handler (`handleApprove`,
`handleConfirmDelete`, `handleRemoveMember`, ...), served, lost (`Lost`) or refused,
and its continuation (`Succeeds`, `Fails`) does what the code does *then*: show success,
close whatever dialog is open, clear the selection, reload. `Others`, `OthersManage` are
other people in the organization.

The routes of requests and of the team read, decide, and commit later, on several workers: `Look`
is the reads (`Open`, `Allowed`), `Serve` the commit, which writes whatever the row has become
(`Settle`, `Commit`), except that an UPDATE that meets no row raises (`Fruitless`). `deciding` and
`managing` hold what each handler has read. Handler `s` serves the call of slot `s`, the others
(`MaxTheirs`) serve other people, or what is left of a call whose answer was lost. `raced` and
`crossed` are history variables: the requests and invitations that two handlers have found pending
at the same time. A route of the compartments is one step.

### Remediation

A fix, a reopening or a bulk run of the issues page is a *job*: requests one after another,
answers counted (`Answered`, `NextIssue`), then the refresh (`RefreshEnds`). `list` is the
polled query. `handleSubmit` posts an execution, whose answer comes when the rules have run;
`PostLost` is the time-out after which the client posts again while the first run goes on
(`BeginRun`, `EndRun`, `RunRaises`). A run that raised stays `running` (`stuck`; `RuleExecution`
says why). `viewed` is what a job's closure knows of the details: the issue selected at the click
was its own. `ExecutionDesk`'s queries of list, execution and issues
arrive one by one. `OthersResolve` is another member. `fixes` is the number of rows in the table
of fixes: a row is only ever added, and the page does not read which issue it is about.

### DataDesk

`datasets`, `sources`, `entries` are the tables; `form`, `table`, `card`, `detail` the state of
the four pages; `calls` their requests; `redirects` the armed `setTimeout`s. The checks of
`import_file` and `sync_catalog` and what they store are two actions (`Checks`, `Stored`):
these handlers run in threads or on other workers, and a repeated request runs beside the
first (`TimesOut`). `told` is a history variable: what a mutation reported while its list was
displayed.

## Runs

Every run has a configuration of its own in this directory. The sizes are distinct states.

| Run | Bounds | Shows |
| --- | --- | --- |
| `versions_two_workers` | 2 workers, 2 edits, 3 versions (1 118 260) | `TypeOK`, `LineageDescends`, `AppliedFixIsInItsVersion`, `VersionFileExists`, `NumbersDense`: whatever two workers do, rows stay consistent with each other and with the files |
| `versions_one_worker` | 1 worker, 3 edits, two of them for one cell, 3 versions (124 685) | `FixesShownAreFixesApplied`, `VersionsKeepTheirFile`, `ImplementsHistory` |
| `execution` | 1 run of 2 rules over 2 rows; 3 workers, one for the engine and two that measure or cancel the run meanwhile (221 424) | `TypeOK`, `OutcomeIsRecorded`, `RowsAgreeWithIssues`, `FinishedIsFinal`, `MetricsAddUp`: metrics cached at any time count no row as clean that a counted rule flagged; `RunsEnd` under fairness |
| `membership_one_worker` | 2 requests on 1 worker, 3 people, 2 invites, 4 memberships (562 k) | `OneMembershipPerUser`, `InviteesAreOutsiders`, `EachInviteAdmitsOne`, `InvitesSettleOnce`, `RemovalKeepsAnOwner` |
| `membership_two_workers` | 2 requests on 2 workers, 2 people (541 k) | `TypeOK`, `RemovedStaysRemoved` |
| `client_session` | 2 organizations and the guests' one, 2 tokens, 1 request and 1 sign-out at a time, 1 fault, 1 navigation (591 k) | `TypeOK`, `TokenMatchesSession`: the API client acts for the session on display or for nobody; `DeadGuestLeaves`: a guest whose time is up does not stay on the page |
| `rule_builder` | 4 ids (two groups of blocks, or a canvas of two nodes), 2 edits (548 k) | `BuilderTypeOK`, `RuleWellFormed`: ids address one thing each, there is a group to drop into, a saved canvas agrees with itself, and page, `localStorage` and registry know the same custom blocks (`PaletteAgrees`); `DragKeepsBlocks`: a drop loses and doubles nothing |
| `rule_catalog` | 2 names, 2 tests of the wizard, 2 workers, 5 rules with an old family of three versions, 1 fault, 2 navigations or changes by others, the second without a fault and outside of the wizard; tests overlap only where the old rule is gone (`Bounded`, 422 798) | `TypeOK`, `StepsBehindAreValid`, `TestRulesAreCleaned`: a temporary rule goes with its test, though two tests overlap; `FamilyHasLatest`: deletions of one version that are repeated, cut off or refused leave a latest one |
| `old_rule` | the same, 1 worker, no fault, 2 navigations | finds `OldRuleHasLatest` violated, see [observations](#observations) |
| `governance` | 2 requests, 3 compartments of 2 rows, a team of 3; 2 calls at once and one handler for others, 1 lost, 4 clicks, 1 act of others (934 474) | `TypeOK`, `SuccessIsTrue`: what the pages report as done is so, on several workers, unless two handlers had found the same thing pending; `RemovalStaysInSelection`: a removal ends a membership of the compartment selected at the click |
| `remediation` | 2 issues (symmetric), 1 rule, 2 runs, 2 jobs at once, 1 lost answer, 4 clicks (1 016 089) | `TypeOK`, `OnlyAskedFor`: nothing is made beyond what was asked for and what was lost; `SuccessesAreResolved` |
| `data_desk` | 3 contents, one of them unreadable, 3 datasets, 2 sources, 2 calls at once, 2 faults, 6 clicks (2.36 M) | `TypeOK`, `FreshListsAreCurrent`, `DroppedIsDeleted` |

**Why two workers and one.** Half of the server's properties hold however requests interleave; the
other half rely on a worker running one request at a time and are false with two. The pairs of runs
say which is which: `FixesShownAreFixesApplied`, `VersionsKeepTheirFile`, `ImplementsHistory`,
`OneMembershipPerUser`, `InviteesAreOutsiders`, `EachInviteAdmitsOne`, `InvitesSettleOnce` and
`RemovalKeepsAnOwner` are claimed for one worker, as in the development image, which starts one
process (`docker/backend/Dockerfile:55`); what is left of them there is the look-ups, the lapse of
invites, roles that go stale in the thread pool, retries and crashes, and their races in production
are [observations](#observations). `RuleCatalog` and `Governance` assume nothing of the number of
workers: their history variables say exactly which two handlers must have overlapped for a promise
of the code to fail.

**Why the bounds are enough.** A race in the handlers is between one request's read and another's
commit, so two concurrent requests show it; more would only add a third that sees the result. Three
versions are the first with a version made concurrently with another on top of a common one, and a
fourth request that finds both. Two rules give one that passes and one that fails, and
`MinRulesForParallel = 2` makes both strategies possible. Two runs share no row and no file they
write, so one is enough, with a worker that runs it and two that meet on it. Two invites are the
smallest number with which an invite can be made while another is being settled. Three versions of a
rule are the least with which the deletions of two can leave a third that neither promoted.

On the pages a hazard needs a call that is on its way, a second thing that happens meanwhile and a
continuation: two calls, one loss, and as many clicks as it takes to send, close, open for something
else and send again (four, opening the page among them; six on the data pages, where the way from
the sources to a catalog takes two). `ClientSession` needs two tokens, so that an answer to a
request under one can arrive under the other; one fault and one reload are what separates the cases
(with none, `SignOutLost` and a reload in the middle of a sign-out cannot happen). Two groups are
the least to drag between; a third id in each shows a copy that shares parts with its original. The
proofs remove these bounds for everything that is proved.

`MaxVersions` ends behaviours of `DatasetVersions`, every run of `RuleExecution` is started at
most once, and the browser models have bounds on clicks, ids and losses, after which nothing
may be left to do; these switch off the deadlock check. `Membership` keeps it.

**Fairness.** Two specifications assume any. `RunsEnd` assumes `WF_vars(Engine(w))`: a worker
that has begun a run takes its next step. The engine is straight-line code on the worker's only
thread that waits for nothing but the database and its own thread pool. Runs that raise or are
killed are excluded by the property itself (`broken`): nothing in the code looks for them later.
`DeadGuestLeaves` assumes weak fairness of what the browser runs without anybody's help: the
first reading of the session, effects after a render, the redirect of the guard, the timer,
and the steps of a sign-out under way. A post that is answered by nothing fails in the end,
which is `SignOutLost`; the user, the network and the server's cleanup owe nothing.

Each property of a run has a *mutant* (`RuleWellFormed` has two) in the module it is about: a
variant of an action or operator with a plausible mistake, listed in `PROJECT.json`, under which TLC
finds the property violated.

## Proofs

TLAPS checks eight modules, about 15 000 obligations, for every value of the constants.
Assumptions are the named ones of each module (`ConstantsAssumption`, `BoundAssumption`, ...) and,
where stated, that there is one worker.

*DatasetVersionsProofs* (no assumption on workers). The five properties of
`versions_two_workers` are not inductive by themselves. `IndInv` adds what a request knows when it
reaches a step: the number it took is above its source's and all numbers below are taken
(`NumberSound`; then two requests with one number still leave the numbering dense, and a parent
always has a lower number), every fix it is going to mark has its cell covered by the data it
holds (`DataSound`), and the file it is going to name has been written (`FileSound`). These facts
survive the other workers' steps because rows are only added and files are never removed.

Its second half assumes one worker. `SerialInv` adds what only holds when nobody else commits
in between: the fixes of the request are still open, its number is `Len(versions) + 1`, its file
holds its data; rows are numbered by position, what the loader finds for a row is the row's
content, and there is never a CSV file for version 1, which the fallback of
`_load_dataset_version` would read. From it follow `Refinement` (`Spec => ImplementsHistory`;
`CommitFixes` is `VersionHistory!ApplyFixes`, `CommitEdits` is `Correct`, everything else a
stutter), `ShownIsApplied` and `FilesAreKept`.

*RuleExecutionProofs* (no assumption on workers). `OutcomeIsRecorded`, `RowsAgreeWithIssues` and
`FinishedIsFinal` follow from: at most one engine works on a run (`OneEngine`), a run has nothing
before it is started, and the counters of a running engine are those of the rows committed so
far (`RunSound`).

`CachedMetricsAddUp` (the property `MetricsAddUp`) is about metrics that are read while the engine
commits on another worker. Rows and issues agree at every commit (`AllAgree`) and are only added,
so the issues read later cover every row a rule read earlier had flagged (`ReadSound`), and what
was cached goes on adding up (`StillAddsUp`). That they are the metrics of the finished run
is not so, see [observations](#observations).

*MembershipProofs*. `TypeCorrect` and `RemovalIsFinal` hold for any distribution of requests over
workers. With one worker, `IndInv` adds that a request in a body still sees what it read: nobody
became a member or got another invite since the look-ups, the invite is still pending, the owners
are still more than one.

*BrowserProofs*, the rule builder. `RuleIsWellFormed`, `PalettesAgree`, `BuilderTypeCorrect` and
`DragsKeepBlocks`, for any block types, custom blocks, fields and switches and any bounds on ids,
edits and nodes, rest on one invariant, `BuilderInv` (TLC found it true on the run's instance first;
`PalettesAgree` is a part of `RuleIsWellFormed` stated by itself). `RuleOK` says more than the
property: group and block ids are apart from each other, across groups too, and none is beyond the
last one drawn; without that a copy or a new block could meet an id that is in use. `PaletteOK` is
`PaletteAgrees` with the types of the three copies; a visit keeps it because merging what is
registered already changes nothing (`MergeAgain`). `DragOK` says only that a drag holds an id once
drawn: the group or block may be gone by the time it ends, and a drop then leaves every block where
it is (`dropGroupOK`, `dropBlockOK`). `NoticesOK`
bounds the armed timers by the saves that armed them.

The argument goes from the arrays up. `InOrderEnumerates` shows that a finite set of places has an
increasing enumeration, and so that `Keep` takes elements and keeps their order (`KeepRearranges`).
The existence comes from the ranks of the places, a bijection, so no induction over the sequence is
needed. `IndexOfProperties` needs that ids are distinct, the serializer's `find` the first of
several edges (`LeastNatural`, from the library's well-founded order on the naturals).
`InsertAtProperties`, `RemoveAtProperties` and `ArrayMoveRearranges` do the same for the other
methods. Each method either rearranges distinct elements, changes one in place, or adds one with an
unused id; `BlocksChange`, `BlockArrives`, `BlocksRearranged`, `GroupsRearranged` and `GroupArrives`
lift that to groups of blocks, each handler is an instance (`removeBlockOK`, `dropBlockOK`, ...),
and each event of the page has a lemma (`AddGroupInv`, ..., `BuilderStep`). That ids are distinct
makes the blocks correspond to their ids, so a drop that keeps the ids keeps the number of blocks
(`BlocksCounted`). `ConditionsListed` compares the two sides that the serializer computes.

*BrowserProofs*, the session. `TypeCorrect` includes that every token held anywhere was issued.
`TokenIsOfSession` is inductive together with `HookOfPage`, which says when `hook` can be that of an
unmounted page: a new session arrives only after the effects of the one before have run, so either it
is the same session and its token is still right, or the effect has yet to run (`SessionArrives`).
The property speaks of pages whose effects have run, since between a render and its effects the two
do differ.

*RuleCatalogProofs*, for any number of workers and tests. `LatestSurvives` (`FamilyHasLatest`): the
invariant says of the old family that, as long as no two of its versions were being deleted at
once, all jobs about it are about one version (`Exclusive`), and that a latest version other than
this one is there before any of them deletes it (`LatestInv`): read with `is_latest` unset while
another row held it, or promoted, or found to be latest already (`ChosenSound`, `LatestKept`).
What a job has read stays true while the first version is there (`JobSound`); when that is deleted,
the others leave the family. Rules made since have one version. `WizardStepsValid`: a
wizard's inputs behind its step are valid, since every way to change an earlier input goes back to
it. `TemporaryRulesGo` needs that users' names and the tests' are apart, that a test past its
creation holds the id of its own rule (`CallsInv`), and that a worker that serves a test deletes
that test's rule and nobody else serves it (`Serves`); what a lost or refused request leaves is in
`orphans` at that step (`CleanOfResent`). `TypeCorrect` rests on that a creation is sent
from the last step, where validity of the first gives it a name (`SubmitNames`), and that the ids in
the cache, and with them the links, come from answers about rows that had an id (`AnswerTyped`,
`LinksTyped`).

*GovernanceProofs*. The invariant `IInv` has a part for each of the three pages, and the lemmas a
section for each, since a step of one leaves the others alone. `ReportsAreTrue` (`SuccessIsTrue`): a
call that was granted left the request decided, the row gone or the invite there
(`RequestCallSound`, `Done`), and these facts last. A removed membership stays so and invites are
only added whatever interleaves. A decided request and a revoked invite stay what they are unless
somebody read them as pending before and commits later, and then two handlers had found them pending
at once: while a handler holds a request that is not in `raced`, it is still pending and no other
holds it (`Begun`, `Committed`, `SettlesKept`; `TeamBegun`, `TeamCommitted` for invites). So it does
not matter how long the answer is on its way, how often a call is sent again or what others do.
`RemovalsKeepToSelection`: the row that the server ends is looked up in the compartment of the URL,
whatever members the page lists by then. `TypeCorrect` needs that calls and dialogs are about rows
that exist, which holds because rows are never taken out.

*RemediationProofs*. `CountedIsResolved`: once an issue is resolved no request makes it open again
(a reopened one is `reopened`, `Later`), and a job that was told `ok` is at an issue that the server
resolved before it answered (`JobSound`), whatever other jobs, runs and pages do in between.
`MadeAsAsked` (`OnlyAskedFor`) needs to know what is still owed: a job under way will make at most
as many fixes as it has left to send, a posted form at most one execution. `Balance` says that the
fixes and runs there are plus those due (`FixesDue`, `RunsDue`) are at most one more than was asked
for, submitted and lost; a request that is sent again after a loss pays with the loss. That an
execution is due once only needs that no two posts wait for the same one (`PostsSound`). It is
part of `Values`, which gives `TypeCorrect`.

*DataDeskProofs*. `DroppedStaysDeleted`: the handler takes the row out of the list *of the click*.
That is harmless because a deletion whose page is still there was clicked on a table that was
loaded and is not loaded again (`CallSound`, `OneList`), so what that list had dropped by then is
gone, and datasets are only ever marked as gone (`Later`). `FreshListsHold` (`FreshListsAreCurrent`):
every mutation that succeeds on display invalidates the key of its list, which marks it stale and
asks anew, so `ToldOK` says that what was told is on the server, in the answer that is on its way if
one was served since, and in the list if it is not stale; and rows are only added, which keeps this
true (`Grown`). `CallOK` is what a request needs for it that was answered or served twice.

Left to TLC alone: `RunsEnd` and `DeadGuestLeaves`, since liveness is beyond the prover, and the
violation of `old_rule`. Every other property of the runs is a theorem. That `Keep` is JavaScript's
`filter` also stays with TLC: a recursive definition such as `SelectSeq` needs induction over the
sequence, for which the library's theorems take operators as parameters that the provers cannot
instantiate.

## What is assumed about code outside the repository

Marked `external` in `PROJECT.json`, and taken from how the source uses it:

* NextAuth 4: `SessionProvider` reads the cookie on load and on focus, `update()` writes it and reads it
  back, `signOut` posts and then clears it. A fetch that is sent after a change is answered after
  the effects of that change (`EffectsRan`): a network round trip is longer than a render.
* React: effects run after the render in which their dependencies changed, in any order with events;
  `setState` on a page that is gone does nothing.
* React Query 5: `invalidateQueries` marks the entries whose key matches partially and fetches those on
  display again, cancelling a fetch under way unless it is the entry's first; entries go stale by time;
  mutations outlive their page, their hook-level callbacks run, the callbacks given to `mutate` do not.
* React Flow and dnd-kit: removing nodes through React Flow's change events removes their edges,
  `setNodes` does not; a drag ends over one of the drop targets or over none.
* PostgreSQL at READ COMMITTED with the constraints of the migrations.

## Observations

`old_rule` is a run: `DELETE /rules/{id}` says "If deleting the latest version, the previous version
is promoted to latest" (`routes/rules.py:234`). The previous version is looked for by
`rule_family_id` and `parent_rule_id`, and the foreign keys set both to NULL in the other versions
when the first version of a rule is deleted (`ondelete SET NULL`). After that no deletion promotes
anything: the versions left are in no list.

Met while modelling, and visible in the models. None of the rest is a property of a run, since
nothing in the code or its tests promises the contrary in so many words, but a maintainer may want
to look.

Server: two workers can take the same version number and write one file; versions from a catalog or
from corrections name a parquet file that apply-fixes refuses; a run that raised stays `running`, as
its error report cannot be serialized; metrics asked for during a run are cached for good, as its
final ones; deleting two versions of a rule at once can leave the third not latest; the promotion of
a version that has the name of the deleted one meets the unique index and ends in a 500, so the
newer of the two cannot be deleted while the older is there; deleting a rule asks for a user but
checks no role; two deciders of one request - or a revocation and an acceptance of one invitation -
are both told 200 if both read it as pending, and the last commit stands; a role change can demote
the last owner; two workers that accept one invite make its user a member twice, and two owners on
two workers can remove each other; a correction is written into a version while its fix stays listed
as unapplied; cancelling a run always fails; updating, activating or deactivating a rule always ends
in a 500 (`rule_versioning.py:59` leaves out the organization, which is NOT NULL); a sync sent twice
enters its tables twice, and a repeated POST makes two sources.

Browser: a switch of organization is granted but the session keeps its claims, so the next effect
restores the old token; a drop into an empty group does nothing; creating a rule does not refresh the
list, since the invalidated key has undefined page and size (`useRules.ts:38`); if the page is left
after a source was saved, an old answer can fill a list that counts as fresh; a sync during the first
fetch of a catalog shows an empty one; an import leads to `/executions/new`, which is the details page
of an execution `new`; the redirect after an upload fires on whatever page is open by then; the team
page shows viewers an error, since listing invites is for managers; the pages' retries make a second
execution when the first takes longer than 30 s.

## What is not modelled

* Dashboards, reports, exports, search, profile, settings and administration pages, the AI and
  connector pages, templates: they read and draw, or keep a form. `PROJECT.json` gives the reason
  for each group.
* Layout, landing page (`LiquidEther.tsx` is a shader), charts and the component library: graphics.
* Pure data work: type inference, validators, metric arithmetic. It has no state and is covered by
  unit tests; the models take any outcome.
* Rule dependencies: pure functions over a graph that no page can edit. The engine model takes the
  rules in any order.
* The browser key by which a guest session is found again, the rate limit's windows, the session
  that commits after the response, object storage and the deployment files, which contribute the
  number of workers and the timeout only.
* Within an import, its four commits and its file; the version journal that can keep a dataset from
  being deleted (`DataDesk` lets a deletion be refused).
* Two tabs: only `ClientSession` has another one, which shares the cookie. The other browser modules
  have other users instead.
* The team page's marker of the role change under way, which disables one row's menu only; the end of
  one change clears it for another that goes on (`app/dashboard/team/page.tsx:162`).
* Two workers that add one member to a compartment twice; the routes of `Compartments` are one step,
  and the page's property is about the row that a removal ends, which is read by its key.
* Texts, formats, roles of compartment members, admin notes and names: no property tells them apart.
* `POST .../apply-bulk-corrections`: its query names a column that does not exist, so it ends before
  any change.

## What could come next

1. Two tabs of one user on the rule and data pages, with a cache each.
2. The commits within an import, composed with `DatasetVersions` and deletion.
3. Guest sessions by browser key with the cleanup loop of several processes.
4. A refinement of the builder: both modes against one abstract rule, a set of conditions with
   the group each is in.
