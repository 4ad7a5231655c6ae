------------------------------- MODULE DataDesk -------------------------------
(***************************************************************************)
(* How data gets in, in one browser tab: the upload page, the list of        *)
(* datasets, the data sources and the catalog of each, from which a table is *)
(* imported.  One page is on display; requests and timers of a page go on    *)
(* when it is left.  The lists of sources and catalogs are React Query's,    *)
(* the list of datasets is the page's own.                                   *)
(*                                                                         *)
(* The handlers that look before they write run in threads or in other       *)
(* workers: one checks while another has not written.  After 30 s the        *)
(* ApiClient sends a request again, although the first is still served.      *)
(*                                                                         *)
(* A source has one table.  The connectors share one form here; the test of  *)
(* a connection, names, row limits and upload progress are left out.         *)
(***************************************************************************)
EXTENDS Integers, Sequences, FiniteSets

CONSTANTS
    Contents,     \* what files hold
    BadFiles,     \* those that validateFile turns down
    TableContent, \* what the tables of the sources hold
    MaxDatasets,  \* bound on datasets
    MaxSources,   \* bound on data sources
    MaxEntries,   \* bound on catalog entries
    MaxCalls,     \* requests on their way at once
    MaxLost,      \* bound on lost requests and answers, and on timeouts
    MaxClicks     \* bound on clicks and on stale times that pass

ASSUME ContentAssumption ==
    /\ TableContent \in Contents \ BadFiles /\ BadFiles \subseteq Contents
    /\ "none" \notin Contents
ASSUME BoundAssumption ==
    /\ {MaxDatasets, MaxSources, MaxEntries} \subseteq Nat \ {0}
    /\ {MaxCalls, MaxLost, MaxClicks} \subseteq Nat

VARIABLES
    datasets,     \* rows: content, whether this user may delete it, gone
    sources,      \* number of data sources
    entries,      \* catalog entries: the source of each
    page,         \* <<name>>, or <<"source", id>>
    form,         \* UploadDataPage
    table,        \* DatasetsPage
    card,         \* ConnectorCard
    detail,       \* DataSourceCatalogPage
    cache,        \* React Query's entries
    calls,        \* requests of the pages
    redirects,    \* timers of uploads that were told
    told,         \* sources and catalogs that were made while their list was shown
    lost, clicks

server == <<datasets, sources, entries>>
desks == <<form, table, card, detail>>
vars == <<server, page, desks, cache, calls, redirects, told, lost, clicks>>

None == 0
Slots == 1..MaxCalls
SourceIds == 1..MaxSources
DatasetIds == 1..MaxDatasets
EntryIds == 1..MaxEntries

NewForm == [file |-> "none", uploading |-> FALSE, error |-> FALSE, success |-> FALSE]
NewTable == [rows |-> {}, loaded |-> {}, loading |-> TRUE, error |-> FALSE,
             dialog |-> FALSE, target |-> None, deleting |-> FALSE]
NewCard == [dialog |-> FALSE, saving |-> FALSE]
NewDetail == [importEntry |-> None, importing |-> FALSE]

\* about: a dataset, a source or an entry; found: what the handler's query saw;
\* shown: the rows of the table when it was asked; live: its page is still there;
\* heard: its answer is awaited.
NoCall == [op |-> "none", about |-> None, content |-> "none", phase |-> "free", found |-> FALSE,
           shown |-> {}, live |-> FALSE, heard |-> FALSE]

-----------------------------------------------------------------------------
\* QUERY_KEYS.dataSources and dataSourceCatalog, and the cache.

dataSources == <<"data-sources">>
dataSourceCatalog(id) == <<"catalog", id>>
Keys == {dataSources} \cup {dataSourceCatalog(id) : id \in SourceIds}

NoEntry == [known |-> FALSE, data |-> {}, stale |-> FALSE, wait |-> "no", served |-> {}]

KeysOf(p) ==
    CASE p[1] = "sources" -> {dataSources}
      [] p[1] = "source" -> {dataSourceCatalog(p[2])}
      [] OTHER -> {}

Mounted(c, p) ==
    [key \in Keys |-> IF key \in KeysOf(p) /\ c[key].wait = "no" /\ (~c[key].known \/ c[key].stale)
                      THEN [c[key] EXCEPT !.wait = "asked"] ELSE c[key]]

\* Mutant of invalidateQueries: a fetch on its way is left to arrive.
invalidateUnlessFetching(c, key) ==
    LET old == c[key] IN
    [c EXCEPT ![key] =
        IF old = NoEntry THEN old
        ELSE [old EXCEPT !.stale = TRUE,
                         !.wait = IF key \in KeysOf(page) /\ old.wait = "no" THEN "asked" ELSE old.wait]]

\* A key on display is asked for anew, in place of a fetch on its way unless that is
\* its first; another becomes stale until what is on its way arrives.
invalidateQueries(c, key) ==
    LET old == c[key] IN
    [c EXCEPT ![key] =
        IF old = NoEntry THEN old
        ELSE [old EXCEPT !.stale = TRUE,
                         !.wait = IF key \in KeysOf(page) /\ (old.known \/ old.wait = "no")
                                  THEN "asked" ELSE old.wait]]

list_data_sources == 1..sources
get_catalog_entries(id) == {e \in DOMAIN entries : entries[e] = id}

Answer(key) == IF key = dataSources THEN list_data_sources ELSE get_catalog_entries(key[2])

-----------------------------------------------------------------------------
Init ==
    /\ \E c \in Contents \ BadFiles, mine \in BOOLEAN : datasets = <<[content |-> c, mine |-> mine, gone |-> FALSE]>>
    /\ sources = 1 /\ entries \in {<<>>, <<1>>}
    /\ page = <<"away">>
    /\ form = NewForm /\ table = NewTable /\ card = NewCard /\ detail = NewDetail
    /\ cache = [key \in Keys |-> NoEntry]
    /\ calls = [s \in Slots |-> NoCall]
    /\ redirects = 0
    /\ told = {}
    /\ lost = 0 /\ clicks = 0

Click == clicks < MaxClicks /\ clicks' = clicks + 1

Lose == lost < MaxLost /\ lost' = lost + 1

Free(s) == calls[s].phase = "free" /\ \A t \in Slots : t < s => calls[t].phase # "free"

Start(s, call) ==
    /\ Free(s)
    /\ calls' = [calls EXCEPT ![s] = [call EXCEPT !.phase = "sent", !.live = TRUE, !.heard = TRUE]]

-----------------------------------------------------------------------------
\* Pages.

\* Mutant of Links: a source has its row while it is being saved.
LinksAtOnce ==
    {<<"upload">>, <<"datasets">>, <<"sources">>, <<"away">>}
      \cup {<<"source", id>> : id \in IF card.saving THEN {sources + 1} ELSE {}}

Links ==
    {<<"upload">>, <<"datasets">>, <<"sources">>, <<"away">>}
      \cup {<<"source", id>> : id \in IF page[1] = "sources" THEN cache[dataSources].data ELSE {}}

\* The requests the page leaves behind; a load does not outlive it.
Left(c) == [s \in Slots |-> IF c[s].op = "list" THEN NoCall ELSE [c[s] EXCEPT !.live = FALSE]]

\* Each page starts with new state; DatasetsPage loads when it mounts.
GoTo(p, c, left) ==
    /\ page' = p
    /\ form' = NewForm /\ table' = NewTable /\ card' = NewCard /\ detail' = NewDetail
    /\ cache' = Mounted(c, p)
    /\ IF p = <<"datasets">>
       THEN \E s \in Slots :
               /\ left[s].phase = "free" /\ \A t \in Slots : t < s => left[t].phase # "free"
               /\ calls' = [left EXCEPT ![s] = [NoCall EXCEPT !.op = "list", !.phase = "asked", !.live = TRUE]]
       ELSE calls' = left

OpenPage(p) ==
    /\ p \in Links /\ p # page /\ Click
    /\ GoTo(p, cache, Left(calls))
    /\ UNCHANGED <<server, redirects, told, lost>>

\* setTimeout of an upload: from whatever page by now.
Redirected ==
    /\ redirects > 0
    /\ redirects' = redirects - 1
    /\ IF page = <<"datasets">> THEN UNCHANGED <<page, desks, cache, calls>>
       ELSE GoTo(<<"datasets">>, cache, Left(calls))
    /\ UNCHANGED <<server, told, lost, clicks>>

-----------------------------------------------------------------------------
\* The upload page.  A file can be chosen or dropped at any time.

handleFileChange(c) ==
    /\ page = <<"upload">> /\ form.file # c /\ Click
    /\ form' = [form EXCEPT !.file = c, !.error = FALSE]
    /\ UNCHANGED <<server, page, table, card, detail, cache, calls, redirects, told, lost>>

handleUpload(s) ==
    /\ page = <<"upload">> /\ form.file # "none" /\ ~form.uploading /\ Click
    /\ IF form.file \in BadFiles
       THEN form' = [form EXCEPT !.error = TRUE] /\ UNCHANGED calls
       ELSE /\ Start(s, [NoCall EXCEPT !.op = "upload", !.content = form.file])
            /\ form' = [form EXCEPT !.uploading = TRUE, !.error = FALSE, !.success = FALSE]
    /\ UNCHANGED <<server, page, table, card, detail, cache, redirects, told, lost>>

-----------------------------------------------------------------------------
\* The list of datasets.

ListServed(s) ==
    /\ calls[s].op = "list" /\ calls[s].phase = "asked"
    /\ calls' = [calls EXCEPT ![s].phase = "ok",
                              ![s].shown = {d \in DOMAIN datasets : ~datasets[d].gone}]
    /\ UNCHANGED <<server, page, desks, cache, redirects, told, lost, clicks>>

loadDatasets(s) ==
    /\ calls[s].op = "list" /\ calls[s].phase = "ok"
    /\ table' = [table EXCEPT !.rows = calls[s].shown, !.loaded = calls[s].shown, !.loading = FALSE]
    /\ calls' = [calls EXCEPT ![s] = NoCall]
    /\ UNCHANGED <<server, page, form, card, detail, cache, redirects, told, lost, clicks>>

ListFails(s) ==
    /\ calls[s].op = "list" /\ Lose
    /\ table' = [table EXCEPT !.error = TRUE, !.loading = FALSE]
    /\ calls' = [calls EXCEPT ![s] = NoCall]
    /\ UNCHANGED <<server, page, form, card, detail, cache, redirects, told, clicks>>

AskDelete(d) ==
    /\ page = <<"datasets">> /\ ~table.loading /\ ~table.dialog /\ d \in table.rows /\ Click
    /\ table' = [table EXCEPT !.dialog = TRUE, !.target = d]
    /\ UNCHANGED <<server, page, form, card, detail, cache, calls, redirects, told, lost>>

\* Cancel is disabled while it deletes, Esc is not; the target stays.
CloseDelete ==
    /\ page = <<"datasets">> /\ table.dialog /\ Click
    /\ table' = [table EXCEPT !.dialog = FALSE]
    /\ UNCHANGED <<server, page, form, card, detail, cache, calls, redirects, told, lost>>

\* Mutant of handleDeleteDataset: the row goes before the answer comes.
DeleteAtOnce(s) ==
    /\ page = <<"datasets">> /\ table.dialog /\ ~table.deleting /\ Click
    /\ Start(s, [NoCall EXCEPT !.op = "delete", !.about = table.target, !.shown = table.rows])
    /\ table' = [table EXCEPT !.deleting = TRUE, !.rows = @ \ {table.target}]
    /\ UNCHANGED <<server, page, form, card, detail, cache, redirects, told, lost>>

\* The rows of this render are those the continuation filters.
handleDeleteDataset(s) ==
    /\ page = <<"datasets">> /\ table.dialog /\ ~table.deleting /\ Click
    /\ Start(s, [NoCall EXCEPT !.op = "delete", !.about = table.target, !.shown = table.rows])
    /\ table' = [table EXCEPT !.deleting = TRUE]
    /\ UNCHANGED <<server, page, form, card, detail, cache, redirects, told, lost>>

-----------------------------------------------------------------------------
\* The sources and the catalog of one.

OpenConnect(open) ==
    /\ page = <<"sources">> /\ card.dialog # open /\ Click
    /\ card' = [card EXCEPT !.dialog = open]
    /\ UNCHANGED <<server, page, form, table, detail, cache, calls, redirects, told, lost>>

handleSave(s) ==
    /\ page = <<"sources">> /\ card.dialog /\ ~card.saving /\ Click
    /\ Start(s, [NoCall EXCEPT !.op = "create"])
    /\ card' = [card EXCEPT !.saving = TRUE]
    /\ UNCHANGED <<server, page, form, table, detail, cache, redirects, told, lost>>

\* The button of a row or of the catalog page, disabled while its own sync is pending.
Syncing(id) == \E t \in Slots : calls[t].op = "sync" /\ calls[t].about = id /\ calls[t].live

handleSync(s, id) ==
    /\ \/ page = <<"sources">> /\ id \in cache[dataSources].data /\ ~card.dialog
       \/ page = <<"source", id>> /\ detail.importEntry = None
    /\ ~Syncing(id) /\ Click
    /\ Start(s, [NoCall EXCEPT !.op = "sync", !.about = id])
    /\ UNCHANGED <<server, page, desks, cache, redirects, told, lost>>

setImportEntry(e) ==
    /\ page[1] = "source" /\ Click
    /\ IF e = None THEN detail.importEntry # None
       ELSE detail.importEntry = None /\ e \in cache[dataSourceCatalog(page[2])].data
    /\ detail' = [detail EXCEPT !.importEntry = e]
    /\ UNCHANGED <<server, page, form, table, card, cache, calls, redirects, told, lost>>

handleImport(s) ==
    /\ page[1] = "source" /\ detail.importEntry # None /\ ~detail.importing /\ Click
    /\ Start(s, [NoCall EXCEPT !.op = "import", !.about = detail.importEntry, !.content = TableContent])
    /\ detail' = [detail EXCEPT !.importing = TRUE]
    /\ UNCHANGED <<server, page, form, table, card, cache, redirects, told, lost>>

FetchServed(key) ==
    /\ cache[key].wait = "asked"
    /\ cache' = [cache EXCEPT ![key].wait = "served", ![key].served = Answer(key)]
    /\ UNCHANGED <<server, page, desks, calls, redirects, told, lost, clicks>>

FetchArrives(key) ==
    /\ cache[key].wait = "served"
    /\ cache' = [cache EXCEPT ![key] = [known |-> TRUE, data |-> cache[key].served, stale |-> FALSE,
                                        wait |-> "no", served |-> {}]]
    /\ UNCHANGED <<server, page, desks, calls, redirects, told, lost, clicks>>

FetchFails(key) ==
    /\ cache[key].wait # "no" /\ Lose
    /\ cache' = [cache EXCEPT ![key].wait = "no", ![key].served = {}]
    /\ UNCHANGED <<server, page, desks, calls, redirects, told, clicks>>

\* LIST_STALE_TIME passes.
GoStale(key) ==
    /\ cache[key].known /\ ~cache[key].stale /\ Click
    /\ cache' = [cache EXCEPT ![key].stale = TRUE]
    /\ UNCHANGED <<server, page, desks, calls, redirects, told, lost>>

-----------------------------------------------------------------------------
\* The server.  Uploads and imports look for a dataset of the same content, a sync
\* for the entry of each table; then they write.

Answered(s, phase) ==
    calls' = [calls EXCEPT ![s] = IF @.heard THEN [@ EXCEPT !.phase = phase] ELSE NoCall]

SameContent(c) == \E d \in DOMAIN datasets : datasets[d].content = c /\ ~datasets[d].gone

\* Before their write, the three that check.
Checks(s) ==
    LET call == calls[s] IN
    /\ call.phase = "sent" /\ call.op \in {"upload", "import", "sync"}
    /\ calls' = [calls EXCEPT ![s].phase = "checked",
           ![s].found = IF call.op = "sync" THEN get_catalog_entries(call.about) # {}
                        ELSE SameContent(call.content)]
    /\ UNCHANGED <<server, page, desks, cache, redirects, told, lost, clicks>>

Stored(c) == Append(datasets, [content |-> c, mine |-> TRUE, gone |-> FALSE])

\* 409 for an upload; an import answers with the dataset that was there.
import_file(s) ==
    /\ calls[s].phase = "checked" /\ calls[s].op \in {"upload", "import"}
    /\ IF calls[s].found
       THEN UNCHANGED datasets /\ Answered(s, IF calls[s].op = "upload" THEN "refused" ELSE "ok")
       ELSE /\ Len(datasets) < MaxDatasets
            /\ datasets' = Stored(calls[s].content) /\ Answered(s, "ok")
    /\ UNCHANGED <<sources, entries, page, desks, cache, redirects, told, lost, clicks>>

sync_catalog(s) ==
    /\ calls[s].phase = "checked" /\ calls[s].op = "sync"
    /\ IF calls[s].found THEN UNCHANGED entries
       ELSE Len(entries) < MaxEntries /\ entries' = Append(entries, calls[s].about)
    /\ Answered(s, "ok")
    /\ UNCHANGED <<datasets, sources, page, desks, cache, redirects, told, lost, clicks>>

create_data_source(s) ==
    /\ calls[s].phase = "sent" /\ calls[s].op = "create" /\ sources < MaxSources
    /\ sources' = sources + 1
    /\ calls' = [calls EXCEPT ![s].phase = "ok", ![s].about = sources + 1]
    /\ UNCHANGED <<datasets, entries, page, desks, cache, redirects, told, lost, clicks>>

\* Another user's dataset is refused, one that is gone is not found.
delete_dataset(s) ==
    LET d == calls[s].about
        may == datasets[d].mine /\ ~datasets[d].gone
    IN
    /\ calls[s].phase = "sent" /\ calls[s].op = "delete"
    /\ datasets' = IF may THEN [datasets EXCEPT ![d].gone = TRUE] ELSE datasets
    /\ Answered(s, IF may THEN "ok" ELSE "refused")
    /\ UNCHANGED <<sources, entries, page, desks, cache, redirects, told, lost, clicks>>

\* The connector fails, or the server does.
Refused(s) ==
    /\ calls[s].op \in {"sync", "import", "create", "delete", "upload"} /\ calls[s].phase = "sent" /\ Lose
    /\ Answered(s, "refused")
    /\ UNCHANGED <<server, page, desks, cache, redirects, told, clicks>>

\* A lost request or answer is sent again.
Lost(s) ==
    /\ calls[s].phase \in {"sent", "ok", "refused"} /\ calls[s].op # "list" /\ Lose
    /\ calls' = [calls EXCEPT ![s].phase = "sent"]
    /\ UNCHANGED <<server, page, desks, cache, redirects, told, clicks>>

\* Sent again while the first is still served, whose answer nobody awaits.
TimesOut(s) ==
    /\ calls[s].phase = "checked" /\ calls[s].heard /\ Lose
    /\ \E t \in Slots :
          /\ Free(t)
          /\ calls' = [calls EXCEPT ![t] = [calls[s] EXCEPT !.heard = FALSE, !.live = FALSE],
                                    ![s].phase = "sent"]
    /\ UNCHANGED <<server, page, desks, cache, redirects, told, clicks>>

-----------------------------------------------------------------------------
\* Continuations.

Done(s) == calls' = [calls EXCEPT ![s] = NoCall]

\* The form is emptied, of a file chosen meanwhile too; the timer is set even when the
\* page is left.
Uploaded(s) ==
    /\ calls[s].op = "upload" /\ calls[s].phase = "ok"
    /\ redirects' = redirects + 1
    /\ form' = IF calls[s].live THEN [NewForm EXCEPT !.success = TRUE] ELSE form
    /\ Done(s)
    /\ UNCHANGED <<server, page, table, card, detail, cache, told, lost, clicks>>

\* The list becomes the one of the click without the row.
Deleted(s) ==
    /\ calls[s].op = "delete" /\ calls[s].phase = "ok"
    /\ table' = IF calls[s].live
                THEN [table EXCEPT !.rows = calls[s].shown \ {calls[s].about}, !.dialog = FALSE,
                                   !.target = None, !.deleting = FALSE]
                ELSE table
    /\ Done(s)
    /\ UNCHANGED <<server, page, form, card, detail, cache, redirects, told, lost, clicks>>

\* onSuccess of the mutations runs in any case, what the page awaits on the page only.
Learned(key, id) ==
    told' = IF key \in KeysOf(page) /\ cache[key].known THEN told \cup {<<key, id>>} ELSE told

Created(s) ==
    /\ calls[s].op = "create" /\ calls[s].phase = "ok"
    /\ cache' = invalidateQueries(cache, dataSources)
    /\ Learned(dataSources, calls[s].about)
    /\ card' = IF calls[s].live THEN NewCard ELSE card
    /\ Done(s)
    /\ UNCHANGED <<server, page, form, table, detail, redirects, lost, clicks>>

Synced(s) ==
    LET id == calls[s].about IN
    /\ calls[s].op = "sync" /\ calls[s].phase = "ok"
    /\ cache' = invalidateQueries(cache, dataSourceCatalog(id))
    /\ Learned(dataSourceCatalog(id), id)
    /\ Done(s)
    /\ UNCHANGED <<server, page, desks, redirects, lost, clicks>>

\* From any page to /executions/new, which is the page of an execution `new`.
Imported(s) ==
    /\ calls[s].op = "import" /\ calls[s].phase = "ok"
    /\ GoTo(<<"away">>, cache, Left([calls EXCEPT ![s] = NoCall]))
    /\ UNCHANGED <<server, redirects, told, lost, clicks>>

Fails(s) ==
    /\ calls[s].phase = "refused"
    /\ form' = IF calls[s].live /\ calls[s].op = "upload"
               THEN [form EXCEPT !.uploading = FALSE, !.error = TRUE] ELSE form
    /\ table' = IF calls[s].live /\ calls[s].op = "delete"
                THEN [table EXCEPT !.deleting = FALSE, !.error = TRUE] ELSE table
    /\ card' = [card EXCEPT !.saving = @ /\ ~(calls[s].live /\ calls[s].op = "create")]
    /\ detail' = [detail EXCEPT !.importing = @ /\ ~(calls[s].live /\ calls[s].op = "import")]
    /\ Done(s)
    /\ UNCHANGED <<server, page, cache, redirects, told, lost, clicks>>

-----------------------------------------------------------------------------
Clicks ==
    \/ \E p \in Links : OpenPage(p)
    \/ \E c \in Contents : handleFileChange(c)
    \/ \E d \in DOMAIN datasets : AskDelete(d)
    \/ CloseDelete
    \/ \E open \in BOOLEAN : OpenConnect(open)
    \/ \E e \in {None} \cup DOMAIN entries : setImportEntry(e)
    \/ \E s \in Slots :
          \/ handleUpload(s) \/ handleDeleteDataset(s) \/ handleSave(s) \/ handleImport(s)
          \/ \E id \in 1..sources : handleSync(s, id)

Queries == \E key \in Keys : FetchServed(key) \/ FetchArrives(key) \/ FetchFails(key) \/ GoStale(key)

Serves ==
    \E s \in Slots :
        \/ ListServed(s) \/ Checks(s) \/ import_file(s) \/ sync_catalog(s) \/ create_data_source(s)
        \/ delete_dataset(s) \/ Refused(s) \/ Lost(s) \/ TimesOut(s)

Continues ==
    \E s \in Slots :
        \/ loadDatasets(s) \/ ListFails(s) \/ Uploaded(s) \/ Deleted(s) \/ Created(s)
        \/ Synced(s) \/ Imported(s) \/ Fails(s)

Next == Clicks \/ Redirected \/ Queries \/ Serves \/ Continues

Spec == Init /\ [][Next]_vars

-----------------------------------------------------------------------------
RowSet == [content : Contents, mine : BOOLEAN, gone : BOOLEAN]

PageSet(n) ==
    {<<"away">>, <<"upload">>, <<"datasets">>, <<"sources">>} \cup {<<"source", id>> : id \in 1..n}

FormSet == [file : Contents \cup {"none"}, uploading : BOOLEAN, error : BOOLEAN, success : BOOLEAN]

TableSet == [rows : SUBSET DatasetIds, loaded : SUBSET DatasetIds, loading : BOOLEAN, error : BOOLEAN,
             dialog : BOOLEAN, target : {None} \cup DatasetIds, deleting : BOOLEAN]

CacheSet == [known : BOOLEAN, data : SUBSET (SourceIds \cup EntryIds), stale : BOOLEAN,
             wait : {"no", "asked", "served"}, served : SUBSET (SourceIds \cup EntryIds)]

CallSet == [op : {"none", "list", "upload", "delete", "create", "sync", "import"},
            about : {None} \cup DatasetIds \cup SourceIds \cup EntryIds,
            content : Contents \cup {"none"},
            phase : {"free", "asked", "sent", "checked", "ok", "refused"},
            found : BOOLEAN, shown : SUBSET DatasetIds, live : BOOLEAN, heard : BOOLEAN]

\* Rows, pages, dialogs, cache entries and requests keep to their values.
TypeOK ==
    /\ datasets \in Seq(RowSet) /\ Len(datasets) <= MaxDatasets
    /\ sources \in 1..MaxSources
    /\ entries \in Seq(1..sources) /\ Len(entries) <= MaxEntries
    /\ page \in PageSet(sources)
    /\ form \in FormSet
    /\ table \in TableSet
    /\ card \in [dialog : BOOLEAN, saving : BOOLEAN]
    /\ detail \in [importEntry : {None} \cup EntryIds, importing : BOOLEAN]
    /\ cache \in [Keys -> CacheSet]
    /\ calls \in [Slots -> CallSet]
    /\ redirects \in Nat /\ lost \in 0..MaxLost /\ clicks \in 0..MaxClicks

\* A source saved or a catalog synced while its list was shown is in that list
\* whenever the list counts as fresh: a fetch answered before the change does not
\* arrive after it (useDataSources.ts: onSuccess invalidates, which asks anew).
FreshListsAreCurrent ==
    \A t \in told :
        LET entry == cache[t[1]] IN
        entry.known /\ ~entry.stale /\ entry.wait = "no"
          => IF t[1] = dataSources THEN t[2] \in entry.data ELSE entry.data # {}

\* A dataset that the list no longer shows is deleted, although the list is the one of
\* the click and dialogs were closed, opened for other rows or refused meanwhile
\* (datasets/page.tsx: handleDeleteDataset).
DroppedIsDeleted == \A d \in table.loaded \ table.rows : datasets[d].gone
=============================================================================
