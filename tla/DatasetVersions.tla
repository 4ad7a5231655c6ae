---------------------------- MODULE DatasetVersions ----------------------------
(***************************************************************************)
(* The version store of one dataset: its rows in dataset_versions and      *)
(* fixes, its files in data/datasets, and the requests that add versions.  *)
(*                                                                         *)
(* A worker is one gunicorn process.  The handlers are `async def` bodies  *)
(* without an await, so a worker runs one request at a time to its end;    *)
(* two workers interleave at every query, file access and commit (READ     *)
(* COMMITTED, no row locks).  |Workers| = 1 is the development server,     *)
(* |Workers| > 1 the production image.                                     *)
(*                                                                         *)
(* An edit is "write this value into this cell".  The data of a version is *)
(* the set of edits its cells hold, written over the original upload.  A   *)
(* fix row stores one edit for an issue; several issues, and so several    *)
(* fixes, may be about one cell.                                           *)
(***************************************************************************)
EXTENDS Integers, Sequences

CONSTANTS
    Workers,      \* the server processes
    Edits,        \* the cell edits users can ask for
    CellOf,       \* CellOf[e]: the cell that edit e writes
    Staged,       \* the operator has put the original upload into uploads/
    MaxVersions   \* bound: no request starts once there are this many

ASSUME ConstantsAssumption ==
    /\ Staged \in BOOLEAN
    /\ MaxVersions \in Nat

VARIABLES
    \* database
    versions,   \* rows of dataset_versions in commit order; positions are ids
    fixRows,    \* edits with a row in fixes
    appliedIn,  \* fixes.applied_in_version_id, 0 for NULL
    status,     \* datasets.status
    \* data/datasets
    files,      \* <<format, version number>> -> data
    \* server
    job         \* job[w]: the request worker w is running

database == <<versions, fixRows, appliedIn, status>>
vars == <<database, files, job>>

(***************************************************************************)
(* Records.                                                                *)
(***************************************************************************)

\* `content` and `applied` are history: the data the request saved for this
\* version and the fixes it wrote in.
Version == [no : Nat, parent : Nat, path : {"none", "csv", "parquet"},
            content : SUBSET Edits, applied : SUBSET Edits]

Idle == [pc |-> "idle", src |-> 0, edits |-> {}, no |-> 0, df |-> {}]

Positions == DOMAIN versions
Numbers == {versions[i].no : i \in Positions}

\* Variants of NextNo used as mutants: the increment forgotten; the versions
\* counted instead of the highest number looked up.
NextNoNotIncremented == CHOOSE n \in Numbers : \A m \in Numbers : m <= n
NextNoByCount == Len(versions) + 1

\* func.max(version_no) + 1
NextNo == (CHOOSE n \in Numbers : \A m \in Numbers : m <= n) + 1

\* order_by(version_no.desc()).first(): ties are broken by the database
Latest == {i \in Positions : \A j \in Positions : versions[j].no <= versions[i].no}

\* Mutant: without the filter applied_in_version_id IS NULL.
UnappliedUnfiltered == fixRows

Unapplied == {f \in fixRows : appliedIn[f] = 0}

HasFile(format, no) == <<format, no>> \in DOMAIN files
Data(format, no) == files[<<format, no>>]

\* to_csv / to_parquet: creates the file or overwrites it
Saved(format, no, df) ==
    [k \in DOMAIN files \cup {<<format, no>>} |->
        IF k = <<format, no>> THEN df ELSE files[k]]

\* The data after writing `edits` into `df` one by one, in whatever order the
\* query or the request gives them: a cell keeps the edit written last.
Written(df, edits) ==
    {{e \in df : \A f \in edits : CellOf[f] # CellOf[e]} \cup last :
        last \in {l \in SUBSET edits :
                    /\ \A f \in edits : \E g \in l : CellOf[g] = CellOf[f]
                    /\ \A f, g \in l : CellOf[f] = CellOf[g] => f = g}}

\* What _load_dataset_version reads for a version, as a set with at most one
\* member: nothing when it raises (no file, or a format it does not read).
Loadable(v) ==
    CASE v.path # "none" /\ HasFile(v.path, v.no) ->
            IF v.path = "csv" THEN {Data("csv", v.no)} ELSE {}
      [] OTHER ->
            IF Staged THEN {{}}
            ELSE IF HasFile("csv", v.no) THEN {Data("csv", v.no)} ELSE {}

(***************************************************************************)
(* Initial states: the three ways an import leaves version 1.              *)
(***************************************************************************)

FirstVersion(path) ==
    <<[no |-> 1, parent |-> 0, path |-> path, content |-> {}, applied |-> {}]>>

FirstFile == [k \in {<<"parquet", 1>>} |-> {}]

\* import_file: version 1 committed, parquet saved, status committed
Uploaded == versions = FirstVersion("none") /\ files = FirstFile /\ status = "profiled"

\* import_file, save_dataset_file raised after version 1 was committed
UploadNotSaved == versions = FirstVersion("none") /\ files = <<>> /\ status = "uploaded"

\* import_catalog_entry: one commit, after the parquet was saved
FromCatalog == versions = FirstVersion("parquet") /\ files = FirstFile /\ status = "uploaded"

Init ==
    /\ Uploaded \/ UploadNotSaved \/ FromCatalog
    /\ fixRows = {}
    /\ appliedIn = [f \in Edits |-> 0]
    /\ job = [w \in Workers |-> Idle]

At(w, pc) == job[w].pc = pc

(***************************************************************************)
(* POST /issues/{id}/fix: one transaction.  It also marks the issue as     *)
(* resolved, a flag that no request of this module reads.                  *)
(***************************************************************************)

CreateFix(w, f) ==
    /\ At(w, "idle")
    /\ f \notin fixRows
    /\ fixRows' = fixRows \cup {f}
    /\ UNCHANGED <<versions, appliedIn, status, files, job>>

(***************************************************************************)
(* POST /datasets/{id}/versions/apply-fixes.                               *)
(***************************************************************************)

\* Reads the source version and those of the requested fixes not yet applied.
ReadFixes(w) ==
    /\ At(w, "idle")
    /\ Len(versions) < MaxVersions
    /\ \E src \in Positions, fixes \in (SUBSET Unapplied) \ {{}} :
          job' = [job EXCEPT ![w] =
                    [Idle EXCEPT !.pc = "load", !.src = src, !.edits = fixes]]
    /\ UNCHANGED <<database, files>>

\* Mutant: the fixes that could not be written are marked with the others.
LoadSourceMarkingAll(w) ==
    /\ At(w, "load")
    /\ \E old \in Loadable(versions[job[w].src]), done \in (SUBSET job[w].edits) \ {{}} :
         \E df \in Written(old, done) :
            job' = [job EXCEPT ![w].pc = "number", ![w].df = df]
    /\ UNCHANGED <<database, files>>

\* Loads the source and writes the fixes; a fix that cannot be written is
\* skipped, and the request goes on with the others.
LoadSource(w) ==
    /\ At(w, "load")
    /\ \E old \in Loadable(versions[job[w].src]), done \in (SUBSET job[w].edits) \ {{}} :
         \E df \in Written(old, done) :
            job' = [job EXCEPT ![w].pc = "number", ![w].edits = done, ![w].df = df]
    /\ UNCHANGED <<database, files>>

PickNumber(w) ==
    /\ At(w, "number")
    /\ job' = [job EXCEPT ![w].pc = "saveCsv", ![w].no = NextNo]
    /\ UNCHANGED <<database, files>>

\* Mutant: a failed write goes unnoticed.
SaveCsvUnnoticed(w) ==
    /\ At(w, "saveCsv")
    /\ files' \in {files, Saved("csv", job[w].no, job[w].df)}
    /\ job' = [job EXCEPT ![w].pc = "commitFixes"]
    /\ UNCHANGED database

SaveCsv(w) ==
    /\ At(w, "saveCsv")
    /\ files' = Saved("csv", job[w].no, job[w].df)
    /\ job' = [job EXCEPT ![w].pc = "commitFixes"]
    /\ UNCHANGED database

\* Mutant: the parent is taken to be the latest version.
CommitFixesOnLatest(w) ==
    /\ At(w, "commitFixes")
    /\ \E latest \in Latest : versions' = Append(versions,
          [no |-> job[w].no, parent |-> latest, path |-> "csv",
           content |-> job[w].df, applied |-> job[w].edits])
    /\ appliedIn' = [f \in Edits |->
                       IF f \in job[w].edits THEN Len(versions) + 1 ELSE appliedIn[f]]
    /\ job' = [job EXCEPT ![w].pc = "setStatus"]
    /\ UNCHANGED <<fixRows, status, files>>

\* One transaction: the version row, the marks on the fixes and the journal
\* entry (nothing reads the journal back, so it has no variable).  The
\* UPDATE of a fix does not look at its present mark.
CommitFixes(w) ==
    /\ At(w, "commitFixes")
    /\ versions' = Append(versions,
          [no |-> job[w].no, parent |-> job[w].src, path |-> "csv",
           content |-> job[w].df, applied |-> job[w].edits])
    /\ appliedIn' = [f \in Edits |->
                       IF f \in job[w].edits THEN Len(versions) + 1 ELSE appliedIn[f]]
    /\ job' = [job EXCEPT ![w].pc = "setStatus"]
    /\ UNCHANGED <<fixRows, status, files>>

(***************************************************************************)
(* POST /datasets/{id}/apply-corrections.                                  *)
(***************************************************************************)

\* Reads the latest version; its number decides the new one.
ReadLatest(w) ==
    /\ At(w, "idle")
    /\ Len(versions) < MaxVersions
    /\ \E src \in Latest, edits \in (SUBSET Edits) \ {{}} :
          job' = [job EXCEPT ![w] =
                    [pc |-> "loadLatest", src |-> src, edits |-> edits,
                     no |-> versions[src].no + 1, df |-> {}]]
    /\ UNCHANGED <<database, files>>

\* Loads the parquet file of that number, whatever the version's file_path.
LoadLatest(w) ==
    /\ At(w, "loadLatest")
    /\ HasFile("parquet", versions[job[w].src].no)
    /\ \E done \in (SUBSET job[w].edits) \ {{}} :
         \E df \in Written(Data("parquet", versions[job[w].src].no), done) :
            job' = [job EXCEPT ![w].pc = "saveParquet", ![w].edits = done, ![w].df = df]
    /\ UNCHANGED <<database, files>>

\* Mutant: the corrected data overwrites the file it was loaded from.
SaveParquetInPlace(w) ==
    /\ At(w, "saveParquet")
    /\ files' = Saved("parquet", job[w].no - 1, job[w].df)
    /\ job' = [job EXCEPT ![w].pc = "commitEdits"]
    /\ UNCHANGED database

SaveParquet(w) ==
    /\ At(w, "saveParquet")
    /\ files' = Saved("parquet", job[w].no, job[w].df)
    /\ job' = [job EXCEPT ![w].pc = "commitEdits"]
    /\ UNCHANGED database

\* One transaction: the version row and a fix row for each correction that
\* named an issue.  Neither is linked to the other.
CommitEdits(w) ==
    /\ At(w, "commitEdits")
    /\ versions' = Append(versions,
          [no |-> job[w].no, parent |-> 0, path |-> "parquet",
           content |-> job[w].df, applied |-> {}])
    /\ \E named \in SUBSET (job[w].edits \ fixRows) : fixRows' = fixRows \cup named
    /\ job' = [job EXCEPT ![w].pc = "setStatus"]
    /\ UNCHANGED <<appliedIn, status, files>>

(***************************************************************************)
(* The end of both requests.                                               *)
(***************************************************************************)

\* Mutant: a status that DatasetStatus does not have.
SetStatusToDone(w) ==
    /\ At(w, "setStatus")
    /\ status' = "done"
    /\ job' = [job EXCEPT ![w] = Idle]
    /\ UNCHANGED <<versions, fixRows, appliedIn, files>>

\* The route's own commit, after the service's.
SetStatus(w) ==
    /\ At(w, "setStatus")
    /\ status' = "cleaned"
    /\ job' = [job EXCEPT ![w] = Idle]
    /\ UNCHANGED <<versions, fixRows, appliedIn, files>>

\* The request ends early: the load raises, a commit fails and is rolled
\* back, or the process dies.  The open transaction is lost, files stay.
Abandon(w) ==
    /\ ~At(w, "idle")
    /\ job' = [job EXCEPT ![w] = Idle]
    /\ UNCHANGED <<database, files>>

ApplyFixes(w) ==
    ReadFixes(w) \/ LoadSource(w) \/ PickNumber(w) \/ SaveCsv(w) \/ CommitFixes(w)

ApplyCorrections(w) ==
    ReadLatest(w) \/ LoadLatest(w) \/ SaveParquet(w) \/ CommitEdits(w)

Next ==
    \E w \in Workers :
        \/ \E f \in Edits : CreateFix(w, f)
        \/ ApplyFixes(w)
        \/ ApplyCorrections(w)
        \/ SetStatus(w)
        \/ Abandon(w)

Spec == Init /\ [][Next]_vars

--------------------------------------------------------------------------------
(***************************************************************************)
(* Properties.                                                             *)
(***************************************************************************)

Pcs == {"idle", "load", "number", "saveCsv", "commitFixes",
        "loadLatest", "saveParquet", "commitEdits", "setStatus"}

Job == [pc : Pcs, src : Nat, edits : SUBSET Edits, no : Nat, df : SUBSET Edits]

\* The type invariant, with the foreign keys: a mark or a running request
\* points to an existing version, a running request works on existing fixes.
TypeOK ==
    /\ versions \in Seq(Version)
    /\ fixRows \subseteq Edits
    /\ appliedIn \in [Edits -> 0 .. Len(versions)]
    /\ status \in {"uploaded", "profiled", "cleaned"}
    /\ DOMAIN files \subseteq {"csv", "parquet"} \X Nat
    /\ \A k \in DOMAIN files : files[k] \subseteq Edits
    /\ job \in [Workers -> Job]
    /\ \A w \in Workers :
         /\ ~At(w, "idle") => job[w].src \in Positions
         /\ job[w].pc \in {"load", "number", "saveCsv", "commitFixes"} =>
              job[w].edits \subseteq fixRows

\* Following parent_version_id (get_version_lineage) always reaches a version
\* with a lower number that was committed earlier, so the walk ends, however
\* the requests of different workers interleave.
LineageDescends ==
    \A i \in Positions :
        versions[i].parent # 0 =>
            /\ versions[i].parent \in 1 .. (i - 1)
            /\ versions[versions[i].parent].no < versions[i].no

\* A fix marked as applied in a version was counted by the request that made
\* this version, and its cell there holds a value this request wrote; also when
\* some of the requested fixes could not be written and when requests overlap.
AppliedFixIsInItsVersion ==
    \A f \in Edits :
        appliedIn[f] # 0 =>
            LET v == versions[appliedIn[f]] IN
            /\ f \in v.applied
            /\ \E g \in v.applied \cap v.content : CellOf[g] = CellOf[f]

\* A version row that names a file is only visible once the file is there.
VersionFileExists ==
    \A i \in Positions :
        versions[i].path # "none" => HasFile(versions[i].path, versions[i].no)

\* Version numbers have no gap, even when two requests take the same number
\* and when requests are abandoned after picking one.
NumbersDense == \E n \in Positions : Numbers = 1 .. n

(***************************************************************************)
(* Promises of the comments and docstrings.                                *)
(***************************************************************************)

\* "Shows exactly which fixes were applied when this version was created."
\* (routes/processing.py:949, get_fixes_applied_in_version.)
FixesShownAreFixesApplied ==
    \A i \in Positions : {f \in Edits : appliedIn[f] = i} = versions[i].applied

\* "Path to the actual data file" (models.py:386): the file a version names
\* holds the data that was saved for this version.
VersionsKeepTheirFile ==
    \A i \in Positions :
        (versions[i].path # "none" /\ HasFile(versions[i].path, versions[i].no)) =>
            Data(versions[i].path, versions[i].no) = versions[i].content

(***************************************************************************)
(* With one worker the store implements the abstract history.              *)
(***************************************************************************)

\* The rows as VersionHistory sees them.
Recorded == [i \in Positions |->
                [no |-> versions[i].no, parent |-> versions[i].parent,
                 content |-> versions[i].content, applied |-> versions[i].applied]]

History == INSTANCE VersionHistory WITH history <- Recorded, usedIn <- appliedIn

\* Every step of a single-worker server is a step of VersionHistory or leaves
\* the history alone: versions are numbered by position, each made from its
\* source's data, and each fix is used once.
ImplementsHistory == History!Spec

================================================================================
