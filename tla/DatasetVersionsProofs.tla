------------------------ MODULE DatasetVersionsProofs ------------------------
(***************************************************************************)
(* Proofs about DatasetVersions for any set of workers, any set of edits   *)
(* and any bound; and, with one worker, that it implements VersionHistory. *)
(***************************************************************************)
EXTENDS DatasetVersions, SequenceTheorems, TLAPS

(***************************************************************************)
(* What a running request has established by the time it reaches a step.   *)
(***************************************************************************)

FixPcs == {"load", "number", "saveCsv", "commitFixes"}

Numbered == {"saveCsv", "commitFixes", "loadLatest", "saveParquet", "commitEdits"}

\* The number a request took is above its source's, and all below are taken.
NumberSound(w) ==
    job[w].pc \in Numbered =>
        /\ job[w].no \in Nat \ {0}
        /\ versions[job[w].src].no < job[w].no
        /\ 1 .. (job[w].no - 1) \subseteq Numbers

\* The cell of f holds in df a value that is one of `edits`.
Covered(f, edits, df) == \E g \in edits \cap df : CellOf[g] = CellOf[f]

\* The cell of what is about to be marked as applied holds, in the data about
\* to be committed, a value the request wrote.
DataSound(w) ==
    job[w].pc \in {"number", "saveCsv", "commitFixes"} =>
        \A f \in job[w].edits : Covered(f, job[w].edits, job[w].df)

\* The file a request is about to commit a row for has been written.
FileSound(w) ==
    /\ At(w, "commitFixes") => HasFile("csv", job[w].no)
    /\ At(w, "commitEdits") => HasFile("parquet", job[w].no)

JobsSound == \A w \in Workers : NumberSound(w) /\ DataSound(w) /\ FileSound(w)

\* The inductive invariant.
IndInv ==
    /\ TypeOK
    /\ JobsSound
    /\ LineageDescends
    /\ AppliedFixIsInItsVersion
    /\ VersionFileExists
    /\ NumbersDense

(***************************************************************************)
(* Facts about the operators.                                              *)
(***************************************************************************)

\* Appending a row keeps the rows before it.
LEMMA AppendRow ==
    ASSUME NEW s \in Seq(Version), NEW v \in Version
    PROVE  /\ Append(s, v) \in Seq(Version)
           /\ Len(Append(s, v)) = Len(s) + 1
           /\ DOMAIN s = 1 .. Len(s)
           /\ DOMAIN Append(s, v) = 1 .. (Len(s) + 1)
           /\ \A i \in DOMAIN s : Append(s, v)[i] = s[i] /\ s[i] \in Version
           /\ Append(s, v)[Len(s) + 1] = v
           /\ Len(s) \in Nat
  OBVIOUS

LEMMA OneRow ==
    ASSUME NEW r \in Version
    PROVE  <<r>> \in Seq(Version)
  OBVIOUS

\* When the numbers are 1 .. n, the next one is n + 1.
LEMMA NextNoOfDense ==
    ASSUME NEW n \in Nat \ {0}, Numbers = 1 .. n
    PROVE  NextNo = n + 1
<1> DEFINE P(m) == m \in Numbers /\ \A k \in Numbers : k <= m
<1>1. P(n)
  OBVIOUS
<1>2. \A m : P(m) => m = n
  OBVIOUS
<1>3. (CHOOSE m \in Numbers : \A k \in Numbers : k <= m) = n
  BY <1>1, <1>2
<1> QED
  BY <1>3 DEF NextNo

\* Written edits end up in the data, or a rival of theirs does.
LEMMA WrittenData ==
    ASSUME NEW old \in SUBSET Edits, NEW done \in SUBSET Edits, NEW df \in Written(old, done)
    PROVE  df \in SUBSET Edits /\ \A f \in done : Covered(f, done, df)
<1>1. PICK last \in SUBSET done :
        /\ \A f \in done : \E g \in last : CellOf[g] = CellOf[f]
        /\ df = {e \in old : \A f \in done : CellOf[f] # CellOf[e]} \cup last
  BY DEF Written
<1> QED
  BY <1>1 DEF Covered

\* Saving a file keeps every other file there is.
LEMMA SavedFile ==
    ASSUME NEW format \in {"csv", "parquet"}, NEW no \in Nat, NEW df \in SUBSET Edits, TypeOK
    PROVE  LET after == Saved(format, no, df)
           IN  /\ DOMAIN after = DOMAIN files \cup {<<format, no>>}
               /\ DOMAIN after \subseteq {"csv", "parquet"} \X Nat
               /\ \A k \in DOMAIN after : after[k] \subseteq Edits
  BY DEF Saved, TypeOK

\* A row appended to versions with a number that continues the numbering:
\* what it keeps and adds.
LEMMA NumbersAfterAppend ==
    ASSUME NEW v \in Version, versions \in Seq(Version), versions' = Append(versions, v)
    PROVE  Numbers' = Numbers \cup {v.no}
  BY AppendRow DEF Numbers, Positions

(***************************************************************************)
(* The invariant is inductive.                                             *)
(***************************************************************************)

\* The part of TypeOK about one worker's request.
RequestOK(w) ==
    /\ ~At(w, "idle") => job[w].src \in Positions
    /\ job[w].pc \in FixPcs => job[w].edits \subseteq fixRows

LEMMA InitIndInv == Init => IndInv
<1> SUFFICES ASSUME Init PROVE IndInv
  OBVIOUS
<1> USE DEF Init, Uploaded, UploadNotSaved, FromCatalog, FirstVersion, FirstFile
<1>1. /\ Len(versions) = 1 /\ Positions = {1} /\ versions \in Seq(Version)
      /\ versions[1].no = 1 /\ versions[1].parent = 0
      /\ versions[1].path # "none" =>
            versions[1].path = "parquet" /\ HasFile("parquet", 1)
  <2>1. PICK path \in {"none", "parquet"} :
          /\ versions = FirstVersion(path)
          /\ path # "none" => HasFile("parquet", 1)
    BY DEF HasFile
  <2>2. versions[1] \in Version /\ versions = <<versions[1]>> /\ Len(versions) = 1
    BY <2>1 DEF Version
  <2>3. versions \in Seq(Version)
    BY <2>2, OneRow
  <2> QED
    BY <2>1, <2>2, <2>3 DEF Positions
<1>2. Numbers = {1}
  BY <1>1 DEF Numbers
<1>3. \A w \in Workers : job[w] = Idle /\ Idle \in Job /\ Idle.pc = "idle"
  BY DEF Idle, Job, Pcs
<1>4. TypeOK
  <2>1. job \in [Workers -> Job]
    BY <1>3
  <2>2. /\ DOMAIN files \subseteq {"csv", "parquet"} \X Nat
        /\ \A k \in DOMAIN files : files[k] \subseteq Edits
    OBVIOUS
  <2>3. appliedIn \in [Edits -> 0 .. Len(versions)]
    BY <1>1
  <2> QED
    BY <1>1, <1>3, <2>1, <2>2, <2>3 DEF TypeOK, At
<1>5. JobsSound
  BY <1>3 DEF JobsSound, NumberSound, DataSound, FileSound, At, Numbered
<1>6. LineageDescends /\ AppliedFixIsInItsVersion /\ VersionFileExists
  BY <1>1 DEF LineageDescends, AppliedFixIsInItsVersion, VersionFileExists
<1>7. NumbersDense
  BY <1>1, <1>2 DEF NumbersDense
<1> QED
  BY <1>4, <1>5, <1>6, <1>7 DEF IndInv

\* A step of one request that leaves database and files alone.
LEMMA RequestStep ==
    ASSUME IndInv, NEW w \in Workers, NEW j \in Job,
           job' = [job EXCEPT ![w] = j],
           UNCHANGED <<database, files>>,
           RequestOK(w)', NumberSound(w)', DataSound(w)', FileSound(w)'
    PROVE  IndInv'
<1> USE DEF IndInv
<1>1. UNCHANGED <<versions, fixRows, appliedIn, status, files>>
  BY DEF database
<1>2. Positions' = Positions /\ Numbers' = Numbers
  BY <1>1 DEF Positions, Numbers
<1>3. \A u \in Workers : u # w => job'[u] = job[u]
  BY DEF TypeOK
<1>4. TypeOK'
  <2>1. job' \in [Workers -> Job]
    BY DEF TypeOK
  <2>2. \A u \in Workers : RequestOK(u)'
    BY <1>1, <1>2, <1>3 DEF TypeOK, RequestOK, At, FixPcs
  <2> QED
    BY <1>1, <2>1, <2>2 DEF TypeOK, RequestOK, At, FixPcs
<1>5. JobsSound'
  BY <1>1, <1>2, <1>3 DEF JobsSound, NumberSound, DataSound, FileSound, At, HasFile
<1>6. LineageDescends' /\ AppliedFixIsInItsVersion' /\ VersionFileExists' /\ NumbersDense'
  BY <1>1, <1>2 DEF LineageDescends, AppliedFixIsInItsVersion, VersionFileExists,
                    NumbersDense, HasFile
<1> QED
  BY <1>4, <1>5, <1>6

LEMMA CreateFixInv ==
    ASSUME IndInv, NEW w \in Workers, NEW f \in Edits, CreateFix(w, f)
    PROVE  IndInv'
<1> USE DEF IndInv
<1>1. UNCHANGED <<versions, appliedIn, status, files, job>> /\ fixRows' = fixRows \cup {f}
  BY DEF CreateFix
<1>2. Positions' = Positions /\ Numbers' = Numbers
  BY <1>1 DEF Positions, Numbers
<1>3. TypeOK'
  BY <1>1, <1>2 DEF TypeOK, At
<1>4. JobsSound'
  BY <1>1, <1>2 DEF JobsSound, NumberSound, DataSound, FileSound, At, HasFile
<1>5. LineageDescends' /\ AppliedFixIsInItsVersion' /\ VersionFileExists' /\ NumbersDense'
  BY <1>1, <1>2 DEF LineageDescends, AppliedFixIsInItsVersion, VersionFileExists,
                    NumbersDense, HasFile
<1> QED
  BY <1>3, <1>4, <1>5

LEMMA ReadFixesInv ==
    ASSUME IndInv, NEW w \in Workers, ReadFixes(w)
    PROVE  IndInv'
<1> USE DEF IndInv
<1>1. PICK src \in Positions, fixes \in (SUBSET Unapplied) \ {{}} :
        job' = [job EXCEPT ![w] =
                 [Idle EXCEPT !.pc = "load", !.src = src, !.edits = fixes]]
  BY DEF ReadFixes
<1> DEFINE j == [Idle EXCEPT !.pc = "load", !.src = src, !.edits = fixes]
<1>2. fixes \subseteq fixRows /\ fixRows \subseteq Edits /\ src \in Nat
  BY DEF Unapplied, TypeOK, Positions
<1>3. j \in Job /\ j.pc = "load" /\ j.src = src /\ j.edits = fixes
  BY <1>2 DEF Job, Pcs, Idle
<1>4. UNCHANGED <<database, files>> /\ job'[w] = j
  BY <1>1 DEF ReadFixes, TypeOK
<1>5. RequestOK(w)' /\ NumberSound(w)' /\ DataSound(w)' /\ FileSound(w)'
  BY <1>2, <1>3, <1>4 DEF RequestOK, NumberSound, DataSound, FileSound, At,
                          Numbered, Positions, database
<1> HIDE DEF j
<1> QED
  BY <1>1, <1>3, <1>4, <1>5, RequestStep DEF j

LEMMA LoadSourceInv ==
    ASSUME IndInv, NEW w \in Workers, LoadSource(w)
    PROVE  IndInv'
<1> USE DEF IndInv
<1>1. PICK old \in Loadable(versions[job[w].src]), done \in (SUBSET job[w].edits) \ {{}} :
        \E df \in Written(old, done) :
            job' = [job EXCEPT ![w].pc = "number", ![w].edits = done, ![w].df = df]
  BY DEF LoadSource
<1>2. /\ job[w] \in Job /\ At(w, "load") /\ UNCHANGED <<database, files>>
      /\ done \subseteq job[w].edits /\ RequestOK(w)
  BY DEF LoadSource, TypeOK, RequestOK, FixPcs
<1>3. old \in SUBSET Edits /\ done \in SUBSET Edits
  BY <1>2 DEF Loadable, Data, HasFile, TypeOK, Job
<1>7. PICK df \in Written(old, done) :
        job' = [job EXCEPT ![w].pc = "number", ![w].edits = done, ![w].df = df]
  BY <1>1
<1>8. df \in SUBSET Edits /\ \A f \in done : Covered(f, done, df)
  BY <1>3, WrittenData
<1> DEFINE j == [job[w] EXCEPT !.pc = "number", !.edits = done, !.df = df]
<1>4. /\ j \in Job /\ j.pc = "number" /\ j.src = job[w].src /\ j.edits = done
      /\ \A f \in j.edits : Covered(f, j.edits, j.df)
  BY <1>2, <1>3, <1>8 DEF Job, Pcs
<1>5. job' = [job EXCEPT ![w] = j] /\ job'[w] = j
  BY <1>7 DEF TypeOK
<1>6. RequestOK(w)' /\ NumberSound(w)' /\ DataSound(w)' /\ FileSound(w)'
  BY <1>2, <1>4, <1>5 DEF RequestOK, NumberSound, DataSound, FileSound, At,
                          Numbered, FixPcs, Positions, database
<1> HIDE DEF j
<1> QED
  BY <1>2, <1>4, <1>5, <1>6, RequestStep

LEMMA PickNumberInv ==
    ASSUME IndInv, NEW w \in Workers, PickNumber(w)
    PROVE  IndInv'
<1> USE DEF IndInv
<1>1. /\ job[w] \in Job /\ At(w, "number") /\ UNCHANGED <<database, files>>
      /\ RequestOK(w) /\ DataSound(w)
      /\ job' = [job EXCEPT ![w].pc = "saveCsv", ![w].no = NextNo]
  BY DEF PickNumber, TypeOK, RequestOK, FixPcs, JobsSound
<1>2. PICK n \in Positions : Numbers = 1 .. n
  BY DEF NumbersDense
<1>3. n \in Nat \ {0} /\ NextNo = n + 1
  BY <1>2, NextNoOfDense DEF TypeOK, Positions
<1>4. job[w].src \in Positions /\ versions[job[w].src].no \in Numbers
  BY <1>1 DEF RequestOK, At, Numbers
<1> DEFINE j == [job[w] EXCEPT !.pc = "saveCsv", !.no = n + 1]
<1>5. /\ j \in Job /\ j.pc = "saveCsv" /\ j.src = job[w].src /\ j.no = n + 1
      /\ j.edits = job[w].edits /\ j.df = job[w].df
  <2>1. \A r \in Job, k \in Nat :
            LET q == [r EXCEPT !.pc = "saveCsv", !.no = k]
            IN  /\ q \in Job /\ q.pc = "saveCsv" /\ q.src = r.src
                /\ q.no = k /\ q.edits = r.edits /\ q.df = r.df
    BY DEF Job, Pcs
  <2>2. job[w] \in Job /\ n + 1 \in Nat
    BY <1>1, <1>3
  <2> QED
    BY <2>1, <2>2, Zenon
<1>6. job' = [job EXCEPT ![w] = j] /\ job'[w] = j
  BY <1>1, <1>3 DEF TypeOK
<1> HIDE DEF j
<1>7. RequestOK(w)'
  BY <1>1, <1>5, <1>6 DEF RequestOK, At, FixPcs, Positions, database
<1>8. NumberSound(w)'
  <2>1. versions' = versions /\ Numbers' = Numbers
    BY <1>1 DEF database, Numbers, Positions
  <2>2. versions[job[w].src].no < n + 1 /\ 1 .. n \subseteq Numbers /\ (n + 1) - 1 = n
    BY <1>2, <1>3, <1>4
  <2>3. job'[w].no = n + 1 /\ job'[w].src = job[w].src
    BY <1>5, <1>6
  <2> QED
    BY <2>1, <2>2, <2>3, <1>3 DEF NumberSound
<1>9. DataSound(w)' /\ FileSound(w)'
  BY <1>1, <1>5, <1>6 DEF DataSound, FileSound, At
<1> QED
  BY <1>1, <1>5, <1>6, <1>7, <1>8, <1>9, RequestStep

LEMMA ReadLatestInv ==
    ASSUME IndInv, NEW w \in Workers, ReadLatest(w)
    PROVE  IndInv'
<1> USE DEF IndInv
<1>1. PICK src \in Latest, edits \in (SUBSET Edits) \ {{}} :
        job' = [job EXCEPT ![w] =
                  [pc |-> "loadLatest", src |-> src, edits |-> edits,
                   no |-> versions[src].no + 1, df |-> {}]]
  BY DEF ReadLatest
<1>2. UNCHANGED <<database, files>>
  BY DEF ReadLatest
<1>3. PICK n \in Positions : Numbers = 1 .. n
  BY DEF NumbersDense
<1>4. src \in Positions /\ n \in Nat \ {0} /\ versions[src].no = n
  <2>1. src \in Positions /\ \A m \in Numbers : m <= versions[src].no
    BY DEF Latest, Numbers
  <2>2. n \in Nat \ {0} /\ versions[src].no \in Numbers
    BY <2>1 DEF TypeOK, Positions, Numbers
  <2> QED
    BY <1>3, <2>1, <2>2
<1> DEFINE j == [pc |-> "loadLatest", src |-> src, edits |-> edits,
                 no |-> versions[src].no + 1, df |-> {}]
<1>5. j \in Job /\ j.pc = "loadLatest" /\ j.src = src /\ j.no = n + 1
  BY <1>4 DEF Job, Pcs, Positions, TypeOK
<1>6. job'[w] = j
  BY <1>1 DEF TypeOK
<1>7. RequestOK(w)' /\ DataSound(w)' /\ FileSound(w)'
  BY <1>2, <1>4, <1>5, <1>6 DEF RequestOK, DataSound, FileSound, At, FixPcs,
                                Positions, database
<1>8. NumberSound(w)'
  <2>1. versions' = versions /\ Numbers' = Numbers
    BY <1>2 DEF database, Numbers, Positions
  <2>2. versions[src].no < n + 1 /\ 1 .. n \subseteq Numbers /\ (n + 1) - 1 = n
    BY <1>3, <1>4
  <2> QED
    BY <2>1, <2>2, <1>4, <1>5, <1>6 DEF NumberSound
<1> HIDE DEF j
<1> QED
  BY <1>1, <1>2, <1>5, <1>6, <1>7, <1>8, RequestStep DEF j

LEMMA LoadLatestInv ==
    ASSUME IndInv, NEW w \in Workers, LoadLatest(w)
    PROVE  IndInv'
<1> USE DEF IndInv
<1>1. /\ job[w] \in Job /\ At(w, "loadLatest") /\ UNCHANGED <<database, files>>
      /\ RequestOK(w) /\ NumberSound(w)
  BY DEF LoadLatest, TypeOK, RequestOK, FixPcs, JobsSound
<1> DEFINE old == Data("parquet", versions[job[w].src].no)
<1>2. PICK done \in (SUBSET job[w].edits) \ {{}} :
        \E df \in Written(old, done) :
            job' = [job EXCEPT ![w].pc = "saveParquet", ![w].edits = done, ![w].df = df]
  BY DEF LoadLatest
<1>3. old \in SUBSET Edits /\ done \in SUBSET Edits
  BY <1>1, <1>2 DEF LoadLatest, HasFile, Data, TypeOK, Job
<1> HIDE DEF old
<1>7. PICK df \in Written(old, done) :
        job' = [job EXCEPT ![w].pc = "saveParquet", ![w].edits = done, ![w].df = df]
  BY <1>2
<1>8. df \in SUBSET Edits
  BY <1>3, WrittenData
<1> DEFINE j == [job[w] EXCEPT !.pc = "saveParquet", !.edits = done, !.df = df]
<1>4. j \in Job /\ j.pc = "saveParquet" /\ j.src = job[w].src /\ j.no = job[w].no
  BY <1>1, <1>3, <1>8 DEF Job, Pcs
<1>5. job' = [job EXCEPT ![w] = j] /\ job'[w] = j
  BY <1>7 DEF TypeOK
<1>6. RequestOK(w)' /\ NumberSound(w)' /\ DataSound(w)' /\ FileSound(w)'
  BY <1>1, <1>4, <1>5 DEF RequestOK, NumberSound, DataSound, FileSound, At,
                          Numbered, Numbers, FixPcs, Positions, database
<1> HIDE DEF j
<1> QED
  BY <1>1, <1>4, <1>5, <1>6, RequestStep

\* A step that saves the running request's data under its number and moves on.
LEMMA SaveStep ==
    ASSUME IndInv, NEW w \in Workers, NEW format \in {"csv", "parquet"},
           NEW pc \in {"commitFixes", "commitEdits"},
           pc = "commitFixes" => format = "csv" /\ At(w, "saveCsv"),
           pc = "commitEdits" => format = "parquet" /\ At(w, "saveParquet"),
           files' = Saved(format, job[w].no, job[w].df),
           job' = [job EXCEPT ![w].pc = pc],
           UNCHANGED database
    PROVE  IndInv'
<1> USE DEF IndInv
<1>1. UNCHANGED <<versions, fixRows, appliedIn, status>>
  BY DEF database
<1>2. Positions' = Positions /\ Numbers' = Numbers
  BY <1>1 DEF Positions, Numbers
<1>3. job[w] \in Job /\ job[w].no \in Nat /\ job[w].df \in SUBSET Edits
  BY DEF TypeOK, Job
<1>4. /\ DOMAIN files' = DOMAIN files \cup {<<format, job[w].no>>}
      /\ DOMAIN files' \subseteq {"csv", "parquet"} \X Nat
      /\ \A k \in DOMAIN files' : files'[k] \subseteq Edits
  BY <1>3, SavedFile
<1>5. /\ job'[w].pc = pc /\ job'[w].src = job[w].src /\ job'[w].no = job[w].no
      /\ job'[w].edits = job[w].edits /\ job'[w].df = job[w].df /\ job'[w] \in Job
  BY <1>3 DEF TypeOK, Job, Pcs
<1>6. \A u \in Workers : u # w => job'[u] = job[u]
  BY DEF TypeOK
<1>7. TypeOK'
  <2>1. job' \in [Workers -> Job]
    BY <1>5, <1>6 DEF TypeOK
  <2>2. RequestOK(w)'
    BY <1>1, <1>2, <1>5 DEF TypeOK, RequestOK, At, FixPcs
  <2>3. \A u \in Workers : u # w => RequestOK(u)'
    BY <1>1, <1>2, <1>6 DEF TypeOK, RequestOK, At, FixPcs
  <2> QED
    BY <1>1, <1>4, <2>1, <2>2, <2>3 DEF TypeOK, RequestOK, At, FixPcs
<1>8. JobsSound'
  <2>1. \A f, n : HasFile(f, n) => HasFile(f, n)'
    BY <1>4 DEF HasFile
  <2>2. HasFile(format, job[w].no)'
    BY <1>4 DEF HasFile
  <2>3. NumberSound(w)' /\ DataSound(w)' /\ FileSound(w)'
    BY <1>1, <1>2, <1>5, <2>2 DEF JobsSound, NumberSound, DataSound, FileSound, At, Numbered
  <2>4. ASSUME NEW u \in Workers, u # w
        PROVE  NumberSound(u)' /\ DataSound(u)' /\ FileSound(u)'
    BY <1>1, <1>2, <1>6, <2>1, <2>4 DEF JobsSound, NumberSound, DataSound, FileSound, At
  <2> QED
    BY <2>3, <2>4 DEF JobsSound
<1>9. LineageDescends' /\ AppliedFixIsInItsVersion' /\ VersionFileExists' /\ NumbersDense'
  BY <1>1, <1>2, <1>4 DEF LineageDescends, AppliedFixIsInItsVersion, VersionFileExists,
                          NumbersDense, HasFile
<1> QED
  BY <1>7, <1>8, <1>9

LEMMA SaveCsvInv ==
    ASSUME IndInv, NEW w \in Workers, SaveCsv(w)
    PROVE  IndInv'
  BY SaveStep DEF SaveCsv, At

LEMMA SaveParquetInv ==
    ASSUME IndInv, NEW w \in Workers, SaveParquet(w)
    PROVE  IndInv'
  BY SaveStep DEF SaveParquet, At

\* A step that commits a row for the running request's number: what holds of
\* the rows and numbers afterwards.
LEMMA CommitStep ==
    ASSUME IndInv, NEW w \in Workers, NEW v \in Version,
           At(w, "commitFixes") \/ At(w, "commitEdits"),
           v.no = job[w].no,
           v.parent \in {0, job[w].src},
           v.path = IF At(w, "commitFixes") THEN "csv" ELSE "parquet",
           versions' = Append(versions, v),
           job' = [job EXCEPT ![w].pc = "setStatus"],
           UNCHANGED files
    PROVE  /\ Len(versions') = Len(versions) + 1
           /\ Positions \subseteq Positions'
           /\ versions' \in Seq(Version)
           /\ job' \in [Workers -> Job]
           /\ \A u \in Workers : ~At(u, "idle")' => job'[u].src \in Positions
           /\ JobsSound'
           /\ LineageDescends'
           /\ VersionFileExists'
           /\ NumbersDense'
<1> USE DEF IndInv
<1>1. /\ Len(versions) \in Nat /\ Len(versions') = Len(versions) + 1
      /\ Positions = 1 .. Len(versions) /\ Positions' = 1 .. (Len(versions) + 1)
      /\ versions' \in Seq(Version)
      /\ \A i \in Positions : versions'[i] = versions[i] /\ versions[i] \in Version
      /\ versions'[Len(versions) + 1] = v
  BY AppendRow DEF TypeOK, Positions
<1>2. Numbers' = Numbers \cup {job[w].no}
  BY NumbersAfterAppend DEF TypeOK
<1>3. job[w] \in Job /\ job[w].src \in Positions
  BY DEF TypeOK, At
<1>4. /\ job'[w].pc = "setStatus" /\ job'[w].src = job[w].src /\ job'[w] \in Job
      /\ \A u \in Workers : u # w => job'[u] = job[u]
  BY <1>3 DEF TypeOK, Job, Pcs
<1>5. job' \in [Workers -> Job]
  BY <1>4 DEF TypeOK
<1>6. \A u \in Workers : ~At(u, "idle")' => job'[u].src \in Positions
  BY <1>3, <1>4 DEF TypeOK, At
<1>7. /\ job[w].no \in Nat \ {0} /\ versions[job[w].src].no < job[w].no
      /\ 1 .. (job[w].no - 1) \subseteq Numbers /\ HasFile(v.path, v.no)
  BY DEF JobsSound, NumberSound, FileSound, At, Numbered
<1>8. JobsSound'
  <2>1. NumberSound(w)' /\ DataSound(w)' /\ FileSound(w)'
    BY <1>4 DEF NumberSound, DataSound, FileSound, At, Numbered
  <2>2. ASSUME NEW u \in Workers, u # w
        PROVE  NumberSound(u)' /\ DataSound(u)' /\ FileSound(u)'
    <3>1. job'[u] = job[u]
      BY <1>4, <2>2
    <3>2. job[u].pc \in Numbered =>
             job[u].src \in Positions /\ versions'[job[u].src] = versions[job[u].src]
      BY <1>1 DEF TypeOK, At, Numbered
    <3>3. NumberSound(u)'
      BY <1>2, <3>1, <3>2 DEF JobsSound, NumberSound
    <3>4. DataSound(u)' /\ FileSound(u)'
      BY <3>1 DEF JobsSound, DataSound, FileSound, At, HasFile
    <3> QED
      BY <3>3, <3>4
  <2> QED
    BY <2>1, <2>2 DEF JobsSound
<1>9. LineageDescends'
  <2> SUFFICES ASSUME NEW i \in Positions', versions'[i].parent # 0
               PROVE  /\ versions'[i].parent \in 1 .. (i - 1)
                      /\ versions'[versions'[i].parent].no < versions'[i].no
    BY DEF LineageDescends
  <2>1. CASE i \in Positions
    <3>1. /\ versions'[i] = versions[i] /\ versions[i].parent \in 1 .. (i - 1)
          /\ versions[versions[i].parent].no < versions[i].no
      BY <1>1, <2>1 DEF LineageDescends
    <3>2. versions[i].parent \in Positions
      BY <1>1, <2>1, <3>1
    <3> QED
      BY <1>1, <3>1, <3>2
  <2>2. CASE i = Len(versions) + 1
    <3>1. versions'[i] = v /\ v.parent = job[w].src
      BY <1>1, <2>2
    <3>2. job[w].src \in 1 .. (i - 1) /\ versions'[job[w].src] = versions[job[w].src]
      BY <1>1, <1>3, <2>2
    <3> QED
      BY <1>7, <3>1, <3>2
  <2> QED
    BY <1>1, <2>1, <2>2
<1>10. VersionFileExists'
  <2> SUFFICES ASSUME NEW i \in Positions', versions'[i].path # "none"
               PROVE  <<versions'[i].path, versions'[i].no>> \in DOMAIN files
    BY DEF VersionFileExists, HasFile
  <2>1. CASE i \in Positions
    <3>1. versions'[i] = versions[i]
      BY <1>1, <2>1
    <3> QED
      BY <2>1, <3>1 DEF VersionFileExists, HasFile
  <2>2. CASE i = Len(versions) + 1
    BY <1>1, <1>7, <2>2 DEF HasFile
  <2>3. i \in Positions \/ i = Len(versions) + 1
    BY <1>1
  <2> QED
    BY <2>1, <2>2, <2>3
<1>11. NumbersDense'
  <2>1. PICK n \in Positions : Numbers = 1 .. n
    BY DEF NumbersDense
  <2>2. n \in Nat \ {0} /\ job[w].no <= n + 1
    <3>1. n \in Nat \ {0}
      BY <1>1
    <3>2. \A k \in 1 .. (job[w].no - 1) : k <= n
      BY <1>7, <2>1
    <3>3. job[w].no > n + 1 => n + 1 \in 1 .. (job[w].no - 1)
      BY <1>7, <3>1
    <3> QED
      BY <1>7, <3>1, <3>2, <3>3
  <2>3. CASE job[w].no <= n
    BY <1>1, <1>2, <1>7, <2>1, <2>2, <2>3 DEF NumbersDense
  <2>4. CASE job[w].no = n + 1
    <3>1. Numbers' = 1 .. (n + 1)
      BY <1>2, <2>1, <2>2, <2>4
    <3>2. n + 1 \in Positions'
      BY <1>1, <2>1
    <3> QED
      BY <3>1, <3>2 DEF NumbersDense
  <2> QED
    BY <1>7, <2>2, <2>3, <2>4
<1> QED
  BY <1>1, <1>5, <1>6, <1>8, <1>9, <1>10, <1>11

LEMMA CommitFixesInv ==
    ASSUME IndInv, NEW w \in Workers, CommitFixes(w)
    PROVE  IndInv'
<1> DEFINE v == [no |-> job[w].no, parent |-> job[w].src, path |-> "csv",
                 content |-> job[w].df, applied |-> job[w].edits]
<1> USE DEF IndInv
<1>1. /\ At(w, "commitFixes") /\ versions' = Append(versions, v)
      /\ job' = [job EXCEPT ![w].pc = "setStatus"]
      /\ UNCHANGED <<fixRows, status, files>>
      /\ appliedIn' = [f \in Edits |->
                         IF f \in job[w].edits THEN Len(versions) + 1 ELSE appliedIn[f]]
  BY DEF CommitFixes
<1>2. job[w] \in Job /\ \A f \in job[w].edits : Covered(f, job[w].edits, job[w].df)
  BY <1>1 DEF TypeOK, JobsSound, DataSound, At
<1>3. v \in Version /\ v.no = job[w].no /\ v.parent = job[w].src /\ v.path = "csv"
      /\ v.content = job[w].df /\ v.applied = job[w].edits
  BY <1>2 DEF Version, Job
<1> HIDE DEF v
<1>4. /\ Len(versions') = Len(versions) + 1
      /\ Positions \subseteq Positions'
      /\ versions' \in Seq(Version)
      /\ job' \in [Workers -> Job]
      /\ \A u \in Workers : ~At(u, "idle")' => job'[u].src \in Positions
      /\ JobsSound' /\ LineageDescends' /\ VersionFileExists' /\ NumbersDense'
  BY <1>1, <1>3, CommitStep
<1>5. /\ Len(versions) \in Nat /\ Positions = 1 .. Len(versions)
      /\ \A i \in Positions : versions'[i] = versions[i]
      /\ versions'[Len(versions) + 1] = v
  BY <1>1, <1>3, AppendRow DEF TypeOK, Positions
<1>6. TypeOK'
  <2>1. appliedIn' \in [Edits -> 0 .. Len(versions')]
    BY <1>1, <1>4, <1>5 DEF TypeOK
  <2>2. \A u \in Workers : job'[u].pc \in FixPcs => job'[u].edits \subseteq fixRows'
    BY <1>1 DEF TypeOK, FixPcs
  <2> QED
    BY <1>1, <1>4, <2>1, <2>2 DEF TypeOK, FixPcs
<1>7. AppliedFixIsInItsVersion'
  <2> SUFFICES ASSUME NEW f \in Edits, appliedIn'[f] # 0
               PROVE  /\ f \in versions'[appliedIn'[f]].applied
                      /\ Covered(f, versions'[appliedIn'[f]].applied,
                                 versions'[appliedIn'[f]].content)
    BY DEF AppliedFixIsInItsVersion, Covered
  <2>1. CASE f \in job[w].edits
    BY <1>1, <1>2, <1>3, <1>5, <2>1
  <2>2. CASE f \notin job[w].edits
    <3>1. appliedIn'[f] = appliedIn[f] /\ appliedIn[f] \in Positions
      BY <1>1, <1>5, <2>2 DEF TypeOK
    <3> QED
      BY <1>5, <3>1 DEF AppliedFixIsInItsVersion, Covered
  <2> QED
    BY <2>1, <2>2
<1> QED
  BY <1>4, <1>6, <1>7

LEMMA CommitEditsInv ==
    ASSUME IndInv, NEW w \in Workers, CommitEdits(w)
    PROVE  IndInv'
<1> DEFINE v == [no |-> job[w].no, parent |-> 0, path |-> "parquet",
                 content |-> job[w].df, applied |-> {}]
<1> USE DEF IndInv
<1>1. /\ At(w, "commitEdits") /\ ~At(w, "commitFixes") /\ versions' = Append(versions, v)
      /\ job' = [job EXCEPT ![w].pc = "setStatus"]
      /\ UNCHANGED <<appliedIn, status, files>>
  BY DEF CommitEdits, At
<1>2. fixRows \subseteq fixRows' /\ fixRows' \subseteq Edits /\ job[w] \in Job
  BY DEF CommitEdits, TypeOK, Job
<1>3. v \in Version /\ v.no = job[w].no /\ v.parent = 0 /\ v.path = "parquet"
  BY <1>2 DEF Version, Job
<1> HIDE DEF v
<1>4. /\ Len(versions') = Len(versions) + 1
      /\ Positions \subseteq Positions'
      /\ versions' \in Seq(Version)
      /\ job' \in [Workers -> Job]
      /\ \A u \in Workers : ~At(u, "idle")' => job'[u].src \in Positions
      /\ JobsSound' /\ LineageDescends' /\ VersionFileExists' /\ NumbersDense'
  BY <1>1, <1>3, CommitStep
<1>5. /\ Len(versions) \in Nat /\ Positions = 1 .. Len(versions)
      /\ \A i \in Positions : versions'[i] = versions[i]
  BY <1>1, <1>3, AppendRow DEF TypeOK, Positions
<1>6. TypeOK'
  <2>1. appliedIn' \in [Edits -> 0 .. Len(versions')]
    BY <1>1, <1>4, <1>5 DEF TypeOK
  <2>2. \A u \in Workers : job'[u].pc \in FixPcs => job'[u].edits \subseteq fixRows'
    BY <1>1, <1>2 DEF TypeOK, FixPcs
  <2> QED
    BY <1>1, <1>2, <1>4, <2>1, <2>2 DEF TypeOK, FixPcs
<1>7. AppliedFixIsInItsVersion'
  <2>1. \A f \in Edits : appliedIn[f] # 0 => appliedIn[f] \in Positions
    BY <1>5 DEF TypeOK
  <2> QED
    BY <1>1, <1>5, <2>1 DEF AppliedFixIsInItsVersion
<1> QED
  BY <1>4, <1>6, <1>7

\* The request ends: no promise about it is left.
LEMMA EndStep ==
    ASSUME IndInv, NEW w \in Workers, job' = [job EXCEPT ![w] = Idle],
           UNCHANGED <<versions, fixRows, appliedIn, files>>,
           status' \in {status, "cleaned"}
    PROVE  IndInv'
<1> USE DEF IndInv
<1>1. Positions' = Positions /\ Numbers' = Numbers
  BY DEF Positions, Numbers
<1>2. /\ job'[w] = Idle /\ Idle.pc = "idle" /\ Idle \in Job
      /\ \A u \in Workers : u # w => job'[u] = job[u]
  BY DEF TypeOK, Idle, Job, Pcs
<1>3. TypeOK'
  <2>1. job' \in [Workers -> Job]
    BY <1>2 DEF TypeOK
  <2>2. \A u \in Workers : RequestOK(u)'
    BY <1>1, <1>2 DEF TypeOK, RequestOK, At, FixPcs
  <2> QED
    BY <1>1, <2>1, <2>2 DEF TypeOK, RequestOK, At, FixPcs
<1>4. JobsSound'
  BY <1>1, <1>2 DEF JobsSound, NumberSound, DataSound, FileSound, At, HasFile, Numbered
<1>5. LineageDescends' /\ AppliedFixIsInItsVersion' /\ VersionFileExists' /\ NumbersDense'
  BY <1>1 DEF LineageDescends, AppliedFixIsInItsVersion, VersionFileExists,
              NumbersDense, HasFile
<1> QED
  BY <1>3, <1>4, <1>5

LEMMA NextIndInv == IndInv /\ [Next]_vars => IndInv'
<1> SUFFICES ASSUME IndInv, [Next]_vars PROVE IndInv'
  OBVIOUS
<1>1. ASSUME NEW w \in Workers, NEW f \in Edits, CreateFix(w, f) PROVE IndInv'
  BY <1>1, CreateFixInv
<1>2. ASSUME NEW w \in Workers, ApplyFixes(w) PROVE IndInv'
  BY <1>2, ReadFixesInv, LoadSourceInv, PickNumberInv, SaveCsvInv, CommitFixesInv
     DEF ApplyFixes
<1>3. ASSUME NEW w \in Workers, ApplyCorrections(w) PROVE IndInv'
  BY <1>3, ReadLatestInv, LoadLatestInv, SaveParquetInv, CommitEditsInv
     DEF ApplyCorrections
<1>4. ASSUME NEW w \in Workers, SetStatus(w) PROVE IndInv'
  BY <1>4, EndStep DEF SetStatus
<1>5. ASSUME NEW w \in Workers, Abandon(w) PROVE IndInv'
  BY <1>5, EndStep DEF Abandon, database
<1>6. CASE UNCHANGED vars
  <2>1. UNCHANGED <<versions, fixRows, appliedIn, status, files, job>>
    BY <1>6 DEF vars, database
  <2> QED
    BY <2>1 DEF IndInv, TypeOK, JobsSound, NumberSound, DataSound, FileSound, At, HasFile,
                Positions, Numbers, LineageDescends, AppliedFixIsInItsVersion,
                VersionFileExists, NumbersDense
<1> QED
  BY <1>1, <1>2, <1>3, <1>4, <1>5, <1>6 DEF Next

\* The inductive invariant holds in every reachable state, for any number of workers.
THEOREM Invariance == Spec => []IndInv
  BY InitIndInv, NextIndInv, PTL DEF Spec

(***************************************************************************)
(* The results.                                                            *)
(***************************************************************************)

\* Every state is well typed and has no dangling reference, for any number of
\* workers.
THEOREM TypeCorrect == Spec => []TypeOK
  BY Invariance, PTL DEF IndInv

\* The parent chain of a version is finite and goes down in number.
THEOREM LineageTerminates == Spec => []LineageDescends
  BY Invariance, PTL DEF IndInv

\* A fix is only ever marked with a version whose request counted it and wrote
\* its cell.
THEOREM MarksAreTrue == Spec => []AppliedFixIsInItsVersion
  BY Invariance, PTL DEF IndInv

\* A row in dataset_versions never names a file that is not there.
THEOREM NoRowBeforeItsFile == Spec => []VersionFileExists
  BY Invariance, PTL DEF IndInv

\* The version numbers in use are always 1 .. n for some n.
THEOREM NoGapInNumbers == Spec => []NumbersDense
  BY Invariance, PTL DEF IndInv

(***************************************************************************)
(* With one worker DatasetVersions implements VersionHistory, for any set  *)
(* of edits, any assignment of edits to cells and any bound.               *)
(***************************************************************************)

SingleWorker == \A u, v \in Workers : u = v

\* Data as a function: a cell has one value.
OneValuePerCell(df) == \A e, f \in df : CellOf[e] = CellOf[f] => e = f

\* A version is numbered by its position and shows the fixes it was made from;
\* whatever can be loaded for it is its content.  Only the first version names
\* no file.
RowSound(i) ==
    /\ versions[i].no = i
    /\ OneValuePerCell(versions[i].content)
    /\ versions[i].path = "none" => i = 1 /\ versions[i].content = {}
    /\ versions[i].path # "none" => Data(versions[i].path, i) = versions[i].content
    /\ versions[i].applied = {f \in Edits : appliedIn[f] = i}

\* The fallback of the loader finds no CSV file for the uploaded version.
FilesSound ==
    /\ \A k \in DOMAIN files : OneValuePerCell(files[k])
    /\ ~HasFile("csv", 1)

\* What only holds when no other request commits in between: the fixes are
\* still open, the number is still free, the file is still the request's own.
RequestSound(w) ==
    /\ job[w].pc \in FixPcs => job[w].edits # {} /\ job[w].edits \subseteq Unapplied
    /\ job[w].pc \in {"number", "saveCsv", "commitFixes"} =>
          History!Result(job[w].df, versions[job[w].src].content, job[w].edits)
    /\ job[w].pc \in Numbered => job[w].no = Len(versions) + 1
    /\ job[w].pc \in {"saveParquet", "commitEdits"} =>
          job[w].df # {} /\ OneValuePerCell(job[w].df)
    /\ At(w, "commitFixes") => Data("csv", job[w].no) = job[w].df
    /\ At(w, "commitEdits") => Data("parquet", job[w].no) = job[w].df

\* The inductive invariant of a server with one worker.
SerialInv ==
    /\ IndInv
    /\ \A i \in Positions : RowSound(i)
    /\ FilesSound
    /\ \A w \in Workers : RequestSound(w)

(***************************************************************************)
(* Facts about the operators.                                              *)
(***************************************************************************)

\* Written agrees with the result that VersionHistory asks for.
LEMMA WrittenResult ==
    ASSUME NEW old \in SUBSET Edits, NEW done \in SUBSET Edits, NEW df \in Written(old, done),
           OneValuePerCell(old)
    PROVE  /\ OneValuePerCell(df)
           /\ History!Result(df, old, done)
           /\ done # {} => df # {}
<1>1. PICK last \in SUBSET done :
        /\ \A f \in done : \E g \in last : CellOf[g] = CellOf[f]
        /\ \A f, g \in last : CellOf[f] = CellOf[g] => f = g
        /\ df = {e \in old : \A f \in done : CellOf[f] # CellOf[e]} \cup last
  BY DEF Written
<1>2. OneValuePerCell(df)
  BY <1>1 DEF OneValuePerCell
<1>3. History!Result(df, old, done)
  <2>1. \A e \in df : IF CellOf[e] \in History!Cells(done) THEN e \in done ELSE e \in old
    BY <1>1 DEF History!Cells
  <2>2. \A e \in old : CellOf[e] \notin History!Cells(done) => e \in df
    BY <1>1 DEF History!Cells
  <2>3. History!Cells(done) \subseteq History!Cells(df)
    BY <1>1 DEF History!Cells
  <2> QED
    BY <1>2, <2>1, <2>2, <2>3 DEF History!Result, OneValuePerCell
<1> QED
  BY <1>1, <1>2, <1>3

\* With the rows numbered by position the next number is one more than there
\* are rows, and the latest version is the last row.
LEMMA NumberedByPosition ==
    ASSUME SerialInv
    PROVE  /\ Len(versions) \in Nat \ {0} /\ Positions = 1 .. Len(versions)
           /\ Numbers = 1 .. Len(versions)
           /\ NextNo = Len(versions) + 1
           /\ Latest = {Len(versions)}
<1>1. versions \in Seq(Version) /\ \A i \in Positions : versions[i].no = i
  BY DEF SerialInv, RowSound, IndInv, TypeOK
<1>2. Len(versions) \in Nat /\ Positions = 1 .. Len(versions)
  BY <1>1 DEF Positions
<1>3. Positions # {}
  BY DEF SerialInv, IndInv, NumbersDense
<1>4. Len(versions) \in Nat \ {0}
  BY <1>2, <1>3
<1>5. Numbers = 1 .. Len(versions)
  BY <1>1, <1>2 DEF Numbers
<1>6. NextNo = Len(versions) + 1
  BY <1>4, <1>5, NextNoOfDense
<1>7. Latest = {Len(versions)}
  BY <1>1, <1>2, <1>4 DEF Latest
<1> QED
  BY <1>2, <1>4, <1>5, <1>6, <1>7

\* What the loader reads for a version is the content of this version.
LEMMA LoadedIsContent ==
    ASSUME SerialInv, NEW i \in Positions, NEW old \in Loadable(versions[i])
    PROVE  old = versions[i].content
<1>1. RowSound(i) /\ FilesSound /\ VersionFileExists
  BY DEF SerialInv, IndInv
<1>2. CASE versions[i].path # "none"
  <2>1. HasFile(versions[i].path, i) /\ versions[i].no = i
    BY <1>1, <1>2 DEF VersionFileExists, RowSound
  <2> QED
    BY <1>1, <1>2, <2>1 DEF Loadable, RowSound
<1>3. CASE versions[i].path = "none"
  BY <1>1, <1>3 DEF Loadable, RowSound, FilesSound
<1> QED
  BY <1>2, <1>3

(***************************************************************************)
(* The invariant is inductive.                                             *)
(***************************************************************************)

LEMMA InitSerialInv == Init => SerialInv
<1> SUFFICES ASSUME Init PROVE SerialInv
  OBVIOUS
<1>1. IndInv
  BY InitIndInv
<1>2. PICK path \in {"none", "parquet"} :
        /\ versions = FirstVersion(path)
        /\ path # "none" => files = FirstFile
  BY DEF Init, Uploaded, UploadNotSaved, FromCatalog
<1>3. files = FirstFile \/ files = <<>>
  BY DEF Init, Uploaded, UploadNotSaved, FromCatalog
<1>4. Positions = {1} /\ Len(versions) = 1
  BY <1>2 DEF FirstVersion, Positions
<1>5. RowSound(1)
  <2>1. /\ versions[1].no = 1 /\ versions[1].path = path
        /\ versions[1].content = {} /\ versions[1].applied = {}
    BY <1>2 DEF FirstVersion
  <2>2. path # "none" => Data(path, 1) = {}
    BY <1>2 DEF FirstFile, Data
  <2>3. {f \in Edits : appliedIn[f] = 1} = {}
    BY DEF Init
  <2> QED
    BY <2>1, <2>2, <2>3 DEF RowSound, OneValuePerCell
<1>6. FilesSound
  BY <1>3 DEF FilesSound, FirstFile, OneValuePerCell, HasFile
<1>7. \A w \in Workers : RequestSound(w)
  BY DEF RequestSound, Init, Idle, FixPcs, Numbered, At
<1> QED
  BY <1>1, <1>4, <1>5, <1>6, <1>7 DEF SerialInv

\* A step of the only request that leaves rows, marks and files alone.
LEMMA SerialRequestStep ==
    ASSUME SingleWorker, SerialInv, IndInv', NEW w \in Workers,
           UNCHANGED <<versions, appliedIn, files>>, RequestSound(w)'
    PROVE  SerialInv'
<1>1. Positions' = Positions
  BY DEF Positions
<1>2. \A i \in Positions' : RowSound(i)'
  BY <1>1 DEF SerialInv, RowSound, Data
<1>3. FilesSound'
  BY DEF SerialInv, FilesSound, HasFile
<1>4. \A u \in Workers : RequestSound(u)'
  BY DEF SingleWorker
<1> QED
  BY <1>2, <1>3, <1>4 DEF SerialInv

LEMMA SerialCreateFix ==
    ASSUME SingleWorker, SerialInv, IndInv', NEW w \in Workers, NEW f \in Edits, CreateFix(w, f)
    PROVE  SerialInv'
<1>1. RequestSound(w) /\ At(w, "idle") /\ UNCHANGED <<versions, appliedIn, files, job>>
  BY DEF SerialInv, CreateFix
<1>2. RequestSound(w)'
  BY <1>1 DEF RequestSound, FixPcs, Numbered, At
<1> QED
  BY <1>1, <1>2, SerialRequestStep

LEMMA SerialReadFixes ==
    ASSUME SingleWorker, SerialInv, IndInv', NEW w \in Workers, ReadFixes(w)
    PROVE  SerialInv'
<1>1. PICK src \in Positions, fixes \in (SUBSET Unapplied) \ {{}} :
        job' = [job EXCEPT ![w] =
                 [Idle EXCEPT !.pc = "load", !.src = src, !.edits = fixes]]
  BY DEF ReadFixes
<1>2. UNCHANGED <<versions, fixRows, appliedIn, files>>
  BY DEF ReadFixes, database
<1>3. job'[w].pc = "load" /\ job'[w].edits = fixes
  BY <1>1 DEF SerialInv, IndInv, TypeOK, Idle
<1>4. RequestSound(w)'
  BY <1>2, <1>3 DEF RequestSound, FixPcs, Numbered, At, Unapplied
<1> QED
  BY <1>2, <1>4, SerialRequestStep

LEMMA SerialLoadSource ==
    ASSUME SingleWorker, SerialInv, IndInv', NEW w \in Workers, LoadSource(w)
    PROVE  SerialInv'
<1>1. PICK old \in Loadable(versions[job[w].src]), done \in (SUBSET job[w].edits) \ {{}} :
        \E df \in Written(old, done) :
            job' = [job EXCEPT ![w].pc = "number", ![w].edits = done, ![w].df = df]
  BY DEF LoadSource
<1>2. PICK df \in Written(old, done) :
        job' = [job EXCEPT ![w].pc = "number", ![w].edits = done, ![w].df = df]
  BY <1>1
<1>3. /\ UNCHANGED <<versions, fixRows, appliedIn, files>>
      /\ At(w, "load") /\ RequestSound(w)
      /\ job[w].src \in Positions /\ job[w] \in Job
  BY DEF LoadSource, database, SerialInv, IndInv, TypeOK, At
<1>4. old = versions[job[w].src].content
  BY <1>3, LoadedIsContent
<1>5. /\ old \in SUBSET Edits /\ OneValuePerCell(old)
      /\ done \in SUBSET Edits /\ done # {} /\ done \subseteq Unapplied
  <2>1. versions[job[w].src] \in Version /\ RowSound(job[w].src)
    BY <1>3 DEF SerialInv, IndInv, TypeOK, Positions
  <2> QED
    BY <1>3, <1>4, <2>1 DEF RequestSound, RowSound, Version, Job, At, FixPcs
<1>6. History!Result(df, old, done)
  BY <1>5, WrittenResult
<1>7. /\ job'[w].pc = "number" /\ job'[w].edits = done /\ job'[w].df = df
      /\ job'[w].src = job[w].src
  BY <1>2, <1>3 DEF SerialInv, IndInv, TypeOK, Job
<1>8. RequestSound(w)'
  <2>1. done \subseteq Unapplied'
    BY <1>3, <1>5 DEF Unapplied
  <2>2. versions'[job'[w].src].content = old
    BY <1>3, <1>4, <1>7
  <2> QED
    BY <1>5, <1>6, <1>7, <2>1, <2>2 DEF RequestSound, FixPcs, Numbered, At
<1> QED
  BY <1>3, <1>8, SerialRequestStep

LEMMA SerialPickNumber ==
    ASSUME SingleWorker, SerialInv, IndInv', NEW w \in Workers, PickNumber(w)
    PROVE  SerialInv'
<1>1. /\ UNCHANGED <<versions, fixRows, appliedIn, files>>
      /\ At(w, "number") /\ RequestSound(w) /\ job[w] \in Job
      /\ job' = [job EXCEPT ![w].pc = "saveCsv", ![w].no = NextNo]
  BY DEF PickNumber, database, SerialInv, IndInv, TypeOK
<1>2. NextNo = Len(versions) + 1
  BY NumberedByPosition
<1>3. /\ job'[w].pc = "saveCsv" /\ job'[w].no = Len(versions) + 1
      /\ job'[w].edits = job[w].edits /\ job'[w].df = job[w].df /\ job'[w].src = job[w].src
  BY <1>1, <1>2 DEF SerialInv, IndInv, TypeOK, Job
<1>4. RequestSound(w)'
  <2>1. Unapplied' = Unapplied
    BY <1>1 DEF Unapplied
  <2> QED
    BY <1>1, <1>3, <2>1 DEF RequestSound, FixPcs, Numbered, At
<1> QED
  BY <1>1, <1>4, SerialRequestStep

LEMMA SerialReadLatest ==
    ASSUME SingleWorker, SerialInv, IndInv', NEW w \in Workers, ReadLatest(w)
    PROVE  SerialInv'
<1>1. PICK src \in Latest, edits \in (SUBSET Edits) \ {{}} :
        job' = [job EXCEPT ![w] =
                  [pc |-> "loadLatest", src |-> src, edits |-> edits,
                   no |-> versions[src].no + 1, df |-> {}]]
  BY DEF ReadLatest
<1>2. UNCHANGED <<versions, fixRows, appliedIn, files>>
  BY DEF ReadLatest, database
<1>3. versions[src].no = Len(versions)
  BY NumberedByPosition DEF SerialInv, RowSound
<1>4. job'[w].pc = "loadLatest" /\ job'[w].no = Len(versions) + 1
  BY <1>1, <1>3 DEF SerialInv, IndInv, TypeOK
<1>5. RequestSound(w)'
  BY <1>2, <1>4 DEF RequestSound, FixPcs, Numbered, At
<1> QED
  BY <1>2, <1>5, SerialRequestStep

LEMMA SerialLoadLatest ==
    ASSUME SingleWorker, SerialInv, IndInv', NEW w \in Workers, LoadLatest(w)
    PROVE  SerialInv'
<1> DEFINE key == <<"parquet", versions[job[w].src].no>>
           old == files[key]
<1>1. PICK done \in (SUBSET job[w].edits) \ {{}} :
        \E df \in Written(old, done) :
            job' = [job EXCEPT ![w].pc = "saveParquet", ![w].edits = done, ![w].df = df]
  BY DEF LoadLatest, Data
<1>2. /\ UNCHANGED <<versions, fixRows, appliedIn, files>>
      /\ At(w, "loadLatest") /\ RequestSound(w) /\ job[w] \in Job
      /\ key \in DOMAIN files
  BY DEF LoadLatest, database, SerialInv, IndInv, TypeOK, HasFile
<1>3. /\ old \in SUBSET Edits /\ OneValuePerCell(old)
      /\ done \in SUBSET Edits /\ done # {}
  BY <1>2 DEF SerialInv, FilesSound, IndInv, TypeOK, Job
<1> HIDE DEF old, key
<1>4. PICK df \in Written(old, done) :
        job' = [job EXCEPT ![w].pc = "saveParquet", ![w].edits = done, ![w].df = df]
  BY <1>1
<1>5. OneValuePerCell(df) /\ df # {}
  BY <1>3, WrittenResult
<1>6. job'[w].pc = "saveParquet" /\ job'[w].df = df /\ job'[w].no = job[w].no
  BY <1>2, <1>4 DEF SerialInv, IndInv, TypeOK, Job
<1>7. RequestSound(w)'
  BY <1>2, <1>5, <1>6 DEF RequestSound, FixPcs, Numbered, At
<1> QED
  BY <1>2, <1>7, SerialRequestStep

\* Saving under a number that no row has: the files of the rows stay.
LEMMA SerialSave ==
    ASSUME SingleWorker, SerialInv, IndInv', NEW w \in Workers,
           NEW format \in {"csv", "parquet"}, NEW pc \in {"commitFixes", "commitEdits"},
           pc = "commitFixes" => format = "csv" /\ At(w, "saveCsv"),
           pc = "commitEdits" => format = "parquet" /\ At(w, "saveParquet"),
           files' = Saved(format, job[w].no, job[w].df),
           job' = [job EXCEPT ![w].pc = pc],
           UNCHANGED database
    PROVE  SerialInv'
<1>1. /\ UNCHANGED <<versions, fixRows, appliedIn>> /\ RequestSound(w) /\ job[w] \in Job
      /\ job[w].no = Len(versions) + 1 /\ job[w].df \in SUBSET Edits
      /\ OneValuePerCell(job[w].df)
  BY DEF database, SerialInv, IndInv, TypeOK, Job, RequestSound, Numbered, At,
         History!Result, OneValuePerCell
<1>2. Len(versions) \in Nat \ {0} /\ Positions = 1 .. Len(versions)
  BY NumberedByPosition
<1> DEFINE key == <<format, Len(versions) + 1>>
<1>3. /\ DOMAIN files' = DOMAIN files \cup {key}
      /\ files'[key] = job[w].df
      /\ \A k \in DOMAIN files : k # key => files'[k] = files[k]
  BY <1>1 DEF Saved
<1>4. Positions' = Positions
  BY <1>1 DEF Positions
<1>5. ASSUME NEW i \in Positions' PROVE RowSound(i)'
  <2>1. RowSound(i) /\ i # Len(versions) + 1 /\ i \in Positions
    BY <1>2, <1>4 DEF SerialInv
  <2>2. versions[i].path # "none" => HasFile(versions[i].path, i)
    BY <2>1 DEF SerialInv, IndInv, VersionFileExists, RowSound
  <2>3. versions[i].path # "none" => Data(versions[i].path, i)' = Data(versions[i].path, i)
    BY <1>1, <1>3, <2>1, <2>2 DEF HasFile, Data
  <2> QED
    BY <1>1, <2>1, <2>3 DEF RowSound
<1>6. FilesSound'
  BY <1>1, <1>2, <1>3 DEF SerialInv, FilesSound, HasFile
<1>7. RequestSound(w)'
  <2>1. /\ job'[w].pc = pc /\ job'[w].src = job[w].src /\ job'[w].no = job[w].no
        /\ job'[w].edits = job[w].edits /\ job'[w].df = job[w].df
    BY <1>1 DEF SerialInv, IndInv, TypeOK, Job
  <2>2. Unapplied' = Unapplied
    BY <1>1 DEF Unapplied
  <2>3. Data(format, job[w].no)' = job[w].df
    BY <1>1, <1>3, <2>1 DEF Data
  <2>4. CASE pc = "commitFixes"
    BY <1>1, <2>1, <2>2, <2>3, <2>4 DEF RequestSound, FixPcs, Numbered, At, Data
  <2>5. CASE pc = "commitEdits"
    BY <1>1, <2>1, <2>2, <2>3, <2>5 DEF RequestSound, FixPcs, Numbered, At, Data
  <2> QED
    BY <2>4, <2>5
<1>8. \A u \in Workers : RequestSound(u)'
  BY <1>7 DEF SingleWorker
<1> QED
  BY <1>5, <1>6, <1>8 DEF SerialInv

(***************************************************************************)
(* The commits, and the steps of VersionHistory they are.                  *)
(***************************************************************************)

\* A version as VersionHistory sees it.
Entry(v) == [no |-> v.no, parent |-> v.parent, content |-> v.content, applied |-> v.applied]

EntriesOf(rows) == [i \in DOMAIN rows |-> Entry(rows[i])]

LEMMA RecordedEntries == Recorded = EntriesOf(versions)
  BY DEF Recorded, EntriesOf, Entry, Positions

LEMMA FunctionIsSequence ==
    ASSUME NEW S, NEW n \in Nat, NEW s \in [1 .. n -> S]
    PROVE  s \in Seq(S) /\ Len(s) = n
  OBVIOUS

LEMMA EntriesOfRows ==
    ASSUME NEW rows \in Seq(Version)
    PROVE  /\ EntriesOf(rows) \in Seq([no : Nat, parent : Nat, content : SUBSET Edits,
                                       applied : SUBSET Edits])
           /\ Len(EntriesOf(rows)) = Len(rows)
<1> DEFINE Rec == [no : Nat, parent : Nat, content : SUBSET Edits, applied : SUBSET Edits]
<1>1. /\ Len(rows) \in Nat /\ DOMAIN rows = 1 .. Len(rows)
      /\ \A i \in DOMAIN rows : rows[i] \in Version
  BY LenProperties
<1>2. \A v \in Version : Entry(v) \in Rec
  BY DEF Entry, Version
<1> HIDE DEF Rec
<1>3. EntriesOf(rows) \in [1 .. Len(rows) -> Rec]
  BY <1>1, <1>2 DEF EntriesOf
<1>4. EntriesOf(rows) \in Seq(Rec) /\ Len(EntriesOf(rows)) = Len(rows)
  BY <1>1, <1>3, FunctionIsSequence
<1> QED
  BY <1>4 DEF Rec

LEMMA RecordedAfterAppend ==
    ASSUME NEW v \in Version, versions \in Seq(Version), versions' = Append(versions, v)
    PROVE  /\ Recorded' = Append(Recorded, Entry(v))
           /\ Len(Recorded) = Len(versions)
           /\ DOMAIN Recorded = Positions
<1> DEFINE Rec == [no : Nat, parent : Nat, content : SUBSET Edits, applied : SUBSET Edits]
<1>1. /\ Len(versions) \in Nat /\ Len(versions') = Len(versions) + 1
      /\ Positions = 1 .. Len(versions) /\ Positions' = 1 .. (Len(versions) + 1)
      /\ \A i \in Positions : versions'[i] = versions[i]
      /\ versions'[Len(versions) + 1] = v
      /\ versions' \in Seq(Version)
  BY AppendRow DEF Positions
<1>2. Recorded \in Seq(Rec) /\ Len(Recorded) = Len(versions)
  BY EntriesOfRows, RecordedEntries
<1>3. Recorded' \in Seq(Rec) /\ Len(Recorded') = Len(versions')
  <2>1. Recorded' = EntriesOf(versions')
    BY DEF Recorded, EntriesOf, Entry, Positions
  <2> QED
    BY <1>1, <2>1, EntriesOfRows
<1>4. Entry(v) \in Rec
  BY DEF Entry, Version
<1> HIDE DEF Rec
<1>5. /\ Append(Recorded, Entry(v)) \in Seq(Rec)
      /\ Len(Append(Recorded, Entry(v))) = Len(versions) + 1
      /\ \A i \in 1 .. Len(versions) : Append(Recorded, Entry(v))[i] = Recorded[i]
      /\ Append(Recorded, Entry(v))[Len(versions) + 1] = Entry(v)
  BY <1>2, <1>4, AppendProperties
<1>6. /\ \A i \in Positions : Recorded'[i] = Entry(versions[i]) /\ Recorded[i] = Entry(versions[i])
      /\ Recorded'[Len(versions) + 1] = Entry(v)
  BY <1>1 DEF Recorded, Entry, Positions
<1>7. \A i \in 1 .. (Len(versions) + 1) : Recorded'[i] = Append(Recorded, Entry(v))[i]
  BY <1>1, <1>5, <1>6
<1>8. Recorded' = Append(Recorded, Entry(v))
  BY <1>1, <1>3, <1>5, <1>7, SeqEqual
<1>9. DOMAIN Recorded = Positions
  BY DEF Recorded, Entry, Positions
<1> QED
  BY <1>2, <1>8, <1>9

\* A commit for the only request: the new row is sound, the others stay so.
LEMMA SerialCommit ==
    ASSUME SingleWorker, SerialInv, IndInv', NEW w \in Workers, NEW v \in Version,
           versions' = Append(versions, v),
           job' = [job EXCEPT ![w].pc = "setStatus"],
           UNCHANGED files,
           v.no = Len(versions) + 1,
           v.path \in {"csv", "parquet"},
           Data(v.path, v.no) = v.content,
           OneValuePerCell(v.content),
           v.applied \subseteq Unapplied,
           \A f \in Edits : appliedIn'[f] = IF f \in v.applied THEN Len(versions) + 1
                                           ELSE appliedIn[f]
    PROVE  SerialInv'
<1> SUFFICES ASSUME NEW n, n = Len(versions) + 1
             PROVE  SerialInv'
  OBVIOUS
<1>1. /\ n \in Nat /\ Positions = 1 .. (n - 1) /\ Positions' = 1 .. n
      /\ n \notin Positions
      /\ \A i \in Positions : versions'[i] = versions[i]
      /\ versions'[n] = v
  BY NumberedByPosition, AppendRow DEF SerialInv, IndInv, TypeOK, Positions
<1>2. \A f \in Edits : appliedIn[f] # n /\ (f \in v.applied => appliedIn[f] = 0)
  BY <1>1 DEF SerialInv, IndInv, TypeOK, Unapplied
<1>3. ASSUME NEW i \in Positions PROVE RowSound(i)'
  <2>1. RowSound(i) /\ versions'[i] = versions[i] /\ i # n /\ i # 0
    BY <1>1 DEF SerialInv
  <2>2. \A f \in Edits : appliedIn'[f] = i <=> appliedIn[f] = i
    BY <1>1, <1>2, <2>1
  <2>3. versions'[i].applied = {f \in Edits : appliedIn'[f] = i}
    BY <2>1, <2>2 DEF RowSound
  <2> QED
    BY <2>1, <2>3 DEF RowSound, Data
<1>4. RowSound(n)'
  <2>1. {f \in Edits : appliedIn'[f] = n} = v.applied
    BY <1>2 DEF Version
  <2> QED
    BY <1>1, <2>1 DEF RowSound, Data, OneValuePerCell
<1>5. \A i \in Positions' : RowSound(i)'
  BY <1>1, <1>3, <1>4
<1>6. FilesSound'
  BY DEF SerialInv, FilesSound, HasFile
<1>7. \A u \in Workers : RequestSound(u)'
  <2>1. job'[w].pc = "setStatus"
    BY DEF SerialInv, IndInv, TypeOK
  <2>2. RequestSound(w)'
    BY <2>1 DEF RequestSound, FixPcs, Numbered, At
  <2> QED
    BY <2>2 DEF SingleWorker
<1> QED
  BY <1>5, <1>6, <1>7 DEF SerialInv

LEMMA SerialCommitFixes ==
    ASSUME SingleWorker, SerialInv, IndInv', NEW w \in Workers, CommitFixes(w)
    PROVE  SerialInv' /\ History!ApplyFixes
<1> DEFINE v == [no |-> job[w].no, parent |-> job[w].src, path |-> "csv",
                 content |-> job[w].df, applied |-> job[w].edits]
<1>1. /\ At(w, "commitFixes") /\ versions' = Append(versions, v)
      /\ job' = [job EXCEPT ![w].pc = "setStatus"]
      /\ UNCHANGED files
      /\ appliedIn' = [f \in Edits |->
                         IF f \in job[w].edits THEN Len(versions) + 1 ELSE appliedIn[f]]
  BY DEF CommitFixes
<1>2. /\ job[w] \in Job /\ job[w].src \in Positions /\ RequestSound(w)
      /\ versions \in Seq(Version)
  BY <1>1 DEF SerialInv, IndInv, TypeOK, At
<1>3. /\ job[w].edits # {} /\ job[w].edits \subseteq Unapplied
      /\ History!Result(job[w].df, versions[job[w].src].content, job[w].edits)
      /\ job[w].no = Len(versions) + 1
      /\ Data("csv", job[w].no) = job[w].df
  BY <1>1, <1>2 DEF RequestSound, FixPcs, Numbered, At
<1>4. OneValuePerCell(job[w].df)
  BY <1>3 DEF OneValuePerCell, History!Result
<1>5. v \in Version
  BY <1>2 DEF Version, Job
<1>6. /\ v.no = job[w].no /\ v.parent = job[w].src /\ v.path = "csv"
      /\ v.content = job[w].df /\ v.applied = job[w].edits
  OBVIOUS
<1> HIDE DEF v
<1>7. SerialInv'
  BY <1>1, <1>3, <1>4, <1>5, <1>6, SerialCommit
<1>8. /\ Recorded' = Append(Recorded, Entry(v)) /\ Len(Recorded) = Len(versions)
      /\ DOMAIN Recorded = Positions
  BY <1>1, <1>2, <1>5, RecordedAfterAppend
<1>9. History!ApplyFixes
  <2>1. Recorded[job[w].src].content = versions[job[w].src].content
    BY <1>2 DEF Recorded
  <2>2. History!Publish(job[w].src, job[w].df, job[w].edits)
    BY <1>3, <1>6, <1>8 DEF History!Publish, Entry
  <2>3. job[w].edits \subseteq History!Unused /\ job[w].df \in SUBSET Edits
    BY <1>2, <1>3 DEF History!Unused, Unapplied, Job
  <2>4. job[w].src \in DOMAIN Recorded
    BY <1>2, <1>8
  <2>5. appliedIn' = [f \in Edits |->
                        IF f \in job[w].edits THEN Len(Recorded) + 1 ELSE appliedIn[f]]
    BY <1>1, <1>8
  <2> QED
    BY <1>3, <2>1, <2>2, <2>3, <2>4, <2>5 DEF History!ApplyFixes
<1> QED
  BY <1>7, <1>9

LEMMA SerialCommitEdits ==
    ASSUME SingleWorker, SerialInv, IndInv', NEW w \in Workers, CommitEdits(w)
    PROVE  SerialInv' /\ History!Correct
<1> DEFINE v == [no |-> job[w].no, parent |-> 0, path |-> "parquet",
                 content |-> job[w].df, applied |-> {}]
<1>1. /\ At(w, "commitEdits") /\ versions' = Append(versions, v)
      /\ job' = [job EXCEPT ![w].pc = "setStatus"]
      /\ UNCHANGED <<files, appliedIn>>
  BY DEF CommitEdits
<1>2. job[w] \in Job /\ RequestSound(w) /\ versions \in Seq(Version)
  BY <1>1 DEF SerialInv, IndInv, TypeOK
<1>3. /\ job[w].no = Len(versions) + 1 /\ job[w].df # {} /\ OneValuePerCell(job[w].df)
      /\ Data("parquet", job[w].no) = job[w].df
  BY <1>1, <1>2 DEF RequestSound, Numbered, At
<1>4. v \in Version
  BY <1>2 DEF Version, Job
<1>5. /\ v.no = job[w].no /\ v.parent = 0 /\ v.path = "parquet"
      /\ v.content = job[w].df /\ v.applied = {}
  OBVIOUS
<1> HIDE DEF v
<1>6. SerialInv'
  BY <1>1, <1>3, <1>4, <1>5, SerialCommit
<1>7. Recorded' = Append(Recorded, Entry(v)) /\ Len(Recorded) = Len(versions)
  BY <1>1, <1>2, <1>4, RecordedAfterAppend
<1>8. History!Publish(0, job[w].df, {})
  BY <1>3, <1>5, <1>7 DEF History!Publish, Entry
<1>9. History!Correct
  BY <1>1, <1>2, <1>3, <1>8 DEF History!Correct, Job
<1> QED
  BY <1>6, <1>9

\* Every step keeps the invariant, and is a step of VersionHistory or none.
LEMMA SerialStep ==
    ASSUME SingleWorker, SerialInv, [Next]_vars
    PROVE  SerialInv' /\ [History!Next]_(History!vars)
<1>1. IndInv'
  BY NextIndInv DEF SerialInv
<1>2. UNCHANGED <<versions, appliedIn>> => UNCHANGED History!vars
  BY DEF History!vars, Recorded, Positions
<1>3. ASSUME NEW w \in Workers, NEW f \in Edits, CreateFix(w, f)
      PROVE  SerialInv' /\ UNCHANGED <<versions, appliedIn>>
  BY <1>1, <1>3, SerialCreateFix DEF CreateFix
<1>4. ASSUME NEW w \in Workers, ReadFixes(w) \/ LoadSource(w) \/ PickNumber(w)
      PROVE  SerialInv' /\ UNCHANGED <<versions, appliedIn>>
  BY <1>1, <1>4, SerialReadFixes, SerialLoadSource, SerialPickNumber
     DEF ReadFixes, LoadSource, PickNumber, database
<1>5. ASSUME NEW w \in Workers, ReadLatest(w) \/ LoadLatest(w)
      PROVE  SerialInv' /\ UNCHANGED <<versions, appliedIn>>
  BY <1>1, <1>5, SerialReadLatest, SerialLoadLatest DEF ReadLatest, LoadLatest, database
<1>6. ASSUME NEW w \in Workers, SaveCsv(w)
      PROVE  SerialInv' /\ UNCHANGED <<versions, appliedIn>>
  BY <1>1, <1>6, SerialSave DEF SaveCsv, At, database
<1>7. ASSUME NEW w \in Workers, SaveParquet(w)
      PROVE  SerialInv' /\ UNCHANGED <<versions, appliedIn>>
  BY <1>1, <1>7, SerialSave DEF SaveParquet, At, database
<1>8. ASSUME NEW w \in Workers, CommitFixes(w)
      PROVE  SerialInv' /\ History!Next
  BY <1>1, <1>8, SerialCommitFixes DEF History!Next
<1>9. ASSUME NEW w \in Workers, CommitEdits(w)
      PROVE  SerialInv' /\ History!Next
  BY <1>1, <1>9, SerialCommitEdits DEF History!Next
<1>10. ASSUME NEW w \in Workers, SetStatus(w) \/ Abandon(w)
       PROVE  SerialInv' /\ UNCHANGED <<versions, appliedIn>>
  <2>1. UNCHANGED <<versions, appliedIn, files>> /\ job'[w] = Idle
    BY <1>10 DEF SetStatus, Abandon, database, SerialInv, IndInv, TypeOK
  <2>2. RequestSound(w)'
    BY <2>1 DEF RequestSound, FixPcs, Numbered, At, Idle
  <2> QED
    BY <1>1, <2>1, <2>2, SerialRequestStep
<1>11. CASE UNCHANGED vars
  <2>1. UNCHANGED <<versions, fixRows, appliedIn, status, files, job>>
    BY <1>11 DEF vars, database
  <2>2. SerialInv'
    BY <1>1, <2>1 DEF SerialInv, Positions, RowSound, FilesSound, RequestSound, Unapplied,
                      HasFile, Data, At
  <2> QED
    BY <1>2, <2>1, <2>2
<1> QED
  BY <1>2, <1>3, <1>4, <1>5, <1>6, <1>7, <1>8, <1>9, <1>10, <1>11
     DEF Next, ApplyFixes, ApplyCorrections

LEMMA InitHistory == Init => History!Init
<1> SUFFICES ASSUME Init PROVE History!Init
  OBVIOUS
<1>1. PICK path \in {"none", "parquet"} : versions = FirstVersion(path)
  BY DEF Init, Uploaded, UploadNotSaved, FromCatalog
<1>2. Recorded = <<[no |-> 1, parent |-> 0, content |-> {}, applied |-> {}]>>
  BY <1>1 DEF Recorded, Positions, FirstVersion
<1> QED
  BY <1>2 DEF History!Init, Init

(***************************************************************************)
(* The results.                                                            *)
(***************************************************************************)

\* With one worker, what a request has read stays so until its last commit.
THEOREM SerialInvariance ==
    ASSUME SingleWorker
    PROVE  Spec => []SerialInv
<1>1. SerialInv /\ [Next]_vars => SerialInv'
  BY SerialStep
<1> QED
  BY <1>1, InitSerialInv, PTL DEF Spec

\* With one worker the requests of the version API, wherever they are cut off,
\* build the history that VersionHistory describes.
THEOREM Refinement ==
    ASSUME SingleWorker
    PROVE  Spec => ImplementsHistory
<1>1. SerialInv /\ [Next]_vars => [History!Next]_(History!vars)
  BY SerialStep
<1> QED
  BY <1>1, InitHistory, SerialInvariance, PTL DEF Spec, ImplementsHistory, History!Spec

\* With one worker a version shows exactly the fixes it was made from.
THEOREM ShownIsApplied ==
    ASSUME SingleWorker
    PROVE  Spec => []FixesShownAreFixesApplied
<1>1. SerialInv => FixesShownAreFixesApplied
  BY DEF SerialInv, RowSound, FixesShownAreFixesApplied
<1> QED
  BY <1>1, SerialInvariance, PTL

\* With one worker no request writes over the file of another version.
THEOREM FilesAreKept ==
    ASSUME SingleWorker
    PROVE  Spec => []VersionsKeepTheirFile
<1>1. SerialInv => VersionsKeepTheirFile
  BY DEF SerialInv, RowSound, VersionsKeepTheirFile
<1> QED
  BY <1>1, SerialInvariance, PTL
================================================================================
