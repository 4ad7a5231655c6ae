---------------------------- MODULE DataDeskProofs ----------------------------
(***************************************************************************)
(* Theorems about DataDesk, for any contents and any bounds on rows,       *)
(* requests, losses and clicks: what the list of datasets no longer shows  *)
(* is deleted, types are correct, and lists that count as fresh hold what  *)
(* was made while they were shown.                                         *)
(***************************************************************************)
EXTENDS DataDesk, TLAPS

--------------------------------------------------------------------------------
(***************************************************************************)
(* The inductive invariant.                                                *)
(***************************************************************************)

RowType == [content : Contents \cup {"none"}, mine : BOOLEAN, gone : BOOLEAN]
FormType == [file : Contents \cup {"none"}, uploading : BOOLEAN, error : BOOLEAN, success : BOOLEAN]

Gone(rows, ids) == \A d \in ids : rows[d].gone

TableShaped(t) ==
    t = [rows |-> t.rows, loaded |-> t.loaded, loading |-> t.loading, error |-> t.error,
         dialog |-> t.dialog, target |-> t.target, deleting |-> t.deleting]

\* A table without its first answer has no dialog, and what it dropped is gone.
TableSound(t, rows) ==
    /\ TableShaped(t)
    /\ t.loading \in BOOLEAN /\ t.dialog \in BOOLEAN
    /\ t.rows \subseteq DOMAIN rows /\ t.loaded \subseteq DOMAIN rows
    /\ t.dialog => ~t.loading /\ t.target \in DOMAIN rows
    /\ Gone(rows, t.loaded \ t.rows)

CallShaped(call) ==
    call = [op |-> call.op, about |-> call.about, content |-> call.content, phase |-> call.phase,
            found |-> call.found, shown |-> call.shown, live |-> call.live, heard |-> call.heard]

\* The list is asked for while the table loads; a deletion of a page that is still there
\* was clicked on a table that was loaded, and what was dropped before is gone.
CallSound(call, rows, t) ==
    /\ CallShaped(call)
    /\ call.content \in Contents \cup {"none"} /\ call.live \in BOOLEAN
    /\ call.op = "list" => /\ call.phase \in {"asked", "ok"} /\ call.shown \subseteq DOMAIN rows
                           /\ t.loading
    /\ call.op = "delete" => /\ call.about \in DOMAIN rows /\ call.shown \subseteq DOMAIN rows
                             /\ call.phase = "ok" => rows[call.about].gone
                             /\ call.live => ~t.loading /\ Gone(rows, t.loaded \ call.shown)

CallsSound(c, rows, t) == c = [s \in Slots |-> c[s]] /\ \A s \in Slots : CallSound(c[s], rows, t)

OneList(c) == \A s, u \in Slots : c[s].op = "list" /\ c[u].op = "list" => s = u

Inv ==
    /\ datasets \in Seq(RowType)
    /\ form \in FormType
    /\ TableSound(table, datasets)
    /\ CallsSound(calls, datasets, table)
    /\ OneList(calls)

\* Datasets are stored and marked as gone, nothing else.
Later(rows, new) ==
    /\ DOMAIN rows \subseteq DOMAIN new
    /\ \A d \in DOMAIN rows : rows[d].gone => new[d].gone

--------------------------------------------------------------------------------
(***************************************************************************)
(* Lemmas about tables and calls.                                          *)
(***************************************************************************)

LEMMA TableLater ==
    ASSUME NEW t, NEW rows, NEW new, TableSound(t, rows), Later(rows, new)
    PROVE  TableSound(t, new)
    BY DEF TableSound, Later, Gone

LEMMA CallLater ==
    ASSUME NEW call, NEW rows, NEW new, NEW t, CallSound(call, rows, t), Later(rows, new),
           t.loaded \subseteq DOMAIN rows
    PROVE  CallSound(call, new, t)
    BY DEF CallSound, Later, Gone

LEMMA CallsLater ==
    ASSUME NEW c, NEW rows, NEW new, NEW t, CallsSound(c, rows, t), Later(rows, new),
           t.loaded \subseteq DOMAIN rows
    PROVE  CallsSound(c, new, t)
    BY CallLater DEF CallsSound

\* Calls read of the table only what was loaded and whether it loads.
LEMMA CallsOfTable ==
    ASSUME NEW c, NEW rows, NEW t, NEW new, CallsSound(c, rows, t),
           new.loaded = t.loaded, new.loading = t.loading
    PROVE  CallsSound(c, rows, new)
    BY DEF CallsSound, CallSound

LEMMA NoCallSound ==
    ASSUME NEW rows, NEW t
    PROVE  CallSound(NoCall, rows, t) /\ NoCall.op = "none" /\ NoCall.phase = "free"
    BY DEF CallSound, CallShaped, NoCall

\* One call takes a step, or a slot is used for another that is not a list.
LEMMA OneCall ==
    ASSUME NEW c, NEW rows, NEW t, CallsSound(c, rows, t), OneList(c), NEW s \in Slots, NEW call,
           CallSound(call, rows, t), call.op # "list" \/ call.op = c[s].op
    PROVE  CallsSound([c EXCEPT ![s] = call], rows, t) /\ OneList([c EXCEPT ![s] = call])
<1> DEFINE new == [c EXCEPT ![s] = call]
<1>1. /\ new = [u \in Slots |-> new[u]] /\ new[s] = call
      /\ \A u \in Slots \ {s} : new[u] = c[u]
    BY DEF CallsSound
<1> HIDE DEF new
<1>2. CallsSound(new, rows, t)
    BY <1>1 DEF CallsSound
<1>3. OneList(new)
    BY <1>1 DEF OneList
<1> QED
    BY <1>2, <1>3 DEF new

LEMMA LeftSound ==
    ASSUME NEW c, NEW rows, NEW t, CallsSound(c, rows, t)
    PROVE  /\ CallsSound(Left(c), rows, NewTable)
           /\ \A s \in Slots : Left(c)[s].op # "list"
<1>1. ASSUME NEW s \in Slots
      PROVE  /\ CallSound(Left(c)[s], rows, NewTable) /\ Left(c)[s].op # "list"
  <2>1. CASE c[s].op = "list"
    BY <2>1, NoCallSound DEF Left
  <2>2. CASE c[s].op # "list"
    <3>1. Left(c)[s] = [c[s] EXCEPT !.live = FALSE]
      BY <2>2 DEF Left
    <3>2. CallSound(c[s], rows, t)
      BY DEF CallsSound
    <3>3. /\ CallShaped(Left(c)[s]) /\ Left(c)[s].live = FALSE /\ Left(c)[s].op = c[s].op
          /\ Left(c)[s].content = c[s].content /\ Left(c)[s].about = c[s].about
          /\ Left(c)[s].shown = c[s].shown /\ Left(c)[s].phase = c[s].phase
      BY <3>1, <3>2 DEF CallSound, CallShaped
    <3> QED
      BY <2>2, <3>2, <3>3 DEF CallSound
  <2> QED
    BY <2>1, <2>2
<1>2. Left(c) = [s \in Slots |-> Left(c)[s]]
    BY DEF Left
<1> QED
    BY <1>1, <1>2 DEF CallsSound

LEMMA NewTableSound == ASSUME NEW rows PROVE TableSound(NewTable, rows)
    BY DEF TableSound, TableShaped, NewTable, Gone

LEMMA NewFormType == NewForm \in FormType /\ [NewForm EXCEPT !.success = TRUE] \in FormType
    BY DEF NewForm, FormType

\* A page that opens leaves no list behind and no dialog.
LEMMA GoToSound ==
    ASSUME Inv, NEW p, NEW c, NEW cc, CallsSound(cc, datasets, table), GoTo(p, c, Left(cc)), UNCHANGED server
    PROVE  Inv'
<1>1. CallsSound(Left(cc), datasets, NewTable) /\ \A s \in Slots : Left(cc)[s].op # "list"
    BY LeftSound
<1>2. CallsSound(calls', datasets, NewTable) /\ OneList(calls')
  <2>1. CASE p = <<"datasets">>
    <3>0. PICK list : list = [NoCall EXCEPT !.op = "list", !.phase = "asked", !.live = TRUE]
      OBVIOUS
    <3>1. PICK s \in Slots : calls' = [Left(cc) EXCEPT ![s] = list]
      BY <2>1, <3>0 DEF GoTo
    <3>2. CallSound(list, datasets, NewTable)
      <4>1. list = [op |-> "list", about |-> None, content |-> "none", phase |-> "asked",
                    found |-> FALSE, shown |-> {}, live |-> TRUE, heard |-> FALSE]
        BY <3>0 DEF NoCall
      <4>2. NewTable.loading = TRUE
        BY DEF NewTable
      <4> QED
        BY <4>1, <4>2 DEF CallSound, CallShaped
    <3>3. calls' = [u \in Slots |-> calls'[u]] /\ calls'[s] = list
          /\ \A u \in Slots \ {s} : calls'[u] = Left(cc)[u]
      BY <1>1, <3>1 DEF CallsSound
    <3>4. CallsSound(calls', datasets, NewTable)
      BY <1>1, <3>2, <3>3 DEF CallsSound
    <3> QED
      BY <1>1, <3>3, <3>4 DEF OneList
  <2>2. CASE p # <<"datasets">>
    BY <1>1, <2>2 DEF GoTo, OneList
  <2> QED
    BY <2>1, <2>2
<1>3. table' = NewTable /\ form' = NewForm /\ datasets' = datasets
    BY DEF GoTo, server
<1>4. TableSound(table', datasets') /\ CallsSound(calls', datasets', table')
    BY <1>2, <1>3, NewTableSound
<1> QED
    BY <1>2, <1>3, <1>4, NewFormType DEF Inv

LEMMA InvUnchanged ==
    ASSUME Inv, UNCHANGED <<datasets, form, table, calls>> PROVE Inv'
    BY DEF Inv, TableSound, TableShaped, CallsSound, CallSound, CallShaped, OneList, Gone

\* A step that leaves the rows and the table alone.
LEMMA CallsStep ==
    ASSUME Inv, UNCHANGED <<datasets, table>>, form' \in FormType,
           CallsSound(calls', datasets, table), OneList(calls')
    PROVE  Inv'
    BY DEF Inv

\* A step that keeps what the table was loaded with.
LEMMA TableStep ==
    ASSUME Inv, UNCHANGED datasets, form' \in FormType, TableSound(table', datasets),
           table'.loaded = table.loaded, table'.loading = table.loading,
           CallsSound(calls', datasets, table), OneList(calls')
    PROVE  Inv'
<1>1. CallsSound(calls', datasets, table')
    BY CallsOfTable
<1> QED
    BY <1>1 DEF Inv

\* A step that stores or deletes datasets.
LEMMA RowsStep ==
    ASSUME Inv, datasets' \in Seq(RowType), Later(datasets, datasets'), UNCHANGED <<form, table>>,
           CallsSound(calls', datasets', table), OneList(calls')
    PROVE  Inv'
    BY TableLater DEF Inv

\* A request that a click sends.
LEMMA StartSound ==
    ASSUME Inv, NEW s \in Slots, NEW call, Start(s, call), CallShaped(call),
           call.content \in Contents \cup {"none"}, call.op # "list", call.op # "delete"
    PROVE  CallsSound(calls', datasets, table) /\ OneList(calls')
<1>0. PICK new : new = [call EXCEPT !.phase = "sent", !.live = TRUE, !.heard = TRUE]
    OBVIOUS
<1>1. calls' = [calls EXCEPT ![s] = new]
    BY <1>0 DEF Start
<1>2. CallShaped(new) /\ new.op = call.op /\ new.content = call.content /\ new.live = TRUE
    BY <1>0 DEF CallShaped
<1>3. CallSound(new, datasets, table) /\ new.op # "list"
    BY <1>2 DEF CallSound
<1> QED
    BY <1>1, <1>3, OneCall DEF Inv

\* A call is given up, or its phase changes to one that promises nothing.
LEMMA DoneSound ==
    ASSUME Inv, NEW s \in Slots, calls' = [calls EXCEPT ![s] = NoCall]
    PROVE  CallsSound(calls', datasets, table) /\ OneList(calls')
    BY NoCallSound, OneCall DEF Inv

LEMMA PhaseSound ==
    ASSUME Inv, NEW s \in Slots, NEW rows, CallsSound(calls, rows, table), calls[s].op # "list",
           NEW phase, calls[s].op = "delete" /\ phase = "ok" => rows[calls[s].about].gone,
           calls' \in {[calls EXCEPT ![s].phase = phase], [calls EXCEPT ![s] = NoCall]}
    PROVE  CallsSound(calls', rows, table) /\ OneList(calls')
<1> DEFINE new == [calls[s] EXCEPT !.phase = phase]
<1>1. CallSound(calls[s], rows, table)
    BY DEF CallsSound
<1>2. new = [op |-> calls[s].op, about |-> calls[s].about, content |-> calls[s].content,
             phase |-> phase, found |-> calls[s].found, shown |-> calls[s].shown,
             live |-> calls[s].live, heard |-> calls[s].heard]
    BY <1>1 DEF CallSound, CallShaped
<1>3. calls' = [calls EXCEPT ![s] = new] \/ calls' = [calls EXCEPT ![s] = NoCall]
    OBVIOUS
<1> HIDE DEF new
<1>4. CallSound(new, rows, table) /\ new.op = calls[s].op
    BY <1>1, <1>2 DEF CallSound, CallShaped
<1>5. OneList(calls)
    BY DEF Inv
<1>6. CASE calls' = [calls EXCEPT ![s] = new]
    BY <1>4, <1>5, <1>6, OneCall
<1>7. CASE calls' = [calls EXCEPT ![s] = NoCall]
    BY <1>5, <1>7, NoCallSound, OneCall
<1> QED
    BY <1>3, <1>6, <1>7

LEMMA AnsweredCases ==
    ASSUME NEW s \in Slots, NEW phase, Answered(s, phase), Inv
    PROVE  calls' \in {[calls EXCEPT ![s].phase = phase], [calls EXCEPT ![s] = NoCall]}
<1>1. calls' = [calls EXCEPT ![s] = IF calls[s].heard THEN [calls[s] EXCEPT !.phase = phase] ELSE NoCall]
    BY DEF Answered
<1> QED
    BY <1>1

--------------------------------------------------------------------------------
(***************************************************************************)
(* The steps.                                                              *)
(***************************************************************************)

LEMMA ClicksStep == ASSUME Inv, Clicks PROVE Inv'
<1>a. /\ datasets \in Seq(RowType) /\ form \in FormType /\ TableSound(table, datasets)
      /\ CallsSound(calls, datasets, table) /\ OneList(calls)
    BY DEF Inv
<1>1. ASSUME NEW p \in Links, OpenPage(p) PROVE Inv'
    BY <1>a, <1>1, GoToSound DEF OpenPage
<1>2. ASSUME NEW c \in Contents, handleFileChange(c) PROVE Inv'
  <2>1. form' \in FormType
    BY <1>a, <1>2 DEF handleFileChange, FormType
  <2> QED
    BY <1>a, <1>2, <2>1, CallsStep DEF handleFileChange, server
<1>3. ASSUME NEW d \in DOMAIN datasets, AskDelete(d) PROVE Inv'
  <2>1. table' = [rows |-> table.rows, loaded |-> table.loaded, loading |-> table.loading,
                  error |-> table.error, dialog |-> TRUE, target |-> d, deleting |-> table.deleting]
    BY <1>a, <1>3 DEF AskDelete, TableSound, TableShaped
  <2>2. ~table.loading
    BY <1>3 DEF AskDelete
  <2>3. TableSound(table', datasets)
    BY <1>a, <2>1, <2>2 DEF TableSound, TableShaped
  <2> QED
    BY <1>a, <1>3, <2>1, <2>3, TableStep DEF AskDelete, server
<1>4. CASE CloseDelete
  <2>1. table' = [rows |-> table.rows, loaded |-> table.loaded, loading |-> table.loading,
                  error |-> table.error, dialog |-> FALSE, target |-> table.target,
                  deleting |-> table.deleting]
    BY <1>a, <1>4 DEF CloseDelete, TableSound, TableShaped
  <2>2. TableSound(table', datasets)
    BY <1>a, <2>1 DEF TableSound, TableShaped
  <2> QED
    BY <1>a, <1>4, <2>1, <2>2, TableStep DEF CloseDelete, server
<1>5. ASSUME NEW open \in BOOLEAN, OpenConnect(open) PROVE Inv'
    BY <1>5, InvUnchanged DEF OpenConnect, server
<1>6. ASSUME NEW e \in {None} \cup DOMAIN entries, setImportEntry(e) PROVE Inv'
    BY <1>6, InvUnchanged DEF setImportEntry, server
<1>7. ASSUME NEW s \in Slots, handleUpload(s) PROVE Inv'
  <2>1. CASE form.file \in BadFiles
    <3>1. form' \in FormType
      BY <1>a, <1>7, <2>1 DEF handleUpload, FormType
    <3> QED
      BY <1>a, <1>7, <2>1, <3>1, CallsStep DEF handleUpload, server
  <2>2. CASE form.file \notin BadFiles
    <3>0. PICK call : call = [NoCall EXCEPT !.op = "upload", !.content = form.file]
      OBVIOUS
    <3>1. Start(s, call)
      BY <1>7, <2>2, <3>0 DEF handleUpload
    <3>2. CallShaped(call) /\ call.op = "upload" /\ call.content = form.file
      BY <3>0 DEF CallShaped, NoCall
    <3>3. form.file \in Contents \cup {"none"}
      BY <1>a DEF FormType
    <3>4. CallsSound(calls', datasets, table) /\ OneList(calls')
      BY <3>1, <3>2, <3>3, StartSound
    <3>5. form' \in FormType
      BY <1>a, <1>7, <2>2 DEF handleUpload, FormType
    <3> QED
      BY <1>7, <3>4, <3>5, CallsStep DEF handleUpload, server
  <2> QED
    BY <2>1, <2>2
<1>8. ASSUME NEW s \in Slots, handleDeleteDataset(s) PROVE Inv'
  <2>0. PICK click : click = [NoCall EXCEPT !.op = "delete", !.about = table.target, !.shown = table.rows]
    OBVIOUS
  <2>a. PICK call : call = [click EXCEPT !.phase = "sent", !.live = TRUE, !.heard = TRUE]
    OBVIOUS
  <2>1. Start(s, click)
    BY <1>8, <2>0 DEF handleDeleteDataset
  <2>2. calls' = [calls EXCEPT ![s] = call]
    BY <2>a, <2>1 DEF Start
  <2>b. /\ CallShaped(click) /\ click.op = "delete" /\ click.about = table.target
        /\ click.content = "none" /\ click.shown = table.rows
    BY <2>0 DEF CallShaped, NoCall
  <2>c. /\ CallShaped(call) /\ call.op = "delete" /\ call.about = table.target /\ call.live = TRUE
        /\ call.content = "none" /\ call.shown = table.rows /\ call.phase = "sent"
    BY <2>a, <2>b DEF CallShaped
  <2>3. table.dialog
    BY <1>8 DEF handleDeleteDataset
  <2>4. CallSound(call, datasets, table)
    <3>1. /\ ~table.loading /\ table.target \in DOMAIN datasets /\ table.rows \subseteq DOMAIN datasets
          /\ Gone(datasets, table.loaded \ table.rows)
      BY <1>a, <2>3 DEF TableSound
    <3>2. Gone(datasets, table.loaded \ call.shown)
      BY <2>c, <3>1
    <3>3. call.phase # "ok" /\ call.op # "list"
      BY <2>c
    <3>4. call.content \in Contents \cup {"none"} /\ call.live \in BOOLEAN
      BY <2>c
    <3>5. call.about \in DOMAIN datasets /\ call.shown \subseteq DOMAIN datasets
      BY <2>c, <3>1
    <3>6. CallShaped(call)
      BY <2>c
    <3>7. ~table.loading
      BY <3>1
    <3> QED
      BY <3>2, <3>3, <3>4, <3>5, <3>6, <3>7 DEF CallSound
  <2>d. call.op # "list"
    BY <2>c
  <2>5. CallsSound(calls', datasets, table) /\ OneList(calls')
    BY <1>a, <2>2, <2>4, <2>d, OneCall
  <2>6. table' = [rows |-> table.rows, loaded |-> table.loaded, loading |-> table.loading,
                  error |-> table.error, dialog |-> table.dialog, target |-> table.target,
                  deleting |-> TRUE]
    BY <1>a, <1>8 DEF handleDeleteDataset, TableSound, TableShaped
  <2>7. TableSound(table', datasets)
    BY <1>a, <2>6 DEF TableSound, TableShaped
  <2> QED
    BY <1>a, <1>8, <2>5, <2>6, <2>7, TableStep DEF handleDeleteDataset, server
<1>9. ASSUME NEW s \in Slots, handleSave(s) PROVE Inv'
  <2>0. PICK call : call = [NoCall EXCEPT !.op = "create"]
    OBVIOUS
  <2>1. CallShaped(call) /\ call.op = "create" /\ call.content = "none"
    BY <2>0 DEF CallShaped, NoCall
  <2>2. Start(s, call)
    BY <1>9, <2>0 DEF handleSave
  <2> QED
    BY <1>a, <1>9, <2>1, <2>2, StartSound, CallsStep DEF handleSave, server
<1>10. ASSUME NEW s \in Slots, handleImport(s) PROVE Inv'
  <2>0. PICK call : call = [NoCall EXCEPT !.op = "import", !.about = detail.importEntry, !.content = TableContent]
    OBVIOUS
  <2>1. CallShaped(call) /\ call.op = "import" /\ call.content = TableContent
    BY <2>0 DEF CallShaped, NoCall
  <2>2. Start(s, call)
    BY <1>10, <2>0 DEF handleImport
  <2> QED
    BY <1>a, <1>10, <2>1, <2>2, StartSound, CallsStep, ContentAssumption DEF handleImport, server
<1>11. ASSUME NEW s \in Slots, NEW id \in 1..sources, handleSync(s, id) PROVE Inv'
  <2>0. PICK call : call = [NoCall EXCEPT !.op = "sync", !.about = id]
    OBVIOUS
  <2>1. CallShaped(call) /\ call.op = "sync" /\ call.content = "none"
    BY <2>0 DEF CallShaped, NoCall
  <2>2. Start(s, call)
    BY <1>11, <2>0 DEF handleSync
  <2> QED
    BY <1>a, <1>11, <2>1, <2>2, StartSound, CallsStep DEF handleSync, server, desks
<1> QED
    BY <1>1, <1>2, <1>3, <1>4, <1>5, <1>6, <1>7, <1>8, <1>9, <1>10, <1>11 DEF Clicks

LEMMA ServesStep == ASSUME Inv, NEW s \in Slots,
                           \/ ListServed(s) \/ Checks(s) \/ import_file(s) \/ sync_catalog(s)
                           \/ create_data_source(s) \/ delete_dataset(s) \/ Refused(s) \/ Lost(s)
                           \/ TimesOut(s)
                    PROVE  Inv'
<1>a. /\ datasets \in Seq(RowType) /\ form \in FormType /\ TableSound(table, datasets)
      /\ CallsSound(calls, datasets, table) /\ OneList(calls)
    BY DEF Inv
<1>b. CallSound(calls[s], datasets, table) /\ CallShaped(calls[s])
    BY <1>a DEF CallsSound, CallSound
<1>1. CASE ListServed(s)
  <2> DEFINE shown == {d \in DOMAIN datasets : ~datasets[d].gone}
  <2>0. PICK call : call = [calls[s] EXCEPT !.phase = "ok", !.shown = shown]
    OBVIOUS
  <2>1. calls' = [calls EXCEPT ![s] = call]
    BY <1>a, <1>1, <2>0 DEF ListServed, CallsSound
  <2>a. /\ CallShaped(call) /\ call.op = calls[s].op /\ call.about = calls[s].about
        /\ call.content = calls[s].content /\ call.phase = "ok" /\ call.shown = shown
        /\ call.live = calls[s].live
    BY <1>b, <2>0 DEF CallShaped
  <2>2. calls[s].op = "list" /\ shown \subseteq DOMAIN datasets
    BY <1>1 DEF ListServed
  <2> HIDE DEF shown
  <2>3. CallSound(call, datasets, table) /\ call.op = calls[s].op
    BY <1>b, <2>2, <2>a DEF CallSound
  <2>4. CallsSound(calls', datasets, table) /\ OneList(calls')
    BY <1>a, <2>1, <2>3, OneCall
  <2> QED
    BY <1>a, <1>1, <2>4, CallsStep DEF ListServed, server, desks
<1>2. CASE Checks(s)
  <2> DEFINE found == IF calls[s].op = "sync" THEN get_catalog_entries(calls[s].about) # {}
                      ELSE SameContent(calls[s].content)
  <2>0. PICK call : call = [calls[s] EXCEPT !.phase = "checked", !.found = found]
    OBVIOUS
  <2>1. calls' = [calls EXCEPT ![s] = call]
    BY <1>a, <1>2, <2>0 DEF Checks, CallsSound
  <2> HIDE DEF found
  <2>a. /\ CallShaped(call) /\ call.op = calls[s].op /\ call.content = calls[s].content
        /\ call.live = calls[s].live
    BY <1>b, <2>0 DEF CallShaped
  <2>2. calls[s].op \in {"upload", "import", "sync"}
    BY <1>2 DEF Checks
  <2>3. CallSound(call, datasets, table) /\ call.op = calls[s].op
    BY <1>b, <2>2, <2>a DEF CallSound
  <2>4. CallsSound(calls', datasets, table) /\ OneList(calls')
    BY <1>a, <2>1, <2>3, OneCall
  <2> QED
    BY <1>a, <1>2, <2>4, CallsStep DEF Checks, server, desks
<1>3. CASE import_file(s)
  <2>1. calls[s].op \in {"upload", "import"}
    BY <1>3 DEF import_file
  <2>2. PICK phase : Answered(s, phase)
    BY <1>3 DEF import_file
  <2>3. datasets' \in Seq(RowType) /\ Later(datasets, datasets')
    <3>1. CASE datasets' = datasets
      BY <1>a, <3>1 DEF Later
    <3>2. CASE datasets' = Stored(calls[s].content)
      <4>1. [content |-> calls[s].content, mine |-> TRUE, gone |-> FALSE] \in RowType
        BY <1>b DEF CallSound, RowType
      <4> QED
        BY <1>a, <3>2, <4>1 DEF Stored, Later
    <3> QED
      BY <1>3, <3>1, <3>2 DEF import_file
  <2>4. CallsSound(calls, datasets', table)
    BY <1>a, <2>3, CallsLater DEF TableSound
  <2>5. CallsSound(calls', datasets', table) /\ OneList(calls')
    BY <2>1, <2>2, <2>4, AnsweredCases, PhaseSound
  <2> QED
    BY <1>3, <2>3, <2>5, RowsStep DEF import_file, desks
<1>4. CASE sync_catalog(s) \/ Refused(s)
  <2>1. PICK phase \in {"ok", "refused"} : Answered(s, phase) /\ (phase = "ok" => calls[s].op = "sync")
    BY <1>4 DEF sync_catalog, Refused
  <2>2. calls[s].op # "list"
    BY <1>4 DEF sync_catalog, Refused
  <2>3. CallsSound(calls', datasets, table) /\ OneList(calls')
    BY <1>a, <2>1, <2>2, AnsweredCases, PhaseSound
  <2> QED
    BY <1>a, <1>4, <2>3, CallsStep DEF sync_catalog, Refused, server, desks
<1>5. CASE create_data_source(s)
  <2>0. PICK call : call = [calls[s] EXCEPT !.phase = "ok", !.about = sources + 1]
    OBVIOUS
  <2>1. calls' = [calls EXCEPT ![s] = call] /\ calls[s].op = "create"
    BY <1>a, <1>5, <2>0 DEF create_data_source, CallsSound
  <2>a. /\ CallShaped(call) /\ call.op = calls[s].op /\ call.content = calls[s].content
        /\ call.live = calls[s].live
    BY <1>b, <2>0 DEF CallShaped
  <2>2. CallSound(call, datasets, table) /\ call.op = calls[s].op
    BY <1>b, <2>1, <2>a DEF CallSound
  <2>3. CallsSound(calls', datasets, table) /\ OneList(calls')
    BY <1>a, <2>1, <2>2, OneCall
  <2> QED
    BY <1>a, <1>5, <2>3, CallsStep DEF create_data_source, desks
<1>6. CASE delete_dataset(s)
  <2> DEFINE d == calls[s].about
             may == datasets[d].mine /\ ~datasets[d].gone
  <2>1. calls[s].op = "delete" /\ d \in DOMAIN datasets
    BY <1>b, <1>6 DEF delete_dataset, CallSound
  <2>2. /\ datasets' = IF may THEN [datasets EXCEPT ![d].gone = TRUE] ELSE datasets
        /\ Answered(s, IF may THEN "ok" ELSE "refused")
    BY <1>6 DEF delete_dataset
  <2>3. datasets' \in Seq(RowType) /\ Later(datasets, datasets') /\ (may => datasets'[d].gone)
    <3>1. CASE ~may
      BY <1>a, <2>2, <3>1 DEF Later
    <3>2. CASE may
      <4>1. datasets[d] \in RowType
        BY <1>a, <2>1
      <4>2. [datasets[d] EXCEPT !.gone = TRUE] \in RowType
        BY <4>1 DEF RowType
      <4>3. datasets' = [datasets EXCEPT ![d] = [datasets[d] EXCEPT !.gone = TRUE]]
        BY <2>2, <3>2
      <4>4. datasets'[d].gone = TRUE
        BY <1>a, <2>1, <4>1, <4>3 DEF RowType
      <4>5. datasets' \in Seq(RowType) /\ DOMAIN datasets' = DOMAIN datasets
            /\ \A x \in DOMAIN datasets \ {d} : datasets'[x] = datasets[x]
        BY <1>a, <2>1, <4>2, <4>3
      <4> QED
        BY <4>4, <4>5 DEF Later
    <3> QED
      BY <3>1, <3>2
  <2>4. CallsSound(calls, datasets', table)
    BY <1>a, <2>3, CallsLater DEF TableSound
  <2>5. CallsSound(calls', datasets', table) /\ OneList(calls')
    <3>1. CASE may
      <4>1. calls' \in {[calls EXCEPT ![s].phase = "ok"], [calls EXCEPT ![s] = NoCall]}
        BY <2>2, <3>1, AnsweredCases
      <4> QED
        BY <2>1, <2>3, <2>4, <3>1, <4>1, PhaseSound
    <3>2. CASE ~may
      <4>1. calls' \in {[calls EXCEPT ![s].phase = "refused"], [calls EXCEPT ![s] = NoCall]}
        BY <2>2, <3>2, AnsweredCases
      <4> QED
        BY <2>1, <2>4, <4>1, PhaseSound
    <3> QED
      BY <3>1, <3>2
  <2> QED
    BY <1>6, <2>3, <2>5, RowsStep DEF delete_dataset, desks
<1>7. CASE Lost(s)
  <2>1. calls[s].op # "list" /\ calls' = [calls EXCEPT ![s].phase = "sent"]
    BY <1>7 DEF Lost
  <2>2. CallsSound(calls', datasets, table) /\ OneList(calls')
    <3>1. PICK phase : phase = "sent"
      OBVIOUS
    <3>2. calls' \in {[calls EXCEPT ![s].phase = phase], [calls EXCEPT ![s] = NoCall]}
      BY <2>1, <3>1
    <3>3. ~(calls[s].op = "delete" /\ phase = "ok")
      BY <3>1
    <3> QED
      BY <1>a, <2>1, <3>2, <3>3, PhaseSound
  <2> QED
    BY <1>a, <1>7, <2>2, CallsStep DEF Lost, server, desks
<1>8. CASE TimesOut(s)
  <2>1. calls[s].phase = "checked" /\ calls[s].op # "list"
    BY <1>b, <1>8 DEF TimesOut, CallSound
  <2>a. PICK first : first = [calls[s] EXCEPT !.heard = FALSE, !.live = FALSE]
    OBVIOUS
  <2>b. PICK again : again = [calls[s] EXCEPT !.phase = "sent"]
    OBVIOUS
  <2>2. PICK t \in Slots : /\ Free(t)
                           /\ calls' = [calls EXCEPT ![t] = [calls[s] EXCEPT !.heard = FALSE, !.live = FALSE],
                                                     ![s].phase = "sent"]
    BY <1>8 DEF TimesOut
  <2>3. t # s
    BY <2>1, <2>2 DEF Free
  <2>c. PICK between : between = [calls EXCEPT ![t] = first]
    OBVIOUS
  <2>4. calls' = [between EXCEPT ![s] = again]
    BY <1>a, <2>2, <2>3, <2>a, <2>b, <2>c DEF CallsSound
  <2>d. /\ CallShaped(first) /\ first.op = calls[s].op /\ first.about = calls[s].about
        /\ first.content = calls[s].content /\ first.shown = calls[s].shown
        /\ first.live = FALSE /\ first.phase = calls[s].phase
    BY <1>b, <2>a DEF CallShaped
  <2>e. /\ CallShaped(again) /\ again.op = calls[s].op /\ again.about = calls[s].about
        /\ again.content = calls[s].content /\ again.shown = calls[s].shown
        /\ again.live = calls[s].live /\ again.phase = "sent"
    BY <1>b, <2>b DEF CallShaped
  <2>5. CallSound(first, datasets, table) /\ CallSound(again, datasets, table)
        /\ first.op # "list" /\ again.op # "list"
    BY <1>b, <2>1, <2>d, <2>e DEF CallSound
  <2>6. CallsSound(between, datasets, table) /\ OneList(between)
    BY <1>a, <2>5, <2>c, OneCall
  <2>7. CallsSound(calls', datasets, table) /\ OneList(calls')
    BY <2>4, <2>5, <2>6, OneCall
  <2> QED
    BY <1>a, <1>8, <2>7, CallsStep DEF TimesOut, server, desks
<1> QED
    BY <1>1, <1>2, <1>3, <1>4, <1>5, <1>6, <1>7, <1>8

\* The only list arrives or fails: no deletion of this page is under way.
LEMMA ListStep ==
    ASSUME Inv, NEW s \in Slots, calls[s].op = "list", calls' = [calls EXCEPT ![s] = NoCall],
           UNCHANGED <<datasets, form>>, TableSound(table', datasets)
    PROVE  Inv'
<1>a. CallsSound(calls, datasets, table) /\ OneList(calls)
    BY DEF Inv
<1>1. \A u \in Slots : CallSound(calls[u], datasets, table)
    BY <1>a DEF CallsSound
<1>2. table.loading
    BY <1>1 DEF CallSound
<1>3. /\ calls' = [u \in Slots |-> calls'[u]] /\ calls'[s] = NoCall
      /\ \A u \in Slots \ {s} : calls'[u] = calls[u] /\ calls[u].op # "list"
    BY <1>a DEF CallsSound, OneList
<1>4. \A u \in Slots \ {s} : CallSound(calls'[u], datasets, table')
    BY <1>1, <1>2, <1>3 DEF CallSound
<1>5. CallsSound(calls', datasets, table')
    BY <1>3, <1>4, NoCallSound DEF CallsSound
<1>6. OneList(calls')
    BY <1>3, NoCallSound DEF OneList
<1> QED
    BY <1>5, <1>6 DEF Inv

LEMMA ContinuesStep == ASSUME Inv, NEW s \in Slots,
                              \/ loadDatasets(s) \/ ListFails(s) \/ Uploaded(s) \/ Deleted(s)
                              \/ Created(s) \/ Synced(s) \/ Imported(s) \/ Fails(s)
                       PROVE  Inv'
<1>a. /\ datasets \in Seq(RowType) /\ form \in FormType /\ TableSound(table, datasets)
      /\ CallsSound(calls, datasets, table) /\ OneList(calls)
    BY DEF Inv
<1>b. CallSound(calls[s], datasets, table) /\ CallShaped(calls[s]) /\ TableShaped(table)
    BY <1>a DEF CallsSound, CallSound, TableSound
<1>1. CASE loadDatasets(s)
  <2>1. calls[s].op = "list" /\ table.loading /\ calls[s].shown \subseteq DOMAIN datasets
    BY <1>b, <1>1 DEF loadDatasets, CallSound
  <2>2. table' = [rows |-> calls[s].shown, loaded |-> calls[s].shown, loading |-> FALSE,
                  error |-> table.error, dialog |-> table.dialog, target |-> table.target,
                  deleting |-> table.deleting]
    BY <1>b, <1>1 DEF loadDatasets, TableShaped
  <2>3. TableSound(table', datasets)
    BY <1>a, <2>1, <2>2 DEF TableSound, TableShaped, Gone
  <2> QED
    BY <1>1, <2>1, <2>3, ListStep DEF loadDatasets, server
<1>2. CASE ListFails(s)
  <2>1. calls[s].op = "list" /\ table.loading
    BY <1>b, <1>2 DEF ListFails, CallSound
  <2>2. table' = [rows |-> table.rows, loaded |-> table.loaded, loading |-> FALSE,
                  error |-> TRUE, dialog |-> table.dialog, target |-> table.target,
                  deleting |-> table.deleting]
    BY <1>b, <1>2 DEF ListFails, TableShaped
  <2>3. TableSound(table', datasets)
    BY <1>a, <2>1, <2>2 DEF TableSound, TableShaped
  <2> QED
    BY <1>2, <2>1, <2>3, ListStep DEF ListFails, server
<1>3. CASE Uploaded(s)
  <2>1. CallsSound(calls', datasets, table) /\ OneList(calls')
    BY <1>3, DoneSound DEF Uploaded, Done
  <2> QED
    BY <1>a, <1>3, <2>1, CallsStep, NewFormType DEF Uploaded, server
<1>4. CASE Deleted(s)
  <2>1. CallsSound(calls', datasets, table) /\ OneList(calls')
    BY <1>4, DoneSound DEF Deleted, Done
  <2>2. CASE calls[s].live
    <3>1. table' = [rows |-> calls[s].shown \ {calls[s].about}, loaded |-> table.loaded,
                    loading |-> table.loading, error |-> table.error, dialog |-> FALSE,
                    target |-> None, deleting |-> FALSE]
      BY <1>b, <1>4, <2>2 DEF Deleted, TableShaped
    <3>2. /\ calls[s].shown \subseteq DOMAIN datasets /\ datasets[calls[s].about].gone
          /\ Gone(datasets, table.loaded \ calls[s].shown)
      BY <1>b, <1>4, <2>2 DEF Deleted, CallSound
    <3>3. TableSound(table', datasets)
      BY <1>a, <3>1, <3>2 DEF TableSound, TableShaped, Gone
    <3> QED
      BY <1>a, <1>4, <2>1, <3>1, <3>3, TableStep DEF Deleted, server
  <2>3. CASE ~calls[s].live
    BY <1>a, <1>4, <2>1, <2>3, CallsStep DEF Deleted, server
  <2> QED
    BY <2>2, <2>3
<1>5. CASE Created(s) \/ Synced(s)
  <2>1. CallsSound(calls', datasets, table) /\ OneList(calls')
    BY <1>5, DoneSound DEF Created, Synced, Done
  <2> QED
    BY <1>a, <1>5, <2>1, CallsStep DEF Created, Synced, server, desks
<1>6. CASE Imported(s)
  <2>1. CallsSound([calls EXCEPT ![s] = NoCall], datasets, table)
    BY <1>a, NoCallSound, OneCall
  <2> QED
    BY <1>6, <2>1, GoToSound DEF Imported
<1>7. CASE Fails(s)
  <2>1. CallsSound(calls', datasets, table) /\ OneList(calls')
    BY <1>7, DoneSound DEF Fails, Done
  <2>2. form' \in FormType
    BY <1>a, <1>7 DEF Fails, FormType
  <2>3. CASE table' = table
    BY <1>a, <1>7, <2>1, <2>2, <2>3, CallsStep DEF Fails, server
  <2>4. CASE table' = [table EXCEPT !.deleting = FALSE, !.error = TRUE]
    <3>1. table' = [rows |-> table.rows, loaded |-> table.loaded, loading |-> table.loading,
                    error |-> TRUE, dialog |-> table.dialog, target |-> table.target,
                    deleting |-> FALSE]
      BY <1>b, <2>4 DEF TableShaped
    <3>2. TableSound(table', datasets)
      BY <1>a, <3>1 DEF TableSound, TableShaped
    <3> QED
      BY <1>7, <2>1, <2>2, <3>1, <3>2, TableStep DEF Fails, server
  <2> QED
    BY <1>7, <2>3, <2>4 DEF Fails
<1> QED
    BY <1>1, <1>2, <1>3, <1>4, <1>5, <1>6, <1>7

LEMMA StepInv == Inv /\ [Next]_vars => Inv'
<1> SUFFICES ASSUME Inv, [Next]_vars PROVE Inv'
    OBVIOUS
<1>1. CASE Redirected
  <2>1. CASE page = <<"datasets">>
    BY <1>1, <2>1, InvUnchanged DEF Redirected, server, desks
  <2>2. CASE page # <<"datasets">>
    BY <1>1, <2>2, GoToSound DEF Redirected, Inv
  <2> QED
    BY <2>1, <2>2
<1>2. CASE Queries
    BY <1>2, InvUnchanged DEF Queries, FetchServed, FetchArrives, FetchFails, GoStale, server, desks
<1>3. CASE UNCHANGED vars
    BY <1>3, InvUnchanged DEF vars, server, desks
<1> QED
    BY <1>1, <1>2, <1>3, ClicksStep, ServesStep, ContinuesStep DEF Next, Serves, Continues

LEMMA InitInv == Init => Inv
<1> SUFFICES ASSUME Init PROVE Inv
    OBVIOUS
<1>1. calls = [s \in Slots |-> NoCall] /\ table = NewTable /\ form = NewForm
    BY DEF Init
<1>2. CallsSound(calls, datasets, table) /\ OneList(calls)
    BY <1>1, NoCallSound DEF CallsSound, OneList
<1>3. datasets \in Seq(RowType)
    BY DEF Init, RowType
<1> QED
    BY <1>1, <1>2, <1>3, NewTableSound, NewFormType DEF Inv

--------------------------------------------------------------------------------

\* A dataset that the list no longer shows is deleted, however deletions, answers, timeouts
\* and pages that are left and opened again overlap (datasets/page.tsx: handleDeleteDataset).
THEOREM DroppedStaysDeleted == Spec => []DroppedIsDeleted
<1>1. Inv => DroppedIsDeleted
    BY DEF Inv, TableSound, Gone, DroppedIsDeleted
<1>2. Spec => []Inv
    BY InitInv, StepInv, PTL DEF Spec
<1> QED
    BY <1>1, <1>2, PTL

(***************************************************************************)
(* The cached lists: types, and what a list of sources or a catalog holds. *)
(***************************************************************************)

EntriesOf(es, id) == {e \in DOMAIN es : es[e] = id}

\* The sources of a catalog's rows and of requests exist.  A request that was answered, or
\* that found an entry, has left one.
CallOK(call, n, es) ==
    /\ call \in CallSet
    /\ call.op \in {"upload", "import"} => call.content \in Contents
    /\ call.op = "create" /\ call.phase = "ok" => call.about \in 1..n
    /\ call.op = "sync" =>
          /\ call.about \in 1..n
          /\ call.phase = "ok" \/ (call.phase = "checked" /\ call.found) => EntriesOf(es, call.about) # {}

CallsOK(c, n, es) == c \in [Slots -> CallSet] /\ \A s \in Slots : CallOK(c[s], n, es)

CacheOK(c, n) ==
    /\ c \in [Keys -> CacheSet]
    /\ c[dataSources].data \subseteq 1..n /\ c[dataSources].served \subseteq 1..n

\* A list of key k with what was made, or with an entry at least.
Holds(k, id, list) == IF k = dataSources THEN id \in list ELSE list # {}

\* What was made is on the server, in an answer that is on its way and in a fresh list.
ToldOK(c, n, es) ==
    \A x \in told :
        /\ x[1] \in Keys
        /\ IF x[1] = dataSources THEN x[2] \in 1..n ELSE EntriesOf(es, x[1][2]) # {}
        /\ c[x[1]].wait = "served" => Holds(x[1], x[2], c[x[1]].served)
        /\ c[x[1]].known /\ ~c[x[1]].stale => Holds(x[1], x[2], c[x[1]].data)

RowsOK ==
    /\ datasets \in Seq(RowSet) /\ Len(datasets) <= MaxDatasets
    /\ sources \in 1..MaxSources
    /\ entries \in Seq(1..sources) /\ Len(entries) <= MaxEntries

DesksOK ==
    /\ page \in PageSet(sources)
    /\ form \in FormSet
    /\ table \in TableSet
    /\ card \in [dialog : BOOLEAN, saving : BOOLEAN]
    /\ detail \in [importEntry : {None} \cup EntryIds, importing : BOOLEAN]

CountersOK == redirects \in Nat /\ lost \in 0..MaxLost /\ clicks \in 0..MaxClicks

ListInv ==
    /\ RowsOK
    /\ DesksOK
    /\ CountersOK
    /\ CallsOK(calls, sources, entries)
    /\ CacheOK(cache, sources)
    /\ ToldOK(cache, sources, entries)

\* Sources and entries are only added.
Grown(n, es, m, fs) ==
    /\ n \in Nat /\ m \in Nat /\ n <= m
    /\ \A id : EntriesOf(es, id) \subseteq EntriesOf(fs, id)

LEMMA TypesOfInv == RowsOK /\ DesksOK /\ CountersOK /\ CallsOK(calls, sources, entries) /\ CacheOK(cache, sources)
                      => TypeOK
    BY DEF TypeOK, RowsOK, DesksOK, CountersOK, CallsOK, CacheOK

LEMMA KeysAre == /\ dataSources \in Keys
                 /\ \A id \in SourceIds : dataSourceCatalog(id) \in Keys
                 /\ \A id : dataSourceCatalog(id) # dataSources /\ dataSourceCatalog(id)[2] = id
                 /\ \A k \in Keys : k = dataSources \/ (k[2] \in SourceIds /\ k = dataSourceCatalog(k[2]))
<1>1. \A id : dataSourceCatalog(id)[2] = id
    BY DEF dataSourceCatalog
<1>2. \A id : dataSourceCatalog(id) # dataSources
  <2>1. \A id : dataSourceCatalog(id)[1] = "catalog"
    BY DEF dataSourceCatalog
  <2>2. dataSources[1] = "data-sources"
    BY DEF dataSources
  <2> QED
    BY <2>1, <2>2
<1>3. ASSUME NEW k \in Keys PROVE k = dataSources \/ (k[2] \in SourceIds /\ k = dataSourceCatalog(k[2]))
  <2>1. CASE k = dataSources
    BY <2>1
  <2>2. ASSUME NEW id \in SourceIds, k = dataSourceCatalog(id)
        PROVE  k[2] \in SourceIds /\ k = dataSourceCatalog(k[2])
    <3>1. k[2] = id
      BY <1>1, <2>2
    <3> QED
      BY <2>2, <3>1
  <2> QED
    BY <2>1, <2>2 DEF Keys
<1>4. dataSources \in Keys /\ \A id \in SourceIds : dataSourceCatalog(id) \in Keys
    BY DEF Keys
<1> QED
    BY <1>1, <1>2, <1>3, <1>4

LEMMA CallGrown ==
    ASSUME NEW call, NEW n, NEW es, NEW m, NEW fs, CallOK(call, n, es), Grown(n, es, m, fs)
    PROVE  CallOK(call, m, fs)
    BY DEF CallOK, Grown

LEMMA CallsGrown ==
    ASSUME NEW c, NEW n, NEW es, NEW m, NEW fs, CallsOK(c, n, es), Grown(n, es, m, fs)
    PROVE  CallsOK(c, m, fs)
    BY CallGrown DEF CallsOK

LEMMA CacheGrown ==
    ASSUME NEW c, NEW n, NEW es, NEW m, NEW fs, CacheOK(c, n), Grown(n, es, m, fs)
    PROVE  CacheOK(c, m)
    BY DEF CacheOK, Grown

LEMMA ToldGrown ==
    ASSUME NEW c, NEW n, NEW es, NEW m, NEW fs, ToldOK(c, n, es), Grown(n, es, m, fs)
    PROVE  ToldOK(c, m, fs)
    BY DEF ToldOK, Grown

--------------------------------------------------------------------------------
\* Steps of requests.

LEMMA CallPut ==
    ASSUME NEW c, NEW n, NEW es, CallsOK(c, n, es), NEW s \in Slots, NEW call, CallOK(call, n, es)
    PROVE  CallsOK([c EXCEPT ![s] = call], n, es)
    BY DEF CallsOK, CallOK

LEMMA NoCallOK == ASSUME NEW n, NEW es PROVE CallOK(NoCall, n, es)
    BY DEF CallOK, NoCall, CallSet, None

\* A new phase; an answer "ok" says that what was asked for is there.
LEMMA PhaseOK ==
    ASSUME NEW n, NEW es, NEW call, CallOK(call, n, es),
           NEW phase \in {"sent", "ok", "refused"},
           phase = "ok" => call.op # "create" /\ (call.op = "sync" => EntriesOf(es, call.about) # {})
    PROVE  CallOK([call EXCEPT !.phase = phase], n, es)
<1> DEFINE new == [call EXCEPT !.phase = phase]
<1>1. new \in CallSet /\ new.phase = phase /\ new.op = call.op /\ new.about = call.about
      /\ new.content = call.content
    BY DEF CallOK, CallSet
<1> HIDE DEF new
<1>2. CallOK(new, n, es)
    BY <1>1 DEF CallOK
<1> QED
    BY <1>2 DEF new

LEMMA AnswerOK ==
    ASSUME NEW n, NEW es, CallsOK(calls, n, es), NEW s \in Slots,
           NEW phase \in {"sent", "ok", "refused"},
           phase = "ok" => calls[s].op # "create"
                           /\ (calls[s].op = "sync" => EntriesOf(es, calls[s].about) # {}),
           \/ calls' = [calls EXCEPT ![s].phase = phase]
           \/ Answered(s, phase)
           \/ Done(s)
    PROVE  CallsOK(calls', n, es)
<1>1. CallOK(calls[s], n, es)
    BY DEF CallsOK
<1>2. CallOK([calls[s] EXCEPT !.phase = phase], n, es)
    BY <1>1, PhaseOK
<1>3. \/ calls' = [calls EXCEPT ![s] = [calls[s] EXCEPT !.phase = phase]]
      \/ calls' = [calls EXCEPT ![s] = NoCall]
  <2>1. CASE Answered(s, phase)
    <3>1. CASE calls[s].heard
      BY <2>1, <3>1 DEF Answered, CallsOK
    <3>2. CASE ~calls[s].heard
      BY <2>1, <3>2 DEF Answered, CallsOK
    <3> QED
      BY <3>1, <3>2
  <2>2. CASE calls' = [calls EXCEPT ![s].phase = phase]
    BY <2>2 DEF CallsOK
  <2>3. CASE Done(s)
    BY <2>3 DEF Done
  <2> QED
    BY <2>1, <2>2, <2>3
<1> QED
    BY <1>2, <1>3, NoCallOK, CallPut

LEMMA StartOK ==
    ASSUME NEW n, NEW es, CallsOK(calls, n, es), NEW s \in Slots, NEW call \in CallSet, Start(s, call),
           call.op \in {"upload", "import"} => call.content \in Contents,
           call.op = "sync" => call.about \in 1..n
    PROVE  CallsOK(calls', n, es)
<1> DEFINE new == [call EXCEPT !.phase = "sent", !.live = TRUE, !.heard = TRUE]
<1>1. /\ new \in CallSet /\ new.phase = "sent" /\ new.op = call.op /\ new.about = call.about
      /\ new.content = call.content
    BY DEF CallSet
<1>2. calls' = [calls EXCEPT ![s] = new]
    BY DEF Start
<1> HIDE DEF new
<1>3. CallOK(new, n, es)
    BY <1>1 DEF CallOK
<1> QED
    BY <1>2, <1>3, CallPut

LEMMA LeftOK ==
    ASSUME NEW c, NEW n, NEW es, CallsOK(c, n, es)
    PROVE  CallsOK(Left(c), n, es)
<1>1. ASSUME NEW s \in Slots PROVE CallOK(Left(c)[s], n, es)
  <2>1. CASE c[s].op = "list"
    BY <2>1, NoCallOK DEF Left
  <2>2. CASE c[s].op # "list"
    <3> DEFINE old == c[s]
               new == [old EXCEPT !.live = FALSE]
    <3>1. Left(c)[s] = new
      BY <2>2 DEF Left
    <3>2. CallOK(old, n, es)
      BY DEF CallsOK
    <3> HIDE DEF old
    <3>3. new \in CallSet /\ new.op = old.op /\ new.about = old.about /\ new.phase = old.phase
          /\ new.found = old.found /\ new.content = old.content
      BY <3>2 DEF CallOK, CallSet
    <3> HIDE DEF new
    <3>4. CallOK(new, n, es)
      BY <3>2, <3>3 DEF CallOK
    <3> QED
      BY <3>1, <3>4
  <2> QED
    BY <2>1, <2>2
<1>2. Left(c) = [s \in Slots |-> Left(c)[s]]
    BY DEF Left
<1> QED
    BY <1>1, <1>2 DEF CallsOK, CallOK

--------------------------------------------------------------------------------
\* Steps of the cache.

LEMMA MountedOK ==
    ASSUME NEW c, NEW n, NEW es, CacheOK(c, n), ToldOK(c, n, es), NEW p
    PROVE  CacheOK(Mounted(c, p), n) /\ ToldOK(Mounted(c, p), n, es)
<1>1. ASSUME NEW k \in Keys
      PROVE  /\ Mounted(c, p)[k] \in CacheSet
             /\ Mounted(c, p)[k].known = c[k].known /\ Mounted(c, p)[k].stale = c[k].stale
             /\ Mounted(c, p)[k].data = c[k].data /\ Mounted(c, p)[k].served = c[k].served
             /\ Mounted(c, p)[k].wait = "served" => c[k].wait = "served"
    BY DEF Mounted, CacheOK, CacheSet
<1>2. Mounted(c, p) \in [Keys -> CacheSet]
    BY <1>1 DEF Mounted
<1> QED
    BY <1>1, <1>2, KeysAre DEF CacheOK, ToldOK

\* After a change the list that shows it is stale and asked for anew.
LEMMA InvalidatedOK ==
    ASSUME NEW n, NEW es, CacheOK(cache, n), ToldOK(cache, n, es),
           NEW key \in Keys, NEW id, Learned(key, id), cache' = invalidateQueries(cache, key),
           IF key = dataSources THEN id \in 1..n ELSE EntriesOf(es, key[2]) # {}
    PROVE  CacheOK(cache', n) /\ ToldOK(cache, n, es)'
<1>1. \A k \in Keys : k # key => cache'[k] = cache[k]
    BY DEF invalidateQueries, CacheOK
<1> DEFINE old == cache[key]
<1>2. old \in CacheSet
    BY DEF CacheOK
<1>3. /\ cache'[key] \in CacheSet
      /\ cache'[key].data = old.data /\ cache'[key].served = old.served
      /\ cache'[key].known => cache'[key].stale
      /\ cache'[key].wait = "served" => old.wait = "served" /\ ~(key \in KeysOf(page) /\ old.known)
  <2>1. CASE old = NoEntry
    <3>1. cache'[key] = old /\ old.known = FALSE /\ old.wait = "no"
      BY <2>1 DEF NoEntry, invalidateQueries, CacheOK
    <3> QED
      BY <1>2, <3>1
  <2>2. CASE old # NoEntry
    <3> DEFINE wait == IF key \in KeysOf(page) /\ (old.known \/ old.wait = "no") THEN "asked" ELSE old.wait
    <3>1. cache'[key] = [old EXCEPT !.stale = TRUE, !.wait = wait]
      BY <2>2 DEF invalidateQueries, CacheOK
    <3>2. wait \in {"no", "asked", "served"}
          /\ (wait = "served" => old.wait = "served" /\ ~(key \in KeysOf(page) /\ old.known))
      BY <1>2 DEF CacheSet
    <3> HIDE DEF wait
    <3> QED
      BY <1>2, <3>1, <3>2 DEF CacheSet
  <2> QED
    BY <2>1, <2>2
<1>4. cache' \in [Keys -> CacheSet]
    BY <1>1, <1>3 DEF CacheOK, invalidateQueries
<1>5. CacheOK(cache', n)
    BY <1>1, <1>3, <1>4, KeysAre DEF CacheOK
<1>6. ASSUME NEW x \in told'
      PROVE  /\ x[1] \in Keys
             /\ IF x[1] = dataSources THEN x[2] \in 1..n ELSE EntriesOf(es, x[1][2]) # {}
             /\ cache'[x[1]].wait = "served" => Holds(x[1], x[2], cache'[x[1]].served)
             /\ cache'[x[1]].known /\ ~cache'[x[1]].stale => Holds(x[1], x[2], cache'[x[1]].data)
  <2>1. CASE x \in told
    BY <1>1, <1>3, <2>1 DEF ToldOK
  <2>2. CASE x \notin told
    <3>1. x = <<key, id>> /\ key \in KeysOf(page) /\ cache[key].known
      BY <1>6, <2>2 DEF Learned
    <3> QED
      BY <1>3, <3>1
  <2> QED
    BY <2>1, <2>2
<1> QED
    BY <1>5, <1>6 DEF ToldOK

--------------------------------------------------------------------------------
\* Steps of the whole.

LEMMA SeqOfMore == ASSUME NEW S, NEW T, S \subseteq T PROVE Seq(S) \subseteq Seq(T)
<1> SUFFICES ASSUME NEW q \in Seq(S) PROVE q \in Seq(T)
    OBVIOUS
<1>1. q = [i \in 1..Len(q) |-> q[i]] /\ Len(q) \in Nat /\ \A i \in 1..Len(q) : q[i] \in T
    OBVIOUS
<1> QED
    BY <1>1

LEMMA RowsSame == RowsOK /\ UNCHANGED server => RowsOK'
    BY DEF RowsOK, server

\* A step that leaves the server and the lists alone.
LEMMA QuietList ==
    ASSUME ListInv, UNCHANGED <<server, cache, told>>, DesksOK', CountersOK',
           CallsOK(calls', sources, entries)
    PROVE  ListInv'
<1>1. sources' = sources /\ entries' = entries /\ cache' = cache /\ told' = told
    BY DEF server
<1>2. CallsOK(calls, sources, entries)' /\ CacheOK(cache, sources)' /\ ToldOK(cache, sources, entries)'
    BY <1>1 DEF ListInv, ToldOK
<1> QED
    BY <1>2, RowsSame DEF ListInv

\* A step in which rows, sources or entries are added.
LEMMA GrowthList ==
    ASSUME ListInv, RowsOK', Grown(sources, entries, sources', entries'), UNCHANGED <<page, desks, cache, told>>,
           CountersOK', CallsOK(calls', sources', entries')
    PROVE  ListInv'
<1>1. CacheOK(cache, sources') /\ ToldOK(cache, sources', entries')
    BY CacheGrown, ToldGrown DEF ListInv
<1>2. cache' = cache /\ told' = told
    OBVIOUS
<1>3. CacheOK(cache, sources)' /\ ToldOK(cache, sources, entries)'
    BY <1>1, <1>2 DEF ToldOK
<1>4. DesksOK'
  <2>1. page' = page /\ form' = form /\ table' = table /\ card' = card /\ detail' = detail
    BY DEF desks
  <2>2. PageSet(sources) \subseteq PageSet(sources')
    BY DEF PageSet, Grown
  <2> QED
    BY <2>1, <2>2 DEF ListInv, DesksOK
<1> QED
    BY <1>3, <1>4 DEF ListInv

LEMMA NewDesks == /\ NewForm \in FormSet /\ [NewForm EXCEPT !.success = TRUE] \in FormSet
                  /\ NewTable \in TableSet
                  /\ NewCard \in [dialog : BOOLEAN, saving : BOOLEAN]
                  /\ NewDetail \in [importEntry : {None} \cup EntryIds, importing : BOOLEAN]
    BY DEF NewForm, FormSet, NewTable, TableSet, NewCard, NewDetail

LEMMA GoToList ==
    ASSUME ListInv, NEW cc, CallsOK(cc, sources, entries), NEW p \in PageSet(sources),
           GoTo(p, cache, Left(cc)), UNCHANGED <<server, told>>, CountersOK'
    PROVE  ListInv'
<1>1. sources' = sources /\ entries' = entries /\ told' = told
    BY DEF server
<1>2. CacheOK(cache', sources) /\ ToldOK(cache', sources, entries)
    BY MountedOK DEF ListInv, GoTo
<1>3. CacheOK(cache, sources)' /\ ToldOK(cache, sources, entries)'
    BY <1>1, <1>2 DEF ToldOK
<1>4. CallsOK(calls', sources, entries)
  <2>1. CallsOK(Left(cc), sources, entries)
    BY LeftOK
  <2>2. CASE p = <<"datasets">>
    <3> DEFINE list == [NoCall EXCEPT !.op = "list", !.phase = "asked", !.live = TRUE]
    <3>1. PICK s \in Slots : calls' = [Left(cc) EXCEPT ![s] = list]
      BY <2>2 DEF GoTo
    <3>2. CallOK(list, sources, entries)
      BY DEF NoCall, CallOK, CallSet
    <3> HIDE DEF list
    <3> QED
      BY <2>1, <3>1, <3>2, CallPut
  <2>3. CASE p # <<"datasets">>
    BY <2>1, <2>3 DEF GoTo
  <2> QED
    BY <2>2, <2>3
<1>5. CallsOK(calls, sources, entries)'
    BY <1>1, <1>4
<1>6. DesksOK'
    BY <1>1, NewDesks DEF GoTo, DesksOK
<1> QED
    BY <1>3, <1>5, <1>6, RowsSame DEF ListInv

LEMMA LinksArePages ==
    ASSUME ListInv, NEW p \in Links PROVE p \in PageSet(sources)
    BY DEF ListInv, CacheOK, Links, PageSet

LEMMA ClickCounts == CountersOK /\ Click /\ UNCHANGED <<redirects, lost>> => CountersOK'
    BY BoundAssumption DEF CountersOK, Click

LEMMA LoseCounts == CountersOK /\ Lose /\ UNCHANGED <<redirects, clicks>> => CountersOK'
    BY BoundAssumption DEF CountersOK, Lose

LEMMA NothingCounts == CountersOK /\ UNCHANGED <<redirects, lost, clicks>> => CountersOK'
    BY DEF CountersOK

LEMMA ClicksList == ASSUME ListInv, Clicks PROVE ListInv'
<1>a. /\ RowsOK /\ DesksOK /\ CountersOK /\ CallsOK(calls, sources, entries)
    BY DEF ListInv
<1>b. DOMAIN datasets \subseteq DatasetIds /\ DOMAIN entries \subseteq EntryIds
    BY <1>a, BoundAssumption, SMTT(20) DEF RowsOK, DatasetIds, EntryIds
<1>n. NoCall \in CallSet
    BY NoCallOK DEF CallOK
<1>1. ASSUME NEW p \in Links, OpenPage(p) PROVE ListInv'
    BY <1>a, <1>1, LinksArePages, ClickCounts, GoToList DEF OpenPage
<1>2. ASSUME NEW c \in Contents, handleFileChange(c) PROVE ListInv'
  <2>1. DesksOK'
    BY <1>a, <1>2 DEF DesksOK, handleFileChange, FormSet, server
  <2> QED
    BY <1>a, <1>2, <2>1, ClickCounts, QuietList DEF handleFileChange
<1>3. ASSUME NEW d \in DOMAIN datasets, AskDelete(d) PROVE ListInv'
  <2>1. DesksOK'
    BY <1>a, <1>b, <1>3 DEF DesksOK, AskDelete, TableSet, server
  <2> QED
    BY <1>a, <1>3, <2>1, ClickCounts, QuietList DEF AskDelete
<1>4. CASE CloseDelete
  <2>1. DesksOK'
    BY <1>a, <1>4 DEF DesksOK, CloseDelete, TableSet, server
  <2> QED
    BY <1>a, <1>4, <2>1, ClickCounts, QuietList DEF CloseDelete
<1>5. ASSUME NEW open \in BOOLEAN, OpenConnect(open) PROVE ListInv'
  <2>1. DesksOK'
    BY <1>a, <1>5 DEF DesksOK, OpenConnect, server
  <2> QED
    BY <1>a, <1>5, <2>1, ClickCounts, QuietList DEF OpenConnect
<1>6. ASSUME NEW e \in {None} \cup DOMAIN entries, setImportEntry(e) PROVE ListInv'
  <2>1. DesksOK'
    BY <1>a, <1>b, <1>6 DEF DesksOK, setImportEntry, server
  <2> QED
    BY <1>a, <1>6, <2>1, ClickCounts, QuietList DEF setImportEntry
<1>7. ASSUME NEW s \in Slots, handleUpload(s) PROVE ListInv'
  <2>1. DesksOK'
    BY <1>a, <1>7 DEF DesksOK, handleUpload, FormSet, server
  <2>2. CallsOK(calls', sources, entries)
    <3>1. CASE form.file \in BadFiles
      BY <1>a, <1>7, <3>1 DEF handleUpload
    <3>2. CASE form.file \notin BadFiles
      <4> DEFINE call == [NoCall EXCEPT !.op = "upload", !.content = form.file]
      <4>1. form.file \in Contents
        BY <1>a, <1>7 DEF DesksOK, FormSet, handleUpload
      <4>2. call \in CallSet /\ call.op = "upload" /\ call.content = form.file
        BY <1>n, <4>1 DEF CallSet
      <4>3. Start(s, call)
        BY <1>7, <3>2 DEF handleUpload
      <4> HIDE DEF call
      <4> QED
        BY <1>a, <4>1, <4>2, <4>3, StartOK
    <3> QED
      BY <3>1, <3>2
  <2> QED
    BY <1>a, <1>7, <2>1, <2>2, ClickCounts, QuietList DEF handleUpload
<1>8. ASSUME NEW s \in Slots, handleDeleteDataset(s) PROVE ListInv'
  <2> DEFINE call == [NoCall EXCEPT !.op = "delete", !.about = table.target, !.shown = table.rows]
  <2>1. DesksOK'
    BY <1>a, <1>8 DEF DesksOK, handleDeleteDataset, TableSet, server
  <2>2. call \in CallSet /\ call.op = "delete"
    BY <1>a, <1>n DEF CallSet, DesksOK, TableSet
  <2>3. Start(s, call)
    BY <1>8 DEF handleDeleteDataset
  <2> HIDE DEF call
  <2>4. CallsOK(calls', sources, entries)
    BY <1>a, <2>2, <2>3, StartOK
  <2> QED
    BY <1>a, <1>8, <2>1, <2>4, ClickCounts, QuietList DEF handleDeleteDataset
<1>9. ASSUME NEW s \in Slots, handleSave(s) PROVE ListInv'
  <2> DEFINE call == [NoCall EXCEPT !.op = "create"]
  <2>1. DesksOK'
    BY <1>a, <1>9 DEF DesksOK, handleSave, server
  <2>2. call \in CallSet /\ call.op = "create"
    BY <1>n DEF CallSet
  <2>3. Start(s, call)
    BY <1>9 DEF handleSave
  <2> HIDE DEF call
  <2>4. CallsOK(calls', sources, entries)
    BY <1>a, <2>2, <2>3, StartOK
  <2> QED
    BY <1>a, <1>9, <2>1, <2>4, ClickCounts, QuietList DEF handleSave
<1>10. ASSUME NEW s \in Slots, handleImport(s) PROVE ListInv'
  <2> DEFINE call == [NoCall EXCEPT !.op = "import", !.about = detail.importEntry, !.content = TableContent]
  <2>1. DesksOK'
    BY <1>a, <1>10 DEF DesksOK, handleImport, server
  <2>2. call \in CallSet /\ call.op = "import" /\ call.content \in Contents
    BY <1>a, <1>n, ContentAssumption DEF CallSet, DesksOK
  <2>3. Start(s, call)
    BY <1>10 DEF handleImport
  <2> HIDE DEF call
  <2>4. CallsOK(calls', sources, entries)
    BY <1>a, <2>2, <2>3, StartOK
  <2> QED
    BY <1>a, <1>10, <2>1, <2>4, ClickCounts, QuietList DEF handleImport
<1>11. ASSUME NEW s \in Slots, NEW id \in 1..sources, handleSync(s, id) PROVE ListInv'
  <2> DEFINE call == [NoCall EXCEPT !.op = "sync", !.about = id]
  <2>1. DesksOK'
    BY <1>a, <1>11 DEF DesksOK, handleSync, server, desks
  <2>2. id \in SourceIds
    BY <1>a, BoundAssumption DEF RowsOK, SourceIds
  <2>3. call \in CallSet /\ call.op = "sync" /\ call.about = id
    BY <1>n, <2>2 DEF CallSet
  <2>4. Start(s, call)
    BY <1>11 DEF handleSync
  <2> HIDE DEF call
  <2>5. CallsOK(calls', sources, entries)
    BY <1>a, <2>3, <2>4, StartOK
  <2> QED
    BY <1>a, <1>11, <2>1, <2>5, ClickCounts, QuietList DEF handleSync
<1> QED
    BY <1>1, <1>2, <1>3, <1>4, <1>5, <1>6, <1>7, <1>8, <1>9, <1>10, <1>11 DEF Clicks

\* A fetch answers with what the server has, and arrives fresh.
LEMMA QueriesList == ASSUME ListInv, Queries PROVE ListInv'
<1>a. /\ RowsOK /\ DesksOK /\ CountersOK /\ CallsOK(calls, sources, entries)
      /\ CacheOK(cache, sources) /\ ToldOK(cache, sources, entries)
    BY DEF ListInv
<1>1. PICK key \in Keys : FetchServed(key) \/ FetchArrives(key) \/ FetchFails(key) \/ GoStale(key)
    BY DEF Queries
<1>2. /\ UNCHANGED <<server, page, desks, calls, redirects, told>>
      /\ \A k \in Keys : k # key => cache'[k] = cache[k]
      /\ cache'[key] \in CacheSet => cache' \in [Keys -> CacheSet]
    BY <1>a, <1>1 DEF FetchServed, FetchArrives, FetchFails, GoStale, CacheOK
<1> DEFINE old == cache[key]
           new == cache'[key]
           Fine(n, es) == /\ new \in CacheSet
                          /\ new.wait = "served" =>
                                \/ old.wait = "served" /\ new.served = old.served
                                \/ new.served = Answer(key)
                          /\ new.known /\ ~new.stale =>
                                \/ old.known /\ ~old.stale /\ new.data = old.data
                                \/ old.wait = "served" /\ new.data = old.served
                          /\ new.data \in {old.data, old.served}
                          /\ new.served \in {old.served, {}, Answer(key)}
<1>3. Answer(key) \subseteq SourceIds \cup EntryIds /\ (key = dataSources => Answer(key) = 1..sources)
      /\ (key # dataSources => Answer(key) = EntriesOf(entries, key[2]))
    BY <1>a, BoundAssumption, SMTT(20) DEF Answer, RowsOK, list_data_sources, get_catalog_entries, EntriesOf,
                                 SourceIds, EntryIds
<1>4. old \in CacheSet
    BY <1>a DEF CacheOK
<1>5. Fine(sources, entries)
  <2>1. CASE FetchServed(key)
    <3>1. new = [old EXCEPT !.wait = "served", !.served = Answer(key)]
      BY <1>a, <2>1 DEF FetchServed, CacheOK
    <3> HIDE DEF old, new
    <3> QED
      BY <1>3, <1>4, <3>1 DEF CacheSet
  <2>2. CASE FetchArrives(key)
    <3>1. new = [known |-> TRUE, data |-> old.served, stale |-> FALSE, wait |-> "no", served |-> {}]
          /\ old.wait = "served"
      BY <1>a, <2>2 DEF FetchArrives, CacheOK
    <3> HIDE DEF old, new
    <3> QED
      BY <1>4, <3>1 DEF CacheSet
  <2>3. CASE FetchFails(key)
    <3>1. new = [old EXCEPT !.wait = "no", !.served = {}]
      BY <1>a, <2>3 DEF FetchFails, CacheOK
    <3> HIDE DEF old, new
    <3> QED
      BY <1>4, <3>1 DEF CacheSet
  <2>4. CASE GoStale(key)
    <3>1. new = [old EXCEPT !.stale = TRUE]
      BY <1>a, <2>4 DEF GoStale, CacheOK
    <3> HIDE DEF old, new
    <3> QED
      BY <1>4, <3>1 DEF CacheSet
  <2> QED
    BY <1>1, <2>1, <2>2, <2>3, <2>4
<1>6. sources' = sources /\ entries' = entries /\ told' = told
    BY <1>2 DEF server
<1>7. CacheOK(cache, sources)'
  <2>1. dataSources \in Keys /\ cache \in [Keys -> CacheSet]
        /\ cache[dataSources].data \subseteq 1..sources /\ cache[dataSources].served \subseteq 1..sources
    BY <1>a, KeysAre DEF CacheOK
  <2>2. new \in CacheSet /\ new.data \in {old.data, old.served}
        /\ new.served \in {old.served, {}, Answer(key)}
    BY <1>5
  <2>3. cache' \in [Keys -> CacheSet]
    BY <1>2, <2>1, <2>2
  <2>4. cache'[dataSources].data \subseteq 1..sources /\ cache'[dataSources].served \subseteq 1..sources
    <3>1. CASE key = dataSources
      BY <1>3, <2>1, <2>2, <3>1
    <3>2. CASE key # dataSources
      BY <1>2, <2>1, <3>2
    <3> QED
      BY <3>1, <3>2
  <2> QED
    BY <1>6, <2>3, <2>4 DEF CacheOK
<1>8. ToldOK(cache, sources, entries)'
  <2> SUFFICES ASSUME NEW x \in told
               PROVE  /\ x[1] \in Keys
                      /\ IF x[1] = dataSources THEN x[2] \in 1..sources ELSE EntriesOf(entries, x[1][2]) # {}
                      /\ cache'[x[1]].wait = "served" => Holds(x[1], x[2], cache'[x[1]].served)
                      /\ cache'[x[1]].known /\ ~cache'[x[1]].stale => Holds(x[1], x[2], cache'[x[1]].data)
    BY <1>6 DEF ToldOK
  <2>1. CASE x[1] # key
    BY <1>a, <1>2, <2>1 DEF ToldOK
  <2>2. CASE x[1] = key
    BY <1>a, <1>3, <1>5, <2>2 DEF ToldOK, Holds
  <2> QED
    BY <2>1, <2>2
<1>9. DesksOK' /\ CallsOK(calls, sources, entries)'
    BY <1>a, <1>2, <1>6 DEF DesksOK, desks
<1>10. CountersOK'
    BY <1>a, <1>1, ClickCounts, LoseCounts, NothingCounts DEF FetchServed, FetchArrives, FetchFails, GoStale
<1> QED
    BY <1>a, <1>2, <1>7, <1>8, <1>9, <1>10, RowsSame DEF ListInv

LEMMA GrownSame == RowsOK => Grown(sources, entries, sources, entries)
    BY BoundAssumption DEF RowsOK, Grown

LEMMA ServesList == ASSUME Inv, ListInv, NEW s \in Slots,
                           \/ ListServed(s) \/ Checks(s) \/ import_file(s) \/ sync_catalog(s)
                           \/ create_data_source(s) \/ delete_dataset(s) \/ Refused(s) \/ Lost(s)
                           \/ TimesOut(s)
                    PROVE  ListInv'
<1>a. /\ RowsOK /\ DesksOK /\ CountersOK /\ CallsOK(calls, sources, entries)
    BY DEF ListInv
<1>b. DOMAIN datasets \subseteq DatasetIds /\ DOMAIN entries \subseteq EntryIds
      /\ sources \in Nat /\ sources \in SourceIds
    BY <1>a, BoundAssumption DEF RowsOK, DatasetIds, EntryIds, SourceIds
<1>c. CallOK(calls[s], sources, entries) /\ calls[s] \in CallSet
    BY <1>a DEF CallsOK, CallOK
<1>d. UNCHANGED <<page, desks>> => (UNCHANGED server => DesksOK')
    BY <1>a DEF DesksOK, desks, server
<1> DEFINE call == calls[s]
<1>1. CASE ListServed(s)
  <2> DEFINE shown == {d \in DOMAIN datasets : ~datasets[d].gone}
             new == [call EXCEPT !.phase = "ok", !.shown = shown]
  <2>1. calls' = [calls EXCEPT ![s] = new]
    BY <1>a, <1>1 DEF ListServed, CallsOK
  <2>2. call.op = "list" /\ shown \in SUBSET DatasetIds
    BY <1>b, <1>1 DEF ListServed
  <2> HIDE DEF shown, call
  <2>3. new \in CallSet /\ new.op = call.op
    BY <1>c, <2>2 DEF CallSet, call
  <2> HIDE DEF new
  <2>4. CallOK(new, sources, entries)
    BY <2>2, <2>3 DEF CallOK
  <2>5. CallsOK(calls', sources, entries)
    BY <1>a, <2>1, <2>4, CallPut
  <2> QED
    BY <1>a, <1>d, <1>1, <2>5, QuietList, NothingCounts DEF ListServed
<1>2. CASE Checks(s)
  <2> DEFINE found == IF call.op = "sync" THEN get_catalog_entries(call.about) # {}
                      ELSE SameContent(call.content)
             new == [call EXCEPT !.phase = "checked", !.found = found]
  <2>1. calls' = [calls EXCEPT ![s] = new]
    BY <1>a, <1>2 DEF Checks, CallsOK
  <2>2. found \in BOOLEAN /\ (call.op = "sync" => (found <=> EntriesOf(entries, call.about) # {}))
    BY DEF get_catalog_entries, EntriesOf, SameContent
  <2> HIDE DEF found, call
  <2>3. /\ new \in CallSet /\ new.op = call.op /\ new.phase = "checked" /\ new.found = found
        /\ new.about = call.about /\ new.content = call.content
    BY <1>c, <2>2 DEF CallSet, call
  <2> HIDE DEF new
  <2>4. CallOK(call, sources, entries)
    BY <1>c DEF call
  <2>5. CallOK(new, sources, entries)
    BY <2>2, <2>3, <2>4 DEF CallOK
  <2>6. CallsOK(calls', sources, entries)
    BY <1>a, <2>1, <2>5, CallPut
  <2> QED
    BY <1>a, <1>d, <1>2, <2>6, QuietList, NothingCounts DEF Checks
<1>3. CASE import_file(s)
  <2>1. call.op \in {"upload", "import"} /\ call.content \in Contents
    BY <1>c, <1>3 DEF import_file, CallOK
  <2>2. PICK phase \in {"ok", "refused"} : Answered(s, phase)
    BY <1>3 DEF import_file
  <2>3. RowsOK'
    <3>1. CASE datasets' = datasets
      BY <1>a, <1>3, <3>1 DEF RowsOK, import_file
    <3>2. CASE datasets' = Stored(call.content) /\ Len(datasets) < MaxDatasets
      <4>1. [content |-> call.content, mine |-> TRUE, gone |-> FALSE] \in RowSet
        BY <2>1 DEF RowSet
      <4>2. datasets' \in Seq(RowSet) /\ Len(datasets') = Len(datasets) + 1
        BY <1>a, <3>2, <4>1 DEF RowsOK, Stored
      <4> QED
        BY <1>a, <1>3, <3>2, <4>2, BoundAssumption DEF RowsOK, import_file
    <3> QED
      BY <1>3, <3>1, <3>2 DEF import_file
  <2>4. CallsOK(calls', sources, entries)
    BY <1>a, <2>1, <2>2, AnswerOK
  <2> QED
    BY <1>a, <1>3, <2>3, <2>4, GrownSame, GrowthList, NothingCounts DEF import_file
<1>4. CASE sync_catalog(s)
  <2>1. call.op = "sync" /\ call.phase = "checked" /\ call.about \in 1..sources
    BY <1>c, <1>4 DEF sync_catalog, CallOK
  <2>2. /\ RowsOK' /\ Grown(sources, entries, sources, entries')
        /\ EntriesOf(entries', call.about) # {}
    <3>1. CASE call.found
      <4>1. EntriesOf(entries, call.about) # {} /\ entries' = entries
        BY <1>c, <1>4, <2>1, <3>1 DEF sync_catalog, CallOK
      <4> QED
        BY <1>a, <1>4, <4>1, GrownSame DEF sync_catalog, RowsOK
    <3>2. CASE ~call.found
      <4>1. entries' = Append(entries, call.about) /\ Len(entries) < MaxEntries
        BY <1>4, <3>2 DEF sync_catalog
      <4>2. /\ entries' \in Seq(1..sources) /\ Len(entries') = Len(entries) + 1
            /\ entries'[Len(entries) + 1] = call.about
            /\ \A e \in DOMAIN entries : e \in DOMAIN entries' /\ entries'[e] = entries[e]
            /\ Len(entries) + 1 \in DOMAIN entries'
        BY <1>a, <2>1, <4>1 DEF RowsOK
      <4>3. Len(entries) + 1 \in EntriesOf(entries', call.about)
            /\ \A id : EntriesOf(entries, id) \subseteq EntriesOf(entries', id)
        BY <4>2 DEF EntriesOf
      <4>4. RowsOK'
        BY <1>a, <1>4, <4>1, <4>2, BoundAssumption DEF RowsOK, sync_catalog
      <4> QED
        BY <1>b, <4>3, <4>4 DEF Grown
    <3> QED
      BY <3>1, <3>2
  <2>3. CallsOK(calls, sources, entries')
    BY <1>a, <2>2, CallsGrown
  <2>4. Answered(s, "ok")
    BY <1>4 DEF sync_catalog
  <2>5. CallsOK(calls', sources, entries')
    BY <2>1, <2>2, <2>3, <2>4, AnswerOK
  <2>6. sources' = sources
    BY <1>4 DEF sync_catalog
  <2> QED
    BY <1>a, <1>4, <2>2, <2>5, <2>6, GrowthList, NothingCounts DEF sync_catalog
<1>5. CASE create_data_source(s)
  <2> DEFINE m == sources + 1
             new == [call EXCEPT !.phase = "ok", !.about = m]
  <2>1. /\ sources' = m /\ entries' = entries /\ datasets' = datasets
        /\ calls' = [calls EXCEPT ![s] = new] /\ call.op = "create" /\ sources < MaxSources
    BY <1>a, <1>5 DEF create_data_source, CallsOK
  <2>2. m \in 1..m /\ m \in SourceIds /\ Grown(sources, entries, m, entries)
    BY <1>b, <2>1, BoundAssumption DEF SourceIds, Grown
  <2>3. RowsOK'
    <3>1. 1..sources \subseteq 1..m /\ m \in 1..MaxSources
      BY <1>b, <2>1, BoundAssumption
    <3>2. Seq(1..sources) \subseteq Seq(1..m)
      BY <3>1, SeqOfMore
    <3> QED
      BY <1>a, <2>1, <3>1, <3>2 DEF RowsOK
  <2> HIDE DEF m, call
  <2>4. /\ new \in CallSet /\ new.op = "create" /\ new.about = m
    BY <1>c, <2>1, <2>2 DEF CallSet, call
  <2> HIDE DEF new
  <2>5. CallOK(new, m, entries)
    BY <2>2, <2>4 DEF CallOK
  <2>6. CallsOK(calls', m, entries)
    BY <1>a, <2>1, <2>2, <2>5, CallsGrown, CallPut
  <2> QED
    BY <1>a, <1>5, <2>1, <2>2, <2>3, <2>6, GrowthList, NothingCounts DEF create_data_source
<1>6. CASE delete_dataset(s)
  <2> DEFINE d == call.about
             may == datasets[d].mine /\ ~datasets[d].gone
  <2>1. /\ call.op = "delete" /\ Answered(s, IF may THEN "ok" ELSE "refused")
        /\ datasets' = IF may THEN [datasets EXCEPT ![d].gone = TRUE] ELSE datasets
    BY <1>6 DEF delete_dataset
  <2>2. d \in DOMAIN datasets
    BY <2>1 DEF Inv, CallsSound, CallSound
  <2>3. datasets' \in Seq(RowSet) /\ Len(datasets') = Len(datasets)
    <3>1. CASE ~may
      BY <1>a, <2>1, <3>1 DEF RowsOK
    <3>2. CASE may
      <4>1. datasets[d] \in RowSet
        BY <1>a, <2>2 DEF RowsOK
      <4>2. [datasets[d] EXCEPT !.gone = TRUE] \in RowSet
        BY <4>1 DEF RowSet
      <4>3. datasets' = [datasets EXCEPT ![d] = [datasets[d] EXCEPT !.gone = TRUE]]
        BY <2>1, <3>2
      <4> QED
        BY <1>a, <2>2, <4>2, <4>3 DEF RowsOK
    <3> QED
      BY <3>1, <3>2
  <2>4. RowsOK'
    BY <1>a, <1>6, <2>3 DEF RowsOK, delete_dataset
  <2>5. CallsOK(calls', sources, entries)
    <3>1. PICK phase \in {"ok", "refused"} : Answered(s, phase)
      BY <2>1
    <3> QED
      BY <1>a, <2>1, <3>1, AnswerOK
  <2> QED
    BY <1>a, <1>6, <2>4, <2>5, GrownSame, GrowthList, NothingCounts DEF delete_dataset
<1>7. CASE Refused(s) \/ Lost(s)
  <2>1. PICK phase \in {"sent", "refused"} :
           Answered(s, phase) \/ calls' = [calls EXCEPT ![s].phase = phase]
    BY <1>7 DEF Refused, Lost
  <2>2. CallsOK(calls', sources, entries)
    BY <1>a, <2>1, AnswerOK
  <2> QED
    BY <1>a, <1>d, <1>7, <2>2, QuietList, LoseCounts DEF Refused, Lost
<1>8. CASE TimesOut(s)
  <2> DEFINE first == [call EXCEPT !.heard = FALSE, !.live = FALSE]
             again == [call EXCEPT !.phase = "sent"]
  <2>1. PICK t \in Slots : /\ Free(t)
                           /\ calls' = [calls EXCEPT ![t] = first, ![s].phase = "sent"]
    BY <1>8 DEF TimesOut
  <2>2. t # s
    BY <1>8, <2>1 DEF TimesOut, Free
  <2>3. calls' = [[calls EXCEPT ![t] = first] EXCEPT ![s] = again]
    BY <1>a, <2>1, <2>2 DEF CallsOK
  <2> HIDE DEF call
  <2>4. /\ first \in CallSet /\ first.op = call.op /\ first.about = call.about
        /\ first.phase = call.phase /\ first.found = call.found /\ first.content = call.content
    BY <1>c DEF CallSet, call
  <2>5. CallOK(call, sources, entries)
    BY <1>c DEF call
  <2> HIDE DEF first
  <2>6. CallOK(first, sources, entries)
    BY <2>4, <2>5 DEF CallOK
  <2>7. CallOK(again, sources, entries)
    BY <2>5, PhaseOK
  <2> HIDE DEF again
  <2>8. CallsOK([calls EXCEPT ![t] = first], sources, entries)
    BY <1>a, <2>6, CallPut
  <2>9. CallsOK(calls', sources, entries)
    BY <2>3, <2>7, <2>8, CallPut
  <2> QED
    BY <1>a, <1>d, <1>8, <2>9, QuietList, LoseCounts DEF TimesOut
<1> QED
    BY <1>1, <1>2, <1>3, <1>4, <1>5, <1>6, <1>7, <1>8

LEMMA ContinuesList == ASSUME ListInv, NEW s \in Slots,
                              \/ loadDatasets(s) \/ ListFails(s) \/ Uploaded(s) \/ Deleted(s)
                              \/ Created(s) \/ Synced(s) \/ Imported(s) \/ Fails(s)
                       PROVE  ListInv'
<1>a. /\ RowsOK /\ DesksOK /\ CountersOK /\ CallsOK(calls, sources, entries)
      /\ CacheOK(cache, sources) /\ ToldOK(cache, sources, entries)
    BY DEF ListInv
<1>c. CallOK(calls[s], sources, entries) /\ calls[s] \in CallSet
    BY <1>a DEF CallsOK, CallOK
<1>e. ASSUME Done(s) PROVE CallsOK(calls', sources, entries)
    BY <1>a, <1>e, NoCallOK, CallPut DEF Done
<1>t. table \in TableSet /\ form \in FormSet
    BY <1>a DEF DesksOK
<1>1. CASE loadDatasets(s) \/ ListFails(s)
  <2>1. table' \in TableSet
    <3>1. calls[s].shown \in SUBSET DatasetIds
      BY <1>c DEF CallSet
    <3>2. CASE loadDatasets(s)
      BY <1>t, <3>1, <3>2 DEF loadDatasets, TableSet
    <3>3. CASE ListFails(s)
      BY <1>t, <3>3 DEF ListFails, TableSet
    <3> QED
      BY <1>1, <3>2, <3>3
  <2>2. DesksOK'
    BY <1>a, <1>1, <2>1 DEF DesksOK, loadDatasets, ListFails, server
  <2>3. CallsOK(calls', sources, entries)
    BY <1>e, <1>1 DEF loadDatasets, ListFails, Done
  <2> QED
    BY <1>a, <1>1, <2>2, <2>3, QuietList, NothingCounts, LoseCounts DEF loadDatasets, ListFails
<1>2. CASE Uploaded(s)
  <2>1. DesksOK'
    BY <1>a, <1>2, NewDesks DEF DesksOK, Uploaded, server
  <2>2. CountersOK'
    BY <1>a, <1>2 DEF CountersOK, Uploaded
  <2> QED
    BY <1>e, <1>2, <2>1, <2>2, QuietList DEF Uploaded
<1>3. CASE Deleted(s)
  <2>1. table' \in TableSet
    <3>1. calls[s].shown \in SUBSET DatasetIds
      BY <1>c DEF CallSet
    <3> QED
      BY <1>t, <1>3, <3>1 DEF Deleted, TableSet, None
  <2>2. DesksOK'
    BY <1>a, <1>3, <2>1 DEF DesksOK, Deleted, server
  <2> QED
    BY <1>a, <1>e, <1>3, <2>2, QuietList, NothingCounts DEF Deleted
<1>4. CASE Created(s) \/ Synced(s)
  <2>1. PICK key \in Keys, id \in 1..sources :
            /\ Learned(key, id) /\ cache' = invalidateQueries(cache, key)
            /\ IF key = dataSources THEN id \in 1..sources ELSE EntriesOf(entries, key[2]) # {}
    <3>1. CASE Created(s)
      <4>1. calls[s].about \in 1..sources
        BY <1>c, <3>1 DEF Created, CallOK
      <4> QED
        BY <3>1, <4>1, KeysAre DEF Created
    <3>2. CASE Synced(s)
      <4>1. calls[s].about \in 1..sources /\ EntriesOf(entries, calls[s].about) # {}
        BY <1>c, <3>2 DEF Synced, CallOK
      <4>2. calls[s].about \in SourceIds
        BY <1>a, <4>1, BoundAssumption DEF RowsOK, SourceIds
      <4> QED
        BY <3>2, <4>1, <4>2, KeysAre DEF Synced
    <3> QED
      BY <1>4, <3>1, <3>2
  <2>2. CacheOK(cache', sources) /\ ToldOK(cache, sources, entries)'
    <3>1. /\ sources' = sources /\ entries' = entries
      BY <1>4 DEF Created, Synced, server
    <3> DEFINE n == sources
               es == entries
    <3>2. CacheOK(cache', n) /\ \A x \in told' :
              /\ x[1] \in Keys
              /\ IF x[1] = dataSources THEN x[2] \in 1..n ELSE EntriesOf(es, x[1][2]) # {}
              /\ cache'[x[1]].wait = "served" => Holds(x[1], x[2], cache'[x[1]].served)
              /\ cache'[x[1]].known /\ ~cache'[x[1]].stale => Holds(x[1], x[2], cache'[x[1]].data)
      BY <1>a, <2>1, InvalidatedOK DEF ToldOK
    <3> QED
      BY <3>1, <3>2 DEF ToldOK
  <2>3. /\ sources' = sources /\ entries' = entries /\ UNCHANGED server
    BY <1>4 DEF Created, Synced, server
  <2>4. DesksOK'
    BY <1>a, <1>4, <2>3, NewDesks DEF DesksOK, Created, Synced, desks
  <2>5. CallsOK(calls', sources, entries)
    BY <1>e, <1>4 DEF Created, Synced
  <2>6. CountersOK'
    BY <1>a, <1>4, NothingCounts DEF Created, Synced
  <2>7. CacheOK(cache, sources)' /\ CallsOK(calls, sources, entries)'
    BY <2>2, <2>3, <2>5
  <2> QED
    BY <1>a, <2>2, <2>3, <2>4, <2>6, <2>7, RowsSame DEF ListInv
<1>5. CASE Imported(s)
  <2>1. CallsOK([calls EXCEPT ![s] = NoCall], sources, entries)
    BY <1>a, NoCallOK, CallPut
  <2>2. <<"away">> \in PageSet(sources)
    BY DEF PageSet
  <2> QED
    BY <1>a, <1>5, <2>1, <2>2, NothingCounts, GoToList DEF Imported
<1>6. CASE Fails(s)
  <2>1. table' \in TableSet /\ form' \in FormSet
    <3>1. form' \in FormSet
      BY <1>t, <1>6 DEF Fails, FormSet
    <3>2. table' \in TableSet
      BY <1>t, <1>6 DEF Fails, TableSet
    <3> QED
      BY <3>1, <3>2
  <2>2. DesksOK'
    BY <1>a, <1>6, <2>1 DEF DesksOK, Fails, server
  <2> QED
    BY <1>a, <1>e, <1>6, <2>2, QuietList, NothingCounts DEF Fails
<1> QED
    BY <1>1, <1>2, <1>3, <1>4, <1>5, <1>6

LEMMA StepList == Inv /\ ListInv /\ [Next]_vars => ListInv'
<1> SUFFICES ASSUME Inv, ListInv, [Next]_vars PROVE ListInv'
    OBVIOUS
<1>a. /\ DesksOK /\ CountersOK /\ CallsOK(calls, sources, entries)
    BY DEF ListInv
<1>1. CASE Redirected
  <2>1. CountersOK'
    BY <1>a, <1>1 DEF CountersOK, Redirected
  <2>2. CASE page = <<"datasets">>
    <3>1. DesksOK'
      BY <1>a, <1>1, <2>2 DEF Redirected, DesksOK, desks, server
    <3> QED
      BY <1>a, <1>1, <2>1, <2>2, <3>1, QuietList DEF Redirected
  <2>3. CASE page # <<"datasets">>
    <3>1. <<"datasets">> \in PageSet(sources)
      BY DEF PageSet
    <3> QED
      BY <1>a, <1>1, <2>1, <2>3, <3>1, GoToList DEF Redirected
  <2> QED
    BY <2>2, <2>3
<1>2. CASE UNCHANGED vars
  <2>1. UNCHANGED <<server, page, desks, cache, calls, redirects, told, lost, clicks>>
    BY <1>2 DEF vars
  <2>2. DesksOK' /\ CountersOK'
    BY <1>a, <2>1, NothingCounts DEF DesksOK, desks, server
  <2> QED
    BY <1>a, <2>1, <2>2, QuietList
<1> QED
    BY <1>1, <1>2, ClicksList, QueriesList, ServesList, ContinuesList DEF Next, Serves, Continues

LEMMA InitList == Init => ListInv
<1> SUFFICES ASSUME Init PROVE ListInv
    OBVIOUS
<1>1. RowsOK
  <2>1. PICK c \in Contents \ BadFiles, mine \in BOOLEAN :
           datasets = <<[content |-> c, mine |-> mine, gone |-> FALSE]>>
    BY DEF Init
  <2>2. [content |-> c, mine |-> mine, gone |-> FALSE] \in RowSet
    BY DEF RowSet
  <2>3. datasets \in Seq(RowSet) /\ Len(datasets) = 1
    BY <2>1, <2>2
  <2>4. sources = 1 /\ entries \in {<<>>, <<1>>}
    BY DEF Init
  <2>5. entries \in Seq(1..1) /\ Len(entries) <= 1
    <3>1. CASE entries = <<>>
      BY <3>1
    <3>2. CASE entries = <<1>>
      <4>1. 1 \in 1..1
        OBVIOUS
      <4> QED
        BY <3>2, <4>1
    <3> QED
      BY <2>4, <3>1, <3>2
  <2> QED
    BY <2>3, <2>4, <2>5, BoundAssumption DEF RowsOK
<1>2. DesksOK
    BY NewDesks DEF Init, DesksOK, PageSet
<1>3. CountersOK
    BY BoundAssumption DEF Init, CountersOK
<1>4. CallsOK(calls, sources, entries)
    BY NoCallOK DEF Init, CallsOK, CallOK
<1>5. CacheOK(cache, sources)
    BY KeysAre DEF Init, CacheOK, CacheSet, NoEntry
<1>6. ToldOK(cache, sources, entries)
    BY DEF Init, ToldOK
<1> QED
    BY <1>1, <1>2, <1>3, <1>4, <1>5, <1>6 DEF ListInv

\* The lists, the fetches on their way and what was told of them fit together at any time.
THEOREM ListInvariance == Spec => []ListInv
<1>1. Spec => []Inv
    BY InitInv, StepInv, PTL DEF Spec
<1> QED
    BY <1>1, InitList, StepList, PTL DEF Spec

\* Every row, page, dialog, cache entry and request keeps to its values.
THEOREM TypeCorrect == Spec => []TypeOK
<1>1. ListInv => TypeOK
    BY TypesOfInv DEF ListInv
<1> QED
    BY <1>1, ListInvariance, PTL

\* A source that was saved, or a catalog that was synced, while its list was on display is in
\* that list whenever the list counts as fresh, for any number of pages, fetches, refusals and
\* requests sent twice (useDataSources.ts: the mutations' onSuccess).
THEOREM FreshListsHold == Spec => []FreshListsAreCurrent
<1>1. ListInv => FreshListsAreCurrent
    BY DEF ListInv, ToldOK, Holds, FreshListsAreCurrent
<1> QED
    BY <1>1, ListInvariance, PTL
================================================================================
