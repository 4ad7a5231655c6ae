---------------------------- MODULE Compartments ----------------------------
(***************************************************************************)
(* The compartments of an organization, their members, and the page that    *)
(* manages them.  The page sets its selection at once and the members when  *)
(* their list arrives; it sends what is selected together with what is      *)
(* listed.  Its calls live in slots as those of AccessRequests.  Names,     *)
(* descriptions, roles and the texts of alerts are left out.                *)
(***************************************************************************)
EXTENDS Integers, Sequences, FiniteSets

CONSTANTS
    Emails,      \* what a user types
    Users,       \* those that belong to a registered user
    MaxComps,    \* bound on compartments
    MaxRows,     \* bound on rows of compartment_members
    MaxCalls,    \* calls of the page on their way at once
    MaxLost      \* bound on lost requests and answers

VARIABLES
    comps,       \* compartments: parent (0 for a root), is_active
    rows,        \* compartment_members: compartment, user, is_active
    tree,        \* the state of CompartmentsPage
    treeCalls,   \* its calls on their way
    treeLost

CompIds == 1..MaxComps
RowIds == 1..MaxRows
None == 0
NoText == ""
Slots == 1..MaxCalls
Root == [parent |-> None, active |-> TRUE]

NewPage ==
    [shown |-> {}, selected |-> None, members |-> {}, loading |-> TRUE,
     dialog |-> "no", target |-> None, email |-> NoText, notRegistered |-> FALSE,
     saving |-> FALSE, deleting |-> FALSE, adding |-> FALSE]

\* comp and row: what a call is about; selected: the selection when it was made.
NoCall == [op |-> "none", comp |-> None, row |-> None, email |-> NoText, selected |-> None,
           phase |-> "free", live |-> FALSE, got |-> {}]

-----------------------------------------------------------------------------
\* The handlers of routes/compartments.py.

\* list_compartments serializes active roots and, below them, active children.
list_compartments ==
    LET visible[c \in 0..Len(comps)] ==
            c = None \/ (comps[c].active /\ visible[comps[c].parent])
    IN  {c \in DOMAIN comps : visible[c]}

list_members(c) == {m \in DOMAIN rows : rows[m].comp = c /\ rows[m].active}

\* The parent must exist; it may be inactive.
create_compartment(parent) == Append(comps, [parent |-> parent, active |-> TRUE])

\* The row alone: sub-compartments stay as they are.
delete_compartment(c) == [comps EXCEPT ![c].active = FALSE]

AlreadyMember(c, user) ==
    \E m \in DOMAIN rows : rows[m] = [comp |-> c, user |-> user, active |-> TRUE]

\* The look and the insert are one step here: that two workers add one user twice, with
\* two rows of one compartment, is left out.
CanAdd(c, email) == email \in Users /\ ~AlreadyMember(c, email)

add_member(c, user) == Append(rows, [comp |-> c, user |-> user, active |-> TRUE])

\* Mutant of Found: the row is looked for by its id alone.
FoundAnywhere(c, m) == TRUE

\* The row is looked for in the compartment of the URL.
Found(c, m) == rows[m].comp = c

remove_member(c, m) == IF Found(c, m) THEN [rows EXCEPT ![m].active = FALSE] ELSE rows

-----------------------------------------------------------------------------
CompartmentsInit ==
    /\ comps = <<Root, [Root EXCEPT !.parent = 1]>>
    /\ rows \in {<<[comp |-> 2, user |-> u, active |-> TRUE]>> : u \in Users}
    /\ tree = NewPage
    /\ treeCalls = [s \in Slots |-> NoCall]
    /\ treeLost = 0

server == <<comps, rows>>

Free(s) == treeCalls[s].phase = "free" /\ \A t \in Slots : t < s => treeCalls[t].phase # "free"

Start(s, call) ==
    /\ Free(s)
    /\ treeCalls' = [treeCalls EXCEPT ![s] = [call EXCEPT !.phase = "sent", !.live = TRUE]]

Reading(op, c) == [NoCall EXCEPT !.op = op, !.comp = c, !.phase = "asked", !.live = TRUE]

\* What the page shows: a spinner while it loads; dialogs are modal.
Content == ~tree.loading
Panels == Content /\ tree.dialog = "no"
Dialog(kind) == Content /\ tree.dialog = kind
IsRoot(c) == comps[c].parent = None

OpenCompartments(s) ==
    /\ Free(s)
    /\ tree' = NewPage
    /\ treeCalls' = [treeCalls EXCEPT ![s] = Reading("load", None)]
    /\ UNCHANGED <<server, treeLost>>

LeaveCompartments ==
    /\ tree' = NewPage
    /\ treeCalls' = [s \in Slots |-> IF treeCalls[s].phase \in {"free", "asked", "got"} THEN NoCall
                                     ELSE [treeCalls[s] EXCEPT !.live = FALSE]]
    /\ UNCHANGED <<server, treeLost>>

-----------------------------------------------------------------------------
\* Clicks in the tree and in the panels.

\* The effect on selectedCompartment asks for its members.
Select(s, c) ==
    /\ Panels /\ c \in tree.shown /\ Free(s)
    /\ tree' = [tree EXCEPT !.selected = c]
    /\ treeCalls' = [treeCalls EXCEPT ![s] = Reading("members", c)]
    /\ UNCHANGED <<server, treeLost>>

OpenDialog(kind, target) ==
    /\ Panels
    /\ tree' = [tree EXCEPT !.dialog = kind, !.target = target]
    /\ UNCHANGED <<server, treeCalls, treeLost>>

handleCreateCompartment(parent) ==
    parent \in tree.shown \cup {None} /\ OpenDialog("create", parent)

handleEditCompartment(c) == c \in tree.shown /\ OpenDialog("edit", c)

\* Only below the roots is there a button.
handleDeleteCompartment(c) == c \in tree.shown /\ ~IsRoot(c) /\ OpenDialog("delete", c)

OpenMemberDialog == tree.selected # None /\ OpenDialog("member", None)

\* Cancel, Esc and a click outside, the last two also while a call is on its way.
CloseDialog ==
    /\ Content /\ tree.dialog # "no"
    /\ tree' = IF tree.dialog = "member"
               THEN [tree EXCEPT !.dialog = "no", !.email = NoText, !.notRegistered = FALSE]
               ELSE [tree EXCEPT !.dialog = "no", !.target = None]
    /\ UNCHANGED <<server, treeCalls, treeLost>>

\* The effect on memberEmail takes the warning back.
TypeEmail(email) ==
    /\ Dialog("member") /\ email # tree.email
    /\ tree' = [tree EXCEPT !.email = email, !.notRegistered = FALSE]
    /\ UNCHANGED <<server, treeCalls, treeLost>>

handleSaveCompartment(s) ==
    /\ Dialog("create") \/ Dialog("edit")
    /\ ~tree.saving
    /\ Start(s, [NoCall EXCEPT !.op = tree.dialog, !.comp = tree.target])
    /\ tree' = [tree EXCEPT !.saving = TRUE]
    /\ UNCHANGED <<server, treeLost>>

\* The button of an alert dialog closes it.
handleConfirmDelete(s) ==
    /\ Dialog("delete") /\ ~tree.deleting
    /\ Start(s, [NoCall EXCEPT !.op = "delete", !.comp = tree.target, !.selected = tree.selected])
    /\ tree' = [tree EXCEPT !.deleting = TRUE, !.dialog = "no", !.target = None]
    /\ UNCHANGED <<server, treeLost>>

handleAddMember(s) ==
    /\ Dialog("member") /\ ~tree.adding /\ ~tree.notRegistered
    /\ tree.email # NoText /\ tree.selected # None
    /\ Start(s, [NoCall EXCEPT !.op = "add", !.comp = tree.selected, !.email = tree.email])
    /\ tree' = [tree EXCEPT !.adding = TRUE]
    /\ UNCHANGED <<server, treeLost>>

handleRemoveMember(s, m) ==
    /\ Panels /\ tree.selected # None /\ m \in tree.members
    /\ Start(s, [NoCall EXCEPT !.op = "remove", !.comp = tree.selected, !.row = m])
    /\ UNCHANGED <<server, tree, treeLost>>

-----------------------------------------------------------------------------
\* Queries: asked, then got, then arrived.

Read(s) ==
    LET call == treeCalls[s] IN
    /\ call.phase = "asked"
    /\ treeCalls' = [treeCalls EXCEPT ![s].phase = "got",
           ![s].got = IF call.op \in {"members", "add", "remove"} THEN list_members(call.comp)
                      ELSE list_compartments]
    /\ UNCHANGED <<server, tree, treeLost>>

\* finally of the handler that awaited the query.
Finish(page, op) ==
    [page EXCEPT !.saving = @ /\ op \notin {"create", "edit"},
                 !.deleting = @ /\ op # "delete",
                 !.adding = @ /\ op # "add"]

MembersArrive(s) ==
    LET call == treeCalls[s] IN
    /\ call.phase = "got" /\ call.op \in {"members", "add", "remove"}
    /\ tree' = Finish([tree EXCEPT !.members = call.got], call.op)
    /\ treeCalls' = [treeCalls EXCEPT ![s] = NoCall]
    /\ UNCHANGED <<server, treeLost>>

\* prev ?? data[0]: the first root when nothing was selected, whose members are asked for.
CompartmentsArrive(s) ==
    LET call == treeCalls[s]
        first == {c \in call.got : IsRoot(c) /\ \A d \in call.got : IsRoot(d) => c <= d}
        page == Finish([tree EXCEPT !.shown = call.got, !.loading = FALSE], call.op)
    IN
    /\ call.phase = "got" /\ call.op \in {"load", "create", "edit", "delete"}
    /\ IF tree.selected = None /\ first # {}
       THEN \E c \in first : /\ tree' = [page EXCEPT !.selected = c]
                             /\ treeCalls' = [treeCalls EXCEPT ![s] = Reading("members", c)]
       ELSE tree' = page /\ treeCalls' = [treeCalls EXCEPT ![s] = NoCall]
    /\ UNCHANGED <<server, treeLost>>

QueryFails(s) ==
    LET call == treeCalls[s] IN
    /\ call.phase \in {"asked", "got"} /\ treeLost < MaxLost
    /\ treeLost' = treeLost + 1
    /\ tree' = Finish(IF call.op \in {"members", "add", "remove"} THEN tree
                      ELSE [tree EXCEPT !.loading = FALSE], call.op)
    /\ treeCalls' = [treeCalls EXCEPT ![s] = NoCall]
    /\ UNCHANGED server

-----------------------------------------------------------------------------
\* Calls that change something: sent, then ok, refused or failed.

Serve(s) ==
    LET call == treeCalls[s]
        answer(phase) == treeCalls' = [treeCalls EXCEPT ![s].phase = phase]
    IN
    /\ call.phase = "sent"
    /\ CASE call.op = "create" -> /\ Len(comps) < MaxComps
                                  /\ comps' = create_compartment(call.comp)
                                  /\ UNCHANGED rows /\ answer("ok")
         [] call.op = "edit" -> UNCHANGED server /\ answer("ok")
         [] call.op = "delete" -> /\ comps' = delete_compartment(call.comp)
                                  /\ UNCHANGED rows /\ answer("ok")
         [] call.op = "add" /\ CanAdd(call.comp, call.email) ->
                                  /\ Len(rows) < MaxRows
                                  /\ rows' = add_member(call.comp, call.email)
                                  /\ UNCHANGED comps /\ answer("ok")
         [] call.op = "add" /\ ~CanAdd(call.comp, call.email) -> UNCHANGED server /\ answer("refused")
         [] call.op = "remove" -> /\ rows' = remove_member(call.comp, call.row)
                                  /\ UNCHANGED comps
                                  /\ answer(IF Found(call.comp, call.row) THEN "ok" ELSE "refused")
    /\ UNCHANGED <<tree, treeLost>>

\* The interceptor sends it again, and gives up after the second time.
Lost(s) ==
    /\ treeCalls[s].phase \in {"sent", "ok", "refused"} /\ treeLost < MaxLost
    /\ treeLost' = treeLost + 1
    /\ \E phase \in {"sent", "failed"} : treeCalls' = [treeCalls EXCEPT ![s].phase = phase]
    /\ UNCHANGED <<server, tree>>

\* The page without its dialog, if that is one of these, whatever it is about by now.
Closed(dialogs) ==
    IF tree.dialog \in dialogs THEN [tree EXCEPT !.dialog = "no", !.target = None] ELSE tree

\* What the handlers do after their await, before they reload.
AfterOk(call) ==
    CASE call.op \in {"create", "edit"} ->
            [Closed({"create", "edit"}) EXCEPT !.loading = TRUE]
      [] call.op = "delete" ->
            [Closed({"delete"}) EXCEPT !.loading = TRUE,
                         !.selected = IF call.selected = call.comp THEN None ELSE @]
      [] call.op = "add" ->
            [Closed({"member"}) EXCEPT !.email = NoText, !.notRegistered = FALSE]
      [] call.op = "remove" -> tree

Succeeds(s) ==
    LET call == treeCalls[s] IN
    /\ call.phase = "ok"
    /\ IF call.live
       THEN tree' = AfterOk(call) /\ treeCalls' = [treeCalls EXCEPT ![s].phase = "asked"]
       ELSE UNCHANGED tree /\ treeCalls' = [treeCalls EXCEPT ![s] = NoCall]
    /\ UNCHANGED <<server, treeLost>>

\* Every refusal of add_member names a user or is a 404: it is taken for "not registered".
Fails(s) ==
    LET call == treeCalls[s] IN
    /\ call.phase \in {"refused", "failed"}
    /\ tree' = IF ~call.live THEN tree
               ELSE Finish([tree EXCEPT !.notRegistered =
                                @ \/ (call.op = "add" /\ call.phase = "refused")], call.op)
    /\ treeCalls' = [treeCalls EXCEPT ![s] = NoCall]
    /\ UNCHANGED <<server, treeLost>>

-----------------------------------------------------------------------------
\* Another administrator.
OthersManage ==
    /\ \/ \E c \in DOMAIN comps : ~IsRoot(c) /\ comps' = delete_compartment(c) /\ UNCHANGED rows
       \/ \E c \in DOMAIN comps, u \in Users :
             CanAdd(c, u) /\ Len(rows) < MaxRows /\ rows' = add_member(c, u) /\ UNCHANGED comps
       \/ \E m \in DOMAIN rows : rows' = remove_member(rows[m].comp, m) /\ UNCHANGED comps
    /\ UNCHANGED <<tree, treeCalls, treeLost>>

CompartmentAnswers ==
    \E s \in Slots :
        \/ Read(s) \/ MembersArrive(s) \/ CompartmentsArrive(s) \/ QueryFails(s)
        \/ Serve(s) \/ Lost(s) \/ Succeeds(s) \/ Fails(s)

CompartmentClicks ==
    \/ \E c \in DOMAIN comps :
          \/ handleEditCompartment(c) \/ handleDeleteCompartment(c)
          \/ \E s \in Slots : Select(s, c)
    \/ \E parent \in {None} \cup DOMAIN comps : handleCreateCompartment(parent)
    \/ OpenMemberDialog \/ CloseDialog
    \/ \E email \in Emails : TypeEmail(email)
    \/ \E s \in Slots :
          \/ handleSaveCompartment(s) \/ handleConfirmDelete(s) \/ handleAddMember(s)
          \/ \E m \in DOMAIN rows : handleRemoveMember(s, m)

CompSet == [parent : {None} \cup CompIds, active : BOOLEAN]
RowSet == [comp : CompIds, user : Users, active : BOOLEAN]

PageSet ==
    [shown : SUBSET CompIds, selected : {None} \cup CompIds, members : SUBSET RowIds,
     loading : BOOLEAN, dialog : {"no", "create", "edit", "delete", "member"},
     target : {None} \cup CompIds, email : Emails \cup {NoText}, notRegistered : BOOLEAN,
     saving : BOOLEAN, deleting : BOOLEAN, adding : BOOLEAN]

CallSet ==
    [op : {"none", "load", "members", "create", "edit", "delete", "add", "remove"},
     comp : {None} \cup CompIds, row : {None} \cup RowIds, email : Emails \cup {NoText},
     selected : {None} \cup CompIds,
     phase : {"free", "asked", "got", "sent", "ok", "refused", "failed"},
     live : BOOLEAN, got : SUBSET (CompIds \cup RowIds)]

CompartmentsTypeOK ==
    /\ comps \in Seq(CompSet) /\ Len(comps) <= MaxComps
    /\ rows \in Seq(RowSet) /\ Len(rows) <= MaxRows
    /\ tree \in PageSet
    /\ treeCalls \in [Slots -> CallSet]
    /\ treeLost \in 0..MaxLost
=============================================================================
