------------------------------ MODULE RuleBuilder ------------------------------
(***************************************************************************)
(* The rule builder page: groups of blocks in the simple mode, a canvas in *)
(* the flow mode, the custom blocks with their copy in localStorage, drag  *)
(* and drop, and the timers of the test and of the "saved" alert.          *)
(*                                                                         *)
(* An action is one event of the page.  What the user may do is what the   *)
(* page shows; the timers and the keyboard go on during a drag, which ends *)
(* on what is left then.  Ids are generated in order; 0 is no id.          *)
(***************************************************************************)
EXTENDS RuleGroups, RuleCanvas

CONSTANTS
    Builtin,    \* value kind of each built-in block type
    DefIds,     \* custom blocks that may be made
    EditFields, \* the input fields a user fills in the instance
    Flags,      \* the switches of a block a user turns in the instance
    MaxIds,     \* bound on the ids generated
    MaxEdits,   \* bound on inputs, toggles, saves, tests and dialogs
    MaxNodes    \* bound on the nodes and on the edges of the canvas

ASSUME BuilderAssumption ==
    /\ Builtin \in [DOMAIN Builtin -> Kinds] /\ "not_null" \in DOMAIN Builtin
    /\ DefIds \cap DOMAIN Builtin = {} /\ EditFields \subseteq Fields /\ Flags \subseteq Switches
    /\ MaxIds \in Nat \ {0} /\ MaxEdits \in Nat /\ MaxNodes \in Nat

VARIABLES
    groups, groupCombinator,
    nodes, edges,      \* the canvas; empty unless the flow mode is mounted
    mode,              \* "simple" or "flow"
    customBlockDefs,   \* value kind of each custom block of the page
    storage,           \* the same in localStorage
    registry,          \* BLOCK_TYPES, a module variable that outlives the page
    made,              \* custom blocks ever made: their ids are never drawn again
    dialog,            \* the custom block dialog: open, and the block it edits
    drag,              \* what is being dragged
    test,              \* "none", "running" or "shown"
    savedAlert,        \* the alert is on display
    hides,             \* timers that will hide it
    ids, edits         \* counters of the bounds

palette == <<customBlockDefs, storage, registry, made>>
rule == <<groups, groupCombinator>>
canvas == <<nodes, edges>>
notices == <<test, savedAlert, hides>>
builderVars == <<rule, canvas, mode, palette, dialog, drag, notices, ids, edits>>

NoDrag == [kind |-> "none", id |-> 0, type |-> "none"]
NoDialog == [open |-> FALSE, editing |-> "none"]
Nowhere == [at |-> "canvas", id |-> 0]

Merge(f, g) ==
    [x \in DOMAIN f \cup DOMAIN g |-> IF x \in DOMAIN f THEN f[x] ELSE g[x]]

BuilderInit ==
    /\ groups = <<makeGroup(1)>> /\ groupCombinator = "AND"
    /\ nodes = <<>> /\ edges = <<>> /\ mode = "simple"
    /\ customBlockDefs = <<>> /\ storage = <<>>
    /\ registry = Builtin /\ made = {}
    /\ dialog = NoDialog /\ drag = NoDrag
    /\ test = "none" /\ savedAlert = FALSE /\ hides = 0
    /\ ids = 1 /\ edits = 0

Draw(n) == ids + n <= MaxIds /\ ids' = ids + n
Edit == edits < MaxEdits /\ edits' = edits + 1

-----------------------------------------------------------------------------
\* What the page shows.

\* Its controls are buttons and inputs: during a drag the keyboard still works them.
Page == mode = "simple" /\ ~dialog.open

\* With no block at all the page shows an empty canvas instead of the groups.
GroupsShown == mode = "simple" /\ TotalBlocks(groups) > 0

ShownGroups == IF GroupsShown THEN {groups[i] : i \in DOMAIN groups} ELSE {}

\* A block whose type left the registry has no card.
ShownBlocks(group) ==
    IF group.collapsed THEN {}
    ELSE {b \in ToSet(group.blocks) : b.type \in DOMAIN registry}

OpenBodies(group) == {b \in ShownBlocks(group) : "collapsed" \notin b.switches}

\* What dnd-kit may report under the pointer.
Places ==
    (IF mode = "simple" THEN {Nowhere} ELSE {})
      \cup {[at |-> "group", id |-> group.id] : group \in ShownGroups}
      \cup {[at |-> "zone", id |-> group.id] : group \in {x \in ShownGroups : ~x.collapsed}}
      \cup {[at |-> "block", id |-> b] :
                b \in UNION {{x.id : x \in ToSet(group.blocks)} :
                                group \in {y \in ShownGroups : ~y.collapsed}}}

Change(gs) == groups' = gs

-----------------------------------------------------------------------------
\* Group actions.

AddGroup ==
    /\ Page /\ Draw(1)
    /\ Change(addGroup(groups, ids + 1))
    /\ UNCHANGED <<groupCombinator, canvas, mode, palette, dialog, drag, notices, edits>>

RemoveGroup ==
    /\ Page
    /\ \E group \in ShownGroups : Change(removeGroup(groups, group.id))
    /\ UNCHANGED <<groupCombinator, canvas, mode, palette, dialog, drag, notices, ids, edits>>

DuplicateGroup ==
    /\ Page
    /\ \E group \in ShownGroups :
         /\ Draw(1 + Len(group.blocks))
         /\ Change(duplicateGroup(groups, group.id, ids + 1))
    /\ UNCHANGED <<groupCombinator, canvas, mode, palette, dialog, drag, notices, edits>>

ClearAll ==
    /\ Page /\ GroupsShown /\ Draw(1)
    /\ Change(<<makeGroup(ids + 1)>>)
    /\ UNCHANGED <<groupCombinator, canvas, mode, palette, dialog, drag, notices, edits>>

ToggleGroup ==
    /\ Page /\ Edit
    /\ \E group \in ShownGroups :
         \/ Change(toggleGroupCollapsed(groups, group.id))
         \/ Change(toggleGroupCombinator(groups, group.id))
    /\ UNCHANGED <<groupCombinator, canvas, mode, palette, dialog, drag, notices, ids>>

ToggleGroupLogic ==
    /\ Page /\ Edit
    /\ groupCombinator' = Flip(groupCombinator)
    /\ UNCHANGED <<groups, canvas, mode, palette, dialog, drag, notices, ids>>

-----------------------------------------------------------------------------
\* Block actions.

\* "Add Block to Group", or the + of a palette item (to the last group).
AddBlock ==
    /\ Page /\ Draw(1)
    /\ \/ \E group \in ShownGroups :
            /\ ~group.collapsed
            /\ Change(addBlockToGroup(groups, group.id, makeBlock(ids + 1, "not_null")))
       \/ \E type \in DOMAIN Builtin \cup DOMAIN customBlockDefs :
            Change(addBlockToGroup(groups, LastGroup(groups), makeBlock(ids + 1, type)))
    /\ UNCHANGED <<groupCombinator, canvas, mode, palette, dialog, drag, notices, edits>>

RemoveBlock ==
    /\ Page
    /\ \E group \in ShownGroups : \E b \in ShownBlocks(group) :
         Change(removeBlock(groups, group.id, b.id))
    /\ UNCHANGED <<groupCombinator, canvas, mode, palette, dialog, drag, notices, ids, edits>>

DuplicateBlock ==
    /\ Page
    /\ \E group \in ShownGroups : \E b \in ShownBlocks(group) :
         /\ Draw(1 + Len(b.subs))
         /\ Change(duplicateBlock(groups, group.id, b.id, ids + 1))
    /\ UNCHANGED <<groupCombinator, canvas, mode, palette, dialog, drag, notices, edits>>

ToggleBlock ==
    /\ Page /\ Edit
    /\ \E group \in ShownGroups : \E b \in ShownBlocks(group) : \E switch \in Flags :
         Change(toggleBlock(groups, group.id, b.id, switch))
    /\ UNCHANGED <<groupCombinator, canvas, mode, palette, dialog, drag, notices, ids>>

\* A disabled block ignores the pointer only, so its inputs can still be filled.
UpdateBlock ==
    /\ Page /\ Edit
    /\ \E group \in ShownGroups : \E b \in OpenBodies(group) :
         \E field \in InputsShown(b, registry) \cap EditFields :
           Change(updateBlock(groups, group.id, b.id, field))
    /\ UNCHANGED <<groupCombinator, canvas, mode, palette, dialog, drag, notices, ids>>

AddSubCondition ==
    /\ Page /\ Draw(1)
    /\ \E group \in ShownGroups : \E b \in OpenBodies(group) :
         /\ "off" \notin b.switches
         /\ Change(addSubCondition(groups, group.id, b.id,
                                   makeSubCondition(ids + 1, "not_null")))
    /\ UNCHANGED <<groupCombinator, canvas, mode, palette, dialog, drag, notices, edits>>

ChangeSubCondition ==
    /\ Page /\ Edit
    /\ \E group \in ShownGroups : \E b \in OpenBodies(group) : \E s \in ToSet(b.subs) :
         \/ Change(removeSubCondition(groups, group.id, b.id, s.id))
         \/ s # b.subs[1] /\ Change(toggleSubLogic(groups, group.id, b.id, s.id))
         \/ \E field \in InputsShown(s, registry) \cap EditFields :
              Change(updateSubCondition(groups, group.id, b.id, s.id, field))
    /\ UNCHANGED <<groupCombinator, canvas, mode, palette, dialog, drag, notices, ids>>

-----------------------------------------------------------------------------
\* Drag and drop.

DragStart ==
    /\ Page /\ drag = NoDrag
    /\ drag' \in
         {[kind |-> "palette", id |-> 0, type |-> t] :
              t \in DOMAIN Builtin \cup DOMAIN customBlockDefs}
         \cup {[kind |-> "group", id |-> group.id, type |-> "none"] : group \in ShownGroups}
         \cup {[kind |-> "block", id |-> b.id, type |-> b.type] :
                   b \in UNION {ShownBlocks(group) : group \in ShownGroups}}
    /\ UNCHANGED <<rule, canvas, mode, palette, dialog, notices, ids, edits>>

\* What was dragged may have been removed, moved or deleted meanwhile.
DragEnd(over) ==
    /\ drag # NoDrag
    /\ drag' = NoDrag
    /\ \/ /\ drag.kind = "palette" /\ drag.type \in DOMAIN registry /\ Draw(1)
          /\ Change(dropPalette(groups, makeBlock(ids + 1, drag.type), over))
       \/ /\ drag.kind = "palette" /\ drag.type \notin DOMAIN registry
          /\ UNCHANGED <<groups, ids>>
       \/ /\ drag.kind = "group" /\ UNCHANGED ids
          /\ Change(dropGroup(groups, drag.id, over))
       \/ /\ drag.kind = "block" /\ UNCHANGED ids
          /\ Change(dropBlock(groups, drag.id, over))
    /\ UNCHANGED <<groupCombinator, canvas, mode, palette, dialog, notices, edits>>

\* Esc, or the end over nothing.
DragCancel ==
    /\ drag # NoDrag
    /\ drag' = NoDrag
    /\ UNCHANGED <<rule, canvas, mode, palette, dialog, notices, ids, edits>>

-----------------------------------------------------------------------------
\* Custom blocks.

OpenDialog ==
    /\ Page /\ Edit
    /\ \E d \in {"none"} \cup DOMAIN customBlockDefs :
         dialog' = [open |-> TRUE, editing |-> d]
    /\ UNCHANGED <<rule, canvas, mode, palette, drag, notices, ids>>

CancelDialog ==
    /\ dialog.open
    /\ dialog' = [dialog EXCEPT !.open = FALSE]
    /\ UNCHANGED <<rule, canvas, mode, palette, drag, notices, ids, edits>>

\* handleSubmit and handleSaveCustomBlock: the list, the registry, the storage.
SaveCustomBlock(d, kind) ==
    /\ dialog.open
    /\ IF dialog.editing = "none" THEN d \in DefIds \ made ELSE d = dialog.editing
    /\ kind \in {"none", "single"}
    /\ made' = made \cup {d}
    /\ customBlockDefs' = Merge([x \in {d} |-> kind], customBlockDefs)
    /\ registry' = Merge(customBlockDefs', registry)
    /\ storage' = customBlockDefs'
    /\ dialog' = NoDialog
    /\ UNCHANGED <<rule, canvas, mode, drag, notices, ids, edits>>

\* Mutant of DeleteCustomBlock: the registry keeps the type.
DeleteCustomBlockFromList(d) ==
    /\ Page /\ d \in DOMAIN customBlockDefs
    /\ customBlockDefs' = [x \in DOMAIN customBlockDefs \ {d} |-> customBlockDefs[x]]
    /\ storage' = customBlockDefs'
    /\ UNCHANGED <<registry, made, rule, canvas, mode, dialog, drag, notices, ids, edits>>

DeleteCustomBlock(d) ==
    /\ Page /\ d \in DOMAIN customBlockDefs
    /\ customBlockDefs' = [x \in DOMAIN customBlockDefs \ {d} |-> customBlockDefs[x]]
    /\ registry' = [x \in DOMAIN registry \ {d} |-> registry[x]]
    /\ storage' = customBlockDefs'
    /\ UNCHANGED <<made, rule, canvas, mode, dialog, drag, notices, ids, edits>>

\* The page is left and opened again: its state is new, localStorage stays, and
\* the registry stays unless the whole document is loaded again.
OpenAgain(base) ==
    /\ Draw(1) /\ Edit
    /\ groups' = <<makeGroup(ids + 1)>> /\ groupCombinator' = "AND"
    /\ nodes' = <<>> /\ edges' = <<>> /\ mode' = "simple"
    /\ customBlockDefs' = storage
    /\ registry' = Merge(storage, base)
    /\ dialog' = NoDialog /\ drag' = NoDrag
    /\ test' = "none" /\ savedAlert' = FALSE /\ hides' = 0
    /\ UNCHANGED <<storage, made>>

Revisit == OpenAgain(registry)
ReloadPage == OpenAgain(Builtin)

-----------------------------------------------------------------------------
\* Test and save.

RunTest ==
    /\ Page /\ Edit
    /\ test # "running" /\ TotalBlocks(groups) > 0
    /\ test' = "running"
    /\ UNCHANGED <<rule, canvas, mode, palette, dialog, drag, savedAlert, hides, ids>>

TestDone ==
    /\ test = "running"
    /\ test' = "shown"
    /\ UNCHANGED <<rule, canvas, mode, palette, dialog, drag, savedAlert, hides, ids, edits>>

DismissTest ==
    /\ Page /\ test = "shown"
    /\ test' = "none"
    /\ UNCHANGED <<rule, canvas, mode, palette, dialog, drag, savedAlert, hides, ids, edits>>

\* handleSave and handleFlowSave; saving writes to the console only.
Save ==
    /\ Edit
    /\ \/ Page /\ TotalBlocks(groups) > 0
       \/ mode = "flow" /\ nodes # <<>>
    /\ savedAlert' = TRUE /\ hides' = hides + 1
    /\ UNCHANGED <<rule, canvas, mode, palette, dialog, drag, test, ids>>

HideAlert ==
    /\ hides > 0
    /\ savedAlert' = FALSE /\ hides' = hides - 1
    /\ UNCHANGED <<rule, canvas, mode, palette, dialog, drag, test, ids, edits>>

DismissAlert ==
    /\ savedAlert
    /\ savedAlert' = FALSE
    /\ UNCHANGED <<rule, canvas, mode, palette, dialog, drag, test, hides, ids, edits>>

-----------------------------------------------------------------------------
\* The flow mode.

Flow == mode = "flow"

\* Leaving the flow mode unmounts the canvas with its nodes.
SwitchMode ==
    /\ ~dialog.open /\ Edit
    /\ mode' = IF Flow THEN "simple" ELSE "flow"
    /\ nodes' = <<>> /\ edges' = <<>>
    /\ UNCHANGED <<rule, palette, dialog, drag, notices, ids>>

AddNode ==
    /\ Flow /\ Draw(1) /\ Len(nodes) < MaxNodes
    /\ \/ nodes' = Append(nodes, GroupNode(ids + 1))
       \/ \E type \in DOMAIN Builtin : nodes' = Append(nodes, ConditionNode(ids + 1, type))
    /\ UNCHANGED <<rule, edges, mode, palette, dialog, drag, notices, edits>>

Connect ==
    /\ Flow /\ drag = NoDrag /\ Len(edges) < MaxNodes
    /\ \E a, b \in NodeIds(nodes) : edges' = onConnect(edges, a, b)
    /\ UNCHANGED <<rule, nodes, mode, palette, dialog, drag, notices, ids, edits>>

ChangeNode ==
    /\ Flow /\ Edit
    /\ \E n \in ToSet(nodes) :
         \/ n.type = "group" /\ nodes' = toggleCombinator(nodes, n.id)
         \/ /\ n.type = "condition"
            /\ \E field \in EditFields \ {"expr"} : nodes' = updateNode(nodes, n.id, field)
    /\ UNCHANGED <<rule, edges, mode, palette, dialog, drag, notices, ids>>

RemoveNode ==
    /\ Flow
    /\ \E id \in NodeIds(nodes) :
         /\ nodes' = removeNode(nodes, id)
         /\ edges' \in {edges, WithoutEdgesOf(edges, id)}
    /\ UNCHANGED <<rule, mode, palette, dialog, drag, notices, ids, edits>>

RemoveEdge ==
    /\ Flow
    /\ \E edge \in ToSet(edges) : edges' = removeEdge(edges, edge)
    /\ UNCHANGED <<rule, nodes, mode, palette, dialog, drag, notices, ids, edits>>

BuilderNext ==
    \/ AddGroup \/ RemoveGroup \/ DuplicateGroup \/ ClearAll \/ ToggleGroup \/ ToggleGroupLogic
    \/ AddBlock \/ RemoveBlock \/ DuplicateBlock \/ ToggleBlock \/ UpdateBlock
    \/ AddSubCondition \/ ChangeSubCondition
    \/ DragStart \/ \E over \in Places : DragEnd(over)
    \/ DragCancel
    \/ OpenDialog \/ CancelDialog
    \/ \E d \in DefIds, kind \in Kinds : SaveCustomBlock(d, kind)
    \/ \E d \in DefIds : DeleteCustomBlock(d)
    \/ Revisit \/ ReloadPage
    \/ RunTest \/ TestDone \/ DismissTest \/ Save \/ HideAlert \/ DismissAlert
    \/ SwitchMode \/ AddNode \/ Connect \/ ChangeNode \/ RemoveNode \/ RemoveEdge

BuilderSpec == BuilderInit /\ [][BuilderNext]_builderVars

-----------------------------------------------------------------------------
SubType == [id : 1..ids, type : DOMAIN Builtin, fields : SUBSET Fields,
            switches : SUBSET Switches]
BlockType == [id : 1..ids, type : DOMAIN Builtin \cup DefIds, fields : SUBSET Fields,
              switches : SUBSET Switches, subs : Seq(SubType)]
GroupType == [id : 1..ids, combinator : {"AND", "OR"}, collapsed : BOOLEAN,
              blocks : Seq(BlockType)]
NodeType == [id : 1..ids, type : {"condition", "group"}, fields : SUBSET Fields,
             blockType : DOMAIN Builtin \cup {"__group__"}, combinator : {"AND", "OR"}]

BuilderTypeOK ==
    /\ groups \in Seq(GroupType) /\ groupCombinator \in {"AND", "OR"}
    /\ nodes \in Seq(NodeType) /\ edges \in Seq([source : 1..ids, target : 1..ids])
    /\ mode \in {"simple", "flow"}
    /\ \A f \in {customBlockDefs, storage, registry} :
         DOMAIN f \subseteq DOMAIN Builtin \cup DefIds /\ \A x \in DOMAIN f : f[x] \in Kinds
    /\ made \subseteq DefIds
    /\ dialog \in [open : BOOLEAN, editing : {"none"} \cup DefIds]
    /\ drag \in [kind : {"none", "palette", "group", "block"}, id : 0..ids,
                 type : {"none"} \cup DOMAIN Builtin \cup DefIds]
    /\ test \in {"none", "running", "shown"} /\ savedAlert \in BOOLEAN
    /\ hides \in 0..MaxEdits /\ ids \in 1..MaxIds /\ edits \in 0..MaxEdits

\* The page always has a group to add to (removeGroup empties the last one).
AtLeastOneGroup == groups # <<>>

\* No two groups, no two blocks and no two sub-conditions of a block share an id.
IdsUnique ==
    /\ \A i, j \in DOMAIN groups : groups[i].id = groups[j].id => i = j
    /\ Cardinality(BlockIds(groups)) = TotalBlocks(groups)
    /\ BlockIds(groups) \cap GroupIds(groups) = {}
    /\ \A i \in DOMAIN groups : \A b \in ToSet(groups[i].blocks) :
         \A j, k \in DOMAIN b.subs : b.subs[j].id = b.subs[k].id => j = k

\* A condition that the saved rule assigns to one of its groups is listed by
\* that group (the serializer computes the two sides from the edges separately).
GroupsListTheirConditions ==
    LET saved == serializeToRule(nodes, edges)
    IN  \A c \in ToSet(saved.conditions), g \in ToSet(saved.groups) :
          c.groupId = g.nodeId => c.nodeId \in ToSet(g.conditionIds)

\* The custom blocks of the page, those in localStorage and the module variable
\* that outlives the page agree, however pages are left, opened and reloaded.
PaletteAgrees ==
    /\ storage = customBlockDefs
    /\ registry = Merge(customBlockDefs, Builtin)

\* The rule under construction is one that the handlers, dnd-kit and the server
\* can address, in either mode: everything is found by its id only, there is a
\* group to drop into, the two sides of a saved assignment agree, and so do the
\* places that know the custom blocks it may be built from.
RuleWellFormed ==
    AtLeastOneGroup /\ IdsUnique /\ GroupsListTheirConditions /\ PaletteAgrees

\* The end of a drag of a block or a group moves it: nothing is lost and nothing
\* doubled, whatever became of it and of the groups since the drag began.
DragKeepsBlocks ==
    [][(drag.kind \in {"block", "group"} /\ drag' = NoDrag /\ ids' = ids) =>
         /\ BlockIds(groups') = BlockIds(groups)
         /\ TotalBlocks(groups') = TotalBlocks(groups)
         /\ GroupIds(groups') = GroupIds(groups)]_builderVars
================================================================================
