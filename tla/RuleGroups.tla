------------------------------ MODULE RuleGroups ------------------------------
(***************************************************************************)
(* The groups of blocks of the rule builder page, and what each handler of *)
(* the page makes of them.  A handler is an operator from groups to groups *)
(* that takes the ids it generates as arguments.                           *)
(*                                                                         *)
(* What a block holds is kept as the set of its input fields that are not  *)
(* blank and the set of its switches that differ from a new block's:       *)
(* "off" (enabled = FALSE), "collapsed", "advanced" and "or" (its logic).  *)
(***************************************************************************)
EXTENDS Arrays

Fields == {"column", "value", "min", "max", "expr"}
Switches == {"off", "collapsed", "advanced", "or"}
Kinds == {"none", "single", "range"}

\* Mutant of makeBlock: no id is generated.
makeBlockWithoutId(id, type) ==
    [id |-> 0, type |-> type, fields |-> {}, switches |-> {}, subs |-> <<>>]

makeBlock(id, type) ==
    [id |-> id, type |-> type, fields |-> {}, switches |-> {}, subs |-> <<>>]

makeSubCondition(id, type) ==
    [id |-> id, type |-> type, fields |-> {}, switches |-> {}]

makeGroup(id) ==
    [id |-> id, combinator |-> "AND", collapsed |-> FALSE, blocks |-> <<>>]

GroupIds(gs) == {gs[i].id : i \in DOMAIN gs}
BlockIdsOf(group) == {group.blocks[i].id : i \in DOMAIN group.blocks}
BlockIds(gs) == UNION {BlockIdsOf(gs[i]) : i \in DOMAIN gs}
BlockPlaces(gs) == UNION {{i} \X DOMAIN gs[i].blocks : i \in DOMAIN gs}
TotalBlocks(gs) == Cardinality(BlockPlaces(gs))
LastGroup(gs) == gs[Len(gs)].id

Toggle(set, x) == IF x \in set THEN set \ {x} ELSE set \cup {x}
Flip(logic) == IF logic = "AND" THEN "OR" ELSE "AND"

-----------------------------------------------------------------------------
\* The inputs that a card shows; a registry gives the value kind of each block type.
InputsShown(block, registry) ==
    IF "advanced" \in block.switches THEN {"expr"}
    ELSE {"column"} \cup CASE registry[block.type] = "range" -> {"min", "max"}
                           [] registry[block.type] = "single" -> {"value"}
                           [] OTHER -> {}

-----------------------------------------------------------------------------
\* Group actions.

addGroup(gs, id) == Append(gs, makeGroup(id))

\* The last group is emptied, never removed.
removeGroup(gs, g) ==
    IF Len(gs) <= 1
    THEN MapId(gs, g, LAMBDA group : [group EXCEPT !.blocks = <<>>])
    ELSE FilterId(gs, g)

\* Mutant of duplicateGroup: the copies of the blocks keep their ids.
duplicateGroupShallow(gs, g, first) ==
    LET at == IndexOf(gs, g)
    IN  InsertAt(gs, at + 1, [gs[at] EXCEPT !.id = first])

\* A copy with an id of its own and new block ids, first + 1 and on; the
\* sub-conditions of its blocks keep theirs.
duplicateGroup(gs, g, first) ==
    LET at == IndexOf(gs, g)
        copy == [gs[at] EXCEPT
                   !.id = first,
                   !.blocks = [i \in DOMAIN @ |-> [@[i] EXCEPT !.id = first + i]]]
    IN  InsertAt(gs, at + 1, copy)

toggleGroupCombinator(gs, g) ==
    MapId(gs, g, LAMBDA group : [group EXCEPT !.combinator = Flip(@)])

toggleGroupCollapsed(gs, g) ==
    MapId(gs, g, LAMBDA group : [group EXCEPT !.collapsed = ~@])

-----------------------------------------------------------------------------
\* Block actions.

MapBlock(gs, g, b, Change(_)) ==
    MapId(gs, g, LAMBDA group : [group EXCEPT !.blocks = MapId(@, b, Change)])

addBlockToGroup(gs, g, block) ==
    MapId(gs, g, LAMBDA group : [group EXCEPT !.blocks = Append(@, block)])

removeBlock(gs, g, b) ==
    MapId(gs, g, LAMBDA group : [group EXCEPT !.blocks = FilterId(@, b)])

updateBlock(gs, g, b, field) ==
    MapBlock(gs, g, b, LAMBDA block : [block EXCEPT !.fields = Toggle(@, field)])

\* A copy after the block, with new ids first, first + 1 and on for itself and
\* its sub-conditions.
duplicateBlock(gs, g, b, first) ==
    LET Copy(block) == [block EXCEPT
                          !.id = first,
                          !.subs = [i \in DOMAIN @ |-> [@[i] EXCEPT !.id = first + i]]]
    IN  MapId(gs, g, LAMBDA group :
            LET at == IndexOf(group.blocks, b)
            IN  IF at = 0 THEN group
                ELSE [group EXCEPT !.blocks = InsertAt(@, at + 1, Copy(@[at]))])

\* toggleBlockEnabled, toggleBlockCollapsed, toggleBlockAdvanced, toggleBlockLogic.
toggleBlock(gs, g, b, switch) ==
    MapBlock(gs, g, b, LAMBDA block : [block EXCEPT !.switches = Toggle(@, switch)])

addSubCondition(gs, g, b, sub) ==
    MapBlock(gs, g, b, LAMBDA block : [block EXCEPT !.subs = Append(@, sub)])

updateSubCondition(gs, g, b, s, field) ==
    MapBlock(gs, g, b, LAMBDA block :
        [block EXCEPT !.subs = MapId(@, s, LAMBDA sub :
            [sub EXCEPT !.fields = Toggle(@, field)])])

removeSubCondition(gs, g, b, s) ==
    MapBlock(gs, g, b, LAMBDA block : [block EXCEPT !.subs = FilterId(@, s)])

toggleSubLogic(gs, g, b, s) ==
    MapBlock(gs, g, b, LAMBDA block :
        [block EXCEPT !.subs = MapId(@, s, LAMBDA sub :
            [sub EXCEPT !.switches = Toggle(@, "or")])])

-----------------------------------------------------------------------------
\* What handleDragEnd does with what is under the pointer.  A place is a record
\* [at, id]: the "canvas", the drop "zone" of a group, a "group" or a "block".

GroupOf(gs, b) == gs[CHOOSE i \in DOMAIN gs : b \in BlockIdsOf(gs[i])].id

\* Palette to canvas: after the block under the pointer, at the end of the
\* group of a drop zone, and at the end of the last group anywhere else.
dropPalette(gs, block, over) ==
    CASE over.at = "zone" -> addBlockToGroup(gs, over.id, block)
      [] over.at = "block" /\ over.id \in BlockIds(gs) ->
           MapId(gs, GroupOf(gs, over.id), LAMBDA group :
               [group EXCEPT !.blocks = InsertAt(@, IndexOf(@, over.id) + 1, block)])
      [] OTHER -> addBlockToGroup(gs, LastGroup(gs), block)

dropGroup(gs, g, over) ==
    IF over.at = "group" /\ over.id # g /\ g \in GroupIds(gs)
    THEN arrayMove(gs, IndexOf(gs, g), IndexOf(gs, over.id))
    ELSE gs

\* Mutant of dropBlock: the group that the block came from keeps it.
dropBlockCopy(gs, b, over) ==
    IF over.at # "block" \/ over.id = b \/ b \notin BlockIds(gs)
    THEN gs
    ELSE LET group == gs[IndexOf(gs, GroupOf(gs, b))]
             block == group.blocks[IndexOf(group.blocks, b)]
         IN  MapId(gs, GroupOf(gs, over.id), LAMBDA to :
                [to EXCEPT !.blocks = InsertAt(@, IndexOf(@, over.id) + 1, block)])

\* A block moves when the pointer is over another block: within its group to
\* that block's place, from another group to the place after it.
dropBlock(gs, b, over) ==
    IF over.at # "block" \/ over.id = b \/ b \notin BlockIds(gs)
    THEN gs
    ELSE LET from == GroupOf(gs, b)
             to == GroupOf(gs, over.id)
             block == LET group == gs[IndexOf(gs, from)]
                      IN  group.blocks[IndexOf(group.blocks, b)]
         IN  IF from = to
             THEN MapId(gs, from, LAMBDA group :
                    [group EXCEPT !.blocks =
                        arrayMove(@, IndexOf(@, b), IndexOf(@, over.id))])
             ELSE MapId(removeBlock(gs, from, b), to, LAMBDA group :
                    [group EXCEPT !.blocks = InsertAt(@, IndexOf(@, over.id) + 1, block)])
================================================================================
