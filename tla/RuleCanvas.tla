------------------------------ MODULE RuleCanvas ------------------------------
(***************************************************************************)
(* The flow canvas of the rule builder: nodes and edges as React Flow      *)
(* keeps them, and the rule that canvasSerializer makes of them.           *)
(***************************************************************************)
EXTENDS Arrays

ConditionNode(id, type) ==
    [id |-> id, type |-> "condition", blockType |-> type, fields |-> {}, combinator |-> "AND"]

GroupNode(id) ==
    [id |-> id, type |-> "group", blockType |-> "__group__", fields |-> {},
     combinator |-> "AND"]

NodeIds(nodes) == {nodes[i].id : i \in DOMAIN nodes}

\* React Flow's addEdge leaves a second edge between the same handles out; the
\* page puts no condition on which nodes are connected.
onConnect(edges, source, target) ==
    LET edge == [source |-> source, target |-> target]
    IN  IF edge \in ToSet(edges) THEN edges ELSE Append(edges, edge)

updateNode(nodes, id, field) ==
    MapId(nodes, id, LAMBDA node :
        [node EXCEPT !.fields = IF field \in @ THEN @ \ {field} ELSE @ \cup {field}])

toggleCombinator(nodes, id) ==
    MapId(nodes, id, LAMBDA node :
        [node EXCEPT !.combinator = IF @ = "AND" THEN "OR" ELSE "AND"])

\* The X of a node takes the node only; its edges stay.
removeNode(nodes, id) == FilterId(nodes, id)

removeEdge(edges, edge) == Keep(edges, {i \in DOMAIN edges : edges[i] # edge})

\* The delete key is React Flow's own: it takes the edges of the node too.
WithoutEdgesOf(edges, id) ==
    Keep(edges, {i \in DOMAIN edges : edges[i].source # id /\ edges[i].target # id})

-----------------------------------------------------------------------------
NoTarget == 0

\* The first edge that leaves a condition names its group.
OutEdge(edges, id) ==
    IF \E i \in DOMAIN edges : edges[i].source = id
    THEN edges[CHOOSE i \in DOMAIN edges :
                  edges[i].source = id /\ \A j \in 1..(i - 1) : edges[j].source # id].target
    ELSE NoTarget

ConditionIds(edges, id) ==
    LET incoming == Keep(edges, {i \in DOMAIN edges : edges[i].target = id})
    IN  [i \in DOMAIN incoming |-> incoming[i].source]

NodesOf(nodes, type) == Keep(nodes, {i \in DOMAIN nodes : nodes[i].type = type})

serializeToRule(nodes, edges) ==
    LET conditionNodes == NodesOf(nodes, "condition")
        groupNodes == NodesOf(nodes, "group")
    IN  IF Len(conditionNodes) = 1 /\ groupNodes = <<>>
        THEN [kind |-> "native", conditions |-> <<>>, groups |-> <<>>]
        ELSE [kind |-> "boolean_group",
              conditions |-> [i \in DOMAIN conditionNodes |->
                  [nodeId |-> conditionNodes[i].id,
                   groupId |-> OutEdge(edges, conditionNodes[i].id)]],
              groups |-> [i \in DOMAIN groupNodes |->
                  [nodeId |-> groupNodes[i].id,
                   combinator |-> groupNodes[i].combinator,
                   conditionIds |-> ConditionIds(edges, groupNodes[i].id)]]]
================================================================================
