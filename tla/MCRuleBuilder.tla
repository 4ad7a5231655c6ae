---------------------------- MODULE MCRuleBuilder ----------------------------
(***************************************************************************)
(* Instances of RuleBuilder for TLC: two built-in block types.             *)
(***************************************************************************)
EXTENDS RuleBuilder

MCBuiltin == [t \in {"not_null", "numeric_range"} |->
                 IF t = "not_null" THEN "none" ELSE "range"]
\* Keep is filter, and TotalBlocks the sum of the lengths, over all short inputs.
Elements == {"a", "b"}
KeepIsFilter ==
    \A s \in UNION {[1..n -> Elements] : n \in 0..4} :
        Keep(s, {i \in DOMAIN s : s[i] # "a"}) = SelectSeq(s, LAMBDA x : x # "a")

TotalIsSum ==
    \A gs \in UNION {[1..n -> [blocks : UNION {[1..m -> Elements] : m \in 0..2}]] : n \in 0..3} :
        TotalBlocks(gs) = FoldLeft(LAMBDA n, group : n + Len(group.blocks), 0, gs)

ASSUME KeepAssumption == KeepIsFilter /\ TotalIsSum

================================================================================
