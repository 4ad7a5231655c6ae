---------------------------- MODULE MCRuleCatalog ----------------------------
(***************************************************************************)
(* Instances of RuleCatalog for TLC.                                       *)
(***************************************************************************)
EXTENDS RuleCatalog, TLC

\* Tests and workers are alike, and so are the names of each kind.
Symmetry ==
    UNION {Permutations(S) : S \in {Tests, Workers, Names, TestNames}}

\* Bounds of the large instance: the last navigation or change by others is made without
\* a fault and outside of the wizard, and tests overlap where the old rule is gone.
Bounded ==
    /\ leaves = MaxLeaves =>
           /\ faults = 0 /\ wizard = initialState
           /\ ~Active(create) /\ \A t \in Tests : ~Active(tests[t])
    /\ (\A t \in Tests : Active(tests[t])) => DOMAIN rules \cap 1..3 = {}

\* What delete_rule promises: "If deleting the latest version, the previous version is
\* promoted to latest".  As every old rule starts with its newest version the latest
\* one, the versions that are left then have a latest one among them.
OldRuleHasLatest ==
    LET left == {id \in DOMAIN rules : rules[id].version > 1 \/ id = 1}
    IN  left = {} \/ \E id \in left : rules[id].latest
================================================================================
