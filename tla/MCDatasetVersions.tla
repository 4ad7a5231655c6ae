-------------------------- MODULE MCDatasetVersions --------------------------
(***************************************************************************)
(* Instances of DatasetVersions for TLC: every edit to a cell of its own,  *)
(* all edits to one cell, or the edits of Rivals to one cell and each      *)
(* other edit to its own.                                                  *)
(***************************************************************************)
EXTENDS DatasetVersions, TLC

CONSTANT Rivals

Rivalry == [e \in Edits |-> IF e \in Rivals THEN Rivals ELSE {e}]

Symmetry ==
    Permutations(Workers) \cup Permutations(Rivals) \cup Permutations(Edits \ Rivals)
===============================================================================
