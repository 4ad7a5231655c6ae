---------------------------- MODULE MCRemediation ----------------------------
\* Two issues, found by the first execution or still to be found; one rule.
EXTENDS Remediation, TLC

Symmetry == Permutations(Issues)
=============================================================================
