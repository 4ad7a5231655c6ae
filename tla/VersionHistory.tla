---------------------------- MODULE VersionHistory ----------------------------
(***************************************************************************)
(* What the version API promises of one dataset, without files, workers or *)
(* half-done requests: a history that only grows, numbered 1, 2, 3, ...,   *)
(* in which every version made from fixes is its source with exactly those *)
(* fixes written in (of two for one cell, either), and in which a fix is   *)
(* used at most once.                                                      *)
(* (Docstrings of routes/processing.py:745-746, 839 and 949.)              *)
(***************************************************************************)
EXTENDS Integers, Sequences

CONSTANTS Edits, CellOf

VARIABLES
    history,  \* the versions: number, parent position (0: none), data, fixes
    usedIn    \* usedIn[f]: position of the version f was applied in, 0: none

vars == <<history, usedIn>>

Unused == {f \in Edits : usedIn[f] = 0}

Init ==
    /\ history = <<[no |-> 1, parent |-> 0, content |-> {}, applied |-> {}]>>
    /\ usedIn = [f \in Edits |-> 0]

Publish(parent, content, fixes) ==
    history' = Append(history, [no |-> Len(history) + 1, parent |-> parent,
                                content |-> content, applied |-> fixes])

Cells(edits) == {CellOf[e] : e \in edits}

\* Every edited cell has a requested value, one value, and the others keep theirs.
Result(content, before, edits) ==
    /\ \A e \in content : IF CellOf[e] \in Cells(edits) THEN e \in edits ELSE e \in before
    /\ \A e \in before : CellOf[e] \notin Cells(edits) => e \in content
    /\ Cells(edits) \subseteq Cells(content)
    /\ \A e, f \in content : CellOf[e] = CellOf[f] => e = f

\* A version made from fixes: its parent's data with those fixes written in.
ApplyFixes ==
    \E p \in DOMAIN history, fixes \in (SUBSET Unused) \ {{}}, content \in SUBSET Edits :
        /\ Result(content, history[p].content, fixes)
        /\ Publish(p, content, fixes)
        /\ usedIn' = [f \in Edits |->
                        IF f \in fixes THEN Len(history) + 1 ELSE usedIn[f]]

\* A version made by hand holds some edit; it has no parent on record and uses
\* up no fix.
Correct ==
    /\ \E content \in (SUBSET Edits) \ {{}} : Publish(0, content, {})
    /\ UNCHANGED usedIn

Next == ApplyFixes \/ Correct

Spec == Init /\ [][Next]_vars
===============================================================================
