------------------------------ MODULE RuleWizard ------------------------------
(***************************************************************************)
(* The rule creation wizard: five steps, each with its inputs, and what     *)
(* "Next", "Back" and the step indicator do.  An instance of the wizard is  *)
(* a record; a handler is an operator on it.                                *)
(***************************************************************************)
EXTENDS Integers

KindStep == 0
ColumnsStep == 1
ParamsStep == 2
TestStep == 3
ReviewStep == 4
Steps == KindStep..ReviewStep

Blank == ""
NoTest == "none"
JsonTexts == {"blank", "valid", "invalid"}

\* `kinds`: both the kind and the criticality are chosen.  `testing`: the test that the
\* mounted StepTest waits for, which it forgets when another step is shown.  The guided
\* parameters are left out: nothing depends on them.
initialState ==
    [step |-> KindStep, name |-> Blank, kinds |-> FALSE, columns |-> FALSE,
     rawJson |-> "blank", useJsonMode |-> FALSE, testing |-> NoTest]

\* validateStep for the inputs of one step.
validateStep(w, step) ==
    CASE step = KindStep -> w.name # Blank /\ w.kinds
      [] step = ColumnsStep -> w.columns
      [] step = ParamsStep -> ~(w.useJsonMode /\ w.rawJson = "invalid")
      [] OTHER -> TRUE

\* The inputs of the step on display.
StepRuleKind(w, names) ==
    {[w EXCEPT !.name = n] : n \in names \cup {Blank}} \cup {[w EXCEPT !.kinds = TRUE]}

StepColumns(w) == {[w EXCEPT !.columns = b] : b \in BOOLEAN}

StepParameters(w) ==
    {[w EXCEPT !.useJsonMode = ~@]}
      \cup IF w.useJsonMode THEN {[w EXCEPT !.rawJson = t] : t \in JsonTexts} ELSE {}

Inputs(w, names) ==
    CASE w.step = KindStep -> StepRuleKind(w, names)
      [] w.step = ColumnsStep -> StepColumns(w)
      [] w.step = ParamsStep -> StepParameters(w)
      [] OTHER -> {}

Show(w, step) == IF step = w.step THEN w ELSE [w EXCEPT !.step = step, !.testing = NoTest]

\* Mutant of goNext: the step is not validated.
goNextUnchecked(w) == IF w.step = ReviewStep THEN w ELSE Show(w, w.step + 1)

goNext(w) ==
    IF validateStep(w, w.step) /\ w.step # ReviewStep THEN Show(w, w.step + 1) ELSE w

\* Mutant of goBack: no Math.max.
goBackBelow(w) == Show(w, w.step - 1)

goBack(w) == IF w.step = 0 THEN w ELSE Show(w, w.step - 1)

\* The indicator leads back only.
goToStep(w, step) == IF step < w.step THEN Show(w, step) ELSE w
================================================================================
