--------------------------- MODULE RuleCatalogProofs ---------------------------
(***************************************************************************)
(* Theorems about RuleCatalog, for any names, tests, workers and any bounds *)
(* on rules, faults and navigations.                                       *)
(***************************************************************************)
EXTENDS RuleCatalog, FiniteSetTheorems, TLAPS

--------------------------------------------------------------------------------
(***************************************************************************)
(* The table.  The old rule has the ids 1 to 3, its versions; the foreign   *)
(* keys of the family hold as long as its first version.  Every other rule  *)
(* is the latest version of a family of its own.                            *)
(***************************************************************************)

AnyName == Names \cup TestNames
Row == [name : AnyName, family : Nat, version : 1..3, latest : BOOLEAN]

RowSound(table, id) ==
    /\ table[id] \in Row
    /\ \/ id \in 1..3 /\ table[id].version = id
          /\ table[id].family = IF 1 \in DOMAIN table THEN 1 ELSE NoRule
       \/ id > 3 /\ table[id].version = 1 /\ table[id].family = id /\ table[id].latest

TableSound(table, last) ==
    /\ last \in Nat /\ last >= 3
    /\ table = [x \in DOMAIN table |-> table[x]]
    /\ DOMAIN table \subseteq 1..last
    /\ \A id \in DOMAIN table : RowSound(table, id)

\* The old rule, and whether it has a latest version besides `id`.
Old(table) == DOMAIN table \cap 1..3
LatestBeside(table, id) == 1 \in DOMAIN table => \E x \in Old(table) \ {id} : table[x].latest

LEMMA InsertSound ==
    ASSUME NEW table, NEW last, TableSound(table, last), NEW name \in AnyName
    PROVE  LET new == InsertRule(table, last + 1, name)
           IN  /\ TableSound(new, last + 1)
               /\ DOMAIN new = DOMAIN table \cup {last + 1} /\ last + 1 \notin DOMAIN table
               /\ new[last + 1].name = name
               /\ \A x \in DOMAIN table : new[x] = table[x]
<1> DEFINE id == last + 1
           new == InsertRule(table, id, name)
<1>1. /\ DOMAIN new = DOMAIN table \cup {id} /\ new = [x \in DOMAIN new |-> new[x]]
      /\ new[id] = NewRule(id, name) /\ id \notin DOMAIN table
      /\ \A x \in DOMAIN table : new[x] = table[x]
    BY DEF InsertRule, TableSound
<1>2. last \in Nat /\ last >= 3 /\ DOMAIN table \subseteq 1..last
    BY DEF TableSound
<1> HIDE DEF new
<1>3. RowSound(new, id) /\ new[id].name = name
    BY <1>1, <1>2 DEF RowSound, NewRule, Row
<1>4. 1 \in DOMAIN new <=> 1 \in DOMAIN table
    BY <1>1, <1>2
<1>5. \A x \in DOMAIN table : RowSound(new, x)
    BY <1>1, <1>4 DEF TableSound, RowSound
<1>6. DOMAIN new \subseteq 1..id /\ id \in Nat /\ id >= 3
    BY <1>1, <1>2
<1>7. TableSound(new, id)
    BY <1>1, <1>3, <1>5, <1>6 DEF TableSound
<1> QED
    BY <1>1, <1>3, <1>7 DEF new

\* Nothing but the latest flag of one row is written, and only to TRUE.
LEMMA PromotionSound ==
    ASSUME NEW table, NEW last, TableSound(table, last), NEW previous \in DOMAIN table
    PROVE  LET new == promote_previous_version_to_latest(table, previous)
           IN  /\ TableSound(new, last)
               /\ DOMAIN new = DOMAIN table
               /\ \A x \in DOMAIN table : /\ new[x].name = table[x].name
                                          /\ new[x].family = table[x].family
                                          /\ table[x].latest => new[x].latest
               /\ new[previous].latest
<1> DEFINE new == promote_previous_version_to_latest(table, previous)
<1>1. /\ DOMAIN new = DOMAIN table /\ new = [x \in DOMAIN new |-> new[x]]
      /\ \A x \in DOMAIN table \ {previous} : new[x] = table[x]
      /\ new[previous] = [table[previous] EXCEPT !.latest = TRUE]
    BY DEF promote_previous_version_to_latest, TableSound
<1> HIDE DEF new
<1>2. RowSound(table, previous)
    BY DEF TableSound
<1>3. /\ new[previous] \in Row /\ new[previous].latest
      /\ new[previous].name = table[previous].name
      /\ new[previous].family = table[previous].family
      /\ new[previous].version = table[previous].version
    BY <1>1, <1>2 DEF RowSound, Row
<1>4. RowSound(new, previous)
    BY <1>1, <1>2, <1>3 DEF RowSound
<1>5. \A x \in DOMAIN table \ {previous} : RowSound(new, x)
    BY <1>1 DEF RowSound, TableSound
<1>6. TableSound(new, last)
    BY <1>1, <1>4, <1>5 DEF TableSound
<1> QED
    BY <1>1, <1>3, <1>6 DEF new

\* A deletion takes one row away; the family of the old rule goes with its first version.
LEMMA DeletionSound ==
    ASSUME NEW table, NEW last, TableSound(table, last), NEW id
    PROVE  /\ TableSound(delete_rule(table, id), last)
           /\ DOMAIN delete_rule(table, id) = DOMAIN table \ {id}
           /\ \A x \in DOMAIN table \ {id} : /\ delete_rule(table, id)[x].name = table[x].name
                                             /\ delete_rule(table, id)[x].latest = table[x].latest
<1> DEFINE new == delete_rule(table, id)
<1>1. /\ DOMAIN new = DOMAIN table \ {id} /\ new = [x \in DOMAIN new |-> new[x]]
      /\ \A x \in DOMAIN new : new[x] = IF table[x].family = id THEN [table[x] EXCEPT !.family = NoRule]
                                        ELSE table[x]
    BY DEF delete_rule
<1> HIDE DEF new
<1>2. ASSUME NEW x \in DOMAIN new
      PROVE  /\ RowSound(new, x)
             /\ new[x].name = table[x].name /\ new[x].latest = table[x].latest
  <2>1. x \in DOMAIN table /\ x # id /\ RowSound(table, x)
    BY <1>1 DEF TableSound
  <2>2. CASE table[x].family # id
    <3>1. new[x] = table[x]
      BY <1>1, <2>2
    <3>2. x \in 1..3 => (1 \in DOMAIN new <=> 1 \in DOMAIN table)
      BY <1>1, <2>1, <2>2 DEF RowSound
    <3> QED
      BY <2>1, <3>1, <3>2 DEF RowSound
  <2>3. CASE table[x].family = id
    <3>1. new[x] = [table[x] EXCEPT !.family = NoRule]
      BY <1>1, <2>3
    <3>2. /\ new[x] \in Row /\ new[x].family = NoRule
          /\ new[x].name = table[x].name /\ new[x].latest = table[x].latest
          /\ new[x].version = table[x].version
      BY <2>1, <3>1 DEF RowSound, Row, NoRule
    <3>3. x \in 1..3 /\ 1 \notin DOMAIN new
      BY <1>1, <2>1, <2>3 DEF RowSound
    <3> QED
      BY <2>1, <3>2, <3>3 DEF RowSound
  <2> QED
    BY <2>2, <2>3
<1>3. DOMAIN new \subseteq 1..last /\ last \in Nat /\ last >= 3
    BY <1>1 DEF TableSound
<1>4. TableSound(new, last)
    BY <1>1, <1>2, <1>3 DEF TableSound
<1> QED
    BY <1>1, <1>2, <1>4 DEF new

\* The family of a row, and what a deletion of it is to promote.
LEMMA OlderSound ==
    ASSUME NEW table, NEW last, TableSound(table, last), NEW id
    PROVE  /\ id \notin 2..3 => Older(table, id) = {}
           /\ id \in 2..3 /\ Older(table, id) # {} =>
                 /\ Newest(table, Older(table, id)) \in Old(table)
                 /\ Newest(table, Older(table, id)) < id
           /\ id \in 2..3 /\ id \in DOMAIN table /\ 1 \in DOMAIN table => Older(table, id) # {}
<1>0. \A x \in DOMAIN table : RowSound(table, x)
    BY DEF TableSound
<1>1. ASSUME id \in DOMAIN table, table[id].family # NoRule,
             NEW x \in DOMAIN table, table[x].family = table[id].family,
             table[x].version < table[id].version
      PROVE  id \in 2..3 /\ x \in 1..2 /\ x < id /\ table[x].version = x
    BY <1>0, <1>1 DEF RowSound, NoRule
<1>2. ASSUME NEW x \in Older(table, id)
      PROVE  id \in 2..3 /\ x \in 1..2 /\ x < id /\ x \in DOMAIN table /\ table[x].version = x
    BY <1>1, <1>2 DEF Older, FamilyOf
<1>3. id \notin 2..3 => Older(table, id) = {}
    BY <1>2
<1>4. ASSUME id \in 2..3, Older(table, id) # {}
      PROVE  Newest(table, Older(table, id)) \in Old(table) /\ Newest(table, Older(table, id)) < id
  <2> DEFINE older == Older(table, id)
             best(x) == \A y \in older : table[y].version <= table[x].version
  <2>1. \A x \in older : x \in 1..2 /\ table[x].version = x
    BY <1>2
  <2> HIDE DEF older
  <2>2. \E x \in older : best(x)
    <3>1. CASE 2 \in older
      BY <2>1, <3>1
    <3>2. CASE 2 \notin older
      BY <1>4, <2>1, <3>2 DEF older
    <3> QED
      BY <3>1, <3>2
  <2>3. Newest(table, older) = CHOOSE x \in older : best(x)
    BY DEF Newest
  <2> HIDE DEF best
  <2>4. Newest(table, older) \in older
    BY <2>2, <2>3
  <2> QED
    BY <1>2, <2>4 DEF Old, older
<1>5. ASSUME id \in 2..3, id \in DOMAIN table, 1 \in DOMAIN table
      PROVE  1 \in Older(table, id)
    BY <1>0, <1>5 DEF Older, FamilyOf, RowSound, NoRule
<1> QED
    BY <1>3, <1>4, <1>5

--------------------------------------------------------------------------------
(***************************************************************************)
(* The wizard.                                                             *)
(***************************************************************************)

\* An instance of the wizard with the steps behind the present one valid.
WizardSound(w) ==
    /\ w \in WizardType
    /\ \A step \in Steps : step < w.step => validateStep(w, step)

LEMMA InitialSound == WizardSound(initialState)
    BY DEF WizardSound, WizardType, initialState, Steps, KindStep, ReviewStep, JsonTexts

\* Inputs change what their own step validates and nothing else.
LEMMA InputSound ==
    ASSUME NEW w, WizardSound(w), NEW new \in Inputs(w, Names)
    PROVE  WizardSound(new)
<1> USE DEF Steps, KindStep, ColumnsStep, ParamsStep, TestStep, ReviewStep
<1>1. CASE w.step = KindStep
  <2>1. Inputs(w, Names) = StepRuleKind(w, Names)
    BY <1>1 DEF Inputs
  <2>2. new.step = KindStep
    BY <1>1, <2>1 DEF StepRuleKind, WizardSound, WizardType
  <2>3. new \in WizardType
    BY <2>1, ZenonT(40) DEF StepRuleKind, WizardSound, WizardType
  <2> QED
    BY <2>2, <2>3 DEF WizardSound
<1>2. CASE w.step = ColumnsStep
    BY <1>2 DEF WizardSound, WizardType, Inputs, StepColumns, validateStep
<1>3. CASE w.step = ParamsStep
  <2>1. Inputs(w, Names) = StepParameters(w)
    BY <1>3 DEF Inputs
  <2>2. /\ new.step = ParamsStep /\ new.name = w.name /\ new.kinds = w.kinds
        /\ new.columns = w.columns
    BY <1>3, <2>1 DEF StepParameters, WizardSound, WizardType
  <2>3. new \in WizardType
    <3>1. \A b \in BOOLEAN : [w EXCEPT !.useJsonMode = b] \in WizardType
      BY DEF WizardSound, WizardType
    <3>2. \A text \in JsonTexts : [w EXCEPT !.rawJson = text] \in WizardType
      BY DEF WizardSound, WizardType
    <3> QED
      BY <2>1, <3>1, <3>2 DEF StepParameters
  <2>4. \A step \in Steps : step < new.step => validateStep(new, step) = validateStep(w, step)
    BY <2>2 DEF validateStep
  <2> QED
    BY <1>3, <2>2, <2>3, <2>4 DEF WizardSound
<1>4. CASE w.step \notin {KindStep, ColumnsStep, ParamsStep}
    BY <1>4 DEF Inputs
<1> QED
    BY <1>1, <1>2, <1>3, <1>4

\* Another step on display: what the steps validate stays.
LEMMA ShowSound ==
    ASSUME NEW w, w \in WizardType, NEW step \in Steps
    PROVE  LET new == Show(w, step)
           IN  /\ new \in WizardType /\ new.step = step
               /\ \A s \in Steps : validateStep(new, s) = validateStep(w, s)
    BY DEF Show, WizardType, validateStep

LEMMA MoveSound ==
    ASSUME NEW w, WizardSound(w),
           NEW new \in {goNext(w), goBack(w)} \cup {goToStep(w, step) : step \in Steps}
    PROVE  WizardSound(new)
<1> USE DEF Steps, KindStep, ReviewStep
<1>a. w \in WizardType /\ w.step \in Steps
    BY DEF WizardSound, WizardType
<1>1. ASSUME new = Show(w, w.step + 1), validateStep(w, w.step), w.step # ReviewStep
      PROVE  WizardSound(new)
  <2>1. w.step + 1 \in Steps
    BY <1>a, <1>1
  <2>2. /\ new \in WizardType /\ new.step = w.step + 1
        /\ \A s \in Steps : validateStep(new, s) = validateStep(w, s)
    BY <1>a, <1>1, <2>1, ShowSound
  <2> QED
    BY <1>a, <1>1, <2>2 DEF WizardSound
<1>2. ASSUME NEW step \in Steps, step <= w.step, new = Show(w, step) PROVE WizardSound(new)
  <2>1. /\ new \in WizardType /\ new.step = step
        /\ \A s \in Steps : validateStep(new, s) = validateStep(w, s)
    BY <1>a, <1>2, ShowSound
  <2> QED
    BY <1>a, <1>2, <2>1 DEF WizardSound
<1>3. CASE new = w
    BY <1>3
<1>4. CASE new = goNext(w)
    BY <1>1, <1>3, <1>4 DEF goNext
<1>5. CASE new = goBack(w)
  <2>1. new = w \/ (new = Show(w, w.step - 1) /\ w.step - 1 \in Steps /\ w.step - 1 <= w.step)
    BY <1>a, <1>5 DEF goBack
  <2> QED
    BY <1>2, <1>3, <2>1
<1>6. ASSUME NEW step \in Steps, new = goToStep(w, step) PROVE WizardSound(new)
    BY <1>a, <1>2, <1>3, <1>6 DEF goToStep
<1> QED
    BY <1>4, <1>5, <1>6

\* Only `testing` is written.
LEMMA TestingSound ==
    ASSUME NEW w, WizardSound(w), NEW t \in Tests \cup {NoTest}
    PROVE  WizardSound([w EXCEPT !.testing = t])
<1> DEFINE new == [w EXCEPT !.testing = t]
<1>1. /\ new \in WizardType /\ new.step = w.step
      /\ \A s \in Steps : validateStep(new, s) = validateStep(w, s)
    BY DEF WizardSound, WizardType, validateStep
<1> QED
    BY <1>1 DEF WizardSound

--------------------------------------------------------------------------------
\* The values of single calls.
LEMMA IdleTyped == Idle \in CallType
    BY ConstantsAssumption DEF Idle, CallType, NoRule, MaxRetries, Pages

Phases == {"idle", "posting", "testing", "deleting", "changing"}

LEMMA FieldTyped ==
    ASSUME NEW call \in CallType
    PROVE  /\ \A v \in Phases : /\ [call EXCEPT !.phase = v] \in CallType
                                /\ [call EXCEPT !.phase = v].phase = v
           /\ \A v \in 0..MaxRules : /\ [call EXCEPT !.rule = v] \in CallType
                                     /\ [call EXCEPT !.rule = v].phase = call.phase
           /\ \A v \in Names \cup TestNames \cup {Blank} : /\ [call EXCEPT !.name = v] \in CallType
                                                        /\ [call EXCEPT !.name = v].phase = call.phase
                                                        /\ [call EXCEPT !.name = v].name = v
           /\ \A v \in Pages : /\ [call EXCEPT !.from = v] \in CallType
                               /\ [call EXCEPT !.from = v].phase = call.phase
                               /\ [call EXCEPT !.from = v].name = call.name
           /\ [call EXCEPT !.tries = 0] \in CallType /\ [call EXCEPT !.tries = 0].phase = call.phase
    BY DEF CallType, Phases, MaxRetries

\* A call as the pages start it, or go on with it.
Posted(name, from) == [Idle EXCEPT !.phase = "posting", !.name = name, !.from = from]

LEMMA PostTyped ==
    ASSUME NEW name \in Names \cup TestNames, NEW from \in Pages
    PROVE  Posted(name, from) \in CallType /\ Posted(name, from).phase = "posting" /\ Posted(name, from).name = name
           /\ Posted(name, from).rule = NoRule
<1> DEFINE p == [Idle EXCEPT !.phase = "posting"]
           n == [p EXCEPT !.name = name]
<1>1. p \in CallType /\ p.phase = "posting"
    BY IdleTyped, FieldTyped DEF Phases
<1> HIDE DEF p
<1>2. n \in CallType /\ n.phase = "posting" /\ n.name = name
    BY <1>1, FieldTyped, ZenonT(40)
<1> HIDE DEF n
<1>3. LET f == [n EXCEPT !.from = from] IN f \in CallType /\ f.phase = "posting" /\ f.name = name
    BY <1>2, FieldTyped
<1>4. Posted(name, from).rule = NoRule
    BY DEF Posted, Idle
<1> QED
    BY <1>3, <1>4 DEF Posted, n, p

LEMMA AboutRuleTyped ==
    ASSUME NEW phase \in {"deleting", "changing"}, NEW rule \in 0..MaxRules, NEW from \in Pages, NEW new,
           new = [Idle EXCEPT !.phase = phase, !.rule = rule, !.from = from]
    PROVE  new \in CallType
<1> DEFINE p == [Idle EXCEPT !.phase = phase]
           r == [p EXCEPT !.rule = rule]
<1>1. p \in CallType
    BY IdleTyped, FieldTyped DEF Phases
<1> HIDE DEF p
<1>2. r \in CallType
    BY <1>1, FieldTyped
<1> HIDE DEF r
<1>3. [r EXCEPT !.from = from] \in CallType
    BY <1>2, FieldTyped
<1> QED
    BY <1>3 DEF r, p

LEMMA TestingTyped ==
    ASSUME NEW call \in CallType, NEW rule \in 0..MaxRules, NEW new,
           new = [call EXCEPT !.phase = "testing", !.rule = rule, !.tries = 0]
    PROVE  new \in CallType /\ new.phase = "testing"
<1> DEFINE p == [call EXCEPT !.phase = "testing"]
           r == [p EXCEPT !.rule = rule]
<1>1. p \in CallType /\ p.phase = "testing"
    BY FieldTyped DEF Phases
<1> HIDE DEF p
<1>2. r \in CallType /\ r.phase = "testing"
    BY <1>1, FieldTyped
<1> HIDE DEF r
<1>3. [r EXCEPT !.tries = 0] \in CallType /\ [r EXCEPT !.tries = 0].phase = "testing"
    BY <1>2, FieldTyped
<1> QED
    BY <1>3 DEF r, p

LEMMA CleaningTyped ==
    ASSUME NEW call \in CallType, NEW new, new = [call EXCEPT !.phase = "deleting", !.tries = 0]
    PROVE  new \in CallType /\ new.phase = "deleting"
<1> DEFINE p == [call EXCEPT !.phase = "deleting"]
<1>1. p \in CallType /\ p.phase = "deleting"
    BY FieldTyped DEF Phases
<1> HIDE DEF p
<1>2. [p EXCEPT !.tries = 0] \in CallType /\ [p EXCEPT !.tries = 0].phase = "deleting"
    BY <1>1, FieldTyped
<1> QED
    BY <1>2 DEF p

LEMMA ResendTyped ==
    ASSUME NEW call \in CallType
    PROVE  /\ Resend(call) \in CallType
           /\ \/ Resend(call).phase = call.phase /\ Resend(call).name = call.name
                 /\ Resend(call).rule = call.rule
              \/ Resend(call) = Idle
<1>1. CASE call.tries < MaxRetries
  <2>1. Resend(call) = [call EXCEPT !.tries = call.tries + 1]
    BY <1>1 DEF Resend
  <2>2. call.tries + 1 \in 0..MaxRetries
    BY <1>1 DEF CallType, MaxRetries
  <2> QED
    BY <2>1, <2>2 DEF CallType
<1>2. CASE ~(call.tries < MaxRetries)
    BY <1>2, IdleTyped DEF Resend
<1> QED
    BY <1>1, <1>2

--------------------------------------------------------------------------------
(***************************************************************************)
(* The inductive invariant.                                                *)
(***************************************************************************)

TableInv == TableSound(rules, lastId) /\ lastId <= MaxRules

\* The wizard creates rules under names of users, its tests under names of their own.
CallsInv ==
    /\ {create, delete, change} \subseteq CallType /\ tests \in [Tests -> CallType]
    /\ create.phase \in {"idle", "posting"}
    /\ create.phase = "posting" => create.name \in Names
    /\ \A t \in Tests :
          tests[t].phase = "posting" => tests[t].name \in TestNames /\ tests[t].rule = NoRule

\* What a job has read of the old rule stays true while the first version is there.
JobSound(table, last, job) ==
    /\ Busy(job) => /\ job.rule \in 1..last
                    /\ job.rule \in 1..3 => job.family = 1 \/ 1 \notin DOMAIN table
    /\ job.step = "chosen" => /\ job.rule \in 2..3 /\ job.previous \in 1..2
                              /\ job.previous < job.rule

\* Jobs that overlap are about the same version, unless the history says otherwise.
Exclusive ==
    \A v, w \in Workers :
        1 \notin overlapped /\ Busy(jobs[v]) /\ Busy(jobs[w]) /\ jobs[v].family = 1 /\ jobs[w].family = 1
            => jobs[v].rule = jobs[w].rule

\* A test that waits for a worker waits for one, and for its own rule.
Serves(w) ==
    jobs[w].client \in Tests =>
        /\ Busy(jobs[w])
        /\ tests[jobs[w].client].phase = "deleting"
        /\ tests[jobs[w].client].rule = jobs[w].rule

JobsInv ==
    /\ jobs \in [Workers -> JobType] /\ overlapped \subseteq 0..MaxRules
    /\ \A w \in Workers : JobSound(rules, lastId, jobs[w])
    /\ Exclusive
    /\ \A w \in Workers : Serves(w)
    /\ \A v, w \in Workers : jobs[v].client \in Tests /\ jobs[v].client = jobs[w].client => v = w

\* Before the second commit of a deletion there is a latest version besides its row.
LatestInv ==
    1 \notin overlapped =>
        /\ LatestBeside(rules, NoRule)
        /\ \A w \in Workers :
              jobs[w].step = "deleting" /\ jobs[w].rule \in 2..3 => LatestBeside(rules, jobs[w].rule)

CleanInv == orphans \subseteq RuleIds /\ TestRulesAreCleaned

PagesInv ==
    /\ cache \in [Keys -> EntryType]
    /\ path \in Pages /\ editing \in BOOLEAN /\ manager \in BOOLEAN

Counted == faults \in 0..MaxFaults /\ leaves \in 0..MaxLeaves

Inv ==
    /\ TableInv /\ CallsInv /\ JobsInv /\ LatestInv /\ CleanInv
    /\ WizardSound(wizard) /\ PagesInv /\ Counted

LEMMA NamesApart ==
    /\ Names \cap TestNames = {} /\ Blank \notin Names /\ Blank \notin TestNames
    /\ "page" \notin Tests /\ "nobody" \notin Tests /\ NoTest \notin Tests
    BY ConstantsAssumption

--------------------------------------------------------------------------------
\* The table, step by step.
RowMade(name) ==
    /\ rules' = InsertRule(rules, lastId + 1, name) /\ lastId' = lastId + 1
    /\ lastId < MaxRules

RowStep ==
    \/ UNCHANGED <<rules, lastId>>
    \/ \E name \in AnyName : RowMade(name)
    \/ \E w \in Workers : DeletionPromotes(w) \/ DeletionEnds(w)

LEMMA Creation ==
    ASSUME TableInv, Room, NEW name, rules' = create_rule(rules, lastId + 1, name), Grown(rules')
    PROVE  UNCHANGED <<rules, lastId>> \/ RowMade(name)
<1>1. lastId \in Nat /\ DOMAIN rules \subseteq 1..lastId /\ lastId < MaxRules
    BY DEF TableInv, TableSound, Room
<1>2. CASE NameTaken(rules, name)
  <2>1. rules' = rules
    BY <1>2 DEF create_rule
  <2>2. Cardinality(DOMAIN rules' \ DOMAIN rules) = 0
    BY <2>1, FS_EmptySet
  <2> QED
    BY <1>1, <2>1, <2>2 DEF Grown
<1>3. CASE ~NameTaken(rules, name)
  <2>1. rules' = InsertRule(rules, lastId + 1, name)
    BY <1>3 DEF create_rule
  <2>2. DOMAIN rules' \ DOMAIN rules = {lastId + 1}
    BY <1>1, <2>1 DEF InsertRule
  <2>3. Cardinality(DOMAIN rules' \ DOMAIN rules) = 1
    BY <2>2, FS_Singleton
  <2> QED
    BY <1>1, <2>1, <2>3 DEF Grown, RowMade
<1> QED
    BY <1>2, <1>3

LEMMA NothingGrows == ASSUME TableInv, UNCHANGED rules, Grown(rules') PROVE UNCHANGED lastId
<1>1. Cardinality(DOMAIN rules' \ DOMAIN rules) = 0
    BY FS_EmptySet
<1> QED
    BY <1>1 DEF Grown, TableInv, TableSound

\* A creation that is not refused.
LEMMA Served201 ==
    ASSUME TableInv, Room, NEW name, ~NameTaken(rules, name),
           rules' = create_rule(rules, lastId + 1, name), lastId' = lastId + 1
    PROVE  RowMade(name)
    BY DEF create_rule, RowMade, Room

LEMMA RowSteps == ASSUME Inv, [Next]_vars PROVE RowStep
<1>a. TableInv /\ CallsInv
    BY DEF Inv
<1>1. ASSUME NEW key \in Keys, FetchServed(key) \/ FetchArrives(key) \/ FetchFails(key) \/ GoStale(key)
      PROVE  RowStep
    BY <1>1 DEF FetchServed, FetchArrives, FetchFails, GoStale, RowStep, server
<1>2. ASSUME NEW p \in Links, OpenPage(p) PROVE RowStep
    BY <1>2 DEF OpenPage, RowStep, server
<1>3. CASE Reload
  <2>1. Grown(rules')
    BY <1>3 DEF Reload
  <2>2. CASE UNCHANGED rules
    BY <1>a, <2>1, <2>2, NothingGrows DEF RowStep
  <2>3. ASSUME create.phase = "posting", Room, rules' = create_rule(rules, lastId + 1, create.name)
        PROVE  RowStep
    BY <1>a, <2>1, <2>3, Creation DEF RowStep, CallsInv, AnyName
  <2>4. ASSUME NEW t \in Tests, tests[t].phase = "posting", Room,
               rules' = create_rule(rules, lastId + 1, tests[t].name)
        PROVE  RowStep
    BY <1>a, <2>1, <2>4, Creation DEF RowStep, CallsInv, AnyName
  <2> QED
    BY <1>3, <2>2, <2>3, <2>4 DEF Reload
<1>4. CASE OtherCreates
    BY <1>a, <1>4, Creation DEF OtherCreates, RowStep, AnyName
<1>5. CASE ChangeWizard \/ Submit \/ CreateFails \/ Edit \/ Change \/ ChangeFails
    BY <1>5 DEF ChangeWizard, Submit, CreateFails, Edit, Change, ChangeFails, RowStep, server
<1>6. CASE CreateSucceeds
    BY <1>a, <1>6, Served201 DEF CreateSucceeds, RowStep, CallsInv, AnyName
<1>7. CASE CreateLost
    BY <1>a, <1>7, Creation, NothingGrows DEF CreateLost, RowStep, CallsInv, AnyName
<1>8. ASSUME NEW t \in Tests, RunTest(t) \/ TestRefused(t) \/ TestRan(t) PROVE RowStep
    BY <1>8 DEF RunTest, TestRefused, TestRan, RowStep, server
<1>9. ASSUME NEW t \in Tests, TestCreated(t) \/ TestLost(t) PROVE RowStep
    BY <1>a, <1>9, Served201 DEF TestCreated, TestLost, RowStep, CallsInv, AnyName
<1>10. ASSUME NEW id \in RuleIds, Delete(id) PROVE RowStep
    BY <1>10 DEF Delete, RowStep, server
<1>11. ASSUME NEW w \in Workers, DeletionPromotes(w) \/ DeletionEnds(w) PROVE RowStep
    BY <1>11 DEF RowStep
<1>12. ASSUME NEW w \in Workers,
              DeletionStarts(w) \/ DeletionChooses(w) \/ DeletionErrs(w) \/ WorkerKilled(w)
       PROVE  RowStep
    BY <1>12 DEF DeletionStarts, LookAt, DeletionChooses, DeletionErrs, WorkerKilled, RowStep
<1>13. ASSUME NEW c \in Clients, DeletionLost(c) \/ DeletionNotFound(c) \/ DeletionRefused(c)
       PROVE  RowStep
    BY <1>13 DEF DeletionLost, DeletionNotFound, DeletionRefused, RowStep, server
<1>14. CASE UNCHANGED vars
    BY <1>14 DEF vars, server, RowStep
<1> QED
    BY <1>1, <1>2, <1>3, <1>4, <1>5, <1>6, <1>7, <1>8, <1>9, <1>10, <1>11, <1>12, <1>13, <1>14 DEF Next

\* Whatever the step, ids are not given again, and names stay.
TableGoesOn ==
    /\ TableInv'
    /\ lastId' \in Nat /\ lastId' >= lastId
    /\ 1 \in DOMAIN rules' => 1 \in DOMAIN rules
    /\ \A id \in DOMAIN rules \cap DOMAIN rules' : rules'[id].name = rules[id].name

LEMMA StepTable == ASSUME Inv, [Next]_vars PROVE TableGoesOn
<1>a. TableInv /\ TableSound(rules, lastId) /\ lastId \in Nat /\ lastId >= 3 /\ lastId <= MaxRules
    BY DEF Inv, TableInv, TableSound
<1>1. CASE UNCHANGED <<rules, lastId>>
  <2>1. TableSound(rules', lastId')
    BY <1>a, <1>1
  <2> QED
    BY <1>a, <1>1, <2>1 DEF TableGoesOn, TableInv
<1>2. ASSUME NEW name \in AnyName, RowMade(name) PROVE TableGoesOn
  <2>a. TableSound(rules', lastId')
    BY <1>a, <1>2, InsertSound DEF RowMade
  <2>b. /\ DOMAIN rules' = DOMAIN rules \cup {lastId + 1}
        /\ \A x \in DOMAIN rules : rules'[x] = rules[x]
    BY <1>a, <1>2 DEF RowMade, InsertRule, TableSound
  <2>1. TableSound(rules', lastId') /\ \A x \in DOMAIN rules : rules'[x] = rules[x]
    BY <2>a, <2>b
  <2>2. lastId' = lastId + 1 /\ lastId' <= MaxRules
    BY <1>a, <1>2, ConstantsAssumption DEF RowMade
  <2> QED
    BY <1>a, <2>1, <2>2, <2>b DEF TableGoesOn, TableInv
<1>3. ASSUME NEW w \in Workers, DeletionPromotes(w) PROVE TableGoesOn
  <2>1. /\ jobs[w].previous \in DOMAIN rules /\ lastId' = lastId
        /\ rules' = promote_previous_version_to_latest(rules, jobs[w].previous)
    BY <1>3 DEF DeletionPromotes, CanPromote
  <2>2. /\ TableSound(rules', lastId') /\ DOMAIN rules' = DOMAIN rules
        /\ \A x \in DOMAIN rules : rules'[x].name = rules[x].name
    BY <1>a, <2>1, PromotionSound
  <2> QED
    BY <1>a, <2>1, <2>2 DEF TableGoesOn, TableInv
<1>4. ASSUME NEW w \in Workers, DeletionEnds(w) PROVE TableGoesOn
  <2>1. PICK id : rules' = delete_rule(rules, id) /\ lastId' = lastId
    BY <1>4 DEF DeletionEnds
  <2>a. TableSound(rules, lastId)
    BY <1>a
  <2>2. /\ TableSound(rules', lastId') /\ DOMAIN rules' = DOMAIN rules \ {id}
        /\ \A x \in DOMAIN rules' : rules'[x].name = rules[x].name
    <3>1. TableSound(rules', lastId')
      BY ONLY <2>a, <2>1, DeletionSound
    <3>2. DOMAIN rules' = DOMAIN rules \ {id}
      BY ONLY <2>a, <2>1, DeletionSound
    <3>3. ASSUME NEW x \in DOMAIN rules \ {id} PROVE rules'[x].name = rules[x].name
      <4>1. rules[x] \in Row
        BY ONLY <2>a DEF TableSound, RowSound
      <4>2. rules'[x] = IF rules[x].family = id THEN [rules[x] EXCEPT !.family = NoRule] ELSE rules[x]
        BY ONLY <2>1 DEF delete_rule
      <4> QED
        BY ONLY <4>1, <4>2 DEF Row
    <3> QED
      BY <3>1, <3>2, <3>3
  <2> QED
    BY <1>a, <2>1, <2>2 DEF TableGoesOn, TableInv
<1> QED
    BY <1>1, <1>2, <1>3, <1>4, RowSteps DEF RowStep

--------------------------------------------------------------------------------
\* The calls.
LEMMA CallsKept == ASSUME CallsInv, UNCHANGED calls PROVE CallsInv'
    BY DEF CallsInv, calls

LEMMA TestSet ==
    ASSUME CallsInv, UNCHANGED <<create, delete, change>>, NEW t \in Tests, NEW call \in CallType,
           SetTest(t, call),
           call.phase = "posting" => call.name \in TestNames /\ call.rule = NoRule
    PROVE  CallsInv'
    BY DEF CallsInv, SetTest

LEMMA TestIdle ==
    ASSUME CallsInv, UNCHANGED <<create, delete, change>>, NEW t \in Tests, SetTest(t, Idle)
    PROVE  CallsInv'
    BY TestSet, IdleTyped DEF Idle

LEMMA TestResent ==
    ASSUME CallsInv, UNCHANGED <<create, delete, change>>, NEW t \in Tests,
           SetTest(t, Resend(tests[t])) \/ ResendTest(t)
    PROVE  CallsInv'
<1>1. tests[t] \in CallType
    BY DEF CallsInv
<1>2. CASE SetTest(t, Resend(tests[t]))
  <2>1. /\ Resend(tests[t]) \in CallType
        /\ \/ /\ Resend(tests[t]).phase = tests[t].phase /\ Resend(tests[t]).name = tests[t].name
              /\ Resend(tests[t]).rule = tests[t].rule
           \/ Resend(tests[t]) = Idle
    BY <1>1, ResendTyped
  <2> QED
    BY <1>2, <2>1, TestSet DEF Idle, CallsInv
<1>3. CASE ResendTest(t)
  <2>1. SetTest(t, Resend(tests[t]))
    BY <1>3 DEF ResendTest, Resend, TestGivesUp, TestEnds
  <2> QED
    BY <1>2, <2>1
<1> QED
    BY <1>2, <1>3

LEMMA Resent ==
    ASSUME CallsInv, UNCHANGED <<create, change>>, NEW c \in Clients \cup {"nobody"}, Resends(c)
    PROVE  CallsInv'
<1>1. CASE delete' = Resend(delete) /\ UNCHANGED tests
  <2>1. delete' \in CallType
    BY <1>1, ResendTyped DEF CallsInv
  <2> QED
    BY <1>1, <2>1 DEF CallsInv
<1>2. CASE c \in Tests /\ ResendTest(c) /\ UNCHANGED delete
    BY <1>2, TestResent
<1>3. CASE UNCHANGED <<delete, tests>>
    BY <1>3, CallsKept DEF calls
<1> QED
    BY <1>1, <1>2, <1>3 DEF Resends

LEMMA DeletionOver ==
    ASSUME CallsInv, UNCHANGED <<create, tests, change>>, delete' = Idle PROVE CallsInv'
    BY IdleTyped DEF CallsInv

\* The create of a wizard comes from its last step, where the name is given.
LEMMA SubmitNames == ASSUME Inv, Submit PROVE wizard.name \in Names
<1>1. wizard.step = ReviewStep /\ WizardSound(wizard)
    BY DEF Submit, Inv
<1>2. validateStep(wizard, KindStep)
    BY <1>1 DEF WizardSound, Steps, KindStep, ReviewStep
<1>3. wizard.name # Blank
    BY <1>2 DEF validateStep, KindStep, ColumnsStep, ParamsStep
<1> QED
    BY <1>1, <1>3 DEF WizardSound, WizardType

LEMMA ShownTyped == ASSUME PagesInv PROVE KeyOf(path) \subseteq Keys /\ Shown \subseteq RuleIds
<1>1. KeyOf(path) \subseteq Keys
    BY DEF PagesInv, Pages, KeyOf, Keys
<1>2. \A k \in Keys : cache[k].data \subseteq RuleIds
    BY DEF PagesInv, EntryType
<1> QED
    BY <1>1, <1>2 DEF Shown

LEMMA ClientTyped == ASSUME JobsInv, NEW w \in Workers PROVE jobs[w].client \in Clients \cup {"nobody"}
    BY DEF JobsInv, JobType

LEMMA StepCalls == ASSUME Inv, [Next]_vars PROVE CallsInv'
<1>a. TableInv /\ CallsInv /\ JobsInv /\ PagesInv /\ path \in Pages
    BY DEF Inv, PagesInv
<1>b. /\ create \in CallType /\ delete \in CallType /\ change \in CallType /\ tests \in [Tests -> CallType]
      /\ create.phase \in {"idle", "posting"}
      /\ create.phase = "posting" => create.name \in Names
    BY <1>a DEF CallsInv
<1>c. Idle \in CallType /\ Idle.phase = "idle"
    BY IdleTyped DEF Idle
<1>1. ASSUME NEW key \in Keys, FetchServed(key) \/ FetchArrives(key) \/ FetchFails(key) \/ GoStale(key)
      PROVE  CallsInv'
    BY <1>a, <1>1, CallsKept DEF FetchServed, FetchArrives, FetchFails, GoStale
<1>2. ASSUME NEW p \in Links, OpenPage(p) PROVE CallsInv'
    BY <1>a, <1>2, CallsKept DEF OpenPage
<1>3. CASE Reload
  <2>1. tests' = [t \in Tests |-> Idle] /\ create' = Idle /\ delete' = Idle /\ change' = Idle
    BY <1>3 DEF Reload
  <2> QED
    BY <1>c, <2>1 DEF CallsInv
<1>4. CASE OtherCreates \/ ChangeWizard \/ Edit
    BY <1>a, <1>4, CallsKept DEF OtherCreates, ChangeWizard, Edit
<1>5. CASE Submit
  <2>1. wizard.name \in Names
    BY <1>5, SubmitNames
  <2>2. create' = Posted(wizard.name, path)
    BY <1>5, Zenon DEF Submit, Posted
  <2>3. create' \in CallType /\ create'.phase = "posting" /\ create'.name = wizard.name
    BY <1>a, <2>1, <2>2, PostTyped
  <2>4. UNCHANGED <<tests, delete, change>>
    BY <1>5 DEF Submit
  <2> QED
    BY <1>a, <2>1, <2>3, <2>4 DEF CallsInv
<1>6. CASE CreateSucceeds \/ CreateFails
  <2>1. create' = Idle /\ UNCHANGED <<tests, delete, change>>
    BY <1>6 DEF CreateSucceeds, CreateFails
  <2> QED
    BY <1>a, <1>c, <2>1 DEF CallsInv
<1>7. CASE CreateLost
  <2>1. create' = Resend(create) /\ UNCHANGED <<tests, delete, change>>
    BY <1>7 DEF CreateLost
  <2>2. /\ create' \in CallType
        /\ (create'.phase = create.phase /\ create'.name = create.name) \/ create' = Idle
    BY <1>b, <2>1, ResendTyped
  <2> QED
    BY <1>a, <1>c, <2>1, <2>2 DEF CallsInv
<1>8. ASSUME NEW t \in Tests, RunTest(t) PROVE CallsInv'
  <2>1. PICK name \in TestNames : SetTest(t, Posted(name, path))
    BY <1>8, Zenon DEF RunTest, Posted
  <2>2. /\ Posted(name, path) \in CallType /\ Posted(name, path).name = name
        /\ Posted(name, path).rule = NoRule
    BY <1>a, <2>1, PostTyped
  <2> QED
    BY <1>a, <1>8, <2>1, <2>2, TestSet DEF RunTest
<1>9. ASSUME NEW t \in Tests, TestCreated(t) PROVE CallsInv'
  <2>1. lastId + 1 \in 0..MaxRules
    BY <1>a, <1>9, ConstantsAssumption DEF TestCreated, Room, TableInv, TableSound
  <2>2. PICK call : call = [tests[t] EXCEPT !.phase = "testing", !.rule = lastId + 1, !.tries = 0]
    OBVIOUS
  <2>3. call \in CallType /\ call.phase = "testing"
    BY <1>b, <2>1, <2>2, TestingTyped
  <2> QED
    BY <1>a, <1>9, <2>2, <2>3, TestSet DEF TestCreated
<1>10. ASSUME NEW t \in Tests, TestRefused(t) PROVE CallsInv'
    BY <1>a, <1>10, TestIdle DEF TestRefused, TestEnds
<1>11. ASSUME NEW t \in Tests, TestLost(t) PROVE CallsInv'
    BY <1>a, <1>11, TestResent DEF TestLost
<1>12. ASSUME NEW t \in Tests, TestRan(t) PROVE CallsInv'
  <2>1. PICK call : call = [tests[t] EXCEPT !.phase = "deleting", !.tries = 0]
    OBVIOUS
  <2>2. call \in CallType /\ call.phase = "deleting"
    BY <1>b, <2>1, CleaningTyped
  <2>3. SetTest(t, call)
    BY <1>12, <2>1, Zenon DEF TestRan
  <2> QED
    BY <1>a, <1>12, <2>2, <2>3, TestSet DEF TestRan
<1>13. ASSUME NEW id \in RuleIds, Delete(id) PROVE CallsInv'
  <2>1. id \in 0..MaxRules
    BY ConstantsAssumption DEF RuleIds
  <2>2. delete' \in CallType
    BY <1>a, <1>13, <2>1, AboutRuleTyped DEF Delete
  <2> QED
    BY <1>a, <1>13, <2>2 DEF Delete, CallsInv
<1>14. ASSUME NEW w \in Workers, DeletionStarts(w) \/ DeletionChooses(w) \/ DeletionPromotes(w)
       PROVE  CallsInv'
    BY <1>a, <1>14, CallsKept DEF DeletionStarts, LookAt, DeletionChooses, DeletionPromotes
<1>15. ASSUME NEW w \in Workers, DeletionEnds(w) PROVE CallsInv'
  <2>1. UNCHANGED <<create, change>>
    BY <1>15 DEF DeletionEnds
  <2>2. \/ delete' = Idle /\ UNCHANGED tests
        \/ \E c \in Tests : TestEnds(c) /\ UNCHANGED delete
        \/ UNCHANGED <<delete, tests>>
    BY <1>15 DEF DeletionEnds
  <2> QED
    BY <1>a, <2>1, <2>2, DeletionOver, TestIdle, CallsKept DEF TestEnds, calls
<1>16. ASSUME NEW w \in Workers, DeletionErrs(w) \/ WorkerKilled(w) PROVE CallsInv'
    BY <1>a, <1>16, Resent, ClientTyped DEF DeletionErrs, WorkerKilled
<1>17. ASSUME NEW c \in Clients, DeletionLost(c) PROVE CallsInv'
    BY <1>a, <1>17, Resent DEF DeletionLost
<1>18. ASSUME NEW c \in Clients, DeletionNotFound(c) \/ DeletionRefused(c) PROVE CallsInv'
    BY <1>a, <1>18, DeletionOver, TestIdle DEF DeletionNotFound, DeletionRefused, TestGivesUp, TestEnds
<1>19. CASE Change
  <2>1. PICK id \in Shown : change' = [Idle EXCEPT !.phase = "changing", !.rule = id, !.from = path]
    BY <1>19 DEF Change
  <2>2. id \in 0..MaxRules
    BY <1>a, ShownTyped, ConstantsAssumption DEF RuleIds
  <2>3. change' \in CallType
    BY <1>a, <2>1, <2>2, AboutRuleTyped
  <2> QED
    BY <1>a, <1>19, <2>3 DEF Change, CallsInv
<1>20. CASE ChangeFails
    BY <1>a, <1>c, <1>20 DEF ChangeFails, CallsInv
<1>21. CASE UNCHANGED vars
    BY <1>a, <1>21, CallsKept DEF vars
<1> QED
    BY <1>1, <1>2, <1>3, <1>4, <1>5, <1>6, <1>7, <1>8, <1>9, <1>10, <1>11, <1>12, <1>13, <1>14,
       <1>15, <1>16, <1>17, <1>18, <1>19, <1>20, <1>21 DEF Next

--------------------------------------------------------------------------------
\* The jobs.
LEMMA NoJobSound ==
    /\ NoJob \in JobType /\ ~Busy(NoJob) /\ NoJob.client = "nobody" /\ NoJob.step = "idle"
    /\ \A table, last : JobSound(table, last, NoJob)
    BY ConstantsAssumption DEF NoJob, JobType, JobSound, Busy, NoRule

\* The tests that are served stay as they are.
TestsGoOn == \A w \in Workers : jobs[w].client \in Tests => tests'[jobs[w].client] = tests[jobs[w].client]

LEMMA JobSoundStays ==
    ASSUME TableInv, TableGoesOn, NEW job,
           JobSound(rules, lastId, job)
    PROVE  JobSound(rules', lastId', job)
    BY DEF TableGoesOn, JobSound, TableInv, TableSound

LEMMA JobsKept ==
    ASSUME TableInv, TableGoesOn, JobsInv, UNCHANGED <<jobs, overlapped>>, TestsGoOn
    PROVE  JobsInv'
<1>1. \A w \in Workers : JobSound(rules', lastId', jobs'[w])
    BY JobSoundStays DEF JobsInv
<1> QED
    BY <1>1 DEF JobsInv, Exclusive, Serves, TestsGoOn

\* A worker goes on with its job, or drops it.
LEMMA JobGoesOn ==
    ASSUME TableInv, TableGoesOn, JobsInv, UNCHANGED overlapped,
           NEW w \in Workers, NEW job, SetJob(w, job), job \in JobType, JobSound(rules', lastId', job),
           Busy(job) => /\ Busy(jobs[w]) /\ TestsGoOn
                        /\ job.rule = jobs[w].rule /\ job.family = jobs[w].family
                        /\ job.client = jobs[w].client,
           ~Busy(job) => job.client = "nobody",
           \A v \in Workers \ {w} : jobs[v].client \in Tests =>
               tests'[jobs[v].client] = tests[jobs[v].client]
    PROVE  JobsInv'
<1>1. /\ jobs' \in [Workers -> JobType] /\ jobs'[w] = job
      /\ \A v \in Workers \ {w} : jobs'[v] = jobs[v]
    BY DEF SetJob, JobsInv
<1>2. \A v \in Workers : JobSound(rules', lastId', jobs'[v])
    BY <1>1, JobSoundStays DEF JobsInv
<1>3. Exclusive'
    BY <1>1 DEF JobsInv, Exclusive
<1>4. \A v \in Workers : Serves(v)'
  <2>1. ASSUME NEW v \in Workers, v # w PROVE Serves(v)'
    BY <1>1, <2>1 DEF JobsInv, Serves
  <2>2. Serves(w)'
    BY <1>1, NamesApart DEF JobsInv, Serves, TestsGoOn
  <2> QED
    BY <2>1, <2>2
<1>5. \A u, v \in Workers : jobs'[u].client \in Tests /\ jobs'[u].client = jobs'[v].client => u = v
  <2>1. \A v \in Workers : jobs'[v].client = jobs[v].client \/ jobs'[v].client \notin Tests
    BY <1>1, NamesApart
  <2> QED
    BY <2>1 DEF JobsInv
<1> QED
    BY <1>1, <1>2, <1>3, <1>4, <1>5 DEF JobsInv

\* Some jobs lose their client.
LEMMA JobsLeft ==
    ASSUME TableInv, TableGoesOn, JobsInv, UNCHANGED overlapped,
           \E left \in SUBSET Workers :
              /\ jobs' = [w \in Workers |-> IF w \in left THEN [jobs[w] EXCEPT !.client = "nobody"]
                                                          ELSE jobs[w]]
              /\ \A w \in Workers \ left : jobs[w].client \in Tests =>
                     tests'[jobs[w].client] = tests[jobs[w].client]
    PROVE  JobsInv'
<1>1. PICK left \in SUBSET Workers :
           /\ jobs' = [w \in Workers |-> IF w \in left THEN [jobs[w] EXCEPT !.client = "nobody"]
                                                       ELSE jobs[w]]
           /\ \A w \in Workers \ left : jobs[w].client \in Tests =>
                  tests'[jobs[w].client] = tests[jobs[w].client]
    OBVIOUS
<1>2. ASSUME NEW w \in Workers
      PROVE  /\ jobs'[w] \in JobType
             /\ jobs'[w].step = jobs[w].step /\ jobs'[w].rule = jobs[w].rule
             /\ jobs'[w].family = jobs[w].family /\ jobs'[w].previous = jobs[w].previous
             /\ jobs'[w].client = IF w \in left THEN "nobody" ELSE jobs[w].client
  <2>1. jobs[w] \in JobType
    BY DEF JobsInv
  <2> QED
    BY <1>1, <2>1 DEF JobType
<1>3. jobs' \in [Workers -> JobType]
    BY <1>1, <1>2
<1>4. \A w \in Workers : JobSound(rules', lastId', jobs'[w])
  <2> TAKE w \in Workers
  <2>1. JobSound(rules', lastId', jobs[w])
    BY JobSoundStays DEF JobsInv
  <2> QED
    BY <1>2, <2>1 DEF JobSound, Busy
<1>5. Exclusive'
    BY <1>2 DEF JobsInv, Exclusive, Busy
<1>6. \A w \in Workers : Serves(w)'
    BY <1>1, <1>2, NamesApart DEF JobsInv, Serves, Busy
<1>7. \A v, w \in Workers : jobs'[v].client \in Tests /\ jobs'[v].client = jobs'[w].client => v = w
    BY <1>2, NamesApart DEF JobsInv
<1> QED
    BY <1>3, <1>4, <1>5, <1>6, <1>7 DEF JobsInv

\* A worker begins.
LEMMA JobBegins ==
    ASSUME TableInv, TableGoesOn, JobsInv, CallsInv, UNCHANGED <<rules, tests>>,
           NEW w \in Workers, NEW id, NEW client \in Clients \cup {"nobody"}, LookAt(w, id, client),
           client \in Tests => Waiting(client) /\ tests[client].rule = id
    PROVE  JobsInv'
<1> DEFINE job == Looked(rules, id, client)
<1>a. /\ id \in DOMAIN rules /\ id \in 1..lastId /\ lastId <= MaxRules /\ lastId \in Nat
      /\ RowSound(rules, id) /\ MaxRules \in Nat
    BY ConstantsAssumption DEF LookAt, TableInv, TableSound
<1>b. rules[id].family \in 0..MaxRules
    BY <1>a DEF RowSound, NoRule
<1>1. /\ job \in JobType /\ job.step \in {"looked", "deleting"} /\ Busy(job)
      /\ job.rule = id /\ job.family = rules[id].family /\ job.client = client
    BY <1>a, <1>b DEF Looked, JobType, Busy, NoRule
<1>2. JobSound(rules, lastId, job)
    BY <1>a, <1>1 DEF JobSound, RowSound, NoRule
<1> HIDE DEF job
<1>3. /\ jobs' \in [Workers -> JobType] /\ jobs'[w] = job
      /\ \A v \in Workers \ {w} : jobs'[v] = jobs[v]
    BY <1>1 DEF LookAt, SetJob, JobsInv, job
<1>4. \A v \in Workers : JobSound(rules', lastId', jobs'[v])
    BY <1>2, <1>3, JobSoundStays DEF JobsInv
<1>5. overlapped' = overlapped \cup (IF Beside(id) = {} THEN {} ELSE {rules[id].family})
    BY DEF LookAt
<1>6. Exclusive'
  <2> SUFFICES ASSUME 1 \notin overlapped',
                      NEW u \in Workers, NEW v \in Workers, Busy(jobs'[u]), Busy(jobs'[v]),
                      jobs'[u].family = 1, jobs'[v].family = 1
               PROVE  jobs'[u].rule = jobs'[v].rule
    BY DEF Exclusive
  <2>1. 1 \notin overlapped
    BY <1>5
  <2>2. ASSUME NEW x \in Workers \ {w}, Busy(jobs[x]), jobs[x].family = 1, job.family = 1
        PROVE  jobs[x].rule = id
    <3>1. Beside(id) = {}
      BY <1>1, <1>5, <2>2
    <3> QED
      BY <1>1, <2>2, <3>1 DEF Beside
  <2> QED
    BY <1>1, <1>3, <2>1, <2>2 DEF JobsInv, Exclusive
<1>7. client \in Tests => \A v \in Workers : jobs[v].client # client
    BY DEF Waiting, Served, JobsInv, Serves
<1>8. client \in Tests => tests[client].phase = "deleting"
    BY NamesApart DEF Waiting, CallOf
<1>9. \A v \in Workers : Serves(v)'
    BY <1>1, <1>3, <1>8 DEF JobsInv, Serves
<1>10. \A u, v \in Workers : jobs'[u].client \in Tests /\ jobs'[u].client = jobs'[v].client => u = v
    BY <1>1, <1>3, <1>7 DEF JobsInv
<1>11. overlapped' \subseteq 0..MaxRules
    BY <1>b, <1>5 DEF JobsInv
<1> QED
    BY <1>3, <1>4, <1>6, <1>9, <1>10, <1>11 DEF JobsInv

\* What the later reads leave of a job.
LEMMA ChosenSound ==
    ASSUME TableInv, NEW job \in JobType, JobSound(rules, lastId, job), job.step = "looked",
           NEW new, new = Chosen(rules, job)
    PROVE  /\ new \in JobType /\ JobSound(rules, lastId, new) /\ Busy(new)
           /\ new.rule = job.rule /\ new.family = job.family /\ new.client = job.client
           /\ \/ new.step = "chosen"
              \/ /\ new.step = "deleting"
                 /\ LatestBeside(rules, NoRule) /\ job.rule \in 2..3 => LatestBeside(rules, job.rule)
<1> DEFINE older == Older(rules, job.rule)
           newest == Newest(rules, older)
<1>a. TableSound(rules, lastId) /\ MaxRules \in Nat /\ MaxRules >= 3
    BY ConstantsAssumption DEF TableInv
<1>b. /\ job.rule \notin 2..3 => older = {}
      /\ job.rule \in 2..3 /\ older # {} => newest \in Old(rules) /\ newest < job.rule
      /\ job.rule \in 2..3 /\ job.rule \in DOMAIN rules /\ 1 \in DOMAIN rules => older # {}
    BY <1>a, OlderSound
<1> HIDE DEF older, newest
<1>1. CASE older = {} \/ rules[newest].latest
  <2>1. new = [job EXCEPT !.step = "deleting"]
    BY <1>1 DEF Chosen, older, newest
  <2>2. /\ new \in JobType /\ new.step = "deleting" /\ new.rule = job.rule
        /\ new.family = job.family /\ new.client = job.client
    BY <2>1 DEF JobType
  <2>3. Busy(new) /\ JobSound(rules, lastId, new)
    BY <2>2 DEF JobSound, Busy
  <2>4. ASSUME LatestBeside(rules, NoRule), job.rule \in 2..3 PROVE LatestBeside(rules, job.rule)
    <3>1. CASE older = {}
      BY <1>b, <2>4, <3>1 DEF LatestBeside, Old, NoRule
    <3>2. CASE older # {} /\ rules[newest].latest
      BY <1>b, <2>4, <3>2 DEF LatestBeside, Old
    <3> QED
      BY <1>1, <3>1, <3>2
  <2> QED
    BY <2>2, <2>3, <2>4
<1>2. CASE older # {} /\ ~rules[newest].latest
  <2>1. new = [job EXCEPT !.step = "chosen", !.previous = newest]
    BY <1>2 DEF Chosen, older, newest
  <2>2. job.rule \in 2..3 /\ newest \in 1..2 /\ newest < job.rule
    BY <1>b, <1>2 DEF Old
  <2>3. newest \in 0..MaxRules
    BY <1>a, <2>2
  <2>4. /\ new \in JobType /\ new.step = "chosen" /\ new.previous = newest /\ new.rule = job.rule
        /\ new.family = job.family /\ new.client = job.client
    BY <2>1, <2>3 DEF JobType
  <2> QED
    BY <2>2, <2>4 DEF JobSound, Busy
<1> QED
    BY <1>1, <1>2

\* A test that no worker serves may change; the others go on.
LEMMA OthersGoOn ==
    ASSUME CallsInv, JobsInv, NEW t \in Tests, NEW call, SetTest(t, call),
           \A w \in Workers : jobs[w].client # t
    PROVE  TestsGoOn
    BY DEF CallsInv, SetTest, TestsGoOn

LEMMA NotServed ==
    ASSUME JobsInv, NEW t \in Tests, tests[t].phase # "deleting" \/ Waiting(t)
    PROVE  \A w \in Workers : jobs[w].client # t
    BY NamesApart DEF JobsInv, Serves, Waiting, Served

\* What becomes of the client's call of a job that w drops.
LEMMA ClientOnly ==
    ASSUME CallsInv, JobsInv, NEW w \in Workers,
           \/ UNCHANGED tests
           \/ \E c \in Tests : c = jobs[w].client /\ \E call : SetTest(c, call)
    PROVE  \A v \in Workers \ {w} : jobs[v].client \in Tests =>
               tests'[jobs[v].client] = tests[jobs[v].client]
    BY DEF CallsInv, JobsInv, SetTest

LEMMA JobDropped ==
    ASSUME TableInv, TableGoesOn, CallsInv, JobsInv, UNCHANGED overlapped,
           NEW w \in Workers, SetJob(w, NoJob),
           \/ UNCHANGED tests
           \/ \E c \in Tests : c = jobs[w].client /\ \E call : SetTest(c, call)
    PROVE  JobsInv'
<1>1. \A v \in Workers \ {w} : jobs[v].client \in Tests =>
          tests'[jobs[v].client] = tests[jobs[v].client]
    BY ClientOnly
<1> QED
    BY <1>1, NoJobSound, JobGoesOn

LEMMA ResendsSets ==
    ASSUME NEW c, Resends(c) PROVE UNCHANGED tests \/ (c \in Tests /\ \E call : SetTest(c, call))
    BY DEF Resends, ResendTest, TestGivesUp, TestEnds

LEMMA StepJobs == ASSUME Inv, [Next]_vars PROVE JobsInv'
<1>a. TableInv /\ CallsInv /\ JobsInv /\ TableGoesOn
    BY StepTable DEF Inv
<1>b. UNCHANGED tests => TestsGoOn
    BY DEF TestsGoOn
<1>1. ASSUME NEW key \in Keys, FetchServed(key) \/ FetchArrives(key) \/ FetchFails(key) \/ GoStale(key)
      PROVE  JobsInv'
    BY <1>a, <1>b, <1>1, JobsKept DEF FetchServed, FetchArrives, FetchFails, GoStale, server, calls
<1>2. ASSUME NEW p \in Links, OpenPage(p) PROVE JobsInv'
    BY <1>a, <1>b, <1>2, JobsKept DEF OpenPage, server, calls
<1>3. CASE Reload
  <2>1. /\ jobs' = [w \in Workers |-> IF w \in Workers THEN [jobs[w] EXCEPT !.client = "nobody"]
                                                       ELSE jobs[w]]
        /\ UNCHANGED overlapped
    BY <1>3 DEF Reload
  <2> QED
    BY <1>a, <2>1, JobsLeft
<1>4. CASE OtherCreates \/ ChangeWizard \/ Submit \/ CreateSucceeds \/ CreateFails \/ CreateLost
    BY <1>a, <1>b, <1>4, JobsKept
       DEF OtherCreates, ChangeWizard, Submit, CreateSucceeds, CreateFails, CreateLost, server, calls
<1>5. ASSUME NEW t \in Tests,
             RunTest(t) \/ TestCreated(t) \/ TestRefused(t) \/ TestLost(t) \/ TestRan(t)
      PROVE  JobsInv'
  <2>1. UNCHANGED <<jobs, overlapped>> /\ \E call : SetTest(t, call)
    BY <1>5 DEF RunTest, TestCreated, TestRefused, TestLost, TestRan, TestEnds, ResendTest,
                TestGivesUp, server
  <2>2. tests[t].phase # "deleting"
    BY <1>5 DEF RunTest, TestCreated, TestRefused, TestLost, TestRan, Active
  <2> QED
    BY <1>a, <2>1, <2>2, NotServed, OthersGoOn, JobsKept
<1>6. ASSUME NEW id \in RuleIds, Delete(id) PROVE JobsInv'
    BY <1>a, <1>b, <1>6, JobsKept DEF Delete, server
<1>7. ASSUME NEW w \in Workers, DeletionStarts(w) PROVE JobsInv'
  <2>1. UNCHANGED <<rules, tests>>
    BY <1>7 DEF DeletionStarts, LookAt, calls
  <2>2. ASSUME NEW c \in Clients, Waiting(c), LookAt(w, CallOf(c).rule, c) PROVE JobsInv'
    <3>1. c \in Tests => tests[c].rule = CallOf(c).rule
      BY NamesApart DEF CallOf
    <3> QED
      BY <1>a, <2>1, <2>2, <3>1, JobBegins
  <2>3. ASSUME NEW id \in DOMAIN rules, LookAt(w, id, "nobody") PROVE JobsInv'
    BY <1>a, <2>1, <2>3, NamesApart, JobBegins
  <2> QED
    BY <1>7, <2>2, <2>3 DEF DeletionStarts
<1>8. ASSUME NEW w \in Workers, DeletionChooses(w) PROVE JobsInv'
  <2>1. PICK new : new = Chosen(rules, jobs[w])
    OBVIOUS
  <2>2. jobs[w].step = "looked" /\ SetJob(w, new) /\ UNCHANGED <<overlapped, tests>>
    BY <1>8, <2>1 DEF DeletionChooses, calls
  <2>3. /\ new \in JobType /\ JobSound(rules, lastId, new) /\ Busy(new)
        /\ new.rule = jobs[w].rule /\ new.family = jobs[w].family /\ new.client = jobs[w].client
    BY <1>a, <2>1, <2>2, ChosenSound DEF JobsInv
  <2>4. JobSound(rules', lastId', new) /\ Busy(jobs[w])
    BY <1>a, <2>2, <2>3, JobSoundStays DEF Busy
  <2> QED
    BY <1>a, <1>b, <2>2, <2>3, <2>4, JobGoesOn
<1>9. ASSUME NEW w \in Workers, DeletionPromotes(w) PROVE JobsInv'
  <2>1. PICK new : new = [jobs[w] EXCEPT !.step = "deleting"]
    OBVIOUS
  <2>2. jobs[w].step = "chosen" /\ SetJob(w, new) /\ UNCHANGED <<overlapped, tests>>
    BY <1>9, <2>1, Zenon DEF DeletionPromotes, calls
  <2>3. jobs[w] \in JobType /\ JobSound(rules, lastId, jobs[w]) /\ Busy(jobs[w])
    BY <1>a, <2>2 DEF JobsInv, Busy
  <2>4. /\ new \in JobType /\ Busy(new) /\ new.step = "deleting"
        /\ new.rule = jobs[w].rule /\ new.family = jobs[w].family /\ new.client = jobs[w].client
    BY <2>1, <2>3 DEF JobType, Busy
  <2>5. JobSound(rules, lastId, new)
    BY <2>3, <2>4 DEF JobSound
  <2>6. JobSound(rules', lastId', new)
    BY <1>a, <2>5, JobSoundStays
  <2> QED
    BY <1>a, <1>b, <2>2, <2>3, <2>4, <2>6, JobGoesOn
<1>10. ASSUME NEW w \in Workers, DeletionEnds(w) PROVE JobsInv'
  <2>1. SetJob(w, NoJob) /\ UNCHANGED overlapped
    BY <1>10 DEF DeletionEnds
  <2>2. \/ UNCHANGED tests
        \/ jobs[w].client \in Tests /\ \E call : SetTest(jobs[w].client, call)
    BY <1>10 DEF DeletionEnds, TestEnds
  <2> QED
    BY <1>a, <2>1, <2>2, JobDropped
<1>11. ASSUME NEW w \in Workers, DeletionErrs(w) \/ WorkerKilled(w) PROVE JobsInv'
  <2>1. SetJob(w, NoJob) /\ UNCHANGED overlapped /\ Resends(jobs[w].client)
    BY <1>11 DEF DeletionErrs, WorkerKilled
  <2> QED
    BY <1>a, <2>1, ResendsSets, JobDropped
<1>12. ASSUME NEW c \in Clients, DeletionLost(c) PROVE JobsInv'
  <2>1. /\ jobs' = [w \in Workers |-> IF jobs[w].client = c THEN [jobs[w] EXCEPT !.client = "nobody"]
                                                            ELSE jobs[w]]
        /\ UNCHANGED overlapped /\ Resends(c)
    BY <1>12 DEF DeletionLost
  <2> DEFINE left == {w \in Workers : jobs[w].client = c}
  <2>2. jobs' = [w \in Workers |-> IF w \in left THEN [jobs[w] EXCEPT !.client = "nobody"]
                                                 ELSE jobs[w]]
    BY <2>1
  <2>3. UNCHANGED tests \/ (c \in Tests /\ \E call : SetTest(c, call))
    BY <2>1, ResendsSets
  <2>4. \A w \in Workers \ left : jobs[w].client \in Tests =>
            tests'[jobs[w].client] = tests[jobs[w].client]
    BY <1>a, <2>3 DEF SetTest, CallsInv
  <2>5. left \in SUBSET Workers
    OBVIOUS
  <2> QED
    BY <1>a, <2>1, <2>2, <2>4, <2>5, JobsLeft
<1>13. ASSUME NEW c \in Clients, DeletionNotFound(c) \/ DeletionRefused(c) PROVE JobsInv'
  <2>1. UNCHANGED <<jobs, overlapped>> /\ Waiting(c)
    BY <1>13 DEF DeletionNotFound, DeletionRefused, server
  <2>2. UNCHANGED tests \/ (c \in Tests /\ \E call : SetTest(c, call))
    BY <1>13 DEF DeletionNotFound, DeletionRefused, TestGivesUp, TestEnds
  <2> QED
    BY <1>a, <1>b, <2>1, <2>2, NotServed, OthersGoOn, JobsKept
<1>14. CASE Edit \/ Change \/ ChangeFails
    BY <1>a, <1>b, <1>14, JobsKept DEF Edit, Change, ChangeFails, server, calls
<1>15. CASE UNCHANGED vars
    BY <1>a, <1>b, <1>15, JobsKept DEF vars, server, calls
<1> QED
    BY <1>1, <1>2, <1>3, <1>4, <1>5, <1>6, <1>7, <1>8, <1>9, <1>10, <1>11, <1>12, <1>13, <1>14,
       <1>15 DEF Next

--------------------------------------------------------------------------------
\* The latest versions.
LEMMA LatestKept ==
    ASSUME LatestInv, overlapped \subseteq overlapped',
           1 \in DOMAIN rules' => 1 \in DOMAIN rules,
           \A x \in Old(rules) : x \in Old(rules') /\ (rules[x].latest => rules'[x].latest),
           \A w \in Workers : jobs'[w].step = "deleting" =>
               jobs[w].step = "deleting" /\ jobs'[w].rule = jobs[w].rule
    PROVE  LatestInv'
<1>1. \A id : LatestBeside(rules, id) => LatestBeside(rules', id)
    BY DEF LatestBeside
<1>2. \A w \in Workers : jobs'[w].step = "deleting" => jobs'[w].rule = jobs[w].rule
    OBVIOUS
<1> QED
    BY <1>1, <1>2 DEF LatestInv

JobsOnlyEnd ==
    /\ UNCHANGED overlapped
    /\ \A w \in Workers : jobs'[w].step = "deleting" =>
           jobs[w].step = "deleting" /\ jobs'[w].rule = jobs[w].rule

JobProgress(w) == DeletionStarts(w) \/ DeletionChooses(w) \/ DeletionPromotes(w) \/ DeletionEnds(w)

LEMMA OneJobEnds ==
    ASSUME JobsInv, UNCHANGED overlapped, NEW w \in Workers, SetJob(w, NoJob) PROVE JobsOnlyEnd
    BY NoJobSound DEF JobsInv, SetJob, JobsOnlyEnd

LEMMA ClientsLeave ==
    ASSUME JobsInv, UNCHANGED overlapped, NEW left,
           jobs' = [w \in Workers |-> IF w \in left THEN [jobs[w] EXCEPT !.client = "nobody"]
                                                    ELSE jobs[w]]
    PROVE  JobsOnlyEnd
<1>1. \A w \in Workers : jobs[w] \in JobType
    BY DEF JobsInv
<1> QED
    BY <1>1 DEF JobsOnlyEnd, JobType

LEMMA JobSteps ==
    ASSUME Inv, [Next]_vars PROVE JobsOnlyEnd \/ \E w \in Workers : JobProgress(w)
<1>a. JobsInv
    BY DEF Inv
<1>b. UNCHANGED <<jobs, overlapped>> => JobsOnlyEnd
    BY DEF JobsOnlyEnd
<1>1. ASSUME NEW key \in Keys, FetchServed(key) \/ FetchArrives(key) \/ FetchFails(key) \/ GoStale(key)
      PROVE  JobsOnlyEnd
    BY <1>b, <1>1 DEF FetchServed, FetchArrives, FetchFails, GoStale, server
<1>2. ASSUME NEW p \in Links, OpenPage(p) PROVE JobsOnlyEnd
    BY <1>b, <1>2 DEF OpenPage, server
<1>3. CASE Reload
  <2>1. /\ jobs' = [w \in Workers |-> IF w \in Workers THEN [jobs[w] EXCEPT !.client = "nobody"]
                                                       ELSE jobs[w]]
        /\ UNCHANGED overlapped
    BY <1>3 DEF Reload
  <2> QED
    BY <1>a, <2>1, ClientsLeave
<1>4. CASE OtherCreates \/ ChangeWizard \/ Submit \/ CreateSucceeds \/ CreateFails \/ CreateLost
    BY <1>b, <1>4
       DEF OtherCreates, ChangeWizard, Submit, CreateSucceeds, CreateFails, CreateLost, server
<1>5. ASSUME NEW t \in Tests,
             RunTest(t) \/ TestCreated(t) \/ TestRefused(t) \/ TestLost(t) \/ TestRan(t)
      PROVE  JobsOnlyEnd
    BY <1>b, <1>5 DEF RunTest, TestCreated, TestRefused, TestLost, TestRan, server
<1>6. ASSUME NEW id \in RuleIds, Delete(id) PROVE JobsOnlyEnd
    BY <1>b, <1>6 DEF Delete, server
<1>7. ASSUME NEW w \in Workers, DeletionErrs(w) \/ WorkerKilled(w) PROVE JobsOnlyEnd
    BY <1>a, <1>7, OneJobEnds DEF DeletionErrs, WorkerKilled
<1>8. ASSUME NEW c \in Clients, DeletionLost(c) PROVE JobsOnlyEnd
  <2> DEFINE left == {w \in Workers : jobs[w].client = c}
  <2>1. /\ jobs' = [w \in Workers |-> IF w \in left THEN [jobs[w] EXCEPT !.client = "nobody"]
                                                    ELSE jobs[w]]
        /\ UNCHANGED overlapped
    BY <1>8 DEF DeletionLost
  <2> QED
    BY <1>a, <2>1, ClientsLeave
<1>9. ASSUME NEW c \in Clients, DeletionNotFound(c) \/ DeletionRefused(c) PROVE JobsOnlyEnd
    BY <1>b, <1>9 DEF DeletionNotFound, DeletionRefused, server
<1>10. CASE Edit \/ Change \/ ChangeFails
    BY <1>b, <1>10 DEF Edit, Change, ChangeFails, server
<1>11. CASE UNCHANGED vars
    BY <1>b, <1>11 DEF vars, server
<1> QED
    BY <1>1, <1>2, <1>3, <1>4, <1>5, <1>6, <1>7, <1>8, <1>9, <1>10, <1>11 DEF Next, JobProgress

\* One worker goes on: what it is about to delete has a latest version beside it.
LEMMA LatestOfOne ==
    ASSUME LatestInv, JobsInv, NEW w \in Workers, NEW job, SetJob(w, job), UNCHANGED rules,
           overlapped \subseteq overlapped',
           1 \notin overlapped' /\ LatestBeside(rules, NoRule)
               /\ job.step = "deleting" /\ job.rule \in 2..3 => LatestBeside(rules, job.rule)
    PROVE  LatestInv'
<1>1. jobs'[w] = job /\ \A v \in Workers \ {w} : jobs'[v] = jobs[v]
    BY DEF SetJob, JobsInv
<1> QED
    BY <1>1 DEF LatestInv

LEMMA StepLatest == ASSUME Inv, [Next]_vars PROVE LatestInv'
<1>a. TableInv /\ JobsInv /\ LatestInv /\ TableSound(rules, lastId) /\ lastId \in Nat
    BY DEF Inv, TableInv, TableSound
<1>1. CASE JobsOnlyEnd /\ UNCHANGED <<rules, lastId>>
    BY <1>a, <1>1, LatestKept DEF JobsOnlyEnd
<1>2. ASSUME JobsOnlyEnd, NEW name \in AnyName, RowMade(name) PROVE LatestInv'
  <2>1. /\ DOMAIN rules' = DOMAIN rules \cup {lastId + 1}
        /\ \A x \in DOMAIN rules : rules'[x] = rules[x]
    BY <1>a, <1>2 DEF RowMade, InsertRule, TableSound
  <2>2. 1 \in DOMAIN rules' => 1 \in DOMAIN rules
    BY <1>a, <2>1 DEF TableSound
  <2>3. \A x \in Old(rules) : x \in Old(rules') /\ (rules[x].latest => rules'[x].latest)
    BY <2>1 DEF Old
  <2> QED
    BY <1>a, <1>2, <2>2, <2>3, LatestKept DEF JobsOnlyEnd
<1>3. ASSUME NEW w \in Workers, DeletionStarts(w) PROVE LatestInv'
  <2>1. PICK id, client : LookAt(w, id, client)
    BY <1>3 DEF DeletionStarts
  <2> DEFINE job == Looked(rules, id, client)
  <2>2. /\ SetJob(w, job) /\ UNCHANGED rules /\ overlapped \subseteq overlapped'
        /\ job.step = "deleting" => ~rules[id].latest
        /\ job.rule = id
    BY <2>1 DEF LookAt, Looked
  <2> HIDE DEF job
  <2>3. ASSUME LatestBeside(rules, NoRule), job.step = "deleting" PROVE LatestBeside(rules, job.rule)
    BY <2>2, <2>3 DEF LatestBeside
  <2> QED
    BY <1>a, <2>2, <2>3, LatestOfOne
<1>4. ASSUME NEW w \in Workers, DeletionChooses(w) PROVE LatestInv'
  <2>1. PICK new : new = Chosen(rules, jobs[w])
    OBVIOUS
  <2>2. jobs[w].step = "looked" /\ SetJob(w, new) /\ UNCHANGED <<rules, overlapped>>
    BY <1>4, <2>1 DEF DeletionChooses
  <2>3. /\ new.rule = jobs[w].rule
        /\ \/ new.step = "chosen"
           \/ LatestBeside(rules, NoRule) /\ jobs[w].rule \in 2..3 => LatestBeside(rules, jobs[w].rule)
    BY <1>a, <2>1, <2>2, ChosenSound DEF JobsInv
  <2> QED
    BY <1>a, <2>2, <2>3, LatestOfOne
<1>5. ASSUME NEW w \in Workers, DeletionPromotes(w) PROVE LatestInv'
  <2>1. PICK previous : previous = jobs[w].previous
    OBVIOUS
  <2>2. /\ jobs[w].step = "chosen" /\ previous \in DOMAIN rules /\ UNCHANGED overlapped
        /\ rules' = promote_previous_version_to_latest(rules, previous)
        /\ SetJob(w, [jobs[w] EXCEPT !.step = "deleting"])
    BY <1>5, <2>1, Zenon DEF DeletionPromotes, CanPromote
  <2>3. DOMAIN rules' = DOMAIN rules /\ rules'[previous].latest
    BY <1>a, <2>2, PromotionSound
  <2>4. \A x \in DOMAIN rules : rules[x].latest => rules'[x].latest
    BY <1>a, <2>2, PromotionSound
  <2>5. \A id : LatestBeside(rules, id) => LatestBeside(rules', id)
    BY <2>3, <2>4 DEF LatestBeside, Old
  <2>6. jobs[w].rule \in 2..3 /\ previous \in 1..2 /\ previous < jobs[w].rule
    BY <1>a, <2>1, <2>2 DEF JobsInv, JobSound
  <2>7. LatestBeside(rules', jobs[w].rule)
    BY <2>2, <2>3, <2>6 DEF LatestBeside, Old
  <2>8. /\ \A v \in Workers \ {w} : jobs'[v] = jobs[v]
        /\ jobs'[w].rule = jobs[w].rule
    <3>1. jobs[w] \in JobType
      BY <1>a DEF JobsInv
    <3> QED
      BY <1>a, <2>2, <3>1 DEF SetJob, JobsInv, JobType
  <2> QED
    BY <1>a, <2>2, <2>5, <2>7, <2>8 DEF LatestInv
<1>6. ASSUME NEW w \in Workers, DeletionEnds(w) PROVE LatestInv'
  <2>1. PICK id : id = jobs[w].rule
    OBVIOUS
  <2>2. /\ jobs[w].step = "deleting" /\ rules' = delete_rule(rules, id)
        /\ UNCHANGED overlapped /\ SetJob(w, NoJob)
    BY <1>6, <2>1 DEF DeletionEnds
  <2>3. DOMAIN rules' = DOMAIN rules \ {id}
    BY ONLY <1>a, <2>2, DeletionSound
  <2>4. ASSUME NEW x \in DOMAIN rules \ {id} PROVE rules'[x].latest = rules[x].latest
    <3>1. rules[x] \in Row
      BY ONLY <1>a DEF TableSound, RowSound
    <3>2. rules'[x] = IF rules[x].family = id THEN [rules[x] EXCEPT !.family = NoRule] ELSE rules[x]
      BY ONLY <2>2 DEF delete_rule
    <3> QED
      BY ONLY <3>1, <3>2 DEF Row
  <2>5. jobs'[w] = NoJob /\ \A v \in Workers \ {w} : jobs'[v] = jobs[v]
    BY <1>a, <2>2 DEF SetJob, JobsInv
  <2>6. JobSound(rules, lastId, jobs[w]) /\ Busy(jobs[w])
    BY <1>a, <2>2 DEF JobsInv, Busy
  <2>7. ASSUME 1 \notin overlapped, 1 \in DOMAIN rules'
        PROVE  /\ LatestBeside(rules', NoRule)
               /\ \A v \in Workers : jobs'[v].step = "deleting" /\ jobs'[v].rule \in 2..3
                                        => LatestBeside(rules', jobs'[v].rule)
    <3>1. id # 1 /\ 1 \in DOMAIN rules
      BY <2>3, <2>7
    <3>2. CASE id \in 2..3
      <4>1. jobs[w].family = 1
        BY <2>1, <2>6, <3>1, <3>2 DEF JobSound
      <4>2. LatestBeside(rules, id)
        BY <1>a, <2>1, <2>2, <2>7, <3>2 DEF LatestInv
      <4>3. PICK y \in Old(rules) \ {id} : rules[y].latest
        BY <3>1, <4>2 DEF LatestBeside
      <4>4. y \in Old(rules') /\ rules'[y].latest /\ y # id /\ y # NoRule
        BY <2>3, <2>4, <4>3 DEF Old, NoRule
      <4>5. ASSUME NEW v \in Workers, jobs'[v].step = "deleting", jobs'[v].rule \in 2..3
            PROVE  jobs'[v].rule = id
        <5>1. v # w /\ jobs'[v] = jobs[v]
          BY <2>5, <4>5, NoJobSound
        <5>2. JobSound(rules, lastId, jobs[v]) /\ Busy(jobs[v])
          BY <1>a, <4>5, <5>1 DEF JobsInv, Busy
        <5>3. jobs[v].family = 1
          BY <3>1, <4>5, <5>1, <5>2 DEF JobSound
        <5> QED
          BY <1>a, <2>1, <2>6, <2>7, <4>1, <5>1, <5>2, <5>3 DEF JobsInv, Exclusive
      <4> QED
        BY <4>4, <4>5 DEF LatestBeside
    <3>3. CASE id \notin 2..3
      <4>1. Old(rules') = Old(rules)
        BY <2>3, <3>1, <3>3 DEF Old
      <4>2. \A x \in Old(rules) : rules'[x].latest = rules[x].latest
        BY <2>4, <3>1, <3>3 DEF Old
      <4>3. \A x : LatestBeside(rules, x) => LatestBeside(rules', x)
        BY <3>1, <4>1, <4>2 DEF LatestBeside
      <4>4. \A v \in Workers : jobs'[v].step = "deleting" => jobs'[v] = jobs[v]
        BY <2>5, NoJobSound
      <4> QED
        BY <1>a, <2>7, <4>3, <4>4 DEF LatestInv
    <3> QED
      BY <3>2, <3>3
  <2> QED
    BY <2>2, <2>7 DEF LatestInv, LatestBeside
<1>7. CASE JobsOnlyEnd /\ \E w \in Workers : DeletionPromotes(w) \/ DeletionEnds(w)
    BY <1>5, <1>6, <1>7
<1> QED
    BY <1>1, <1>2, <1>3, <1>4, <1>5, <1>6, <1>7, JobSteps, RowSteps DEF RowStep, JobProgress

--------------------------------------------------------------------------------
\* The temporary rules.
LEMMA RuleIdsTyped == RuleIds \subseteq 0..MaxRules /\ NoRule \notin RuleIds
    BY ConstantsAssumption DEF RuleIds, NoRule

\* No row gains a name of a test, and no test that was active is over.
LEMMA CleanKept ==
    ASSUME TableInv, CleanInv, TableGoesOn, orphans' \subseteq RuleIds, orphans \subseteq orphans',
           \A id \in DOMAIN rules' \ DOMAIN rules : rules'[id].name \in TestNames => id \in orphans',
           \A t \in Tests : /\ Active(tests[t]) /\ tests[t].rule \in DOMAIN rules' \ orphans'
                            => Active(tests'[t]) /\ tests'[t].rule = tests[t].rule
    PROVE  CleanInv'
<1> SUFFICES ASSUME NEW id \in DOMAIN rules', rules'[id].name \in TestNames, id \notin orphans'
             PROVE  \E t \in Tests : Active(tests'[t]) /\ tests'[t].rule = id
    BY DEF CleanInv, TestRulesAreCleaned, Active
<1>1. id \in DOMAIN rules /\ rules[id].name \in TestNames /\ id \notin orphans
    BY DEF TableGoesOn
<1>2. PICK t \in Tests : Active(tests[t]) /\ tests[t].rule = id
    BY <1>1 DEF CleanInv, TestRulesAreCleaned
<1> QED
    BY <1>2

\* The rows that are new.
LEMMA NewRows ==
    ASSUME TableInv, NEW name, RowMade(name)
    PROVE  /\ DOMAIN rules' \ DOMAIN rules = {lastId + 1} /\ rules'[lastId + 1].name = name
           /\ lastId + 1 \in RuleIds
<1>1. lastId \in Nat /\ lastId < MaxRules /\ MaxRules \in Nat /\ DOMAIN rules \subseteq 1..lastId
    BY ConstantsAssumption DEF TableInv, TableSound, RowMade
<1> QED
    BY <1>1 DEF RowMade, InsertRule, NewRule, RuleIds

\* Any step that leaves the tests and the orphans alone.
LEMMA CleanOfOthers ==
    ASSUME TableInv, CleanInv, TableGoesOn, UNCHANGED <<tests, orphans>>,
           \A id \in DOMAIN rules' \ DOMAIN rules : rules'[id].name \notin TestNames
    PROVE  CleanInv'
    BY CleanKept DEF CleanInv

\* One test changes.
LEMMA CleanOfTest ==
    ASSUME TableInv, CallsInv, CleanInv, TableGoesOn,
           orphans' \subseteq RuleIds, orphans \subseteq orphans',
           DOMAIN rules' \subseteq DOMAIN rules,
           NEW t \in Tests, NEW call, SetTest(t, call),
           Active(tests[t]) /\ tests[t].rule \in DOMAIN rules' \ orphans' =>
               Active(call) /\ call.rule = tests[t].rule
    PROVE  CleanInv'
<1>1. tests'[t] = call /\ \A u \in Tests \ {t} : tests'[u] = tests[u]
    BY DEF SetTest, CallsInv
<1> QED
    BY <1>1, CleanKept

LEMMA OrphansTyped ==
    ASSUME CallsInv, NEW t \in Tests PROVE {tests[t].rule} \ {NoRule} \subseteq RuleIds
<1>1. tests[t] \in CallType
    BY DEF CallsInv
<1> QED
    BY <1>1, ConstantsAssumption DEF CallType, NoRule, RuleIds

LEMMA CleanOfResent ==
    ASSUME TableInv, CallsInv, CleanInv, TableGoesOn, DOMAIN rules' \subseteq DOMAIN rules,
           NEW t \in Tests, ResendTest(t)
    PROVE  CleanInv'
<1>0. tests[t] \in CallType
    BY DEF CallsInv
<1>1. CASE SetTest(t, [tests[t] EXCEPT !.tries = @ + 1]) /\ UNCHANGED orphans
  <2> DEFINE call == [tests[t] EXCEPT !.tries = @ + 1]
  <2>1. call.phase = tests[t].phase /\ call.rule = tests[t].rule
    BY <1>0 DEF CallType
  <2> HIDE DEF call
  <2>2. SetTest(t, call) /\ UNCHANGED orphans /\ (Active(tests[t]) => Active(call))
    BY <1>1, <2>1 DEF call, Active
  <2> QED
    BY <2>1, <2>2, CleanOfTest DEF CleanInv
<1>2. CASE TestGivesUp(t)
  <2>1. SetTest(t, Idle) /\ orphans' = orphans \cup ({tests[t].rule} \ {NoRule})
    BY <1>2 DEF TestGivesUp, TestEnds
  <2>2. tests[t].rule \in DOMAIN rules' => tests[t].rule \in orphans'
    BY <2>1 DEF TableInv, TableSound, NoRule
  <2>3. orphans' \subseteq RuleIds
    BY <2>1, OrphansTyped DEF CleanInv
  <2> QED
    BY <2>1, <2>2, <2>3, CleanOfTest
<1> QED
    BY <1>1, <1>2 DEF ResendTest

LEMMA CleanOfResends ==
    ASSUME TableInv, CallsInv, CleanInv, TableGoesOn, UNCHANGED rules, NEW c, Resends(c)
    PROVE  CleanInv'
    BY CleanOfResent, CleanOfOthers DEF Resends

LEMMA CleanOfCreation ==
    ASSUME TableInv, CleanInv, TableGoesOn, UNCHANGED <<tests, orphans>>, NEW name \in Names,
           UNCHANGED rules \/ RowMade(name)
    PROVE  CleanInv'
    BY NewRows, NamesApart, CleanOfOthers

LEMMA CleanOfReload == ASSUME Inv, TableGoesOn, Reload PROVE CleanInv'
<1>a. TableInv /\ CallsInv /\ CleanInv
    BY DEF Inv
<1>b. Tested \subseteq RuleIds
    BY <1>a, OrphansTyped DEF Tested
<1>c. \A t \in Tests : tests[t].rule \in DOMAIN rules => tests[t].rule \in Tested
    BY <1>a DEF Tested, TableInv, TableSound, NoRule
<1>1. CASE UNCHANGED rules /\ orphans' = orphans \cup Tested
    BY <1>a, <1>b, <1>c, <1>1, CleanKept DEF CleanInv
<1>2. ASSUME create.phase = "posting", Room, rules' = create_rule(rules, lastId + 1, create.name),
             orphans' = orphans \cup Tested
      PROVE  CleanInv'
  <2>1. create.name \in Names
    BY <1>a, <1>2 DEF CallsInv
  <2>2. UNCHANGED rules \/ RowMade(create.name)
    BY <1>a, <1>2, Creation DEF Reload
  <2>3. \A id \in DOMAIN rules' \ DOMAIN rules : rules'[id].name \notin TestNames
    BY <1>a, <2>1, <2>2, NewRows, NamesApart
  <2>4. \A t \in Tests : tests[t].rule \in DOMAIN rules' => tests[t].rule \in Tested
    BY <1>a DEF Tested, TableGoesOn, TableInv, TableSound, NoRule
  <2> QED
    BY <1>a, <1>b, <1>2, <2>3, <2>4, CleanKept DEF CleanInv
<1>3. ASSUME Room, NEW t \in Tests, tests[t].phase = "posting",
             rules' = create_rule(rules, lastId + 1, tests[t].name),
             orphans' = orphans \cup Tested \cup {lastId + 1}
      PROVE  CleanInv'
  <2>1. UNCHANGED rules \/ RowMade(tests[t].name)
    BY <1>a, <1>3, Creation DEF Reload
  <2>2. DOMAIN rules' \ DOMAIN rules \subseteq {lastId + 1} /\ lastId + 1 \in RuleIds
    <3>1. lastId + 1 \in RuleIds
      BY <1>a, <1>3, ConstantsAssumption DEF Room, TableInv, TableSound, RuleIds
    <3> QED
      BY <1>a, <2>1, <3>1, NewRows
  <2>3. \A u \in Tests : tests[u].rule \in DOMAIN rules' => tests[u].rule \in Tested
    BY <1>a DEF Tested, TableGoesOn, TableInv, TableSound, NoRule
  <2> QED
    BY <1>a, <1>b, <1>3, <2>2, <2>3, CleanKept DEF CleanInv
<1> QED
    BY <1>1, <1>2, <1>3 DEF Reload

LEMMA StepClean == ASSUME Inv, [Next]_vars PROVE CleanInv'
<1>a. TableInv /\ CallsInv /\ JobsInv /\ CleanInv /\ TableGoesOn /\ orphans \subseteq RuleIds
    BY StepTable DEF Inv, CleanInv
<1>b. UNCHANGED <<rules, tests, orphans>> => CleanInv'
    BY <1>a, CleanOfOthers
<1>1. ASSUME NEW key \in Keys, FetchServed(key) \/ FetchArrives(key) \/ FetchFails(key) \/ GoStale(key)
      PROVE  CleanInv'
    BY <1>b, <1>1 DEF FetchServed, FetchArrives, FetchFails, GoStale, server, calls
<1>2. ASSUME NEW p \in Links, OpenPage(p) PROVE CleanInv'
    BY <1>b, <1>2 DEF OpenPage, server, calls
<1>3. CASE Reload
    BY <1>a, <1>3, CleanOfReload
<1>4. CASE OtherCreates
  <2>1. PICK name \in Names : rules' = create_rule(rules, lastId + 1, name)
    BY <1>4 DEF OtherCreates
  <2>2. UNCHANGED rules \/ RowMade(name)
    BY <1>a, <1>4, <2>1, Creation DEF OtherCreates
  <2> QED
    BY <1>a, <1>4, <2>1, <2>2, CleanOfCreation DEF OtherCreates, calls
<1>5. CASE ChangeWizard \/ Submit \/ CreateFails \/ Edit \/ Change \/ ChangeFails
    BY <1>b, <1>5 DEF ChangeWizard, Submit, CreateFails, Edit, Change, ChangeFails, server, calls
<1>6. CASE CreateSucceeds
  <2>1. RowMade(create.name) /\ create.name \in Names
    BY <1>a, <1>6, Served201 DEF CreateSucceeds, CallsInv
  <2> QED
    BY <1>a, <1>6, <2>1, CleanOfCreation DEF CreateSucceeds
<1>7. CASE CreateLost
  <2>1. create.name \in Names /\ (UNCHANGED rules \/ RowMade(create.name))
    BY <1>a, <1>7, Creation DEF CreateLost, CallsInv
  <2> QED
    BY <1>a, <1>7, <2>1, CleanOfCreation DEF CreateLost
<1>8. ASSUME NEW t \in Tests, RunTest(t) PROVE CleanInv'
  <2>1. UNCHANGED <<rules, orphans>> /\ ~Active(tests[t]) /\ \E call : SetTest(t, call)
    BY <1>8 DEF RunTest, server
  <2> QED
    BY <1>a, <2>1, CleanOfTest
<1>9. ASSUME NEW t \in Tests, TestCreated(t) PROVE CleanInv'
  <2>1. tests[t].phase = "posting" /\ tests[t].rule = NoRule /\ RowMade(tests[t].name)
    BY <1>a, <1>9, Served201 DEF TestCreated, CallsInv
  <2>2. UNCHANGED orphans /\ tests[t] \in CallType
    BY <1>a, <1>9 DEF TestCreated, CallsInv
  <2>3. tests'[t].rule = lastId + 1 /\ Active(tests'[t]) /\ \A u \in Tests \ {t} : tests'[u] = tests[u]
    BY <1>a, <1>9, <2>2 DEF TestCreated, SetTest, CallsInv, CallType, Active
  <2>4. DOMAIN rules' \ DOMAIN rules = {lastId + 1}
    BY <1>a, <2>1, NewRows
  <2> SUFFICES ASSUME NEW id \in DOMAIN rules', rules'[id].name \in TestNames, id \notin orphans
               PROVE  \E u \in Tests : Active(tests'[u]) /\ tests'[u].rule = id
    BY <1>a, <2>2 DEF CleanInv, TestRulesAreCleaned, Active
  <2>5. CASE id = lastId + 1
    BY <2>3, <2>5
  <2>6. CASE id # lastId + 1
    <3>1. id \in DOMAIN rules /\ rules[id].name \in TestNames
      BY <1>a, <2>4, <2>6 DEF TableGoesOn
    <3>2. PICK u \in Tests : Active(tests[u]) /\ tests[u].rule = id
      BY <1>a, <3>1 DEF CleanInv, TestRulesAreCleaned
    <3>3. u # t
      BY <1>a, <2>1, <3>1, <3>2 DEF TableInv, TableSound, NoRule
    <3> QED
      BY <2>3, <3>2, <3>3
  <2> QED
    BY <2>5, <2>6
<1>10. ASSUME NEW t \in Tests, TestRefused(t) PROVE CleanInv'
  <2>1. UNCHANGED <<rules, orphans>> /\ SetTest(t, Idle) /\ tests[t].rule = NoRule
    BY <1>a, <1>10 DEF TestRefused, TestEnds, server, CallsInv
  <2>2. tests[t].rule \notin DOMAIN rules
    BY <1>a, <2>1 DEF TableInv, TableSound, NoRule
  <2> QED
    BY <1>a, <2>1, <2>2, CleanOfTest
<1>11. ASSUME NEW t \in Tests, TestLost(t) PROVE CleanInv'
  <2>1. CASE UNCHANGED <<rules, lastId>> /\ ResendTest(t)
    BY <1>a, <2>1, CleanOfResent
  <2>2. CASE /\ manager /\ ~NameTaken(rules, tests[t].name) /\ Room
             /\ rules' = create_rule(rules, lastId + 1, tests[t].name) /\ lastId' = lastId + 1
             /\ SetTest(t, Resend(tests[t])) /\ orphans' = orphans \cup {lastId + 1}
    <3>1. RowMade(tests[t].name) /\ tests[t].rule = NoRule
      BY <1>a, <1>11, <2>2, Served201 DEF TestLost, CallsInv
    <3>2. DOMAIN rules' \ DOMAIN rules = {lastId + 1} /\ lastId + 1 \in RuleIds
      BY <1>a, <3>1, NewRows
    <3>3. tests[t].rule \notin DOMAIN rules'
      BY <1>a, <3>1 DEF TableGoesOn, TableInv, TableSound, NoRule
    <3>4. \A u \in Tests \ {t} : tests'[u] = tests[u]
      BY <1>a, <2>2 DEF SetTest, CallsInv
    <3> QED
      BY <1>a, <2>2, <3>2, <3>3, <3>4, CleanKept
  <2> QED
    BY <1>11, <2>1, <2>2 DEF TestLost
<1>12. ASSUME NEW t \in Tests, TestRan(t) PROVE CleanInv'
  <2>1. PICK call : call = [tests[t] EXCEPT !.phase = "deleting", !.tries = 0]
    OBVIOUS
  <2>2. tests[t] \in CallType
    BY <1>a DEF CallsInv
  <2>3. Active(call) /\ call.rule = tests[t].rule
    BY <2>1, <2>2 DEF CallType, Active
  <2>4. SetTest(t, call) /\ UNCHANGED <<rules, orphans>>
    BY <1>12, <2>1, Zenon DEF TestRan, server
  <2> QED
    BY <1>a, <2>3, <2>4, CleanOfTest
<1>13. ASSUME NEW id \in RuleIds, Delete(id) PROVE CleanInv'
    BY <1>b, <1>13 DEF Delete, server
<1>14. ASSUME NEW w \in Workers, DeletionStarts(w) \/ DeletionChooses(w) PROVE CleanInv'
    BY <1>b, <1>14 DEF DeletionStarts, LookAt, DeletionChooses, calls
<1>15. ASSUME NEW w \in Workers, DeletionPromotes(w) PROVE CleanInv'
  <2>1. DOMAIN rules' = DOMAIN rules /\ UNCHANGED <<tests, orphans>>
    BY <1>15 DEF DeletionPromotes, promote_previous_version_to_latest, calls
  <2> QED
    BY <1>a, <2>1, CleanOfOthers
<1>16. ASSUME NEW w \in Workers, DeletionEnds(w) PROVE CleanInv'
  <2>1. /\ DOMAIN rules' = DOMAIN rules \ {jobs[w].rule} /\ UNCHANGED orphans
        /\ \/ UNCHANGED tests
           \/ jobs[w].client \in Tests /\ SetTest(jobs[w].client, Idle)
    BY <1>16 DEF DeletionEnds, delete_rule, TestEnds
  <2>2. CASE UNCHANGED tests
    BY <1>a, <2>1, <2>2, CleanOfOthers
  <2>3. CASE jobs[w].client \in Tests /\ SetTest(jobs[w].client, Idle)
    <3>1. PICK t \in Tests : t = jobs[w].client /\ SetTest(t, Idle)
      BY <2>3
    <3>2. tests[t].rule = jobs[w].rule
      BY <1>a, <3>1 DEF JobsInv, Serves
    <3> QED
      BY <1>a, <2>1, <3>1, <3>2, CleanOfTest
  <2> QED
    BY <2>1, <2>2, <2>3
<1>17. ASSUME NEW w \in Workers, DeletionErrs(w) \/ WorkerKilled(w) PROVE CleanInv'
  <2>1. UNCHANGED rules /\ Resends(jobs[w].client)
    BY <1>17 DEF DeletionErrs, WorkerKilled
  <2> QED
    BY <1>a, <2>1, CleanOfResends
<1>18. ASSUME NEW c \in Clients, DeletionLost(c) PROVE CleanInv'
    BY <1>a, <1>18, CleanOfResends DEF DeletionLost
<1>19. ASSUME NEW c \in Clients, DeletionNotFound(c) PROVE CleanInv'
  <2>1. UNCHANGED <<rules, orphans>> /\ CallOf(c).rule \notin DOMAIN rules
    BY <1>19 DEF DeletionNotFound, server
  <2>2. CASE UNCHANGED tests
    BY <1>b, <2>1, <2>2
  <2>3. CASE c \in Tests /\ SetTest(c, Idle)
    <3>1. tests[c].rule \notin DOMAIN rules
      BY <2>1, <2>3, NamesApart DEF CallOf
    <3> QED
      BY <1>a, <2>1, <2>3, <3>1, CleanOfTest
  <2> QED
    BY <1>19, <2>2, <2>3 DEF DeletionNotFound, TestEnds
<1>20. ASSUME NEW c \in Clients, DeletionRefused(c) PROVE CleanInv'
  <2>1. UNCHANGED rules
    BY <1>20 DEF DeletionRefused, server
  <2>2. CASE UNCHANGED <<tests, orphans>>
    BY <1>b, <2>1, <2>2
  <2>3. CASE c \in Tests /\ TestGivesUp(c)
    <3>1. SetTest(c, Idle) /\ orphans' = orphans \cup ({tests[c].rule} \ {NoRule})
      BY <2>3 DEF TestGivesUp, TestEnds
    <3>2. tests[c].rule \in DOMAIN rules' => tests[c].rule \in orphans'
      BY <1>a, <2>1, <3>1 DEF TableInv, TableSound, NoRule
    <3>3. orphans' \subseteq RuleIds
      BY <1>a, <2>3, <3>1, OrphansTyped
    <3> QED
      BY <1>a, <2>1, <2>3, <3>1, <3>2, <3>3, CleanOfTest
  <2> QED
    BY <1>20, <2>2, <2>3 DEF DeletionRefused
<1>21. CASE UNCHANGED vars
    BY <1>b, <1>21 DEF vars, server, calls
<1> QED
    BY <1>1, <1>2, <1>3, <1>4, <1>5, <1>6, <1>7, <1>8, <1>9, <1>10, <1>11, <1>12, <1>13, <1>14,
       <1>15, <1>16, <1>17, <1>18, <1>19, <1>20, <1>21 DEF Next

--------------------------------------------------------------------------------
\* The wizard, step by step.
LEMMA TestingEnds ==
    ASSUME WizardSound(wizard), NEW t \in Tests, TestEnds(t) PROVE WizardSound(wizard')
<1>1. wizard.testing \in Tests \cup {NoTest}
    BY DEF WizardSound, WizardType
<1>2. (IF wizard.testing = t THEN NoTest ELSE wizard.testing) \in Tests \cup {NoTest}
    BY <1>1
<1> QED
    BY <1>2, TestingSound DEF TestEnds

LEMMA TestingResent ==
    ASSUME WizardSound(wizard), NEW c, Resends(c) PROVE WizardSound(wizard')
    BY TestingEnds DEF Resends, ResendTest, TestGivesUp

LEMMA StepWizard == ASSUME Inv, [Next]_vars PROVE WizardSound(wizard')
<1>a. WizardSound(wizard)
    BY DEF Inv
<1>1. ASSUME NEW key \in Keys, FetchServed(key) \/ FetchArrives(key) \/ FetchFails(key) \/ GoStale(key)
      PROVE  WizardSound(wizard')
    BY <1>a, <1>1 DEF FetchServed, FetchArrives, FetchFails, GoStale, page
<1>2. ASSUME NEW p \in Links, OpenPage(p) PROVE WizardSound(wizard')
    BY <1>2, InitialSound DEF OpenPage, GoTo
<1>3. CASE Reload \/ CreateSucceeds
    BY <1>3, InitialSound DEF Reload, CreateSucceeds, GoTo
<1>4. CASE OtherCreates \/ Submit \/ CreateFails \/ CreateLost \/ Edit \/ Change \/ ChangeFails
    BY <1>a, <1>4 DEF OtherCreates, Submit, CreateFails, CreateLost, Edit, Change, ChangeFails, page
<1>5. CASE ChangeWizard
    BY <1>a, <1>5, InputSound, MoveSound DEF ChangeWizard
<1>6. ASSUME NEW t \in Tests, RunTest(t) PROVE WizardSound(wizard')
    BY <1>a, <1>6, TestingSound DEF RunTest
<1>7. ASSUME NEW t \in Tests, TestCreated(t) \/ TestRan(t) PROVE WizardSound(wizard')
    BY <1>a, <1>7 DEF TestCreated, TestRan, page
<1>8. ASSUME NEW t \in Tests, TestRefused(t) PROVE WizardSound(wizard')
    BY <1>a, <1>8, TestingEnds DEF TestRefused
<1>9. ASSUME NEW t \in Tests, TestLost(t) PROVE WizardSound(wizard')
  <2>1. CASE ResendTest(t)
    BY <1>a, <2>1, TestingEnds DEF ResendTest, TestGivesUp
  <2>2. PICK b \in BOOLEAN : ~ResendTest(t) =>
            wizard' = [wizard EXCEPT !.testing = IF b THEN NoTest ELSE wizard.testing]
    BY <1>9 DEF TestLost
  <2>3. wizard.testing \in Tests \cup {NoTest}
    BY <1>a DEF WizardSound, WizardType
  <2>4. (IF b THEN NoTest ELSE wizard.testing) \in Tests \cup {NoTest}
    BY <2>3
  <2> QED
    BY <1>a, <2>1, <2>2, <2>4, TestingSound
<1>10. ASSUME NEW id \in RuleIds, Delete(id) PROVE WizardSound(wizard')
    BY <1>a, <1>10 DEF Delete, page
<1>11. ASSUME NEW w \in Workers, DeletionStarts(w) \/ DeletionChooses(w) \/ DeletionPromotes(w)
       PROVE  WizardSound(wizard')
    BY <1>a, <1>11 DEF DeletionStarts, LookAt, DeletionChooses, DeletionPromotes, page
<1>12. ASSUME NEW w \in Workers, DeletionEnds(w) PROVE WizardSound(wizard')
  <2>1. \/ wizard' \in {wizard, initialState}
        \/ jobs[w].client \in Tests /\ TestEnds(jobs[w].client)
    BY <1>12 DEF DeletionEnds, GoTo, page
  <2> QED
    BY <1>a, <2>1, InitialSound, TestingEnds
<1>13. ASSUME NEW w \in Workers, DeletionErrs(w) \/ WorkerKilled(w) PROVE WizardSound(wizard')
    BY <1>a, <1>13, TestingResent DEF DeletionErrs, WorkerKilled
<1>14. ASSUME NEW c \in Clients, DeletionLost(c) PROVE WizardSound(wizard')
    BY <1>a, <1>14, TestingResent DEF DeletionLost
<1>15. ASSUME NEW c \in Clients, DeletionNotFound(c) \/ DeletionRefused(c) PROVE WizardSound(wizard')
    BY <1>a, <1>15, TestingEnds DEF DeletionNotFound, DeletionRefused, TestGivesUp
<1>16. CASE UNCHANGED vars
    BY <1>a, <1>16 DEF vars, page
<1> QED
    BY <1>1, <1>2, <1>3, <1>4, <1>5, <1>6, <1>7, <1>8, <1>9, <1>10, <1>11, <1>12, <1>13, <1>14,
       <1>15, <1>16 DEF Next

--------------------------------------------------------------------------------
\* The cache, and the pages that read it.
CacheType == [Keys -> EntryType]

LEMMA NoEntryTyped == [key \in Keys |-> NoEntry] \in CacheType
    BY DEF CacheType, NoEntry, EntryType

LEMMA MountedTyped == ASSUME NEW c \in CacheType, NEW p PROVE Mounted(c, p) \in CacheType
<1>1. \A e \in EntryType : [e EXCEPT !.wait = "asked"] \in EntryType
    BY DEF EntryType
<1>2. \A key \in Keys : c[key] \in EntryType
    BY DEF CacheType
<1> QED
    BY <1>1, <1>2 DEF CacheType, Mounted

LEMMA RefreshTyped == ASSUME NEW c \in CacheType PROVE RefreshList(c) \in CacheType
<1>1. \A e \in EntryType, now \in {"no", "asked", "served"} :
          [e EXCEPT !.stale = TRUE, !.wait = now] \in EntryType
    BY DEF EntryType
<1>2. ASSUME NEW key \in Keys, NEW b \in BOOLEAN
      PROVE  [c[key] EXCEPT !.stale = TRUE, !.wait = IF b THEN "asked" ELSE @] \in EntryType
  <2>1. c[key] \in EntryType /\ c[key].wait \in {"no", "asked", "served"}
    BY DEF CacheType, EntryType
  <2> QED
    BY <1>1, <2>1
<1>3. \A key \in Keys : c[key] \in EntryType
    BY DEF CacheType
<1> QED
    BY <1>2, <1>3 DEF CacheType, RefreshList, invalidateQueries

LEMMA LinksTyped == ASSUME PagesInv PROVE Links \subseteq Pages
    BY ShownTyped DEF Links, Pages

\* The table's ids fit the bound, and so do the ids of an answer.
LEMMA AnswerTyped ==
    ASSUME TableInv, NEW key \in Keys PROVE DOMAIN rules \subseteq RuleIds /\ Answer(key) \subseteq RuleIds
<1>1. DOMAIN rules \subseteq RuleIds
    BY ConstantsAssumption DEF TableInv, TableSound, RuleIds
<1>2. key[1] \in {"rules", "rule", "rule-versions"}
    BY DEF Keys, rulesKey, ruleKey, ruleVersionsKey
<1>3. Answer(key) \subseteq DOMAIN rules
    BY <1>2 DEF Answer, list_rules, LatestIds, get_rule_versions, FamilyOf
<1> QED
    BY <1>1, <1>3

LEMMA GoToTyped ==
    ASSUME manager \in BOOLEAN, manager' = manager, NEW p \in Pages, NEW c \in CacheType, GoTo(p, c)
    PROVE  PagesInv'
    BY MountedTyped DEF GoTo, PagesInv, CacheType

LEMMA PagesUnchanged == ASSUME PagesInv, UNCHANGED <<cache, path, editing, manager>> PROVE PagesInv'
    BY DEF PagesInv

LEMMA EntryChanged ==
    ASSUME PagesInv, NEW key \in Keys, NEW e \in EntryType, cache' = [cache EXCEPT ![key] = e],
           UNCHANGED <<path, editing, manager>>
    PROVE  PagesInv'
    BY DEF PagesInv

LEMMA FetchPages ==
    ASSUME TableInv, PagesInv, NEW key \in Keys,
           FetchServed(key) \/ FetchArrives(key) \/ FetchFails(key) \/ GoStale(key)
    PROVE  PagesInv'
<1> DEFINE old == cache[key]
<1>0. old \in EntryType /\ NoEntry \in EntryType
    BY DEF PagesInv, EntryType, NoEntry
<1>1. CASE FetchServed(key)
  <2> DEFINE new == [old EXCEPT !.wait = "served", !.served = Answer(key)]
  <2>1. new \in EntryType
    BY <1>0, AnswerTyped DEF EntryType
  <2>2. cache' = [cache EXCEPT ![key] = new]
    BY <1>1 DEF FetchServed, PagesInv
  <2> QED
    BY <1>1, <2>1, <2>2, EntryChanged DEF FetchServed, page
<1>2. CASE FetchArrives(key)
  <2> DEFINE new == IF old.served = {} /\ key[1] # "rules"
                    THEN [old EXCEPT !.wait = "no", !.error = TRUE]
                    ELSE [known |-> TRUE, data |-> old.served, stale |-> FALSE, error |-> FALSE,
                          wait |-> "no", served |-> {}]
  <2>1. new \in EntryType
    BY <1>0 DEF EntryType
  <2>2. cache' = [cache EXCEPT ![key] = new]
    BY <1>2 DEF FetchArrives
  <2> QED
    BY <1>2, <2>1, <2>2, EntryChanged DEF FetchArrives, page
<1>3. CASE FetchFails(key)
  <2> DEFINE new == [old EXCEPT !.wait = "no", !.error = TRUE, !.served = {}]
  <2>1. new \in EntryType
    BY <1>0 DEF EntryType
  <2>2. cache' = [cache EXCEPT ![key] = new]
    BY <1>3 DEF FetchFails, PagesInv
  <2> QED
    BY <1>3, <2>1, <2>2, EntryChanged DEF FetchFails, page
<1>4. CASE GoStale(key)
  <2> DEFINE new == IF key \in KeyOf(path) \/ old.wait # "no" THEN [old EXCEPT !.stale = TRUE]
                    ELSE NoEntry
  <2>1. new \in EntryType
    BY <1>0 DEF EntryType
  <2>2. cache' = [cache EXCEPT ![key] = new]
    BY <1>4 DEF GoStale
  <2> QED
    BY <1>4, <2>1, <2>2, EntryChanged DEF GoStale, page
<1> QED
    BY <1>1, <1>2, <1>3, <1>4

LEMMA StepPages == ASSUME Inv, [Next]_vars PROVE PagesInv'
<1>a. /\ TableInv /\ PagesInv /\ cache \in CacheType
      /\ path \in Pages /\ editing \in BOOLEAN /\ manager \in BOOLEAN
    BY DEF Inv, PagesInv, CacheType
<1>b. RefreshList(cache) \in CacheType /\ <<"list">> \in Pages
    BY <1>a, RefreshTyped DEF Pages
<1>1. ASSUME NEW key \in Keys, FetchServed(key) \/ FetchArrives(key) \/ FetchFails(key) \/ GoStale(key)
      PROVE  PagesInv'
    BY <1>a, <1>1, FetchPages
<1>2. ASSUME NEW p \in Links, OpenPage(p) PROVE PagesInv'
  <2>1. p \in Pages
    BY <1>a, LinksTyped
  <2> QED
    BY <1>a, <1>2, <2>1, GoToTyped DEF OpenPage
<1>3. CASE Reload
  <2>1. Mounted([key \in Keys |-> NoEntry], path) \in CacheType
    BY NoEntryTyped, MountedTyped
  <2> QED
    BY <1>a, <1>3, <2>1 DEF Reload, PagesInv, CacheType
<1>4. CASE CreateSucceeds
    BY <1>a, <1>b, <1>4, GoToTyped DEF CreateSucceeds
<1>5. CASE Edit
    BY <1>a, <1>5 DEF Edit, PagesInv
<1>6. CASE OtherCreates \/ ChangeWizard \/ Submit \/ CreateFails \/ CreateLost \/ Change \/ ChangeFails
    BY <1>a, <1>6, PagesUnchanged
       DEF OtherCreates, ChangeWizard, Submit, CreateFails, CreateLost, Change, ChangeFails, page
<1>7. ASSUME NEW t \in Tests,
             RunTest(t) \/ TestCreated(t) \/ TestRefused(t) \/ TestLost(t) \/ TestRan(t)
      PROVE  PagesInv'
    BY <1>a, <1>7, PagesUnchanged DEF RunTest, TestCreated, TestRefused, TestLost, TestRan, page
<1>8. ASSUME NEW id \in RuleIds, Delete(id) PROVE PagesInv'
    BY <1>a, <1>8, PagesUnchanged DEF Delete, page
<1>9. ASSUME NEW w \in Workers,
             \/ DeletionStarts(w) \/ DeletionChooses(w) \/ DeletionPromotes(w)
             \/ DeletionErrs(w) \/ WorkerKilled(w)
      PROVE  PagesInv'
    BY <1>a, <1>9, PagesUnchanged
       DEF DeletionStarts, LookAt, DeletionChooses, DeletionPromotes, DeletionErrs, WorkerKilled, page
<1>10. ASSUME NEW w \in Workers, DeletionEnds(w) PROVE PagesInv'
  <2>1. CASE GoTo(<<"list">>, RefreshList(cache))
    BY <1>a, <1>b, <1>10, <2>1, GoToTyped DEF DeletionEnds
  <2>2. CASE cache' \in {cache, RefreshList(cache)} /\ UNCHANGED <<path, editing>>
    BY <1>a, <1>b, <1>10, <2>2 DEF DeletionEnds, PagesInv, CacheType
  <2> QED
    BY <1>10, <2>1, <2>2 DEF DeletionEnds, page
<1>11. ASSUME NEW c \in Clients, DeletionLost(c) \/ DeletionNotFound(c) \/ DeletionRefused(c)
       PROVE  PagesInv'
    BY <1>a, <1>11, PagesUnchanged DEF DeletionLost, DeletionNotFound, DeletionRefused
<1>12. CASE UNCHANGED vars
    BY <1>a, <1>12, PagesUnchanged DEF vars, page
<1> QED
    BY <1>1, <1>2, <1>3, <1>4, <1>5, <1>6, <1>7, <1>8, <1>9, <1>10, <1>11, <1>12 DEF Next

--------------------------------------------------------------------------------
\* The bounds.
LEMMA CountersKept == ASSUME Counted, UNCHANGED <<faults, leaves>> PROVE Counted'
    BY DEF Counted

LEMMA Loses == ASSUME Counted, Lose, leaves' = leaves PROVE Counted'
    BY ConstantsAssumption DEF Counted, Lose

LEMMA Leaves == ASSUME Counted, Leave, faults' = faults PROVE Counted'
    BY ConstantsAssumption DEF Counted, Leave

LEMMA StepCounters == ASSUME Counted, [Next]_vars PROVE Counted'
<1>1. ASSUME NEW key \in Keys, FetchServed(key) \/ FetchArrives(key) \/ FetchFails(key) \/ GoStale(key)
      PROVE  Counted'
    BY <1>1, CountersKept, Loses, Leaves DEF FetchServed, FetchArrives, FetchFails, GoStale, bounds
<1>2. ASSUME NEW p \in Links, OpenPage(p) PROVE Counted'
    BY <1>2, Leaves DEF OpenPage
<1>3. CASE Reload \/ CreateLost
    BY <1>3, Loses DEF Reload, CreateLost
<1>4. CASE OtherCreates
    BY <1>4, Leaves DEF OtherCreates
<1>5. CASE ChangeWizard \/ Submit \/ CreateSucceeds \/ CreateFails \/ Edit \/ Change \/ ChangeFails
    BY <1>5, CountersKept
       DEF ChangeWizard, Submit, CreateSucceeds, CreateFails, Edit, Change, ChangeFails, bounds
<1>6. ASSUME NEW t \in Tests, RunTest(t) \/ TestCreated(t) \/ TestRefused(t) \/ TestRan(t)
      PROVE  Counted'
    BY <1>6, CountersKept DEF RunTest, TestCreated, TestRefused, TestRan, bounds
<1>7. ASSUME NEW t \in Tests, TestLost(t) PROVE Counted'
    BY <1>7, Loses DEF TestLost
<1>8. ASSUME NEW id \in RuleIds, Delete(id) PROVE Counted'
    BY <1>8, CountersKept DEF Delete, bounds
<1>9. ASSUME NEW w \in Workers, DeletionStarts(w) PROVE Counted'
    BY <1>9, CountersKept, Leaves DEF DeletionStarts, LookAt
<1>10. ASSUME NEW w \in Workers,
              DeletionChooses(w) \/ DeletionPromotes(w) \/ DeletionEnds(w) \/ DeletionErrs(w)
       PROVE  Counted'
    BY <1>10, CountersKept
       DEF DeletionChooses, DeletionPromotes, DeletionEnds, DeletionErrs, bounds
<1>11. ASSUME NEW w \in Workers, WorkerKilled(w) PROVE Counted'
    BY <1>11, Loses DEF WorkerKilled
<1>12. ASSUME NEW c \in Clients, DeletionLost(c) \/ DeletionRefused(c) PROVE Counted'
    BY <1>12, Loses DEF DeletionLost, DeletionRefused
<1>13. ASSUME NEW c \in Clients, DeletionNotFound(c) PROVE Counted'
    BY <1>13, CountersKept DEF DeletionNotFound, bounds
<1>14. CASE UNCHANGED vars
    BY <1>14, CountersKept DEF vars, bounds
<1> QED
    BY <1>1, <1>2, <1>3, <1>4, <1>5, <1>6, <1>7, <1>8, <1>9, <1>10, <1>11, <1>12, <1>13, <1>14 DEF Next

--------------------------------------------------------------------------------
(***************************************************************************)
(* The theorems.                                                           *)
(***************************************************************************)

\* An old table: one rule of three versions, or none.
LEMMA OldTable ==
    ASSUME NEW a \in Names, NEW b \in Names, NEW c \in Names, NEW table,
           table = <<OldVersion(a, 1), OldVersion(b, 2), OldVersion(c, 3)>>
    PROVE  TableSound(table, 3) /\ table[3].latest /\ DOMAIN table = 1..3
           /\ \A id \in DOMAIN table : table[id].name \in Names
<1>1. /\ DOMAIN table = 1..3 /\ table = [x \in DOMAIN table |-> table[x]]
      /\ table[1] = OldVersion(a, 1) /\ table[2] = OldVersion(b, 2) /\ table[3] = OldVersion(c, 3)
    OBVIOUS
<1>2. \A n \in Names, v \in 1..3 :
          /\ OldVersion(n, v) \in Row /\ OldVersion(n, v).version = v
          /\ OldVersion(n, v).family = 1 /\ OldVersion(n, v).name = n
          /\ OldVersion(n, v).latest <=> v = 3
    BY DEF OldVersion, Row, AnyName
<1>3. \A id \in 1..3 : id = 1 \/ id = 2 \/ id = 3
    OBVIOUS
<1>4. \A id \in DOMAIN table :
          /\ table[id] \in Row /\ table[id].version = id /\ table[id].family = 1
          /\ table[id].name \in Names /\ (table[id].latest <=> id = 3)
    BY <1>1, <1>2, <1>3
<1>5. \A id \in DOMAIN table : RowSound(table, id)
    BY <1>1, <1>4 DEF RowSound
<1> QED
    BY <1>1, <1>4, <1>5 DEF TableSound

LEMMA InitInv == Init => Inv
<1> SUFFICES ASSUME Init PROVE Inv
    OBVIOUS
<1>2. /\ TableSound(rules, lastId) /\ LatestBeside(rules, NoRule)
      /\ \A id \in DOMAIN rules : rules[id].name \notin TestNames
  <2>1. CASE rules = <<>>
    BY <2>1 DEF Init, TableSound, LatestBeside
  <2>2. ASSUME NEW a \in Names, NEW b \in Names, NEW c \in Names,
               rules = <<OldVersion(a, 1), OldVersion(b, 2), OldVersion(c, 3)>>
        PROVE  /\ TableSound(rules, lastId) /\ LatestBeside(rules, NoRule)
               /\ \A id \in DOMAIN rules : rules[id].name \notin TestNames
    <3>1. /\ TableSound(rules, 3) /\ rules[3].latest /\ DOMAIN rules = 1..3
          /\ \A id \in DOMAIN rules : rules[id].name \in Names
      BY <2>2, OldTable
    <3> QED
      BY <3>1, NamesApart DEF Init, LatestBeside, Old, NoRule
  <2> QED
    BY <2>1, <2>2 DEF Init, OldRules
<1>3. TableInv
    BY <1>2, ConstantsAssumption DEF Init, TableInv
<1>4. CallsInv
    BY IdleTyped DEF Init, CallsInv, Idle
<1>5. JobsInv /\ LatestInv
  <2>1. \A w \in Workers : jobs[w] = NoJob
    BY DEF Init
  <2>2. jobs \in [Workers -> JobType] /\ overlapped = {}
    BY NoJobSound DEF Init
  <2> QED
    BY <1>2, <2>1, <2>2, NoJobSound, NamesApart DEF JobsInv, Exclusive, Serves, LatestInv
<1>6. CleanInv
    BY <1>2 DEF Init, CleanInv, TestRulesAreCleaned
<1>7. PagesInv
    BY NoEntryTyped DEF Init, PagesInv, CacheType, Pages
<1>8. Counted /\ WizardSound(wizard)
    BY ConstantsAssumption, InitialSound DEF Init, Counted
<1> QED
    BY <1>3, <1>4, <1>5, <1>6, <1>7, <1>8 DEF Inv

LEMMA StepInv == Inv /\ [Next]_vars => Inv'
<1> SUFFICES ASSUME Inv, [Next]_vars PROVE Inv'
    OBVIOUS
<1>1. TableInv'
    BY StepTable DEF TableGoesOn
<1>2. Counted'
    BY StepCounters DEF Inv
<1> QED
    BY <1>1, <1>2, StepCalls, StepJobs, StepLatest, StepClean, StepWizard, StepPages DEF Inv

LEMMA InductiveInv == Spec => []Inv
    BY InitInv, StepInv, PTL DEF Spec

\* On any number of workers: however deletions are repeated, cut off between their two
\* commits, or refused, a family that has its first version has a latest one, as long
\* as no two of its versions were being deleted at the same time (delete_rule and
\* promote_previous_version_to_latest).
THEOREM LatestSurvives == Spec => []FamilyHasLatest
<1>1. ASSUME Inv PROVE FamilyHasLatest
  <2> SUFFICES ASSUME NEW id \in DOMAIN rules, rules[id].family \notin overlapped \cup {NoRule}
               PROVE  \E x \in FamilyOf(rules, rules[id].family) : rules[x].latest
    BY DEF FamilyHasLatest
  <2>0. /\ \A x \in DOMAIN rules : RowSound(rules, x)
        /\ LatestInv
    BY <1>1 DEF Inv, TableInv, TableSound
  <2>1. CASE id > 3
    BY <2>0, <2>1 DEF RowSound, FamilyOf
  <2>2. CASE id \in 1..3
    <3>1. rules[id].family = 1 /\ 1 \in DOMAIN rules
      BY <2>0, <2>2 DEF RowSound
    <3>2. PICK x \in Old(rules) : rules[x].latest
      BY <2>0, <3>1 DEF LatestInv, LatestBeside
    <3>3. rules[x].family = 1
      BY <2>0, <3>1, <3>2 DEF RowSound, Old
    <3> QED
      BY <3>1, <3>2, <3>3 DEF FamilyOf, Old
  <2> QED
    BY <2>0, <2>1, <2>2 DEF RowSound
<1> QED
    BY <1>1, InductiveInv, PTL

\* Whatever way the user takes through the wizard, the steps behind the one on display
\* hold inputs that validateStep accepts (goNext, goBack, goToStep and the steps).
THEOREM WizardStepsValid == Spec => []StepsBehindAreValid
<1>1. Inv => StepsBehindAreValid
    BY DEF Inv, WizardSound, StepsBehindAreValid
<1> QED
    BY <1>1, InductiveInv, PTL

\* However many tests run beside one another, a temporary rule is there only while the
\* test that created it runs, unless a request of that test was lost or refused or the
\* page reloaded (runTest and its `finally`).
THEOREM TemporaryRulesGo == Spec => []TestRulesAreCleaned
<1>1. Inv => TestRulesAreCleaned
    BY DEF Inv, CleanInv
<1> QED
    BY <1>1, InductiveInv, PTL

\* The table, the calls, the jobs, the cache and the pages keep their types: the ids of
\* the rules stay below the last one given, no rule is without a name, every link and
\* every entry of the cache is about an id that may exist (the rule pages and hooks).
THEOREM TypeCorrect == Spec => []TypeOK
<1>1. ASSUME Inv PROVE TypeOK
  <2>0. TableSound(rules, lastId) /\ lastId <= MaxRules /\ MaxRules \in Nat
    BY <1>1, ConstantsAssumption DEF Inv, TableInv
  <2>1. DOMAIN rules \subseteq 1..lastId /\ lastId \in 3..MaxRules
    BY <2>0 DEF TableSound
  <2>2. ASSUME NEW id \in DOMAIN rules PROVE rules[id] \in RuleType
    <3>1. id \in 0..MaxRules /\ 1 \in 0..MaxRules /\ 0 \in 0..MaxRules
      BY <2>0, <2>1
    <3>2. RowSound(rules, id)
      BY <2>0 DEF TableSound
    <3>3. rules[id].family \in 0..MaxRules
      BY <3>1, <3>2 DEF RowSound, NoRule
    <3> QED
      BY <3>2, <3>3 DEF RowSound, Row, AnyName, RuleType
  <2> QED
    BY <1>1, <2>1, <2>2
       DEF Inv, CallsInv, JobsInv, CleanInv, WizardSound, PagesInv, Counted, TypeOK
<1> QED
    BY <1>1, InductiveInv, PTL

================================================================================
