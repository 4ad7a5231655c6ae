-------------------------- MODULE RuleExecutionProofs --------------------------
(***************************************************************************)
(* Proofs about RuleExecution for any workers, runs, rules and rows, and   *)
(* any threshold for parallel execution.                                   *)
(***************************************************************************)
EXTENDS RuleExecution, TLAPS

(***************************************************************************)
(* The inductive invariant.                                                *)
(***************************************************************************)

Busy(w) == job[w].pc \in EnginePcs

\* The rows that issues `is` say a rule flagged.
Flagged(is, rule) == {i.row : i \in {j \in is : j.rule = rule}}

\* `rows` is what a run has recorded whose rules `ok` passed and `failed` raised.
Recorded(rows, is, ok, failed) ==
    /\ \A x \in rows :
         IF x.note THEN x.rule \in failed /\ x.flagged = {}
                   ELSE x.rule \in ok /\ x.flagged = Flagged(is, x.rule)
    /\ \A rule \in ok : RuleRow(rule, Flagged(is, rule), FALSE) \in rows
    /\ \A rule \in failed : RuleRow(rule, {}, TRUE) \in rows

\* RowsAgreeWithIssues for one run.
Agree(rows, is) ==
    /\ \A x \in rows : x.flagged = Flagged(is, x.rule)
    /\ \A i \in is : \E x \in rows : x.rule = i.rule

\* The rows and issues recorded of run r agree with the counters of request j.
Counted(r, j, rows, is) ==
    /\ chosen[r] = j.todo \cup j.ok \cup j.failed
    /\ j.todo \cap (j.ok \cup j.failed) = {}
    /\ j.ok \cap j.failed = {}
    /\ is = j.found
    /\ \A i \in is : i.rule \in j.ok
    /\ Recorded(rows, is, j.ok, j.failed)
    /\ j.pc # "rules" => j.ok = {} /\ j.failed = {}

\* A run the engine is working on is running and counted.
RunSound(w) ==
    Busy(w) => /\ status[job[w].run] = "running"
               /\ summary[job[w].run] = None
               /\ Counted(job[w].run, job[w], ruleRows[job[w].run], issues[job[w].run])

\* No two requests work on one run.
OneEngine == \A v, w \in Workers : Busy(v) /\ Busy(w) /\ job[v].run = job[w].run => v = w

\* Nothing is recorded of a run that was not started.
NothingEarly ==
    \A r \in Runs : status[r] = "none" => summary[r] = None /\ ruleRows[r] = {} /\ issues[r] = {}

\* A summary agrees with what is recorded: OutcomeIsRecorded, row by row.
SummarySound ==
    \A r \in Runs :
        summary[r] # None =>
            /\ summary[r].ok \cup summary[r].failed = chosen[r]
            /\ Recorded(ruleRows[r], issues[r], summary[r].ok, summary[r].failed)
            /\ issues[r] = summary[r].found
            /\ status[r] = Verdict(summary[r].ok, summary[r].failed)

AllAgree == \A r \in Runs : Agree(ruleRows[r], issues[r])

IndInv ==
    /\ TypeOK
    /\ OneEngine
    /\ NothingEarly
    /\ \A w \in Workers : RunSound(w)
    /\ SummarySound
    /\ AllAgree

(***************************************************************************)
(* Facts about what is recorded.                                           *)
(***************************************************************************)

\* Issues of a rule that has none yet change what that rule flagged, and only that.
LEMMA FlaggedAfter ==
    ASSUME NEW is \in SUBSET IssueSet, NEW rule \in Rules, NEW flagged \in SUBSET Rows,
           \A i \in is : i.rule # rule
    PROVE  /\ is \cup Found(rule, flagged) \in SUBSET IssueSet
           /\ Flagged(is \cup Found(rule, flagged), rule) = flagged
<1> DEFINE after == is \cup Found(rule, flagged)
<1>1. after \in SUBSET IssueSet
  BY DEF Found, IssueSet
<1>2. Flagged(after, rule) = flagged
  <2>1. \A x \in flagged : [rule |-> rule, row |-> x] \in {j \in after : j.rule = rule}
    BY DEF Found
  <2>2. \A j \in after : j.rule = rule => j.row \in flagged
    BY DEF Found
  <2>3. \A x \in flagged : x \in Flagged(after, rule)
    <3> SUFFICES ASSUME NEW x \in flagged PROVE x \in Flagged(after, rule)
      OBVIOUS
    <3>1. [rule |-> rule, row |-> x].row = x
      OBVIOUS
    <3> QED
      BY <2>1, <3>1 DEF Flagged
  <2>4. \A x \in Flagged(after, rule) : x \in flagged
    BY <2>2 DEF Flagged
  <2> QED
    BY <2>3, <2>4
<1> QED
  BY <1>1, <1>2

LEMMA OthersFlaggedAfter ==
    ASSUME NEW is \in SUBSET IssueSet, NEW rule, NEW flagged \in SUBSET Rows,
           NEW other, other # rule
    PROVE  Flagged(is \cup Found(rule, flagged), other) = Flagged(is, other)
<1>1. \A j \in Found(rule, flagged) : j.rule = rule
  BY DEF Found
<1>2. {j \in is \cup Found(rule, flagged) : j.rule = other} = {j \in is : j.rule = other}
  BY <1>1
<1> QED
  BY <1>2 DEF Flagged

\* A rule passes.
LEMMA RecordPassed ==
    ASSUME NEW rows \in SUBSET RuleRowSet, NEW is \in SUBSET IssueSet,
           NEW ok \in SUBSET Rules, NEW failed \in SUBSET Rules,
           Recorded(rows, is, ok, failed), \A i \in is : i.rule \in ok,
           NEW rule \in Rules \ (ok \cup failed), NEW flagged \in SUBSET Rows
    PROVE  /\ rows \cup {RuleRow(rule, flagged, FALSE)} \in SUBSET RuleRowSet
           /\ is \cup Found(rule, flagged) \in SUBSET IssueSet
           /\ \A i \in is \cup Found(rule, flagged) : i.rule \in ok \cup {rule}
           /\ Recorded(rows \cup {RuleRow(rule, flagged, FALSE)},
                       is \cup Found(rule, flagged), ok \cup {rule}, failed)
<1> DEFINE after == rows \cup {RuleRow(rule, flagged, FALSE)}
           found == is \cup Found(rule, flagged)
<1>0. rule \in Rules /\ \A i \in is : i.rule # rule
  OBVIOUS
<1>1. /\ found \in SUBSET IssueSet
      /\ Flagged(found, rule) = flagged
      /\ \A other \in Rules : other # rule => Flagged(found, other) = Flagged(is, other)
  <2>1. is \cup Found(rule, flagged) \in SUBSET IssueSet
    BY <1>0, FlaggedAfter
  <2>2. Flagged(is \cup Found(rule, flagged), rule) = flagged
    BY <1>0, FlaggedAfter
  <2>3. ASSUME NEW other \in Rules, other # rule
        PROVE  Flagged(is \cup Found(rule, flagged), other) = Flagged(is, other)
    BY <2>3, OthersFlaggedAfter
  <2> QED
    BY <2>1, <2>2, <2>3
<1>2. after \in SUBSET RuleRowSet /\ \A i \in found : i.rule \in ok \cup {rule}
  <2>1. RuleRow(rule, flagged, FALSE) \in RuleRowSet
    BY DEF RuleRow, RuleRowSet
  <2>2. \A i \in Found(rule, flagged) : i.rule = rule
    BY DEF Found
  <2> QED
    BY <2>1, <2>2
<1>3. /\ RuleRow(rule, flagged, FALSE).note = FALSE
      /\ RuleRow(rule, flagged, FALSE).rule = rule
      /\ RuleRow(rule, flagged, FALSE).flagged = flagged
  BY DEF RuleRow
<1> HIDE DEF found
<1>4. \A x \in after :
         IF x.note THEN x.rule \in failed /\ x.flagged = {}
                   ELSE x.rule \in ok \cup {rule} /\ x.flagged = Flagged(found, x.rule)
  <2> SUFFICES ASSUME NEW x \in after
               PROVE  IF x.note THEN x.rule \in failed /\ x.flagged = {}
                      ELSE x.rule \in ok \cup {rule} /\ x.flagged = Flagged(found, x.rule)
    OBVIOUS
  <2>1. CASE x \in rows
    <3>1. x.rule \in Rules /\ (~x.note => x.rule # rule)
      BY <2>1 DEF Recorded, RuleRowSet
    <3> QED
      BY <1>1, <2>1, <3>1 DEF Recorded
  <2>2. CASE x = RuleRow(rule, flagged, FALSE)
    BY <1>1, <1>3, <2>2
  <2> QED
    BY <2>1, <2>2
<1>5. \A o \in ok \cup {rule} : RuleRow(o, Flagged(found, o), FALSE) \in after
  <2> SUFFICES ASSUME NEW o \in ok \cup {rule}
               PROVE  RuleRow(o, Flagged(found, o), FALSE) \in after
    OBVIOUS
  <2>1. CASE o = rule
    BY <1>1, <2>1
  <2>2. CASE o # rule
    <3>1. o \in ok /\ Flagged(found, o) = Flagged(is, o)
      BY <1>1, <2>2
    <3> QED
      BY <3>1 DEF Recorded
  <2> QED
    BY <2>1, <2>2
<1>6. \A o \in failed : RuleRow(o, {}, TRUE) \in after
  BY DEF Recorded
<1>7. Recorded(after, found, ok \cup {rule}, failed)
  BY <1>4, <1>5, <1>6 DEF Recorded
<1> QED
  BY <1>1, <1>2, <1>7 DEF found

\* A rule raises.
LEMMA RecordRaised ==
    ASSUME NEW rows \in SUBSET RuleRowSet, NEW is \in SUBSET IssueSet,
           NEW ok \in SUBSET Rules, NEW failed \in SUBSET Rules,
           Recorded(rows, is, ok, failed), NEW rule \in Rules
    PROVE  LET after == rows \cup {RuleRow(rule, {}, TRUE)}
           IN  after \in SUBSET RuleRowSet /\ Recorded(after, is, ok, failed \cup {rule})
<1> DEFINE row == RuleRow(rule, {}, TRUE)
<1>1. row \in RuleRowSet /\ row.note = TRUE /\ row.rule = rule /\ row.flagged = {}
  BY DEF RuleRow, RuleRowSet
<1>2. \A o \in failed \cup {rule} : RuleRow(o, {}, TRUE) \in rows \cup {row}
  BY DEF Recorded
<1> HIDE DEF row
<1>3. Recorded(rows \cup {row}, is, ok, failed \cup {rule})
  BY <1>1, <1>2 DEF Recorded
<1> QED
  BY <1>1, <1>3 DEF row

\* What is recorded agrees, row by row, with the issues.
LEMMA RecordedAgrees ==
    ASSUME NEW rows \in SUBSET RuleRowSet, NEW is \in SUBSET IssueSet,
           NEW ok \in SUBSET Rules, NEW failed \in SUBSET Rules,
           Recorded(rows, is, ok, failed), ok \cap failed = {}, \A i \in is : i.rule \in ok
    PROVE  Agree(rows, is)
<1>1. \A rule \in failed : Flagged(is, rule) = {}
  BY DEF Flagged
<1>2. \A rule \in ok : RuleRow(rule, Flagged(is, rule), FALSE).rule = rule
  BY DEF RuleRow
<1>3. \A i \in is : \E x \in rows : x.rule = i.rule
  BY <1>2 DEF Recorded
<1>4. \A x \in rows : x.flagged = Flagged(is, x.rule)
  BY <1>1 DEF Recorded
<1> QED
  BY <1>3, <1>4 DEF Agree

\* What is recorded, written as OutcomeIsRecorded has it.
LEMMA RecordedOutcome ==
    ASSUME NEW rows \in SUBSET RuleRowSet, NEW is \in SUBSET IssueSet,
           NEW ok \in SUBSET Rules, NEW failed \in SUBSET Rules,
           Recorded(rows, is, ok, failed)
    PROVE  /\ {x \in rows : ~x.note} = {RuleRow(rule, Flagged(is, rule), FALSE) : rule \in ok}
           /\ {x \in rows : x.note} = {RuleRow(rule, {}, TRUE) : rule \in failed}
<1>1. \A x \in rows : x = RuleRow(x.rule, x.flagged, x.note) /\ x.note \in BOOLEAN
  BY DEF RuleRow, RuleRowSet
<1>2. \A rule, flagged, note : RuleRow(rule, flagged, note).note = note
  BY DEF RuleRow
<1>3. {x \in rows : ~x.note} = {RuleRow(rule, Flagged(is, rule), FALSE) : rule \in ok}
  <2>1. \A x \in rows : ~x.note => x.rule \in ok /\ x = RuleRow(x.rule, Flagged(is, x.rule), FALSE)
    BY <1>1 DEF Recorded
  <2>2. \A rule \in ok : RuleRow(rule, Flagged(is, rule), FALSE) \in {x \in rows : ~x.note}
    BY <1>2 DEF Recorded
  <2> QED
    BY <2>1, <2>2
<1>4. {x \in rows : x.note} = {RuleRow(rule, {}, TRUE) : rule \in failed}
  <2>1. \A x \in rows : x.note => x.rule \in failed /\ x = RuleRow(x.rule, {}, TRUE)
    BY <1>1 DEF Recorded
  <2>2. \A rule \in failed : RuleRow(rule, {}, TRUE) \in {x \in rows : x.note}
    BY <1>2 DEF Recorded
  <2> QED
    BY <2>1, <2>2
<1> QED
  BY <1>3, <1>4

(***************************************************************************)
(* The invariant is inductive.                                             *)
(***************************************************************************)

LEMMA InitIndInv == Init => IndInv
<1> SUFFICES ASSUME Init PROVE IndInv
  OBVIOUS
<1> USE DEF Init
<1>1. Idle \in Job /\ Idle.pc = "idle" /\ "idle" \notin EnginePcs
  BY DEF Idle, Job, Pcs, EnginePcs
<1>2. TypeOK
  BY <1>1 DEF TypeOK, Statuses, Finished, At
<1>3. \A w \in Workers : ~Busy(w)
  BY <1>1 DEF Busy
<1> QED
  BY <1>2, <1>3 DEF IndInv, OneEngine, NothingEarly, RunSound, SummarySound,
                    AllAgree, Agree

\* A step that records nothing about runs and leaves its request outside the
\* engine.
LEMMA QuietStep ==
    ASSUME IndInv, NEW w \in Workers, NEW j \in Job,
           UNCHANGED records, job' = [job EXCEPT ![w] = j],
           j.pc \notin EnginePcs,
           j.pc # "idle" => j.run \in Runs /\ status[j.run] # "none",
           metrics' \in [Runs -> Metrics \cup {None}],
           broken' \in [Runs -> {"no", "raised", "killed"}]
    PROVE  IndInv'
<1> USE DEF IndInv
<1>1. /\ job' \in [Workers -> Job] /\ job'[w] = j
      /\ \A u \in Workers \ {w} : job'[u] = job[u]
  BY DEF TypeOK
<1>2. /\ status' = status /\ chosen' = chosen /\ summary' = summary
      /\ ruleRows' = ruleRows /\ issues' = issues
  BY DEF records
<1>3. TypeOK'
  BY <1>1, <1>2 DEF TypeOK, At
<1>4. \A u \in Workers : Busy(u)' => u # w /\ Busy(u)
  BY <1>1 DEF Busy
<1>5. OneEngine' /\ \A u \in Workers : RunSound(u)'
  BY <1>1, <1>2, <1>4 DEF OneEngine, RunSound, Counted
<1>6. NothingEarly' /\ SummarySound' /\ AllAgree'
  BY <1>2 DEF NothingEarly, SummarySound, AllAgree
<1> QED
  BY <1>3, <1>5, <1>6

\* A step of the engine that records `rows` and `is` of its run and goes on.
LEMMA RunStep ==
    ASSUME IndInv, NEW w \in Workers, NEW j \in Job, NEW r \in Runs,
           Busy(w), r = job[w].run, j.run = r, j.pc \in EnginePcs,
           NEW rows \in SUBSET RuleRowSet, NEW is \in SUBSET IssueSet,
           ruleRows' = [ruleRows EXCEPT ![r] = rows],
           issues' = [issues EXCEPT ![r] = is],
           job' = [job EXCEPT ![w] = j],
           Counted(r, j, rows, is),
           UNCHANGED <<status, chosen, summary, metrics, broken>>
    PROVE  IndInv'
<1> USE DEF IndInv
<1>1. /\ job' \in [Workers -> Job] /\ job'[w] = j
      /\ \A u \in Workers \ {w} : job'[u] = job[u]
  BY DEF TypeOK
<1>2. /\ ruleRows' \in [Runs -> SUBSET RuleRowSet] /\ ruleRows'[r] = rows
      /\ issues' \in [Runs -> SUBSET IssueSet] /\ issues'[r] = is
      /\ \A q \in Runs \ {r} : ruleRows'[q] = ruleRows[q] /\ issues'[q] = issues[q]
  BY DEF TypeOK
<1>3. status[r] = "running" /\ summary[r] = None
  BY DEF RunSound
<1>4. TypeOK'
  BY <1>1, <1>2, <1>3 DEF TypeOK, At
<1>5. \A u \in Workers : Busy(u)' => Busy(u) /\ job'[u].run = job[u].run
  BY <1>1 DEF Busy
<1>6. OneEngine'
  BY <1>5 DEF OneEngine
<1>7. ASSUME NEW u \in Workers PROVE RunSound(u)'
  <2>1. CASE u = w
    BY <1>1, <1>2, <1>3, <2>1 DEF RunSound, Counted
  <2>2. CASE u # w
    <3> SUFFICES ASSUME Busy(u)' PROVE RunSound(u)'
      BY DEF RunSound
    <3>1. /\ Busy(u) /\ job'[u] = job[u] /\ job[u].run # r
          /\ RunSound(u) /\ job[u].run \in Runs
      BY <1>1, <1>5, <2>2 DEF OneEngine, Busy, TypeOK, At, EnginePcs
    <3>2. /\ ruleRows'[job[u].run] = ruleRows[job[u].run]
          /\ issues'[job[u].run] = issues[job[u].run]
      BY <1>2, <3>1
    <3> QED
      BY <3>1, <3>2 DEF RunSound, Counted
  <2> QED
    BY <2>1, <2>2
<1>8. NothingEarly' /\ SummarySound'
  BY <1>2, <1>3 DEF NothingEarly, SummarySound
<1>9. Agree(rows, is)
  BY RecordedAgrees DEF Counted, Job
<1>10. AllAgree'
  BY <1>2, <1>9 DEF AllAgree
<1> QED
  BY <1>4, <1>6, <1>7, <1>8, <1>10

\* The last commit of a run, with `rows` and `is` recorded of it in the end.
LEMMA LastStep ==
    ASSUME IndInv, NEW w \in Workers, NEW r \in Runs, Busy(w), r = job[w].run,
           NEW rows \in SUBSET RuleRowSet, NEW is \in SUBSET IssueSet,
           NEW ok \in SUBSET Rules, NEW failed \in SUBSET Rules,
           ok \cup failed = chosen[r], ok \cap failed = {},
           Recorded(rows, is, ok, failed), \A i \in is : i.rule \in ok,
           ruleRows' = [ruleRows EXCEPT ![r] = rows],
           issues' = [issues EXCEPT ![r] = is],
           status' = [status EXCEPT ![r] = Verdict(ok, failed)],
           summary' = [summary EXCEPT ![r] = [ok |-> ok, failed |-> failed, found |-> is]],
           job' = [job EXCEPT ![w] = Idle],
           UNCHANGED <<chosen, metrics, broken>>
    PROVE  IndInv'
<1> USE DEF IndInv
<1> DEFINE sum == [ok |-> ok, failed |-> failed, found |-> is]
<1>1. /\ Idle \in Job /\ Idle.pc = "idle" /\ "idle" \notin EnginePcs
      /\ sum \in Summaries /\ sum.ok = ok /\ sum.failed = failed /\ sum.found = is
      /\ Verdict(ok, failed) \in Finished
  BY DEF Idle, Job, Pcs, EnginePcs, Summaries, Verdict, Finished
<1>2. /\ job' \in [Workers -> Job] /\ job'[w] = Idle
      /\ \A u \in Workers \ {w} : job'[u] = job[u]
  BY <1>1 DEF TypeOK
<1>3. /\ ruleRows' \in [Runs -> SUBSET RuleRowSet] /\ ruleRows'[r] = rows
      /\ issues' \in [Runs -> SUBSET IssueSet] /\ issues'[r] = is
      /\ \A q \in Runs \ {r} : ruleRows'[q] = ruleRows[q] /\ issues'[q] = issues[q]
  BY DEF TypeOK
<1> HIDE DEF sum
<1>4. /\ status' \in [Runs -> Statuses] /\ status'[r] = Verdict(ok, failed)
      /\ summary' \in [Runs -> Summaries \cup {None}] /\ summary'[r] = sum
      /\ \A q \in Runs \ {r} : status'[q] = status[q] /\ summary'[q] = summary[q]
  BY <1>1 DEF TypeOK, Statuses, sum
<1>5. "none" \notin Finished
  BY DEF Finished
<1>6. TypeOK'
  BY <1>1, <1>2, <1>3, <1>4, <1>5 DEF TypeOK, At
<1>7. \A u \in Workers : Busy(u)' =>
         Busy(u) /\ job'[u] = job[u] /\ job[u].run # r /\ job[u].run \in Runs
  BY <1>1, <1>2 DEF Busy, OneEngine, TypeOK, At, EnginePcs
<1>8. OneEngine' /\ \A u \in Workers : RunSound(u)'
  BY <1>3, <1>4, <1>7 DEF OneEngine, RunSound, Counted
<1>9. NothingEarly' /\ SummarySound'
  BY <1>1, <1>3, <1>4, <1>5 DEF NothingEarly, SummarySound
<1>10. Agree(rows, is)
  BY RecordedAgrees
<1>11. AllAgree'
  BY <1>3, <1>10 DEF AllAgree
<1> QED
  BY <1>6, <1>8, <1>9, <1>11

(***************************************************************************)
(* One lemma per action that records something.                            *)
(***************************************************************************)

LEMMA StartRunInv ==
    ASSUME IndInv, NEW w \in Workers, NEW r \in Runs, StartRun(w, r)
    PROVE  IndInv'
<1> USE DEF IndInv
<1>1. PICK rules \in SUBSET Rules :
        /\ chosen' = [chosen EXCEPT ![r] = rules]
        /\ job' = [job EXCEPT ![w] = [Idle EXCEPT !.pc = "load", !.run = r, !.todo = rules]]
  BY DEF StartRun
<1>2. /\ At(w, "idle") /\ status[r] = "none" /\ status' = [status EXCEPT ![r] = "running"]
      /\ UNCHANGED <<summary, ruleRows, issues, metrics, broken>>
  BY DEF StartRun
<1> DEFINE j == [Idle EXCEPT !.pc = "load", !.run = r, !.todo = rules]
<1>3. /\ j \in Job /\ j.pc = "load" /\ j.run = r /\ j.todo = rules
      /\ j.ok = {} /\ j.failed = {} /\ j.found = {}
  BY DEF Idle, Job, Pcs, EnginePcs
<1> HIDE DEF j
<1>4. /\ job' \in [Workers -> Job] /\ job'[w] = j
      /\ \A u \in Workers \ {w} : job'[u] = job[u]
  BY <1>1, <1>3 DEF TypeOK, j
<1>5. /\ status' \in [Runs -> Statuses] /\ status'[r] = "running"
      /\ chosen' \in [Runs -> SUBSET Rules] /\ chosen'[r] = rules
      /\ \A q \in Runs \ {r} : status'[q] = status[q] /\ chosen'[q] = chosen[q]
  BY <1>1, <1>2 DEF TypeOK, Statuses
<1>6. summary[r] = None /\ ruleRows[r] = {} /\ issues[r] = {}
  BY <1>2 DEF NothingEarly
<1>7. TypeOK'
  BY <1>2, <1>3, <1>4, <1>5 DEF TypeOK, At
<1>8. \A u \in Workers \ {w} : Busy(u)' =>
         Busy(u) /\ job'[u] = job[u] /\ job[u].run # r /\ job[u].run \in Runs
  BY <1>2, <1>4 DEF Busy, RunSound, TypeOK, At, EnginePcs
<1>9. OneEngine'
  BY <1>3, <1>4, <1>8 DEF OneEngine
<1>10. ASSUME NEW u \in Workers PROVE RunSound(u)'
  <2>1. CASE u = w
    <3>1. Recorded({}, {}, {}, {})
      BY DEF Recorded
    <3>2. /\ ruleRows'[r] = {} /\ issues'[r] = {} /\ summary'[r] = None
          /\ chosen'[r] = j.todo /\ job'[u] = j
      BY <1>2, <1>3, <1>4, <1>5, <1>6, <2>1
    <3>3. Counted(r, j, {}, {})'
      BY <1>3, <3>1, <3>2 DEF Counted
    <3> QED
      BY <1>3, <1>5, <3>2, <3>3 DEF RunSound
  <2>2. CASE u # w
    BY <1>2, <1>5, <1>8, <2>2 DEF RunSound, Counted
  <2> QED
    BY <2>1, <2>2
<1>11. NothingEarly' /\ SummarySound' /\ AllAgree'
  BY <1>2, <1>5, <1>6 DEF NothingEarly, SummarySound, AllAgree
<1> QED
  BY <1>7, <1>9, <1>10, <1>11

\* What holds of a request in the engine.
LEMMA Working ==
    ASSUME IndInv, NEW w \in Workers, Busy(w)
    PROVE  LET r == job[w].run
           IN  /\ r \in Runs /\ job[w] \in Job
               /\ status[r] = "running" /\ summary[r] = None
               /\ Counted(r, job[w], ruleRows[r], issues[r])
               /\ ruleRows[r] \in SUBSET RuleRowSet /\ issues[r] \in SUBSET IssueSet
<1>1. job[w].run \in Runs /\ job[w] \in Job
  BY DEF IndInv, TypeOK, Busy, At, EnginePcs
<1> QED
  BY <1>1 DEF IndInv, RunSound, TypeOK

LEMMA LoadInv ==
    ASSUME IndInv, NEW w \in Workers, Load(w)
    PROVE  IndInv'
<1> DEFINE r == job[w].run
<1>1. PICK pc \in {"rules", "parallel"} : job' = [job EXCEPT ![w].pc = pc]
  BY DEF Load
<1>2. /\ job[w].pc = "load" /\ Busy(w)
      /\ UNCHANGED <<records, metrics, broken>>
  BY DEF Load, At, Busy, EnginePcs
<1>3. /\ r \in Runs /\ job[w] \in Job /\ Counted(r, job[w], ruleRows[r], issues[r])
      /\ ruleRows[r] \in SUBSET RuleRowSet /\ issues[r] \in SUBSET IssueSet
  BY <1>2, Working
<1> DEFINE j == [job[w] EXCEPT !.pc = pc]
<1>4. /\ j \in Job /\ j.pc = pc /\ j.run = r /\ j.todo = job[w].todo /\ j.ok = job[w].ok
      /\ j.failed = job[w].failed /\ j.found = job[w].found
  BY <1>3 DEF Job, Pcs, EnginePcs
<1>5. job' = [job EXCEPT ![w] = j]
  BY <1>1
<1> HIDE DEF j
<1>6. Counted(r, j, ruleRows[r], issues[r]) /\ j.pc \in EnginePcs
  BY <1>2, <1>3, <1>4 DEF Counted, EnginePcs
<1>7. /\ ruleRows' = [ruleRows EXCEPT ![r] = ruleRows[r]]
      /\ issues' = [issues EXCEPT ![r] = issues[r]]
      /\ UNCHANGED <<status, chosen, summary, metrics, broken>>
  BY <1>2 DEF records, IndInv, TypeOK
<1> HIDE DEF r
<1> QED
  BY <1>2, <1>3, <1>4, <1>5, <1>6, <1>7, RunStep DEF r

LEMMA RulePassesInv ==
    ASSUME IndInv, NEW w \in Workers, RulePasses(w)
    PROVE  IndInv'
<1> DEFINE r == job[w].run
<1>1. PICK rule \in job[w].todo, flagged \in SUBSET Rows :
        /\ ruleRows' = [ruleRows EXCEPT ![r] = @ \cup {RuleRow(rule, flagged, FALSE)}]
        /\ issues' = [issues EXCEPT ![r] = @ \cup Found(rule, flagged)]
        /\ job' = [job EXCEPT ![w].todo = @ \ {rule}, ![w].ok = @ \cup {rule},
                              ![w].found = @ \cup Found(rule, flagged)]
  BY DEF RulePasses
<1>2. /\ job[w].pc = "rules" /\ Busy(w)
      /\ UNCHANGED <<status, chosen, summary, metrics, broken>>
  BY DEF RulePasses, At, Busy, EnginePcs
<1>3. /\ r \in Runs /\ job[w] \in Job /\ Counted(r, job[w], ruleRows[r], issues[r])
      /\ ruleRows[r] \in SUBSET RuleRowSet /\ issues[r] \in SUBSET IssueSet
  BY <1>2, Working
<1> DEFINE rows == ruleRows[r] \cup {RuleRow(rule, flagged, FALSE)}
           is == issues[r] \cup Found(rule, flagged)
           ok == job[w].ok
           failed == job[w].failed
<1>4. /\ ok \in SUBSET Rules /\ failed \in SUBSET Rules
      /\ rule \in Rules \ (ok \cup failed)
      /\ Recorded(ruleRows[r], issues[r], ok, failed)
      /\ \A i \in issues[r] : i.rule \in ok
  BY <1>3 DEF Counted, Job
<1> HIDE DEF r, ok, failed
<1>5. /\ rows \in SUBSET RuleRowSet /\ is \in SUBSET IssueSet
      /\ \A i \in is : i.rule \in ok \cup {rule}
      /\ Recorded(rows, is, ok \cup {rule}, failed)
  <2> DEFINE rows0 == ruleRows[r]
             is0 == issues[r]
  <2>1. /\ rows0 \in SUBSET RuleRowSet /\ is0 \in SUBSET IssueSet
        /\ Recorded(rows0, is0, ok, failed) /\ \A i \in is0 : i.rule \in ok
    BY <1>3, <1>4
  <2> HIDE DEF rows0, is0
  <2>2. /\ rows0 \cup {RuleRow(rule, flagged, FALSE)} \in SUBSET RuleRowSet
        /\ is0 \cup Found(rule, flagged) \in SUBSET IssueSet
    <3>1. RuleRow(rule, flagged, FALSE) \in RuleRowSet
      BY <1>4 DEF RuleRow, RuleRowSet
    <3>2. Found(rule, flagged) \in SUBSET IssueSet
      BY <1>4 DEF Found, IssueSet
    <3> QED
      BY <2>1, <3>1, <3>2
  <2>3. Recorded(rows0 \cup {RuleRow(rule, flagged, FALSE)},
                 is0 \cup Found(rule, flagged), ok \cup {rule}, failed)
    BY <1>4, <2>1, RecordPassed
  <2>4. \A i \in Found(rule, flagged) : i.rule = rule
    BY DEF Found
  <2> QED
    BY <2>1, <2>2, <2>3, <2>4 DEF rows0, is0
<1> DEFINE j == [job[w] EXCEPT !.todo = @ \ {rule}, !.ok = @ \cup {rule},
                               !.found = @ \cup Found(rule, flagged)]
<1>6. job' = [job EXCEPT ![w] = j]
  BY <1>1
<1>7. /\ ruleRows' = [ruleRows EXCEPT ![r] = rows]
      /\ issues' = [issues EXCEPT ![r] = is]
  BY <1>1
<1>8. job[w].found = issues[r] /\ Found(rule, flagged) \in SUBSET IssueSet
  BY <1>3, <1>5 DEF Counted
<1> HIDE DEF rows, is
<1>9. /\ j \in Job /\ j.pc = "rules" /\ j.run = r /\ j.todo = job[w].todo \ {rule}
      /\ j.ok = ok \cup {rule} /\ j.failed = failed
      /\ j.found = issues[r] \cup Found(rule, flagged)
  BY <1>2, <1>3, <1>4, <1>8 DEF Job, r, ok, failed
<1> HIDE DEF j
<1>10. j.found = is
  BY <1>9 DEF is
<1>11. Counted(r, j, rows, is) /\ j.pc \in EnginePcs
  <2>1. /\ chosen[r] = job[w].todo \cup ok \cup failed
        /\ job[w].todo \cap (ok \cup failed) = {} /\ ok \cap failed = {}
    BY <1>3 DEF Counted, ok, failed
  <2>2. /\ chosen[r] = j.todo \cup j.ok \cup j.failed
        /\ j.todo \cap (j.ok \cup j.failed) = {} /\ j.ok \cap j.failed = {}
    BY <1>4, <1>9, <2>1
  <2> QED
    BY <1>5, <1>9, <1>10, <2>2 DEF Counted, EnginePcs
<1> QED
  BY <1>2, <1>3, <1>5, <1>6, <1>7, <1>9, <1>11, RunStep DEF r

LEMMA RuleRaisesInv ==
    ASSUME IndInv, NEW w \in Workers, RuleRaises(w)
    PROVE  IndInv'
<1> DEFINE r == job[w].run
<1>1. PICK rule \in job[w].todo :
        /\ ruleRows' = [ruleRows EXCEPT ![r] = @ \cup {RuleRow(rule, {}, TRUE)}]
        /\ job' = [job EXCEPT ![w].todo = @ \ {rule}, ![w].failed = @ \cup {rule}]
  BY DEF RuleRaises
<1>2. /\ job[w].pc = "rules" /\ Busy(w)
      /\ UNCHANGED <<status, chosen, summary, issues, metrics, broken>>
  BY DEF RuleRaises, At, Busy, EnginePcs
<1>3. /\ r \in Runs /\ job[w] \in Job /\ Counted(r, job[w], ruleRows[r], issues[r])
      /\ ruleRows[r] \in SUBSET RuleRowSet /\ issues[r] \in SUBSET IssueSet
  BY <1>2, Working
<1> DEFINE rows == ruleRows[r] \cup {RuleRow(rule, {}, TRUE)}
           is == issues[r]
           ok == job[w].ok
           failed == job[w].failed
<1>4. /\ ok \in SUBSET Rules /\ failed \in SUBSET Rules
      /\ rule \in Rules /\ rule \notin ok
      /\ Recorded(ruleRows[r], is, ok, failed)
  BY <1>3 DEF Counted, Job
<1> HIDE DEF r, ok, failed
<1>5. rows \in SUBSET RuleRowSet /\ Recorded(rows, is, ok, failed \cup {rule})
  BY <1>3, <1>4, RecordRaised
<1> DEFINE j == [job[w] EXCEPT !.todo = @ \ {rule}, !.failed = @ \cup {rule}]
<1>6. job' = [job EXCEPT ![w] = j]
  BY <1>1
<1>7. ruleRows' = [ruleRows EXCEPT ![r] = rows]
  BY <1>1
<1> HIDE DEF rows
<1>8. issues' = [issues EXCEPT ![r] = is]
  BY <1>2 DEF IndInv, TypeOK
<1>9. /\ j \in Job /\ j.pc = "rules" /\ j.run = r /\ j.todo = job[w].todo \ {rule}
      /\ j.ok = ok /\ j.failed = failed \cup {rule} /\ j.found = job[w].found
  BY <1>2, <1>3, <1>4 DEF Job, r, ok, failed
<1> HIDE DEF j
<1>10. Counted(r, j, rows, is) /\ j.pc \in EnginePcs
  <2>1. /\ chosen[r] = job[w].todo \cup ok \cup failed
        /\ job[w].todo \cap (ok \cup failed) = {} /\ ok \cap failed = {}
        /\ is = job[w].found /\ \A i \in is : i.rule \in ok
    BY <1>3 DEF Counted, ok, failed
  <2>2. /\ chosen[r] = j.todo \cup j.ok \cup j.failed
        /\ j.todo \cap (j.ok \cup j.failed) = {} /\ j.ok \cap j.failed = {}
    BY <1>4, <1>9, <2>1
  <2> QED
    BY <1>5, <1>9, <2>1, <2>2 DEF Counted, EnginePcs
<1> QED
  BY <1>2, <1>3, <1>5, <1>6, <1>7, <1>8, <1>9, <1>10, RunStep DEF r

LEMMA FinishInv ==
    ASSUME IndInv, NEW w \in Workers, Finish(w)
    PROVE  IndInv'
<1> DEFINE r == job[w].run
<1>1. /\ job[w].pc = "rules" /\ Busy(w) /\ job[w].todo = {}
      /\ status' = [status EXCEPT ![r] = Verdict(job[w].ok, job[w].failed)]
      /\ summary' = [summary EXCEPT ![r] =
            [ok |-> job[w].ok, failed |-> job[w].failed, found |-> job[w].found]]
      /\ job' = [job EXCEPT ![w] = Idle]
      /\ UNCHANGED <<chosen, ruleRows, issues, metrics, broken>>
  BY DEF Finish, At, Busy, EnginePcs
<1>2. /\ r \in Runs /\ job[w] \in Job /\ Counted(r, job[w], ruleRows[r], issues[r])
      /\ ruleRows[r] \in SUBSET RuleRowSet /\ issues[r] \in SUBSET IssueSet
  BY <1>1, Working
<1>3. /\ job[w].ok \in SUBSET Rules /\ job[w].failed \in SUBSET Rules
      /\ job[w].ok \cup job[w].failed = chosen[r] /\ job[w].ok \cap job[w].failed = {}
      /\ job[w].found = issues[r] /\ \A i \in issues[r] : i.rule \in job[w].ok
      /\ Recorded(ruleRows[r], issues[r], job[w].ok, job[w].failed)
  BY <1>1, <1>2 DEF Counted, Job
<1>4. /\ ruleRows' = [ruleRows EXCEPT ![r] = ruleRows[r]]
      /\ issues' = [issues EXCEPT ![r] = issues[r]]
  BY <1>1 DEF IndInv, TypeOK
<1>5. summary' = [summary EXCEPT ![r] =
         [ok |-> job[w].ok, failed |-> job[w].failed, found |-> issues[r]]]
  BY <1>1, <1>3
<1> DEFINE rows == ruleRows[r]
           is == issues[r]
           ok == job[w].ok
           failed == job[w].failed
<1>6. /\ rows \in SUBSET RuleRowSet /\ is \in SUBSET IssueSet
      /\ ok \in SUBSET Rules /\ failed \in SUBSET Rules
      /\ ok \cup failed = chosen[r] /\ ok \cap failed = {}
      /\ \A i \in is : i.rule \in ok
      /\ Recorded(rows, is, ok, failed)
      /\ ruleRows' = [ruleRows EXCEPT ![r] = rows] /\ issues' = [issues EXCEPT ![r] = is]
      /\ status' = [status EXCEPT ![r] = Verdict(ok, failed)]
      /\ summary' = [summary EXCEPT ![r] = [ok |-> ok, failed |-> failed, found |-> is]]
  BY <1>1, <1>2, <1>3, <1>4, <1>5
<1>7. /\ r \in Runs /\ Busy(w) /\ job' = [job EXCEPT ![w] = Idle]
      /\ UNCHANGED <<chosen, metrics, broken>>
  BY <1>1, <1>2
<1> HIDE DEF rows, is, ok, failed
<1> QED
  BY <1>6, <1>7, LastStep

LEMMA FinishParallelInv ==
    ASSUME IndInv, NEW w \in Workers, FinishParallel(w)
    PROVE  IndInv'
<1> DEFINE r == job[w].run
<1>1. /\ job[w].pc = "parallel" /\ Busy(w)
      /\ job' = [job EXCEPT ![w] = Idle]
      /\ UNCHANGED <<chosen, metrics, broken>>
  BY DEF FinishParallel, At, Busy, EnginePcs
<1>2. PICK ok \in SUBSET job[w].todo : \E flagged \in [ok -> SUBSET Rows] :
        LET failed == job[w].todo \ ok
            found == UNION {Found(rule, flagged[rule]) : rule \in ok}
        IN  /\ ruleRows' = [ruleRows EXCEPT ![r] =
                   @ \cup {RuleRow(rule, flagged[rule], FALSE) : rule \in ok}
                     \cup {RuleRow(rule, {}, TRUE) : rule \in failed}]
            /\ issues' = [issues EXCEPT ![r] = @ \cup found]
            /\ status' = [status EXCEPT ![r] = Verdict(ok, failed)]
            /\ summary' = [summary EXCEPT ![r] =
                   [ok |-> ok, failed |-> failed, found |-> found]]
  BY DEF FinishParallel
<1> DEFINE failed == job[w].todo \ ok
<1>3. PICK flagged \in [ok -> SUBSET Rows] :
        LET found == UNION {Found(rule, flagged[rule]) : rule \in ok}
        IN  /\ ruleRows' = [ruleRows EXCEPT ![r] =
                   @ \cup {RuleRow(rule, flagged[rule], FALSE) : rule \in ok}
                     \cup {RuleRow(rule, {}, TRUE) : rule \in failed}]
            /\ issues' = [issues EXCEPT ![r] = @ \cup found]
            /\ status' = [status EXCEPT ![r] = Verdict(ok, failed)]
            /\ summary' = [summary EXCEPT ![r] =
                   [ok |-> ok, failed |-> failed, found |-> found]]
  BY <1>2
<1> DEFINE found == UNION {Found(rule, flagged[rule]) : rule \in ok}
           rows == {RuleRow(rule, flagged[rule], FALSE) : rule \in ok}
                     \cup {RuleRow(rule, {}, TRUE) : rule \in failed}
<1>4. /\ r \in Runs /\ job[w] \in Job /\ Counted(r, job[w], ruleRows[r], issues[r])
  BY <1>1, Working
<1>5. /\ ok \in SUBSET Rules /\ failed \in SUBSET Rules
      /\ ok \cup failed = chosen[r] /\ ok \cap failed = {}
  BY <1>1, <1>4 DEF Counted, Job
<1>6. ruleRows[r] = {} /\ issues[r] = {}
  BY <1>1, <1>4 DEF Counted, Recorded
<1>7. /\ ruleRows' = [ruleRows EXCEPT ![r] = rows] /\ issues' = [issues EXCEPT ![r] = found]
      /\ status' = [status EXCEPT ![r] = Verdict(ok, failed)]
      /\ summary' = [summary EXCEPT ![r] = [ok |-> ok, failed |-> failed, found |-> found]]
  <2>1. ruleRows[r] \cup {RuleRow(rule, flagged[rule], FALSE) : rule \in ok}
            \cup {RuleRow(rule, {}, TRUE) : rule \in failed} = rows
        /\ issues[r] \cup found = found
    BY <1>6
  <2> QED
    BY <1>3, <2>1
<1>8. \A i \in found : i.rule \in ok /\ i.row \in flagged[i.rule] /\ i \in IssueSet
  <2> SUFFICES ASSUME NEW rule \in ok, NEW i \in Found(rule, flagged[rule])
               PROVE  i.rule \in ok /\ i.row \in flagged[i.rule] /\ i \in IssueSet
    OBVIOUS
  <2>1. PICK x \in flagged[rule] : i = [rule |-> rule, row |-> x]
    BY DEF Found
  <2>2. rule \in Rules /\ x \in Rows
    BY <1>5
  <2> QED
    BY <2>1, <2>2 DEF IssueSet
<1>9. \A rule \in ok : \A x \in flagged[rule] : [rule |-> rule, row |-> x] \in found
  BY DEF Found
<1>10. ASSUME NEW rule \in ok PROVE Flagged(found, rule) = flagged[rule]
  <2> HIDE DEF found
  <2>1. ASSUME NEW x \in flagged[rule] PROVE x \in Flagged(found, rule)
    <3>1. /\ [rule |-> rule, row |-> x] \in {k \in found : k.rule = rule}
          /\ [rule |-> rule, row |-> x].row = x
      BY <1>9
    <3> QED
      BY <3>1 DEF Flagged
  <2>2. ASSUME NEW x \in Flagged(found, rule) PROVE x \in flagged[rule]
    BY <1>8 DEF Flagged
  <2> QED
    BY <2>1, <2>2
<1>11. rows \in SUBSET RuleRowSet
  <2>1. \A rule \in ok : RuleRow(rule, flagged[rule], FALSE) \in RuleRowSet
    BY <1>5 DEF RuleRow, RuleRowSet
  <2>2. \A rule \in failed : RuleRow(rule, {}, TRUE) \in RuleRowSet
    BY <1>5 DEF RuleRow, RuleRowSet
  <2> QED
    BY <2>1, <2>2
<1>12. Recorded(rows, found, ok, failed)
  <2>1. \A rule \in ok : RuleRow(rule, Flagged(found, rule), FALSE) \in rows
    BY <1>10
  <2>2. \A rule \in failed : RuleRow(rule, {}, TRUE) \in rows
    OBVIOUS
  <2>3. ASSUME NEW x \in rows
        PROVE  IF x.note THEN x.rule \in failed /\ x.flagged = {}
                         ELSE x.rule \in ok /\ x.flagged = Flagged(found, x.rule)
    <3>1. CASE \E rule \in ok : x = RuleRow(rule, flagged[rule], FALSE)
      BY <1>10, <3>1 DEF RuleRow
    <3>2. CASE \E rule \in failed : x = RuleRow(rule, {}, TRUE)
      BY <3>2 DEF RuleRow
    <3> QED
      BY <2>3, <3>1, <3>2
  <2> HIDE DEF rows, found, failed
  <2> QED
    BY <2>1, <2>2, <2>3 DEF Recorded
<1>13. found \in SUBSET IssueSet /\ \A i \in found : i.rule \in ok
  BY <1>8
<1> HIDE DEF r, rows, found, failed
<1> QED
  BY <1>1, <1>4, <1>5, <1>7, <1>11, <1>12, <1>13, LastStep DEF r

(***************************************************************************)
(* The actions that record nothing about a run.                            *)
(***************************************************************************)

LEMMA IdleIsQuiet == Idle \in Job /\ Idle.pc = "idle" /\ "idle" \notin EnginePcs
  BY DEF Idle, Job, Pcs, EnginePcs

\* A request ends without recording anything.
LEMMA ReturnInv ==
    ASSUME IndInv, NEW w \in Workers, RunRaises(w) \/ WorkerKilled(w) \/ Cancel(w) \/ MetricsFail(w)
    PROVE  IndInv'
<1>1. job' = [job EXCEPT ![w] = Idle] /\ UNCHANGED <<records, metrics>>
  BY DEF RunRaises, WorkerKilled, Cancel, MetricsFail
<1>2. metrics' \in [Runs -> Metrics \cup {None}]
  BY <1>1 DEF IndInv, TypeOK
<1>3. broken' \in [Runs -> {"no", "raised", "killed"}]
  BY DEF RunRaises, WorkerKilled, Cancel, MetricsFail, IndInv, TypeOK
<1> QED
  BY <1>1, <1>2, <1>3, IdleIsQuiet, QuietStep

LEMMA BeginInv ==
    ASSUME IndInv, NEW w \in Workers, NEW r \in Runs, ReadForCancel(w, r) \/ CheckCache(w, r)
    PROVE  IndInv'
<1>1. PICK pc \in {"cancel", "readRules"} :
        job' = [job EXCEPT ![w] = [Idle EXCEPT !.pc = pc, !.run = r]]
  BY DEF ReadForCancel, CheckCache
<1>2. status[r] # "none" /\ UNCHANGED <<records, metrics, broken>>
  BY DEF ReadForCancel, CheckCache
<1> DEFINE j == [Idle EXCEPT !.pc = pc, !.run = r]
<1>3. j \in Job /\ j.run = r /\ j.pc \notin EnginePcs
  BY DEF Idle, Job, Pcs, EnginePcs
<1> HIDE DEF j
<1>4. /\ metrics' \in [Runs -> Metrics \cup {None}]
      /\ broken' \in [Runs -> {"no", "raised", "killed"}]
  BY <1>2 DEF IndInv, TypeOK
<1> QED
  BY <1>1, <1>2, <1>3, <1>4, QuietStep DEF j

\* The rows of a run of which the issues are read are typed.
LEMMA ReadingInv ==
    ASSUME IndInv, NEW w \in Workers, ReadRules(w) \/ ReadIssues(w)
    PROVE  IndInv'
<1>1. /\ job[w].pc \in {"readRules", "readIssues"} /\ UNCHANGED <<records, metrics, broken>>
      /\ job[w] \in Job /\ job[w].run \in Runs /\ status[job[w].run] # "none"
  BY DEF ReadRules, ReadIssues, At, IndInv, TypeOK
<1>2. /\ ruleRows[job[w].run] \in SUBSET RuleRowSet
      /\ DirtyRows(job[w].run) \in SUBSET Rows
  BY <1>1 DEF IndInv, TypeOK, DirtyRows, IssueSet
<1>3. PICK pc \in {"cache", "readIssues"}, seen \in SUBSET RuleRowSet, dirty \in SUBSET Rows :
        job' = [job EXCEPT ![w] = [job[w] EXCEPT !.pc = pc, !.seen = seen, !.dirty = dirty]]
  <2>1. CASE ReadRules(w)
    <3> DEFINE pc == IF ruleRows[job[w].run] = {} THEN "cache" ELSE "readIssues"
               seen == ruleRows[job[w].run]
    <3>1. job' = [job EXCEPT ![w] = [job[w] EXCEPT !.pc = pc, !.seen = seen, !.dirty = job[w].dirty]]
      BY <1>1, <2>1 DEF ReadRules, Job
    <3>2. job[w].dirty \in SUBSET Rows /\ pc \in {"cache", "readIssues"} /\ seen \in SUBSET RuleRowSet
      BY <1>1, <1>2 DEF Job
    <3> HIDE DEF pc, seen
    <3> QED
      BY <3>1, <3>2
  <2>2. CASE ReadIssues(w)
    <3> DEFINE dirty == DirtyRows(job[w].run)
    <3>1. job' = [job EXCEPT ![w] =
                    [job[w] EXCEPT !.pc = "cache", !.seen = job[w].seen, !.dirty = dirty]]
      BY <1>1, <2>2 DEF ReadIssues, Job
    <3>2. job[w].seen \in SUBSET RuleRowSet /\ dirty \in SUBSET Rows
      BY <1>1, <1>2 DEF Job
    <3> HIDE DEF dirty
    <3> QED
      BY <3>1, <3>2
  <2> QED
    BY <2>1, <2>2
<1> DEFINE j == [job[w] EXCEPT !.pc = pc, !.seen = seen, !.dirty = dirty]
<1>4. j \in Job /\ j.run = job[w].run /\ j.pc \notin EnginePcs
  BY <1>1 DEF Job, Pcs, EnginePcs
<1> HIDE DEF j
<1>5. /\ metrics' \in [Runs -> Metrics \cup {None}]
      /\ broken' \in [Runs -> {"no", "raised", "killed"}]
  BY <1>1 DEF IndInv, TypeOK
<1> QED
  BY <1>1, <1>3, <1>4, <1>5, QuietStep DEF j

LEMMA CacheMetricsInv ==
    ASSUME IndInv, NEW w \in Workers, CacheMetrics(w)
    PROVE  IndInv'
<1>1. /\ job' = [job EXCEPT ![w] = Idle] /\ UNCHANGED <<records, broken>>
      /\ job[w] \in Job
      /\ metrics' = [metrics EXCEPT ![job[w].run] = Computed(job[w].seen, job[w].dirty)]
  BY DEF CacheMetrics, IndInv, TypeOK
<1>2. Computed(job[w].seen, job[w].dirty) \in Metrics
  <2>1. job[w].seen \in SUBSET RuleRowSet /\ job[w].dirty \in SUBSET Rows
    BY <1>1 DEF Job
  <2>2. \A x \in job[w].seen :
           [rule |-> x.rule, flagged |-> x.flagged] \in [rule : Rules, flagged : SUBSET Rows]
    BY <2>1 DEF RuleRowSet
  <2>3. {[rule |-> x.rule, flagged |-> x.flagged] : x \in job[w].seen}
           \in SUBSET [rule : Rules, flagged : SUBSET Rows]
    BY <2>2
  <2>4. NotAvailable \in Metrics
    BY DEF NotAvailable, Metrics
  <2> QED
    BY <2>1, <2>3, <2>4 DEF Computed, Metrics
<1>3. metrics' \in [Runs -> Metrics \cup {None}]
  BY <1>1, <1>2 DEF IndInv, TypeOK
<1>4. broken' \in [Runs -> {"no", "raised", "killed"}]
  BY <1>1 DEF IndInv, TypeOK
<1> QED
  <2>1. job' = [job EXCEPT ![w] = Idle] /\ UNCHANGED records
    BY <1>1
  <2> QED
    BY <1>3, <1>4, <2>1, IdleIsQuiet, QuietStep

LEMMA StepIndInv == IndInv /\ [Next]_vars => IndInv'
<1> SUFFICES ASSUME IndInv, [Next]_vars PROVE IndInv'
  OBVIOUS
<1>1. ASSUME NEW w \in Workers, NEW r \in Runs, StartRun(w, r) PROVE IndInv'
  BY <1>1, StartRunInv
<1>2. ASSUME NEW w \in Workers, NEW r \in Runs, ReadForCancel(w, r) \/ CheckCache(w, r)
      PROVE  IndInv'
  BY <1>2, BeginInv
<1>3. ASSUME NEW w \in Workers, Engine(w) PROVE IndInv'
  BY <1>3, LoadInv, RulePassesInv, RuleRaisesInv, FinishInv, FinishParallelInv DEF Engine
<1>4. ASSUME NEW w \in Workers, QualityMetrics(w) PROVE IndInv'
  BY <1>4, ReadingInv, CacheMetricsInv DEF QualityMetrics
<1>5. ASSUME NEW w \in Workers,
             RunRaises(w) \/ WorkerKilled(w) \/ Cancel(w) \/ MetricsFail(w)
      PROVE  IndInv'
  BY <1>5, ReturnInv
<1>6. CASE UNCHANGED vars
  <2>1. /\ status' = status /\ chosen' = chosen /\ summary' = summary /\ job' = job
        /\ ruleRows' = ruleRows /\ issues' = issues /\ metrics' = metrics /\ broken' = broken
    BY <1>6 DEF vars, records
  <2>2. TypeOK'
    BY <2>1 DEF IndInv, TypeOK, At
  <2>3. OneEngine' /\ \A w \in Workers : RunSound(w)'
    BY <2>1 DEF IndInv, OneEngine, RunSound, Counted, Busy
  <2>4. NothingEarly' /\ SummarySound' /\ AllAgree'
    BY <2>1 DEF IndInv, NothingEarly, SummarySound, AllAgree
  <2> QED
    BY <2>2, <2>3, <2>4 DEF IndInv
<1> QED
  BY <1>1, <1>2, <1>3, <1>4, <1>5, <1>6 DEF Next

(***************************************************************************)
(* Theorems.                                                               *)
(***************************************************************************)

\* The inductive invariant holds in every reachable state.
THEOREM Invariance == Spec => []IndInv
  BY InitIndInv, StepIndInv, PTL DEF Spec

\* Every variable keeps its type, and a request belongs to a run that exists.
THEOREM TypeCorrect == Spec => []TypeOK
<1>1. IndInv => TypeOK
  BY DEF IndInv
<1> QED
  BY <1>1, Invariance, PTL

\* The summary, status, rows and issues of a finished run agree.
THEOREM OutcomeRecorded == Spec => []OutcomeIsRecorded
<1>1. IndInv => OutcomeIsRecorded
  <2> SUFFICES ASSUME IndInv, NEW r \in Runs, summary[r] # None
               PROVE  /\ summary[r].ok \cup summary[r].failed = chosen[r]
                      /\ {x \in ruleRows[r] : ~x.note} =
                            {RuleRow(rule, Flagged(issues[r], rule), FALSE) : rule \in summary[r].ok}
                      /\ {x \in ruleRows[r] : x.note} =
                            {RuleRow(rule, {}, TRUE) : rule \in summary[r].failed}
                      /\ issues[r] = summary[r].found
                      /\ status[r] = Verdict(summary[r].ok, summary[r].failed)
    BY DEF OutcomeIsRecorded, Flagged
  <2>1. /\ ruleRows[r] \in SUBSET RuleRowSet /\ issues[r] \in SUBSET IssueSet
        /\ summary[r].ok \in SUBSET Rules /\ summary[r].failed \in SUBSET Rules
    BY DEF IndInv, TypeOK, Summaries
  <2>2. /\ summary[r].ok \cup summary[r].failed = chosen[r]
        /\ Recorded(ruleRows[r], issues[r], summary[r].ok, summary[r].failed)
        /\ issues[r] = summary[r].found
        /\ status[r] = Verdict(summary[r].ok, summary[r].failed)
    BY DEF IndInv, SummarySound
  <2> DEFINE rows == ruleRows[r]
             is == issues[r]
             ok == summary[r].ok
             failed == summary[r].failed
  <2>3. /\ rows \in SUBSET RuleRowSet /\ is \in SUBSET IssueSet
        /\ ok \in SUBSET Rules /\ failed \in SUBSET Rules /\ Recorded(rows, is, ok, failed)
    BY <2>1, <2>2
  <2> HIDE DEF rows, is, ok, failed
  <2>4. /\ {x \in rows : ~x.note} = {RuleRow(rule, Flagged(is, rule), FALSE) : rule \in ok}
        /\ {x \in rows : x.note} = {RuleRow(rule, {}, TRUE) : rule \in failed}
    BY <2>3, RecordedOutcome
  <2> QED
    BY <2>2, <2>4 DEF rows, is, ok, failed
<1> QED
  BY <1>1, Invariance, PTL

\* A rule's row and its issues agree at every moment.
THEOREM RowsAgree == Spec => []RowsAgreeWithIssues
<1>1. IndInv => RowsAgreeWithIssues
  BY DEF IndInv, AllAgree, Agree, RowsAgreeWithIssues, Flagged
<1> QED
  BY <1>1, Invariance, PTL

\* A finished run is final.
THEOREM FinishedFinal == Spec => FinishedIsFinal
<1> DEFINE A == \A r \in Runs : status[r] \in Finished =>
                    /\ status'[r] = status[r]
                    /\ ruleRows'[r] = ruleRows[r]
                    /\ issues'[r] = issues[r]
<1>1. IndInv /\ Next => A
  <2> SUFFICES ASSUME IndInv, Next, NEW r \in Runs, status[r] \in Finished
               PROVE  status'[r] = status[r] /\ ruleRows'[r] = ruleRows[r] /\ issues'[r] = issues[r]
    OBVIOUS
  <2> DEFINE Same == status'[r] = status[r] /\ ruleRows'[r] = ruleRows[r] /\ issues'[r] = issues[r]
  <2>1. ASSUME NEW w \in Workers, NEW q \in Runs, StartRun(w, q) PROVE Same
    <3>1. q # r
      BY <2>1 DEF StartRun, Finished
    <3> QED
      BY <2>1, <3>1 DEF StartRun, IndInv, TypeOK
  <2>2. ASSUME NEW w \in Workers, Engine(w) PROVE Same
    <3>1. Busy(w)
      BY <2>2 DEF Engine, Load, RulePasses, RuleRaises, Finish, FinishParallel, At, Busy, EnginePcs
    <3>2. job[w].run # r /\ job[w].run \in Runs
      BY <3>1, Working DEF Finished
    <3>3. CASE Load(w)
      BY <3>3 DEF Load, records
    <3>4. CASE RulePasses(w) \/ RuleRaises(w) \/ Finish(w) \/ FinishParallel(w)
      <4>1. /\ UNCHANGED status \/ \E s : status' = [status EXCEPT ![job[w].run] = s]
            /\ UNCHANGED ruleRows \/ \E s : ruleRows' = [ruleRows EXCEPT ![job[w].run] = s]
            /\ UNCHANGED issues \/ \E s : issues' = [issues EXCEPT ![job[w].run] = s]
        <5>1. CASE RulePasses(w)
          BY <5>1 DEF RulePasses
        <5>2. CASE RuleRaises(w)
          BY <5>2 DEF RuleRaises
        <5>3. CASE Finish(w)
          BY <5>3 DEF Finish
        <5>4. CASE FinishParallel(w)
          BY <5>4 DEF FinishParallel
        <5> QED
          BY <3>4, <5>1, <5>2, <5>3, <5>4
      <4> QED
        BY <3>2, <4>1 DEF IndInv, TypeOK
    <3> QED
      BY <2>2, <3>3, <3>4 DEF Engine
  <2>3. CASE UNCHANGED records
    BY <2>3 DEF records
  <2>4. \/ \E w \in Workers, q \in Runs : StartRun(w, q)
        \/ \E w \in Workers : Engine(w)
        \/ UNCHANGED records
    BY DEF Next, ReadForCancel, CheckCache, Cancel, QualityMetrics, ReadRules, ReadIssues,
           CacheMetrics, RunRaises, WorkerKilled, MetricsFail
  <2> QED
    BY <2>1, <2>2, <2>3, <2>4
<1>2. UNCHANGED vars => A
  BY DEF vars, records
<1>3. IndInv /\ [Next]_vars => [A]_vars
  BY <1>1, <1>2
<1> QED
  BY <1>3, Invariance, PTL DEF Spec, FinishedIsFinal

(***************************************************************************)
(* The cached metrics add up: what is recorded only grows.                 *)
(***************************************************************************)

\* What a request for metrics has read is recorded, and its issues cover its rules.
ReadSound(w) ==
    /\ At(w, "readIssues") => job[w].seen \subseteq ruleRows[job[w].run]
    /\ At(w, "cache") => AddsUp(Computed(job[w].seen, job[w].dirty), job[w].run)

AddUpInv == (\A w \in Workers : ReadSound(w)) /\ MetricsAddUp

\* Rows and issues are only added to.
LEMMA Grows ==
    ASSUME IndInv, [Next]_vars, NEW r \in Runs
    PROVE  ruleRows[r] \subseteq ruleRows'[r] /\ issues[r] \subseteq issues'[r]
<1> DEFINE Grown == ruleRows[r] \subseteq ruleRows'[r] /\ issues[r] \subseteq issues'[r]
<1>t. ruleRows \in [Runs -> SUBSET RuleRowSet] /\ issues \in [Runs -> SUBSET IssueSet]
  BY DEF IndInv, TypeOK
<1>1. ASSUME NEW w \in Workers, RulePasses(w) PROVE Grown
  <2>1. /\ \E more : ruleRows' = [ruleRows EXCEPT ![job[w].run] = @ \cup more]
        /\ \E more : issues' = [issues EXCEPT ![job[w].run] = @ \cup more]
    BY <1>1 DEF RulePasses
  <2> QED
    BY <1>t, <2>1
<1>2. ASSUME NEW w \in Workers, RuleRaises(w) PROVE Grown
  <2>1. /\ \E more : ruleRows' = [ruleRows EXCEPT ![job[w].run] = @ \cup more]
        /\ UNCHANGED issues
    BY <1>2 DEF RuleRaises
  <2> QED
    BY <1>t, <2>1
<1>3. ASSUME NEW w \in Workers, FinishParallel(w) PROVE Grown
  <2>1. /\ \E more : ruleRows' = [ruleRows EXCEPT ![job[w].run] = @ \cup more]
        /\ \E more : issues' = [issues EXCEPT ![job[w].run] = @ \cup more]
    <3>1. PICK ok \in SUBSET job[w].todo : \E flagged \in [ok -> SUBSET Rows] :
             /\ ruleRows' = [ruleRows EXCEPT ![job[w].run] =
                    @ \cup {RuleRow(rule, flagged[rule], FALSE) : rule \in ok}
                      \cup {RuleRow(rule, {}, TRUE) : rule \in job[w].todo \ ok}]
             /\ issues' = [issues EXCEPT ![job[w].run] =
                    @ \cup UNION {Found(rule, flagged[rule]) : rule \in ok}]
      BY <1>3 DEF FinishParallel
    <3>2. PICK flagged \in [ok -> SUBSET Rows] :
             /\ ruleRows' = [ruleRows EXCEPT ![job[w].run] =
                    @ \cup {RuleRow(rule, flagged[rule], FALSE) : rule \in ok}
                      \cup {RuleRow(rule, {}, TRUE) : rule \in job[w].todo \ ok}]
             /\ issues' = [issues EXCEPT ![job[w].run] =
                    @ \cup UNION {Found(rule, flagged[rule]) : rule \in ok}]
      BY <3>1
    <3> DEFINE passed == {RuleRow(rule, flagged[rule], FALSE) : rule \in ok}
               raised == {RuleRow(rule, {}, TRUE) : rule \in job[w].todo \ ok}
               found == UNION {Found(rule, flagged[rule]) : rule \in ok}
    <3>3. /\ ruleRows' = [ruleRows EXCEPT ![job[w].run] = @ \cup passed \cup raised]
          /\ issues' = [issues EXCEPT ![job[w].run] = @ \cup found]
      BY <3>2
    <3> HIDE DEF passed, raised, found
    <3>4. ruleRows' = [ruleRows EXCEPT ![job[w].run] = @ \cup (passed \cup raised)]
      <4>1. ruleRows[job[w].run] \cup passed \cup raised
              = ruleRows[job[w].run] \cup (passed \cup raised)
        OBVIOUS
      <4> QED
        BY <3>3, <4>1
    <3> QED
      BY <3>3, <3>4
  <2> QED
    BY <1>t, <2>1
<1>4. CASE UNCHANGED <<ruleRows, issues>>
  BY <1>4
<1>5. \/ UNCHANGED <<ruleRows, issues>>
      \/ \E w \in Workers : RulePasses(w) \/ RuleRaises(w) \/ FinishParallel(w)
  BY DEF Next, vars, records, Engine, QualityMetrics, StartRun, Load, Finish, ReadForCancel,
         CheckCache, Cancel, ReadRules, ReadIssues, CacheMetrics, RunRaises, WorkerKilled, MetricsFail
<1> QED
  BY <1>1, <1>2, <1>3, <1>4, <1>5

\* So what added up goes on to.
LEMMA StillAddsUp ==
    ASSUME NEW m, NEW r, AddsUp(m, r), ruleRows[r] \subseteq ruleRows'[r],
           issues[r] \subseteq issues'[r]
    PROVE  AddsUp(m, r)'
<1>1. DirtyRows(r) \subseteq DirtyRows(r)'
  BY DEF DirtyRows
<1> QED
  BY <1>1 DEF AddsUp

LEMMA NothingAddsUp == ASSUME NEW r, NEW dirty PROVE AddsUp(Computed({}, dirty), r)
  BY DEF Computed, NotAvailable, AddsUp

\* Rules that are recorded add up with all the issues of their run.
LEMMA ComputedAddsUp ==
    ASSUME AllAgree, NEW r \in Runs, NEW rows, rows \subseteq ruleRows[r]
    PROVE  AddsUp(Computed(rows, DirtyRows(r)), r)
<1>1. CASE rows = {}
  BY <1>1, NothingAddsUp
<1>2. CASE rows # {}
  <2> DEFINE m == Computed(rows, DirtyRows(r))
  <2>1. m.dqi = {[rule |-> x.rule, flagged |-> x.flagged] : x \in rows} /\ m.dirty = DirtyRows(r)
    BY <1>2 DEF Computed
  <2> HIDE DEF m
  <2>2. \A x \in m.dqi : \E y \in ruleRows[r] : x.rule = y.rule /\ x.flagged = y.flagged
    BY <2>1
  <2>3. \A y \in ruleRows[r] : y.flagged \subseteq DirtyRows(r)
    <3>1. \A y \in ruleRows[r] : y.flagged = Flagged(issues[r], y.rule)
      BY DEF AllAgree, Agree
    <3> QED
      BY <3>1 DEF Flagged, DirtyRows
  <2>4. AddsUp(m, r)
    BY <2>1, <2>2, <2>3 DEF AddsUp
  <2> QED
    BY <2>4 DEF m
<1> QED
  BY <1>1, <1>2

LEMMA StepAddUp == IndInv /\ AddUpInv /\ [Next]_vars => AddUpInv'
<1> SUFFICES ASSUME IndInv, AddUpInv, [Next]_vars PROVE AddUpInv'
  OBVIOUS
<1>t. /\ job \in [Workers -> Job] /\ metrics \in [Runs -> Metrics \cup {None}] /\ AllAgree
      /\ \A w \in Workers : ~At(w, "idle") => job[w].run \in Runs
  BY DEF IndInv, TypeOK
<1>g. \A r \in Runs : ruleRows[r] \subseteq ruleRows'[r] /\ issues[r] \subseteq issues'[r]
  BY Grows
<1>1. ASSUME NEW w \in Workers, job'[w] = job[w] PROVE ReadSound(w)'
  <2>1. CASE At(w, "readIssues")
    <3>1. job[w].seen \subseteq ruleRows[job[w].run] /\ job[w].run \in Runs
      BY <1>t, <2>1 DEF AddUpInv, ReadSound, At
    <3> QED
      BY <1>1, <1>g, <2>1, <3>1 DEF ReadSound, At
  <2>2. CASE At(w, "cache")
    <3>1. AddsUp(Computed(job[w].seen, job[w].dirty), job[w].run) /\ job[w].run \in Runs
      BY <1>t, <2>2 DEF AddUpInv, ReadSound, At
    <3>2. AddsUp(Computed(job[w].seen, job[w].dirty), job[w].run)'
      BY <1>1, <1>g, <3>1, StillAddsUp DEF AddsUp, Computed, DirtyRows, NotAvailable
    <3> QED
      BY <1>1, <2>2, <3>2 DEF ReadSound, At
  <2>3. CASE ~At(w, "readIssues") /\ ~At(w, "cache")
    BY <1>1, <2>3 DEF ReadSound, At
  <2> QED
    BY <2>1, <2>2, <2>3
<1>2. ASSUME NEW w \in Workers, job'[w].pc \notin {"readIssues", "cache"} PROVE ReadSound(w)'
  BY <1>2 DEF ReadSound, At
<1>3. ASSUME NEW w \in Workers, ReadRules(w) PROVE ReadSound(w)'
  <2>1. /\ job'[w].pc = (IF ruleRows[job[w].run] = {} THEN "cache" ELSE "readIssues")
        /\ job'[w].seen = ruleRows[job[w].run] /\ job'[w].run = job[w].run
        /\ UNCHANGED ruleRows
    BY <1>t, <1>3 DEF ReadRules, Job, records
  <2>2. CASE ruleRows[job[w].run] = {}
    <3>1. AddsUp(Computed(job[w].seen, job[w].dirty), job[w].run)'
      BY <2>1, <2>2 DEF AddsUp, Computed, NotAvailable
    <3> QED
      BY <2>1, <2>2, <3>1 DEF ReadSound, At
  <2>3. CASE ruleRows[job[w].run] # {}
    BY <2>1, <2>3 DEF ReadSound, At
  <2> QED
    BY <2>2, <2>3
<1>4. ASSUME NEW w \in Workers, ReadIssues(w) PROVE ReadSound(w)'
  <2>1. /\ job'[w].pc = "cache" /\ job'[w].seen = job[w].seen
        /\ job'[w].dirty = DirtyRows(job[w].run) /\ job'[w].run = job[w].run
        /\ UNCHANGED <<ruleRows, issues>>
    BY <1>t, <1>4 DEF ReadIssues, Job, records
  <2>2. job[w].seen \subseteq ruleRows[job[w].run] /\ job[w].run \in Runs
    BY <1>t, <1>4 DEF ReadIssues, AddUpInv, ReadSound, At
  <2>3. AddsUp(Computed(job[w].seen, DirtyRows(job[w].run)), job[w].run)
    BY <1>t, <2>2, ComputedAddsUp
  <2>4. AddsUp(Computed(job[w].seen, job[w].dirty), job[w].run)'
    BY <2>1, <2>3 DEF AddsUp, Computed, DirtyRows, NotAvailable
  <2> QED
    BY <2>1, <2>4 DEF ReadSound, At
<1>5. ASSUME NEW w \in Workers PROVE ReadSound(w)'
  <2>1. \/ job'[w] = job[w] \/ job'[w].pc \notin {"readIssues", "cache"}
        \/ ReadRules(w) \/ ReadIssues(w)
    <3>1. ASSUME NEW v \in Workers, NEW r \in Runs,
                 StartRun(v, r) \/ ReadForCancel(v, r) \/ CheckCache(v, r)
          PROVE  job'[w] = job[w] \/ job'[w].pc \notin {"readIssues", "cache"}
      <4>1. CASE StartRun(v, r)
        <5>1. PICK rules \in SUBSET Rules :
                 job' = [job EXCEPT ![v] = [Idle EXCEPT !.pc = "load", !.run = r, !.todo = rules]]
          BY <4>1 DEF StartRun
        <5> QED
          BY <1>t, <5>1 DEF Idle
      <4>2. CASE ReadForCancel(v, r)
        BY <1>t, <4>2 DEF ReadForCancel, Idle
      <4>3. CASE CheckCache(v, r)
        BY <1>t, <4>3 DEF CheckCache, Idle
      <4> QED
        BY <3>1, <4>1, <4>2, <4>3
    <3>2. ASSUME NEW v \in Workers, Engine(v)
          PROVE  job'[w] = job[w] \/ job'[w].pc \notin {"readIssues", "cache"}
      <4>1. job'[v].pc \notin {"readIssues", "cache"}
        <5>1. CASE Load(v)
          BY <1>t, <5>1 DEF Load, Job
        <5>2. CASE RulePasses(v)
          <6>1. PICK rule \in job[v].todo, flagged \in SUBSET Rows :
                   job' = [job EXCEPT ![v].todo = @ \ {rule}, ![v].ok = @ \cup {rule},
                                      ![v].found = @ \cup Found(rule, flagged)]
            BY <5>2 DEF RulePasses
          <6> QED
            BY <1>t, <5>2, <6>1 DEF RulePasses, At, Job
        <5>3. CASE RuleRaises(v)
          <6>1. PICK rule \in job[v].todo :
                   job' = [job EXCEPT ![v].todo = @ \ {rule}, ![v].failed = @ \cup {rule}]
            BY <5>3 DEF RuleRaises
          <6> QED
            BY <1>t, <5>3, <6>1 DEF RuleRaises, At, Job
        <5>4. CASE Finish(v) \/ FinishParallel(v)
          <6>1. job' = [job EXCEPT ![v] = Idle]
            BY <5>4 DEF Finish, FinishParallel
          <6> QED
            BY <1>t, <6>1, IdleIsQuiet
        <5> QED
          BY <3>2, <5>1, <5>2, <5>3, <5>4 DEF Engine
      <4>2. w # v => job'[w] = job[w]
        BY <1>t, <3>2 DEF Engine, Load, RulePasses, RuleRaises, Finish, FinishParallel
      <4> QED
        BY <4>1, <4>2
    <3>3. ASSUME NEW v \in Workers,
                 Cancel(v) \/ CacheMetrics(v) \/ RunRaises(v) \/ WorkerKilled(v) \/ MetricsFail(v)
          PROVE  job'[w] = job[w] \/ job'[w].pc \notin {"readIssues", "cache"}
      BY <1>t, <3>3 DEF Cancel, CacheMetrics, RunRaises, WorkerKilled, MetricsFail, Idle
    <3>4. ASSUME NEW v \in Workers, ReadRules(v) \/ ReadIssues(v)
          PROVE  w = v \/ job'[w] = job[w]
      BY <1>t, <3>4 DEF ReadRules, ReadIssues
    <3>5. CASE UNCHANGED vars
      BY <3>5 DEF vars
    <3> QED
      BY <3>1, <3>2, <3>3, <3>4, <3>5 DEF Next, QualityMetrics
  <2> QED
    BY <1>1, <1>2, <1>3, <1>4, <2>1
<1>6. MetricsAddUp'
  <2> SUFFICES ASSUME NEW r \in Runs, metrics'[r] # None PROVE AddsUp(metrics[r], r)'
    BY DEF MetricsAddUp
  <2>1. CASE UNCHANGED metrics
    <3>1. AddsUp(metrics[r], r) /\ metrics'[r] = metrics[r]
      BY <2>1 DEF AddUpInv, MetricsAddUp
    <3> QED
      BY <1>g, <3>1 DEF AddsUp, DirtyRows
  <2>2. ASSUME NEW w \in Workers, CacheMetrics(w) PROVE AddsUp(metrics[r], r)'
    <3>1. /\ metrics' = [metrics EXCEPT ![job[w].run] = Computed(job[w].seen, job[w].dirty)]
          /\ UNCHANGED <<ruleRows, issues>>
          /\ AddsUp(Computed(job[w].seen, job[w].dirty), job[w].run)
      BY <2>2 DEF CacheMetrics, records, AddUpInv, ReadSound
    <3>2. \/ r = job[w].run /\ metrics'[r] = Computed(job[w].seen, job[w].dirty)
          \/ metrics'[r] = metrics[r]
      BY <1>t, <3>1
    <3>3. AddsUp(metrics'[r], r)
      BY <3>1, <3>2 DEF AddUpInv, MetricsAddUp
    <3> QED
      BY <3>1, <3>3 DEF AddsUp, DirtyRows
  <2>3. UNCHANGED metrics \/ \E w \in Workers : CacheMetrics(w)
    BY DEF Next, vars, Engine, QualityMetrics, StartRun, ReadForCancel, CheckCache, Load, RulePasses,
           RuleRaises, Finish, FinishParallel, Cancel, ReadRules, ReadIssues, RunRaises, WorkerKilled,
           MetricsFail
  <2> QED
    BY <2>1, <2>2, <2>3
<1> QED
  BY <1>5, <1>6 DEF AddUpInv

\* However many workers, and whatever part of a run was committed when its metrics were
\* read and cached: no row that a counted rule flagged is counted as clean, and nothing is
\* counted that the run did not report (data_quality.py: compute_quality_metrics).
THEOREM CachedMetricsAddUp == Spec => []MetricsAddUp
<1>1. Init => AddUpInv
  BY IdleIsQuiet DEF Init, AddUpInv, ReadSound, MetricsAddUp, At
<1>2. Spec => []AddUpInv
  BY <1>1, StepAddUp, Invariance, PTL DEF Spec
<1>3. AddUpInv => MetricsAddUp
  BY DEF AddUpInv
<1> QED
  BY <1>2, <1>3, PTL
================================================================================
