------------------------------ MODULE RuleServer ------------------------------
(***************************************************************************)
(* The rules table behind the rule pages, with the constraints of its       *)
(* migrations, and what each request of the pages makes of it.  A deletion  *)
(* reads, commits a promotion and deletes in a second commit; production    *)
(* runs several workers, so it goes step by step, as a job of the worker    *)
(* that serves it.  A creation is one step: a unique index keeps a second   *)
(* one from giving a name twice.                                            *)
(*                                                                         *)
(* A rule is [name, family, version, latest]; rules is a function from the  *)
(* ids of the rows.  family is rule_family_id, which parent_rule_id follows *)
(* in every version but the first.  Rows with a version above 1 date from   *)
(* before the organization column became NOT NULL: create_rule_version      *)
(* leaves that column out, so update, activate and deactivate end in a 500  *)
(* and change nothing.                                                      *)
(***************************************************************************)
EXTENDS Integers, FiniteSets

NoRule == 0

LatestIds(rules) == {id \in DOMAIN rules : rules[id].latest}
FamilyOf(rules, f) == {id \in DOMAIN rules : rules[id].family = f}
NameTaken(rules, name) == \E id \in LatestIds(rules) : rules[id].name = name

\* GET /rules: the latest versions.  GET /rules/{id}/versions: the family.
list_rules(rules) == LatestIds(rules)
get_rule_versions(rules, id) ==
    IF id \notin DOMAIN rules THEN {}
    ELSE IF rules[id].family = NoRule THEN {id} ELSE FamilyOf(rules, rules[id].family)

NewRule(id, name) == [name |-> name, family |-> id, version |-> 1, latest |-> TRUE]

InsertRule(rules, id, name) ==
    [x \in DOMAIN rules \cup {id} |-> IF x = id THEN NewRule(id, name) ELSE rules[x]]

create_rule(rules, id, name) ==
    IF NameTaken(rules, name) THEN rules ELSE InsertRule(rules, id, name)

-----------------------------------------------------------------------------
\* A deletion.  step: idle, looked (the rule is a latest version), chosen (and
\* `previous` is to be promoted), deleting.

NoJob == [step |-> "idle", rule |-> NoRule, family |-> NoRule, previous |-> NoRule,
          client |-> "nobody"]

Busy(job) == job.step # "idle"

\* The first read: is_latest decides whether anything is promoted.
Looked(rules, id, client) ==
    [step |-> IF rules[id].latest THEN "looked" ELSE "deleting",
     rule |-> id, family |-> rules[id].family, previous |-> NoRule, client |-> client]

Older(rules, id) ==
    IF id \notin DOMAIN rules \/ rules[id].family = NoRule THEN {}
    ELSE {x \in FamilyOf(rules, rules[id].family) : rules[x].version < rules[id].version}

Newest(rules, ids) == CHOOSE x \in ids : \A y \in ids : rules[y].version <= rules[x].version

\* The later reads.  A previous version that is latest already needs no write.
Chosen(rules, job) ==
    LET previous == Older(rules, job.rule) IN
    IF previous = {} \/ rules[Newest(rules, previous)].latest
    THEN [job EXCEPT !.step = "deleting"]
    ELSE [job EXCEPT !.step = "chosen", !.previous = Newest(rules, previous)]

\* The row is still there, and ix_rules_name_is_latest_unique lets it be a latest one:
\* an older version of the same name has to wait for the newer to go.
CanPromote(rules, previous) ==
    /\ previous \in DOMAIN rules
    /\ \A x \in LatestIds(rules) \ {previous} : rules[x].name # rules[previous].name

\* Mutant of promote_previous_version_to_latest: nothing is promoted.
promote_nothing(rules, previous) == rules

promote_previous_version_to_latest(rules, previous) == [rules EXCEPT ![previous].latest = TRUE]

\* The foreign keys of other versions to the row are set to NULL; to delete a row that
\* is gone is no error.
delete_rule(rules, id) ==
    [x \in DOMAIN rules \ {id} |->
        IF rules[x].family = id THEN [rules[x] EXCEPT !.family = NoRule] ELSE rules[x]]
================================================================================
