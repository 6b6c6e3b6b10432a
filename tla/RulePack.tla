------------------------------ MODULE RulePack ------------------------------
(***************************************************************************)
(* The rule pack: the rules of the shipped YAML files with the stored      *)
(* overrides laid over them (merge_rule_pack in app/rules_store/apply.py), *)
(* and the constraint on gates that every pack must meet                   *)
(* (validate_requires_graph in app/engine/rules/loader.py).                *)
(*                                                                         *)
(* A pack maps the ids of its rules to rules.  A rule's gate is NoGate or  *)
(* the set of rule ids it requires, empty when it requires signals only.   *)
(***************************************************************************)
EXTENDS Integers

CONSTANTS
    YamlPack,   \* the shipped rules, by id
    NoGate

RuleColumns == {"entry", "patterns", "gate", "disabled"}

\* RuleOverrideDraft.normalized: an enabled rule has patterns.
ValidDraft(draft) == draft.disabled \/ draft.patterns # {}

\* load_overrides: the rules that the rows disable, and the rows that define a rule.
\* A row without patterns defines none.
Disabled(rows) ==
    {rows[x].body.entry : x \in {y \in DOMAIN rows : rows[y].body.disabled}}

Defining(rows) ==
    {x \in DOMAIN rows : ~rows[x].body.disabled /\ rows[x].body.patterns # {}}

Overriding(rows) == {rows[x].body.entry : x \in Defining(rows)}

\* Rows are listed newest first and the last of an entry wins.  There are two of an
\* entry only in the reading of a session that missed a rename.
RuleFor(rows, e) ==
    LET own == {x \in Defining(rows) : rows[x].body.entry = e}
        row == rows[CHOOSE x \in own : \A y \in own : rows[x].at <= rows[y].at]
    IN  [patterns |-> row.body.patterns, gate |-> row.body.gate]

\* By id, an override replaces, adds or suppresses.
MergeRulePack(rows) ==
    [e \in (DOMAIN YamlPack \cup Overriding(rows)) \ Disabled(rows) |->
        IF e \in Overriding(rows) THEN RuleFor(rows, e) ELSE YamlPack[e]]

\* validate_requires_graph: no gate names a gated rule.
Gated(pack) == {e \in DOMAIN pack : pack[e].gate # NoGate}

RequiresOnlyUngated(pack) ==
    \A e \in Gated(pack) : pack[e].gate \cap Gated(pack) = {}
=============================================================================
