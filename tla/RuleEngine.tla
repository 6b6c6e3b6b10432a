----------------------------- MODULE RuleEngine -----------------------------
(***************************************************************************)
(* The deterministic rules (app/engine/rules/engine.py): which rules of a  *)
(* pack fire on a text, which signals it carries, and what the operator's  *)
(* preview says of one rule.                                               *)
(*                                                                         *)
(* A text is the set of patterns it contains.  A rule is a record with     *)
(* fields id, match, exclude (sets of patterns), requires (NoGate or its   *)
(* three lists), severity and emits (a signal kind or NoSignal).  A signal *)
(* is its kind.                                                            *)
(***************************************************************************)
EXTENDS Links

CONSTANTS
    NoGate,         \* a rule without "requires"
    NoSignal        \* a rule that emits no signal

Ungated(pack) == {r \in pack : r.requires = NoGate}

\* An exclusion wins over everything the match groups found.
RuleMatches(r, text) ==
    /\ r.exclude \cap text = {}
    /\ r.match \cap text # {}

IdsOf(rules)   == {r.id : r \in rules}
Emitted(rules) == {r.emits : r \in rules} \ {NoSignal}

\* The base pass, and its signals.
Fired(pack, text) == {r \in Ungated(pack) : RuleMatches(r, text)}
BaseSignals(fired, text) == Emitted(fired) \cup Structural(text)

RequirementsMet(requires, fired, kinds) ==
    /\ requires.anyOf = {} \/ requires.anyOf \cap fired # {}
    /\ requires.allOf \subseteq fired
    /\ requires.signals \subseteq kinds

GateOpen(r, fired, text) ==
    r.requires = NoGate \/ RequirementsMet(r.requires, IdsOf(fired), BaseSignals(fired, text))

\* run_rules: the second pass sees the result of the base pass and nothing else.
Admitted(pack, text) ==
    {r \in pack \ Ungated(pack) : GateOpen(r, Fired(pack, text), text) /\ RuleMatches(r, text)}

FiringRules(pack, text) == Fired(pack, text) \cup Admitted(pack, text)

RuleSignals(pack, text) ==
    BaseSignals(Fired(pack, text), text) \cup Emitted(Admitted(pack, text))

\* The stored version of the rule may open the gate of its draft.
MutantPreviewFires(r, pack, text) ==
    RuleMatches(r, text) /\ GateOpen(r, Fired(pack, text), text)

\* The preview of a draft beside the pack in force: the stored version of the
\* same rule is left out of the pass that its gate is evaluated on.
PreviewFires(r, pack, text) ==
    /\ RuleMatches(r, text)
    /\ GateOpen(r, {q \in Fired(pack, text) : q.id # r.id}, text)

-----------------------------------------------------------------------------
(* What the evaluation promises *)

\* The pack that publishing a draft makes.
Replacing(pack, r) == {q \in pack : q.id # r.id} \cup {r}

\* validate_requires_graph accepts the pack.
GatesOnUngated(pack) ==
    \A r \in pack \ Ungated(pack) :
        (r.requires.anyOf \cup r.requires.allOf) \cap IdsOf(pack \ Ungated(pack)) = {}

=============================================================================
