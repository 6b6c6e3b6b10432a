-------------------------- MODULE MCRulePackStore --------------------------
(***************************************************************************)
(* The override store with rules in it: one shipped rule, otp, and one     *)
(* that only an override can add, link.  The drafts make each of them      *)
(* plain, disabled, or gated on the other.                                 *)
(***************************************************************************)
EXTENDS OverrideStore, RulePack, TLC

CONSTANTS a, b, c, otp, link, p, q

Shipped == otp :> [patterns |-> {p}, gate |-> NoGate]

Plain(e)    == [entry |-> e, patterns |-> {q}, gate |-> NoGate, disabled |-> FALSE]
Off(e)      == [entry |-> e, patterns |-> {},  gate |-> NoGate, disabled |-> TRUE]
OnOther(e)  == [entry |-> e, patterns |-> {q}, gate |-> {otp, link} \ {e}, disabled |-> FALSE]

RuleDrafts == UNION {{Plain(e), Off(e), OnOther(e)} : e \in {otp, link}}

ASSUME \A d \in RuleDrafts : ValidDraft(d)

RequestSymmetry == Permutations({a, b, c})
=============================================================================
