---------------------------- MODULE MCCheckQuota ----------------------------
(***************************************************************************)
(* Instances of CheckQuota.  "Web": two checks of one browser and one of   *)
(* another, all behind one address.  "Bot": messages of one Telegram user, *)
(* who may delete his data.                                                *)
(***************************************************************************)
EXTENDS CheckQuota, TLC

CONSTANTS a, b, c, alice, browser, phone, home

WebUserOf == (a :> browser) @@ (b :> browser) @@ (c :> phone)
WebIpOf   == [x \in {a, b, c} |-> home]

BotUserOf == [x \in {a, b, c} |-> alice]
BotIpOf   == [x \in {a, b, c} |-> NoIp]

\* web_daily_limit is one setting for both of a web check's counters.
LimitOne == [k \in Keys |-> 1]
LimitTwo == [k \in Keys |-> 2]

\* Checks with the same counters are interchangeable.
BotSymmetry == Permutations({a, b, c})
=============================================================================
