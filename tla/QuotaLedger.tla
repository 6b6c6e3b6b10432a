---------------------------- MODULE QuotaLedger ----------------------------
(***************************************************************************)
(* What the daily-limit protocol promises, with no transactions, locks or  *)
(* checks in it: a ledger of slots used per key and day, in which every    *)
(* entry is posted whole.  A key may go one up only below its limit, or on *)
(* a day that is over, and never below zero.                               *)
(***************************************************************************)
EXTENDS Integers

CONSTANTS Keys, Days, LimitOf, Forgettable

VARIABLES today, used

Rows == Keys \X Days

Init ==
    /\ today = 0
    /\ used = [r \in Rows |-> 0]

\* One committed transaction: some rows go one up, others one down.
Post ==
    /\ used' \in [Rows -> Nat]
    /\ \A r \in Rows :
          /\ used'[r] - used[r] \in {-1, 0, 1}
          /\ used'[r] > used[r] => used[r] < LimitOf[r[1]] \/ r[2] < today
    /\ UNCHANGED today

\* A key's rows are erased.
Forget(k) ==
    /\ used' = [r \in Rows |-> IF r[1] = k THEN 0 ELSE used[r]]
    /\ UNCHANGED today

NextDay ==
    /\ today' = today + 1
    /\ today' \in Days
    /\ UNCHANGED used

Next ==
    \/ Post
    \/ \E k \in Forgettable : Forget(k)
    \/ NextDay

Spec == Init /\ [][Next]_<<today, used>>

\* No key is ever over its limit on the current day.
WithinLimit == \A k \in Keys : used[<<k, today>>] <= LimitOf[k]
=============================================================================
