-------------------------- MODULE CheckQuotaProofs --------------------------
(***************************************************************************)
(* The daily-limit protocol of CheckQuota, proved for any number of        *)
(* checks, users, addresses, limits, days and faults.                      *)
(*                                                                         *)
(* The inductive invariant IInv adds to the properties what makes them     *)
(* inductive: a row nobody has locked is committed, a check is charged to  *)
(* no row before it asked for a slot of it, and a check has no outcome     *)
(* before its stages end.                                                  *)
(*                                                                         *)
(* What a check has on its own counters needs more: SInv adds Standing,    *)
(* which follows one check through its transactions.  It says on which     *)
(* rows the check sees itself, what it has done to each row it has locked, *)
(* and which of its counters it has reserved on, paid for or settled so    *)
(* far.  A step of another check leaves all that alone (Spares), so each   *)
(* action is looked at for the one check that takes it.                    *)
(***************************************************************************)
EXTENDS CheckQuota, FiniteSetTheorems, TLAPS

-----------------------------------------------------------------------------
(* Counter rows, in terms of a given assignment st of outcomes *)

AdmittedBy(st, row) == {c \in row.charged : st[c] # "rate_limited"}

RowGood(st, r, row) ==
    /\ row \in CounterRow
    /\ Balanced(row)
    /\ Cardinality(AdmittedBy(st, row)) <= LimitOf[r[1]] + row.stray

StatusType == [Checks -> Outcomes]

\* A rejected check stays rejected.
StaysRejected(st, st2) ==
    \A c \in Checks : st[c] = "rate_limited" => st2[c] = "rate_limited"

-----------------------------------------------------------------------------
(* The inductive invariant *)

UnlockedRowsCommitted ==
    \A r \in Rows : locker[r] = NoCheck => working[r] = stored[r]

RowsGood ==
    \A r \in Rows : RowGood(status, r, stored[r]) /\ RowGood(status, r, working[r])

NotYetAsked(c, r) ==
    \/ pc[c] = "arrived"
    \/ pc[c] = "ip_reserved" /\ r[1] = UserOf[c]

NotYetCharged ==
    \A c \in Checks, r \in Rows :
        NotYetAsked(c, r) => c \notin stored[r].charged /\ c \notin working[r].charged

NoOutcomeYet ==
    \A c \in Checks :
        pc[c] \in {"arrived", "ip_reserved", "reserved", "external"} => status[c] = "none"

RowsInv == UnlockedRowsCommitted /\ RowsGood

IInv ==
    /\ TypeOK
    /\ RowsInv
    /\ NotYetCharged
    /\ NoOutcomeYet
    /\ NoLockAcrossExternalWork

-----------------------------------------------------------------------------
(* What one check has on its counters, and in its transaction *)

OwnKeys(c) == {UserOf[c], IpOf[c]} \cap Keys

Charged(c, r) == c \in stored[r].charged \/ c \in working[r].charged

\* A check is charged on one day of each of its counters, no later than it moved on.
ChargedOnce(c) ==
    \A r \in Rows : Charged(c, r) =>
        /\ r[1] \in OwnKeys(c) /\ r[2] <= since[c]
        /\ \A s \in Rows : Charged(c, s) /\ s[1] = r[1] => s[2] = r[2]

\* Only the check that has a row locked may see itself there as others do not.
OwnChanges(c) ==
    \A r \in Rows : locker[r] # c => (c \in working[r].charged <=> c \in stored[r].charged)

Delta(r) == working[r].count - stored[r].count

\* The counters that the check has reserved on and not come back to.
Unsettled(c, k) ==
    \/ k = UserOf[c] /\ pc[c] \in {"reserved", "settling"}
    \/ k = IpOf[c] /\ pc[c] \in {"ip_reserved", "reserved", "settling", "recording", "settling_ip"}

\* What a transaction has done to a row it has locked: one up, one down, or both;
\* one up only within the limit, or with the rejection that is about to undo it.
LockAccounts(c) ==
    \A r \in Rows : locker[r] = c =>
        /\ r[1] \in OwnKeys(c)
        /\ Delta(r) \in {-1, 0, 1}
        /\ c \in working[r].charged <=> Delta(r) = 1
        /\ Unsettled(c, r[1]) => Delta(r) = 1
        /\ Delta(r) = 1 =>
              \/ status[c] = "rate_limited"
              \/ (pc[c] \in {"ip_reserved", "reserved"} /\ working[r].count <= LimitOf[r[1]])
        /\ pc[c] = "ip_reserved" => r[1] = IpOf[c]

Reserved(c, k) ==
    \E d \in Days : locker[<<k, d>>] = c /\ c \in working[<<k, d>>].charged
Paid(c, k) ==
    \E d \in Days : c \in stored[<<k, d>>].charged /\ c \in working[<<k, d>>].charged

\* The check sees itself on no row of today, but where its refund had been taken.
Settled(c, k) ==
    \A d \in Days : LET row == Visible(c, <<k, d>>) IN
        c \in row.charged => \/ d < today
                            \/ (status[c] # "rate_limited" /\ row.stray > 0)

ReservedSoFar(c) ==
    /\ pc[c] \in {"ip_reserved", "reserved"} /\ HasIp(c) => Reserved(c, IpOf[c])
    /\ pc[c] = "reserved" => Reserved(c, UserOf[c])
    /\ pc[c] \in {"arrived", "ip_reserved", "reserved"} =>
          \A r \in Rows : c \notin stored[r].charged

PaidFor(c) ==
    \/ pc[c] = "external"
    \/ Billable(c) /\ pc[c] \in {"settling", "recording", "settling_ip", "committing", "done"}

SettledSoFar(c) ==
    /\ ~Billable(c) /\ pc[c] \in {"recording", "settling_ip", "committing", "refunding_ip",
                                 "done", "failed"} => Settled(c, UserOf[c])
    /\ ~Billable(c) /\ HasIp(c) /\ pc[c] \in {"committing", "done", "failed"} =>
          Settled(c, IpOf[c])

\* A rejection leaves nothing on a committed row of today.
RejectionLeavesNone(c) ==
    status[c] = "rate_limited" => \A r \in Rows : c \in stored[r].charged => r[2] < today

Standing(c) ==
    /\ since[c] <= today /\ ChargedOnce(c) /\ OwnChanges(c) /\ LockAccounts(c)
    /\ ReservedSoFar(c)
    /\ PaidFor(c) => \A k \in OwnKeys(c) \ Deleters : Paid(c, k)
    /\ SettledSoFar(c) /\ RejectionLeavesNone(c)

StraysGrow == \A r \in Rows : stored[r].stray <= working[r].stray

SInv == IInv /\ StraysGrow /\ \A c \in Checks : Standing(c)

-----------------------------------------------------------------------------
(* What charging and refunding do to one row *)

\* The checks charged to a row are finitely many, so counting them makes sense.
LEMMA ChargedFinite ==
    ASSUME NEW row \in CounterRow
    PROVE  IsFiniteSet(row.charged) /\ Cardinality(row.charged) \in Nat
<1>1. row.charged \in SUBSET Checks /\ IsFiniteSet(Checks)
  BY ChecksAssumption DEF CounterRow
<1> QED
  BY <1>1, FS_Subset, FS_CardinalityType

LEMMA AdmittedFinite ==
    ASSUME NEW row \in CounterRow, NEW st
    PROVE  /\ IsFiniteSet(AdmittedBy(st, row))
           /\ Cardinality(AdmittedBy(st, row)) \in Nat
           /\ Cardinality(AdmittedBy(st, row)) <= Cardinality(row.charged)
<1>1. AdmittedBy(st, row) \in SUBSET row.charged
  BY DEF AdmittedBy
<1>2. IsFiniteSet(AdmittedBy(st, row))
      /\ Cardinality(AdmittedBy(st, row)) <= Cardinality(row.charged)
  BY <1>1, ChargedFinite, FS_Subset
<1> QED
  BY <1>2, FS_CardinalityType

LEMMA LimitsAreNumbers ==
    ASSUME NEW r \in Rows
    PROVE  LimitOf[r[1]] \in Nat
BY KeysAssumption DEF Rows, Keys

\* Outcomes that only turn towards rejection admit no more checks.
LEMMA GoodKept ==
    ASSUME NEW r \in Rows, NEW row, NEW st \in StatusType, NEW st2 \in StatusType,
           StaysRejected(st, st2), RowGood(st, r, row)
    PROVE  RowGood(st2, r, row)
<1>1. row \in CounterRow
  BY DEF RowGood
<1>2. AdmittedBy(st2, row) \in SUBSET AdmittedBy(st, row)
  BY <1>1 DEF AdmittedBy, StaysRejected, CounterRow
<1>3. Cardinality(AdmittedBy(st2, row)) <= Cardinality(AdmittedBy(st, row))
  BY <1>1, <1>2, AdmittedFinite, FS_Subset
<1>4. /\ Cardinality(AdmittedBy(st2, row)) \in Nat
      /\ Cardinality(AdmittedBy(st, row)) \in Nat
      /\ row.stray \in Nat
  BY <1>1, AdmittedFinite DEF CounterRow
<1> QED
  BY <1>1, <1>3, <1>4, LimitsAreNumbers DEF RowGood

LEMMA ChargeFields ==
    ASSUME NEW c \in Checks, NEW row \in CounterRow
    PROVE  /\ Charge(c, row) \in CounterRow
           /\ Charge(c, row).count = row.count + 1
           /\ Charge(c, row).charged = row.charged \cup {c}
           /\ Charge(c, row).stray = row.stray
BY DEF Charge, CounterRow

LEMMA UnchargeFields ==
    ASSUME NEW c \in Checks, NEW row \in CounterRow, row.count # 0
    PROVE  /\ Uncharge(c, row) \in CounterRow
           /\ Uncharge(c, row).count = row.count - 1
           /\ Uncharge(c, row).charged = row.charged \ {c}
           /\ Uncharge(c, row).stray =
                IF c \in row.charged THEN row.stray ELSE row.stray + 1
BY DEF Uncharge, CounterRow

\* A check that a row was not charged for keeps the row balanced when it charges it.
LEMMA ChargeBalanced ==
    ASSUME NEW c \in Checks, NEW row \in CounterRow, Balanced(row), c \notin row.charged
    PROVE  Balanced(Charge(c, row))
<1>1. Cardinality(row.charged \cup {c}) = Cardinality(row.charged) + 1
  BY ChargedFinite, FS_AddElement
<1>2. Cardinality(row.charged) \in Nat /\ row.count \in Nat /\ row.stray \in Nat
  BY ChargedFinite DEF CounterRow
<1> DEFINE new == Charge(c, row)
<1>3. /\ new.count = row.count + 1
      /\ new.charged = row.charged \cup {c}
      /\ new.stray = row.stray
  BY ChargeFields
<1> HIDE DEF new
<1>4. Cardinality(new.charged) = Cardinality(row.charged) + 1
  BY <1>1, <1>3
<1>5. Balanced(new)
  BY <1>2, <1>3, <1>4 DEF Balanced
<1> QED
  BY <1>5 DEF new

\* Charging an admitted check keeps the row good below the limit.
LEMMA GoodCharge ==
    ASSUME NEW c \in Checks, NEW r \in Rows, NEW row, NEW st \in StatusType,
           RowGood(st, r, row), c \notin row.charged,
           row.count + 1 <= LimitOf[r[1]]
    PROVE  RowGood(st, r, Charge(c, row))
<1>1. row \in CounterRow /\ Balanced(row)
  BY DEF RowGood
<1> DEFINE new == Charge(c, row)
<1>2. new \in CounterRow /\ Balanced(new)
  BY <1>1, ChargeBalanced, ChargeFields
<1>3. Cardinality(AdmittedBy(st, new)) <= Cardinality(new.charged)
  BY <1>2, AdmittedFinite
<1>4. Cardinality(new.charged) <= new.count + new.stray
  BY <1>2 DEF Balanced
<1>5. new.count <= LimitOf[r[1]]
  BY <1>1, ChargeFields
<1>6. /\ Cardinality(AdmittedBy(st, new)) \in Nat
      /\ Cardinality(new.charged) \in Nat
      /\ new.count \in Nat
      /\ new.stray \in Nat
  BY <1>2, ChargedFinite, AdmittedFinite DEF CounterRow
<1> HIDE DEF new
<1>7. RowGood(st, r, new)
  BY <1>2, <1>3, <1>4, <1>5, <1>6, LimitsAreNumbers DEF RowGood
<1> QED
  BY <1>7 DEF new

\* Charging a rejected check keeps it good whatever the count.
LEMMA GoodChargeRejected ==
    ASSUME NEW c \in Checks, NEW r \in Rows, NEW row, NEW st \in StatusType,
           RowGood(st, r, row), c \notin row.charged, st[c] = "rate_limited"
    PROVE  RowGood(st, r, Charge(c, row))
<1>1. row \in CounterRow /\ Balanced(row)
  BY DEF RowGood
<1>2. AdmittedBy(st, Charge(c, row)) = AdmittedBy(st, row)
  BY <1>1, ChargeFields DEF AdmittedBy
<1> QED
  BY <1>1, <1>2, ChargeBalanced, ChargeFields DEF RowGood

\* A refund removes the charge it belongs to, or is counted as stray.
LEMMA GoodUncharge ==
    ASSUME NEW c \in Checks, NEW r \in Rows, NEW row, NEW st \in StatusType,
           RowGood(st, r, row), row.count # 0
    PROVE  RowGood(st, r, Uncharge(c, row))
<1>1. row \in CounterRow /\ Balanced(row)
  BY DEF RowGood
<1> DEFINE new == Uncharge(c, row)
<1>2. /\ new \in CounterRow
      /\ new.count = row.count - 1
      /\ new.charged = row.charged \ {c}
      /\ new.stray = IF c \in row.charged THEN row.stray ELSE row.stray + 1
  BY <1>1, UnchargeFields
<1>3. Cardinality(new.charged) =
        IF c \in row.charged THEN Cardinality(row.charged) - 1 ELSE Cardinality(row.charged)
  <2>1. PICK old : old = row.charged
    OBVIOUS
  <2>2. IsFiniteSet(old)
    BY <1>1, <2>1, ChargedFinite
  <2>3. Cardinality(old \ {c}) = IF c \in old THEN Cardinality(old) - 1 ELSE Cardinality(old)
    BY <2>2, FS_RemoveElement
  <2> QED
    BY <1>2, <2>1, <2>3
<1>4. /\ Cardinality(row.charged) \in Nat
      /\ Cardinality(AdmittedBy(st, row)) \in Nat
      /\ row.count \in Nat /\ row.stray \in Nat
  BY <1>1, ChargedFinite, AdmittedFinite DEF CounterRow
<1> HIDE DEF new
<1>5. Balanced(new)
  BY <1>1, <1>2, <1>3, <1>4 DEF Balanced
<1>6. AdmittedBy(st, new) \in SUBSET AdmittedBy(st, row)
  BY <1>2 DEF AdmittedBy
<1>7. Cardinality(AdmittedBy(st, new)) <= Cardinality(AdmittedBy(st, row))
  BY <1>1, <1>6, AdmittedFinite, FS_Subset
<1>8. Cardinality(AdmittedBy(st, new)) \in Nat
  BY <1>2, AdmittedFinite
<1>9. Cardinality(AdmittedBy(st, new)) <= LimitOf[r[1]] + new.stray
  BY <1>2, <1>4, <1>7, <1>8, LimitsAreNumbers DEF RowGood
<1>10. RowGood(st, r, new)
  BY <1>2, <1>5, <1>9 DEF RowGood
<1> QED
  BY <1>10 DEF new

LEMMA GoodEmpty ==
    ASSUME NEW r \in Rows, NEW st \in StatusType
    PROVE  RowGood(st, r, EmptyRow)
<1>1. EmptyRow \in CounterRow
  BY DEF EmptyRow, CounterRow
<1>2. AdmittedBy(st, EmptyRow) = {} /\ EmptyRow.charged = {}
  BY DEF AdmittedBy, EmptyRow
<1>3. Cardinality({}) = 0
  BY FS_EmptySet
<1>4. EmptyRow.count = 0 /\ EmptyRow.stray = 0
  BY DEF EmptyRow
<1> QED
  BY <1>1, <1>2, <1>3, <1>4, LimitsAreNumbers DEF RowGood, Balanced

-----------------------------------------------------------------------------
(* What the database operations do to all the rows *)

RowTypes ==
    /\ stored \in [Rows -> CounterRow]
    /\ working \in [Rows -> CounterRow]
    /\ locker \in [Rows -> Checks \cup {NoCheck}]

\* What every lemma of this section assumes of the outcomes.
OutcomesMove ==
    /\ status \in StatusType
    /\ status' \in StatusType
    /\ StaysRejected(status, status')

NoNewCharges ==
    \A r \in Rows : /\ stored'[r].charged \subseteq stored[r].charged \cup working[r].charged
                    /\ working'[r].charged \subseteq stored[r].charged \cup working[r].charged

RowsKept == RowTypes' /\ RowsInv' /\ NoNewCharges

LEMMA RowsStayGood ==
    ASSUME RowTypes, RowsInv, OutcomesMove
    PROVE  \A r \in Rows : RowGood(status', r, stored[r]) /\ RowGood(status', r, working[r])
BY GoodKept DEF RowsInv, RowsGood, OutcomesMove

LEMMA NoRowStep ==
    ASSUME RowTypes, RowsInv, OutcomesMove, UNCHANGED <<stored, working, locker>>
    PROVE  RowsKept
<1>1. RowTypes' /\ NoNewCharges /\ UnlockedRowsCommitted'
  BY DEF RowTypes, NoNewCharges, RowsInv, UnlockedRowsCommitted
<1>2. RowsGood'
  BY RowsStayGood DEF RowsGood
<1> QED
  BY <1>1, <1>2 DEF RowsKept, RowsInv

LEMMA IncrementStep ==
    ASSUME RowTypes, RowsInv, OutcomesMove, NEW c \in Checks, NEW q \in Rows,
           Increment(c, q), UNCHANGED stored,
           RowGood(status', q, Charge(c, working[q]))
    PROVE  RowTypes' /\ RowsInv'
<1>1. \A r \in Rows : RowGood(status', r, stored[r]) /\ RowGood(status', r, working[r])
  BY RowsStayGood
<1>2. c # NoCheck
  BY ChecksAssumption
<1>3. RowTypes'
  BY ChargeFields DEF RowTypes, Increment
<1>4. UnlockedRowsCommitted'
  BY <1>2 DEF RowTypes, Increment, RowsInv, UnlockedRowsCommitted
<1>5. \A r \in Rows : RowGood(status', r, stored'[r])
  BY <1>1
<1>6. \A r \in Rows : RowGood(status', r, working'[r])
  BY <1>1 DEF RowTypes, Increment
<1>7. RowsGood'
  BY <1>5, <1>6 DEF RowsGood
<1> QED
  BY <1>3, <1>4, <1>7 DEF RowsInv

LEMMA DecrementStep ==
    ASSUME RowTypes, RowsInv, OutcomesMove, NEW c \in Checks, NEW q \in Rows,
           Decrement(c, q), UNCHANGED stored
    PROVE  RowsKept
<1>1. CASE Visible(c, q).count = 0
  BY <1>1, NoRowStep DEF Decrement
<1>2. CASE Visible(c, q).count # 0
  <2>1. /\ Free(c, q)
        /\ working' = [working EXCEPT ![q] = Uncharge(c, @)]
        /\ locker' = [locker EXCEPT ![q] = c]
    BY <1>2 DEF Decrement
  <2>2. Visible(c, q) = working[q]
    BY <2>1 DEF Visible, Free, RowTypes, RowsInv, UnlockedRowsCommitted
  <2>3. \A r \in Rows : RowGood(status', r, stored[r]) /\ RowGood(status', r, working[r])
    BY RowsStayGood
  <2>4. working[q] \in CounterRow /\ working[q].count # 0 /\ c # NoCheck
    BY <1>2, <2>2, ChecksAssumption DEF RowTypes
  <2>5. RowTypes'
    BY <2>1, <2>4, UnchargeFields DEF RowTypes
  <2>6. UnlockedRowsCommitted'
    BY <2>1, <2>4 DEF RowTypes, RowsInv, UnlockedRowsCommitted
  <2>7. RowGood(status', q, Uncharge(c, working[q]))
    BY <2>3, <2>4, GoodUncharge DEF OutcomesMove
  <2>8. RowsGood'
    BY <2>1, <2>3, <2>7 DEF RowsGood, RowTypes
  <2>9. NoNewCharges
    BY <2>1, <2>4, UnchargeFields DEF NoNewCharges, RowTypes
  <2> QED
    BY <2>5, <2>6, <2>8, <2>9 DEF RowsKept, RowsInv
<1> QED
  BY <1>1, <1>2

LEMMA CommitStep ==
    ASSUME RowTypes, RowsInv, OutcomesMove, NEW c \in Checks, CommitTxn(c)
    PROVE  RowsKept
<1>1. \A r \in Rows : RowGood(status', r, stored[r]) /\ RowGood(status', r, working[r])
  BY RowsStayGood
<1>2. \A r \in Rows : /\ stored'[r] \in {stored[r], working[r]}
                      /\ working'[r] = working[r]
  BY DEF CommitTxn, RowTypes
<1>3. RowTypes'
  BY DEF CommitTxn, RowTypes, Unlocked
<1>4. UnlockedRowsCommitted'
  BY DEF CommitTxn, RowTypes, RowsInv, UnlockedRowsCommitted, Unlocked
<1>5. RowsGood'
  BY <1>1, <1>2 DEF RowsGood
<1>6. NoNewCharges
  BY <1>2 DEF NoNewCharges
<1> QED
  BY <1>3, <1>4, <1>5, <1>6 DEF RowsKept, RowsInv

LEMMA RollbackStep ==
    ASSUME RowTypes, RowsInv, OutcomesMove, NEW c \in Checks, RollbackTxn(c)
    PROVE  RowsKept
<1>1. \A r \in Rows : RowGood(status', r, stored[r]) /\ RowGood(status', r, working[r])
  BY RowsStayGood
<1>2. \A r \in Rows : /\ working'[r] \in {stored[r], working[r]}
                      /\ stored'[r] = stored[r]
  BY DEF RollbackTxn, RowTypes
<1>3. RowTypes'
  BY DEF RollbackTxn, RowTypes, Unlocked
<1>4. UnlockedRowsCommitted'
  BY DEF RollbackTxn, RowTypes, RowsInv, UnlockedRowsCommitted, Unlocked
<1>5. RowsGood'
  BY <1>1, <1>2 DEF RowsGood
<1>6. NoNewCharges
  BY <1>2 DEF NoNewCharges
<1> QED
  BY <1>3, <1>4, <1>5, <1>6 DEF RowsKept, RowsInv

LEMMA RefundStep ==
    ASSUME RowTypes, RowsInv, OutcomesMove, NEW c \in Checks, NEW q \in Rows,
           RefundAndCommit(c, q)
    PROVE  RowsKept
<1>1. CASE stored[q].count = 0
  BY <1>1, NoRowStep DEF RefundAndCommit
<1>2. CASE stored[q].count # 0
  <2>1. /\ locker[q] = NoCheck
        /\ stored' = [stored EXCEPT ![q] = Uncharge(c, @)]
        /\ working' = [working EXCEPT ![q] = Uncharge(c, @)]
        /\ locker' = locker
    BY <1>2 DEF RefundAndCommit
  <2>2. working[q] = stored[q] /\ stored[q] \in CounterRow
    BY <2>1 DEF RowTypes, RowsInv, UnlockedRowsCommitted
  <2>3. \A r \in Rows : RowGood(status', r, stored[r]) /\ RowGood(status', r, working[r])
    BY RowsStayGood
  <2>4. RowTypes'
    BY <1>2, <2>1, <2>2, UnchargeFields DEF RowTypes
  <2>5. UnlockedRowsCommitted'
    BY <2>1, <2>2 DEF RowTypes, RowsInv, UnlockedRowsCommitted
  <2>6. RowGood(status', q, Uncharge(c, stored[q]))
    BY <1>2, <2>2, <2>3, GoodUncharge DEF OutcomesMove
  <2>7. RowsGood'
    BY <2>1, <2>2, <2>3, <2>6 DEF RowsGood, RowTypes
  <2>8. NoNewCharges
    BY <1>2, <2>1, <2>2, UnchargeFields DEF NoNewCharges, RowTypes
  <2> QED
    BY <2>4, <2>5, <2>7, <2>8 DEF RowsKept, RowsInv
<1> QED
  BY <1>1, <1>2

LEMMA CrashStep ==
    ASSUME RowTypes, RowsInv, OutcomesMove, Crash
    PROVE  RowsKept
<1>1. \A r \in Rows : RowGood(status', r, stored[r])
  BY RowsStayGood
<1>2. stored' = stored /\ working' = stored /\ locker' = [r \in Rows |-> NoCheck]
  BY DEF Crash
<1>3. RowTypes' /\ UnlockedRowsCommitted' /\ NoNewCharges
  BY <1>2 DEF RowTypes, UnlockedRowsCommitted, NoNewCharges
<1>4. RowsGood'
  BY <1>1, <1>2 DEF RowsGood
<1> QED
  BY <1>3, <1>4 DEF RowsKept, RowsInv

LEMMA DeleteStep ==
    ASSUME RowTypes, RowsInv, OutcomesMove, NEW u, DeleteUserData(u)
    PROVE  RowsKept
<1>1. \A r \in Rows : RowGood(status', r, stored[r]) /\ RowGood(status', r, working[r])
  BY RowsStayGood
<1>2. \A r \in Rows : RowGood(status', r, EmptyRow) /\ EmptyRow \in CounterRow
  BY GoodEmpty DEF OutcomesMove, EmptyRow, CounterRow
<1>3. \A r \in Rows : \/ stored'[r] = EmptyRow /\ working'[r] = EmptyRow
                      \/ stored'[r] = stored[r] /\ working'[r] = working[r]
  BY DEF DeleteUserData
<1>4. RowTypes'
  BY <1>2 DEF DeleteUserData, RowTypes
<1>5. UnlockedRowsCommitted'
  BY <1>3 DEF DeleteUserData, RowTypes, RowsInv, UnlockedRowsCommitted
<1>6. RowsGood'
  BY <1>1, <1>2, <1>3 DEF RowsGood
<1>7. NoNewCharges
  BY <1>3 DEF NoNewCharges, EmptyRow
<1> QED
  BY <1>4, <1>5, <1>6, <1>7 DEF RowsKept, RowsInv

-----------------------------------------------------------------------------
(* The invariant is inductive *)

\* A check has no outcome while it stands at one of these.
Undecided == {"arrived", "ip_reserved", "reserved", "external"}

\* A step of c to label keeps the invariant, whatever it did to the rows, if
\* c keeps locks only inside its transaction and gets an outcome once.
LEMMA StepOfOneCheck ==
    ASSUME IInv, NEW c \in Checks, NEW label \in Labels \ {"arrived"},
           Goto(c, label), UNCHANGED today, faults' \in 0 .. MaxFaults,
           status' \in StatusType,
           \A x \in Checks \ {c} : status'[x] = status[x],
           label \in Undecided => status'[c] = "none",
           RowTypes', RowsInv', NotYetCharged',
           \A r \in Rows : locker'[r] \in {locker[r], c, NoCheck},
           label \in Transacting \/ \A r \in Rows : locker'[r] # c
    PROVE  IInv'
<1>1. /\ pc' \in [Checks -> Labels]
      /\ pc'[c] = label
      /\ \A x \in Checks \ {c} : pc'[x] = pc[x]
      /\ since' \in [Checks -> Days]
  BY DEF IInv, TypeOK, Goto
<1>2. TypeOK'
  BY <1>1 DEF IInv, TypeOK, RowTypes, StatusType
<1>3. NoOutcomeYet'
  BY <1>1 DEF IInv, NoOutcomeYet, Undecided
<1>4. NoLockAcrossExternalWork'
  BY <1>1, <1>2 DEF IInv, NoLockAcrossExternalWork, TypeOK
<1> QED
  BY <1>2, <1>3, <1>4 DEF IInv

\* Rows that gain no charge stay clear of the checks that have not asked yet.
LEMMA StaysUncharged ==
    ASSUME NotYetCharged, NoNewCharges, 
           \A x \in Checks, r \in Rows : NotYetAsked(x, r)' => NotYetAsked(x, r)
    PROVE  NotYetCharged'
BY DEF NotYetCharged, NoNewCharges

\* A check that moves on never comes back before its requests.
LEMMA AsksOnward ==
    ASSUME pc \in [Checks -> Labels], NEW c \in Checks,
           NEW label \in Labels \ {"arrived", "ip_reserved"}, Goto(c, label)
    PROVE  \A x \in Checks, r \in Rows : NotYetAsked(x, r)' => NotYetAsked(x, r)
BY DEF NotYetAsked, Goto

\* The same, for the steps that gain a charge: it is for c, which has asked for it.
LEMMA IncrementUncharged ==
    ASSUME IInv, NEW c \in Checks, NEW q \in Rows, Increment(c, q), UNCHANGED stored,
           NEW label \in Labels \ {"arrived"}, Goto(c, label), NotYetAsked(c, q),
           label = "ip_reserved" => pc[c] = "arrived" /\ q[1] # UserOf[c]
    PROVE  NotYetCharged'
<1> SUFFICES ASSUME NEW x \in Checks, NEW r \in Rows, NotYetAsked(x, r)'
             PROVE  x \notin stored[r].charged /\ x \notin working'[r].charged
  BY DEF NotYetCharged
<1>1. NotYetAsked(x, r) /\ (r = q => x # c)
  BY DEF NotYetAsked, Goto, IInv, TypeOK
<1>2. x \notin stored[r].charged /\ x \notin working[r].charged
  BY <1>1 DEF IInv, NotYetCharged
<1>3. r = q => working'[r].charged = working[r].charged \cup {c}
  BY ChargeFields DEF Increment, IInv, TypeOK
<1>4. r # q => working'[r] = working[r]
  BY DEF Increment, IInv, TypeOK
<1> QED
  BY <1>1, <1>2, <1>3, <1>4

LEMMA InvParts ==
    ASSUME IInv
    PROVE  /\ RowTypes
           /\ RowsInv
           /\ status \in StatusType
           /\ faults \in 0 .. MaxFaults
           /\ pc \in [Checks -> Labels]
BY DEF IInv, TypeOK, RowTypes, StatusType

\* A day that a check may read is a day.
LEMMA DayReadIsDay ==
    ASSUME IInv, NEW c \in Checks, NEW d \in DayRead(c)
    PROVE  /\ d \in Days
           /\ UserRow(c, d) \in Rows
           /\ HasIp(c) => IpRow(c, d) \in Rows
<1>1. d \in Days
  BY BoundsAssumption DEF IInv, TypeOK, DayRead, Days
<1>2. UserOf[c] \in Keys /\ (HasIp(c) => IpOf[c] \in Keys)
  BY KeysAssumption DEF Keys, HasIp
<1> QED
  BY <1>1, <1>2 DEF UserRow, IpRow, Rows

LEMMA InitInv == Init => IInv
<1> SUFFICES ASSUME Init PROVE IInv
  OBVIOUS
<1>1. EmptyRow \in CounterRow /\ EmptyRow.charged = {}
  BY DEF EmptyRow, CounterRow
<1>2. TypeOK
  BY <1>1, BoundsAssumption DEF Init, TypeOK, Labels, Transacting, Requesting, Outcomes, Days
<1>3. RowsInv
  BY <1>2, GoodEmpty DEF Init, TypeOK, StatusType, RowsInv, RowsGood, UnlockedRowsCommitted
<1>4. NotYetCharged
  BY <1>1 DEF Init, NotYetCharged
<1>5. NoOutcomeYet /\ NoLockAcrossExternalWork
  BY DEF Init, NoOutcomeYet, NoLockAcrossExternalWork
<1> QED
  BY <1>2, <1>3, <1>4, <1>5 DEF IInv

\* The three steps that take a slot.
LEMMA ReserveIpInv ==
    ASSUME IInv, NEW c \in Checks, ReserveIp(c)
    PROVE  IInv'
<1>1. PICK d \in DayRead(c) : /\ CountReturned(IpRow(c, d)) <= LimitOf[IpOf[c]]
                              /\ Increment(c, IpRow(c, d))
  BY DEF ReserveIp
<1> DEFINE q == IpRow(c, d)
<1>2. /\ pc[c] = "arrived" /\ HasIp(c) /\ Goto(c, "ip_reserved")
      /\ UNCHANGED <<today, faults, status, stored>>
  BY DEF ReserveIp, At
<1>3. q \in Rows
  BY <1>2, DayReadIsDay
<1>4. q[1] = IpOf[c] /\ q[1] # UserOf[c]
  BY <1>2, KeysAssumption DEF IpRow, HasIp
<1>5. NotYetAsked(c, q) /\ c \notin working[q].charged
  BY <1>2, <1>3 DEF IInv, NotYetCharged, NotYetAsked
<1>6. OutcomesMove
  BY <1>2, InvParts DEF OutcomesMove, StaysRejected
<1>7. RowGood(status, q, working[q])
  BY <1>3, InvParts DEF RowsInv, RowsGood
<1>8. working[q].count + 1 <= LimitOf[q[1]]
  BY <1>1, <1>4 DEF CountReturned
<1>9. RowGood(status', q, Charge(c, working[q]))
  BY <1>2, <1>3, <1>5, <1>7, <1>8, InvParts, GoodCharge
<1> HIDE DEF q
<1>10. RowTypes' /\ RowsInv'
  BY <1>1, <1>2, <1>3, <1>6, <1>9, InvParts, IncrementStep DEF q
<1>11. NotYetCharged'
  BY <1>1, <1>2, <1>3, <1>4, <1>5, IncrementUncharged DEF q, Labels, Transacting, Requesting
<1>12. status'[c] = "none"
  BY <1>2 DEF IInv, NoOutcomeYet
<1>13. \A r \in Rows : locker'[r] \in {locker[r], c, NoCheck}
  BY <1>1, <1>3, InvParts DEF q, Increment, RowTypes
<1> QED
  BY <1>2, <1>10, <1>11, <1>12, <1>13, InvParts, StepOfOneCheck DEF Labels, Transacting, Requesting

LEMMA ReserveUserInv ==
    ASSUME IInv, NEW c \in Checks, ReserveUser(c)
    PROVE  IInv'
<1>1. PICK d \in DayRead(c) : /\ CountReturned(UserRow(c, d)) <= LimitOf[UserOf[c]]
                              /\ Increment(c, UserRow(c, d))
  BY DEF ReserveUser
<1> DEFINE q == UserRow(c, d)
<1>2. /\ pc[c] \in {"arrived", "ip_reserved"} /\ Goto(c, "reserved")
      /\ UNCHANGED <<today, faults, status, stored>>
  BY DEF ReserveUser, AtUserLimit, At
<1>3. q \in Rows /\ q[1] = UserOf[c]
  BY DayReadIsDay DEF UserRow
<1>4. NotYetAsked(c, q) /\ c \notin working[q].charged
  BY <1>2, <1>3 DEF IInv, NotYetCharged, NotYetAsked
<1>5. OutcomesMove
  BY <1>2, InvParts DEF OutcomesMove, StaysRejected
<1>6. RowGood(status, q, working[q])
  BY <1>3, InvParts DEF RowsInv, RowsGood
<1>7. working[q].count + 1 <= LimitOf[q[1]]
  BY <1>1, <1>3 DEF CountReturned
<1>8. RowGood(status', q, Charge(c, working[q]))
  BY <1>2, <1>3, <1>4, <1>6, <1>7, InvParts, GoodCharge
<1> HIDE DEF q
<1>9. RowTypes' /\ RowsInv'
  BY <1>1, <1>2, <1>3, <1>5, <1>8, InvParts, IncrementStep DEF q
<1>10. NotYetCharged'
  BY <1>1, <1>2, <1>3, <1>4, IncrementUncharged DEF q, Labels, Transacting, Requesting
<1>11. status'[c] = "none"
  BY <1>2 DEF IInv, NoOutcomeYet
<1>12. \A r \in Rows : locker'[r] \in {locker[r], c, NoCheck}
  BY <1>1, <1>3, InvParts DEF q, Increment, RowTypes
<1> QED
  BY <1>2, <1>9, <1>10, <1>11, <1>12, InvParts, StepOfOneCheck DEF Labels, Transacting, Requesting

LEMMA RejectAtUserInv ==
    ASSUME IInv, NEW c \in Checks, RejectAtUser(c)
    PROVE  IInv'
<1>1. PICK d \in DayRead(c) : Increment(c, UserRow(c, d))
  BY DEF RejectAtUser
<1> DEFINE q == UserRow(c, d)
<1>2. /\ pc[c] \in {"arrived", "ip_reserved"} /\ Goto(c, "settling")
      /\ status' = [status EXCEPT ![c] = "rate_limited"]
      /\ UNCHANGED <<today, faults, stored>>
  BY DEF RejectAtUser, AtUserLimit, At, Ends
<1>3. q \in Rows /\ q[1] = UserOf[c]
  BY DayReadIsDay DEF UserRow
<1>4. NotYetAsked(c, q) /\ c \notin working[q].charged
  BY <1>2, <1>3 DEF IInv, NotYetCharged, NotYetAsked
<1>5. OutcomesMove
  BY <1>2, InvParts DEF OutcomesMove, StaysRejected, StatusType, Outcomes
<1>6. RowGood(status', q, working[q])
  BY <1>3, <1>5, InvParts, RowsStayGood
<1>7. status'[c] = "rate_limited"
  BY <1>2, InvParts DEF StatusType
<1>8. RowGood(status', q, Charge(c, working[q]))
  BY <1>3, <1>4, <1>5, <1>6, <1>7, GoodChargeRejected DEF OutcomesMove
<1> HIDE DEF q
<1>9. RowTypes' /\ RowsInv'
  BY <1>1, <1>2, <1>3, <1>5, <1>8, InvParts, IncrementStep DEF q
<1>10. NotYetCharged'
  BY <1>1, <1>2, <1>3, <1>4, IncrementUncharged DEF q, Labels, Transacting, Requesting
<1>11. \A r \in Rows : locker'[r] \in {locker[r], c, NoCheck}
  BY <1>1, <1>3, InvParts DEF q, Increment, RowTypes
<1>12. status' \in StatusType /\ \A x \in Checks \ {c} : status'[x] = status[x]
  BY <1>2, <1>5, InvParts DEF OutcomesMove, StatusType
<1>13. "settling" \in Labels \ {"arrived"} /\ "settling" \in Transacting /\ "settling" \notin Undecided
  BY DEF Labels, Transacting, Requesting, Undecided
<1> QED
  BY <1>2, <1>9, <1>10, <1>11, <1>12, <1>13, InvParts, StepOfOneCheck

\* Every other step of a check: its label is behind the requests, and its rows gain
\* no charge.
LEMMA StepWithoutCharge ==
    ASSUME IInv, NEW c \in Checks,
           NEW label \in Labels \ {"arrived", "ip_reserved"},
           Goto(c, label), UNCHANGED today, faults' \in 0 .. MaxFaults,
           status' \in StatusType, StaysRejected(status, status'),
           \A x \in Checks \ {c} : status'[x] = status[x],
           label \in Undecided => status'[c] = "none",
           OutcomesMove => RowsKept,
           \A r \in Rows : locker'[r] \in {locker[r], c, NoCheck},
           label \in Transacting \/ \A r \in Rows : locker'[r] # c
    PROVE  IInv'
<1>1. OutcomesMove
  BY InvParts DEF OutcomesMove
<1>2. RowsKept
  BY <1>1
<1>3. NotYetCharged'
  BY <1>2, InvParts, AsksOnward, StaysUncharged DEF RowsKept, IInv
<1> QED
  BY <1>2, <1>3, StepOfOneCheck DEF RowsKept

\* Where the rows' locks go.
LEMMA LocksReleased ==
    ASSUME RowTypes, NEW c \in Checks, locker' = Unlocked(c)
    PROVE  \A r \in Rows : locker'[r] \in {locker[r], NoCheck} /\ locker'[r] # c
BY ChecksAssumption DEF RowTypes, Unlocked

LEMMA DecrementLocks ==
    ASSUME RowTypes, NEW c \in Checks, NEW q \in Rows, Decrement(c, q)
    PROVE  \A r \in Rows : locker'[r] \in {locker[r], c, NoCheck}
BY DEF RowTypes, Decrement

\* An outcome given at the end of the stages.
LEMMA OutcomeGiven ==
    ASSUME IInv, NEW c \in Checks, NEW outcome \in Outcomes, Ends(c, outcome),
           status[c] = "none" \/ outcome = "rate_limited"
    PROVE  /\ status' \in StatusType
           /\ StaysRejected(status, status')
           /\ \A x \in Checks \ {c} : status'[x] = status[x]
BY InvParts DEF Ends, StatusType, StaysRejected

\* A check stands at a label of pc that is not "external" if it has a row locked.
LEMMA ExternalHoldsNothing ==
    ASSUME IInv, NEW c \in Checks, pc[c] \notin Transacting
    PROVE  \A r \in Rows : locker[r] # c
BY ChecksAssumption DEF IInv, NoLockAcrossExternalWork

LEMMA StepInv ==
    ASSUME IInv, NEW c \in Checks, Step(c)
    PROVE  IInv'
<1> USE DEF At, Labels, Transacting, Requesting, Ended, Undecided
<1>1. CASE ReserveIp(c)
  BY <1>1, ReserveIpInv
<1>2. CASE ReserveUser(c)
  BY <1>2, ReserveUserInv
<1>3. CASE RejectAtUser(c)
  BY <1>3, RejectAtUserInv
<1>4. CASE RejectAtIp(c)
  <2>1. /\ pc[c] = "arrived" /\ Goto(c, "done") /\ Ends(c, "rate_limited")
        /\ UNCHANGED <<today, faults, stored, working, locker>>
        /\ \E d \in DayRead(c) : locker[IpRow(c, d)] = NoCheck
    BY <1>4 DEF RejectAtIp
  <2>2. /\ status' \in StatusType /\ StaysRejected(status, status')
        /\ \A x \in Checks \ {c} : status'[x] = status[x]
    BY <2>1, OutcomeGiven DEF Outcomes
  <2>3. OutcomesMove => RowsKept
    BY <2>1, InvParts, NoRowStep
  <2>4. \A r \in Rows : locker[r] # c
    BY <2>1, ExternalHoldsNothing
  <2> QED
    BY <2>1, <2>2, <2>3, <2>4, InvParts, StepWithoutCharge
<1>5. CASE CommitReservation(c)
  <2>1. /\ pc[c] = "reserved" /\ Goto(c, "external") /\ CommitTxn(c)
        /\ UNCHANGED <<today, faults, status>> /\ locker' = Unlocked(c)
    BY <1>5 DEF CommitReservation, CommitTxn
  <2>2. OutcomesMove => RowsKept
    BY <2>1, InvParts, CommitStep
  <2>3. status'[c] = "none" /\ StaysRejected(status, status')
    BY <2>1 DEF IInv, NoOutcomeYet, StaysRejected
  <2>4. \A r \in Rows : locker'[r] \in {locker[r], NoCheck} /\ locker'[r] # c
    BY <2>1, InvParts, LocksReleased
  <2> QED
    BY <2>1, <2>2, <2>3, <2>4, InvParts, StepWithoutCharge
<1>6. CASE StagesReturn(c)
  <2>1. PICK outcome \in {"billable", "free"} : Ends(c, outcome)
    BY <1>6 DEF StagesReturn
  <2>2. /\ pc[c] = "external" /\ Goto(c, "settling")
        /\ UNCHANGED <<today, faults, stored, working, locker>>
    BY <1>6 DEF StagesReturn
  <2>3. /\ status' \in StatusType /\ StaysRejected(status, status')
        /\ \A x \in Checks \ {c} : status'[x] = status[x]
    BY <2>1, <2>2, OutcomeGiven DEF Outcomes, IInv, NoOutcomeYet
  <2>4. OutcomesMove => RowsKept
    BY <2>2, InvParts, NoRowStep
  <2> QED
    BY <2>2, <2>3, <2>4, InvParts, StepWithoutCharge
<1>7. CASE StagesRaise(c)
  <2>1. /\ pc[c] = "external" /\ Goto(c, "refunding") /\ Ends(c, "raised")
        /\ UNCHANGED <<today, faults, stored, working, locker>>
    BY <1>7 DEF StagesRaise
  <2>2. /\ status' \in StatusType /\ StaysRejected(status, status')
        /\ \A x \in Checks \ {c} : status'[x] = status[x]
    BY <2>1, OutcomeGiven DEF Outcomes, IInv, NoOutcomeYet
  <2>3. OutcomesMove => RowsKept
    BY <2>1, InvParts, NoRowStep
  <2>4. \A r \in Rows : locker[r] # c
    BY <2>1, ExternalHoldsNothing
  <2> QED
    BY <2>1, <2>2, <2>3, <2>4, InvParts, StepWithoutCharge
<1>8. CASE RefundAfterRaise(c)
  <2>1. PICK d \in DayRead(c) : RefundAndCommit(c, UserRow(c, d))
    BY <1>8 DEF RefundAfterRaise
  <2> DEFINE label == IF HasIp(c) THEN "refunding_ip" ELSE "failed"
  <2>2. /\ pc[c] = "refunding" /\ Goto(c, label) /\ UNCHANGED <<today, faults, status>>
        /\ locker' = locker
    BY <1>8, <2>1 DEF RefundAfterRaise, RefundAndCommit
  <2>3. OutcomesMove => RowsKept
    BY <2>1, DayReadIsDay, InvParts, RefundStep
  <2>4. \A r \in Rows : locker[r] # c
    BY <2>2, ExternalHoldsNothing
  <2>5. label \in {"refunding_ip", "failed"} /\ StaysRejected(status, status')
    BY <2>2 DEF StaysRejected
  <2> QED
    BY <2>2, <2>3, <2>4, <2>5, InvParts, StepWithoutCharge
<1>9. CASE RefundIpAfterRaise(c)
  <2>1. PICK d \in DayRead(c) : RefundAndCommit(c, IpRow(c, d))
    BY <1>9 DEF RefundIpAfterRaise
  <2>2. /\ pc[c] = "refunding_ip" /\ HasIp(c) /\ Goto(c, "failed")
        /\ UNCHANGED <<today, faults, status>> /\ locker' = locker
    BY <1>9, <2>1 DEF RefundIpAfterRaise, RefundAndCommit
  <2>3. OutcomesMove => RowsKept
    BY <2>1, <2>2, DayReadIsDay, InvParts, RefundStep
  <2>4. \A r \in Rows : locker[r] # c
    BY <2>2, ExternalHoldsNothing
  <2>5. StaysRejected(status, status')
    BY <2>2 DEF StaysRejected
  <2> QED
    BY <2>2, <2>3, <2>4, <2>5, InvParts, StepWithoutCharge
<1>10. CASE SettleUser(c)
  <2>1. /\ pc[c] = "settling" /\ Goto(c, "recording")
        /\ UNCHANGED <<today, faults, status, stored>>
    BY <1>10 DEF SettleUser
  <2>2. \/ UNCHANGED <<working, locker>>
        \/ \E d \in DayRead(c) : Decrement(c, UserRow(c, d))
    BY <1>10 DEF SettleUser
  <2>3. /\ OutcomesMove => RowsKept
        /\ \A r \in Rows : locker'[r] \in {locker[r], c, NoCheck}
    <3>1. CASE UNCHANGED <<working, locker>>
      BY <2>1, <3>1, InvParts, NoRowStep
    <3>2. CASE \E d \in DayRead(c) : Decrement(c, UserRow(c, d))
      BY <2>1, <3>2, DayReadIsDay, InvParts, DecrementStep, DecrementLocks
    <3> QED
      BY <2>2, <3>1, <3>2
  <2>4. StaysRejected(status, status')
    BY <2>1 DEF StaysRejected
  <2> QED
    BY <2>1, <2>3, <2>4, InvParts, StepWithoutCharge
<1>11. CASE RecordEvent(c)
  <2> DEFINE label == IF HasIp(c) THEN "settling_ip" ELSE "committing"
  <2>1. /\ pc[c] = "recording" /\ Goto(c, label)
        /\ UNCHANGED <<today, faults, status, stored, working, locker>>
    BY <1>11 DEF RecordEvent
  <2>2. OutcomesMove => RowsKept
    BY <2>1, InvParts, NoRowStep
  <2>3. label \in {"settling_ip", "committing"} /\ StaysRejected(status, status')
    BY <2>1 DEF StaysRejected
  <2> QED
    BY <2>1, <2>2, <2>3, InvParts, StepWithoutCharge
<1>12. CASE SettleIp(c)
  <2>1. /\ pc[c] = "settling_ip" /\ HasIp(c) /\ Goto(c, "committing")
        /\ UNCHANGED <<today, faults, status, stored>>
    BY <1>12 DEF SettleIp
  <2>2. \/ UNCHANGED <<working, locker>>
        \/ \E d \in DayRead(c) : Decrement(c, IpRow(c, d))
    BY <1>12 DEF SettleIp
  <2>3. /\ OutcomesMove => RowsKept
        /\ \A r \in Rows : locker'[r] \in {locker[r], c, NoCheck}
    <3>1. CASE UNCHANGED <<working, locker>>
      BY <2>1, <3>1, InvParts, NoRowStep
    <3>2. CASE \E d \in DayRead(c) : Decrement(c, IpRow(c, d))
      BY <2>1, <3>2, DayReadIsDay, InvParts, DecrementStep, DecrementLocks
    <3> QED
      BY <2>2, <3>1, <3>2
  <2>4. StaysRejected(status, status')
    BY <2>1 DEF StaysRejected
  <2> QED
    BY <2>1, <2>3, <2>4, InvParts, StepWithoutCharge
<1>13. CASE Commit(c)
  <2>1. /\ pc[c] = "committing" /\ Goto(c, "done") /\ CommitTxn(c)
        /\ UNCHANGED <<today, faults, status>> /\ locker' = Unlocked(c)
    BY <1>13 DEF Commit, CommitTxn
  <2>2. OutcomesMove => RowsKept
    BY <2>1, InvParts, CommitStep
  <2>3. StaysRejected(status, status')
    BY <2>1 DEF StaysRejected
  <2>4. \A r \in Rows : locker'[r] \in {locker[r], NoCheck} /\ locker'[r] # c
    BY <2>1, InvParts, LocksReleased
  <2> QED
    BY <2>1, <2>2, <2>3, <2>4, InvParts, StepWithoutCharge
<1> QED
  BY <1>1, <1>2, <1>3, <1>4, <1>5, <1>6, <1>7, <1>8, <1>9, <1>10, <1>11, <1>12, <1>13
  DEF Step

LEMMA AbortInv ==
    ASSUME IInv, NEW c \in Checks, Abort(c), faults' \in 0 .. MaxFaults
    PROVE  IInv'
<1>1. /\ Goto(c, "aborted") /\ RollbackTxn(c) /\ UNCHANGED <<today, status>>
      /\ locker' = Unlocked(c)
  BY DEF Abort, RollbackTxn
<1>2. OutcomesMove => RowsKept
  BY <1>1, InvParts, RollbackStep
<1>3. StaysRejected(status, status')
  BY <1>1 DEF StaysRejected
<1>4. \A r \in Rows : locker'[r] \in {locker[r], NoCheck} /\ locker'[r] # c
  BY <1>1, InvParts, LocksReleased
<1> QED
  BY <1>1, <1>2, <1>3, <1>4, InvParts, StepWithoutCharge DEF Labels, Ended, Undecided

LEMMA CrashInv ==
    ASSUME IInv, Crash
    PROVE  IInv'
<1>1. /\ pc' = [c \in Checks |-> IF c \in InFlight THEN "lost" ELSE pc[c]]
      /\ faults < MaxFaults /\ faults' = faults + 1
      /\ UNCHANGED <<today, since, status, stored>>
      /\ locker' = [r \in Rows |-> NoCheck]
  BY DEF Crash
<1>2. OutcomesMove
  BY <1>1, InvParts DEF OutcomesMove, StaysRejected
<1>3. RowsKept
  BY <1>2, InvParts, CrashStep
<1>4. TypeOK'
  BY <1>1, <1>3, BoundsAssumption DEF IInv, TypeOK, RowsKept, RowTypes, Labels, Ended
<1>5. \A c \in Checks, r \in Rows : NotYetAsked(c, r)' => NotYetAsked(c, r)
  BY <1>1 DEF NotYetAsked
<1>6. NotYetCharged'
  BY <1>3, <1>5, StaysUncharged DEF RowsKept, IInv
<1>7. NoOutcomeYet' /\ NoLockAcrossExternalWork'
  BY <1>1 DEF IInv, NoOutcomeYet, NoLockAcrossExternalWork
<1> QED
  BY <1>3, <1>4, <1>6, <1>7 DEF IInv, RowsKept

\* A step that moves no check and gives no outcome.
LEMMA IdleChecksInv ==
    ASSUME IInv, UNCHANGED <<faults, pc, since, status, locker>>, today' \in Days,
           OutcomesMove => RowsKept
    PROVE  IInv'
<1>1. OutcomesMove
  BY InvParts DEF OutcomesMove, StaysRejected
<1>2. RowsKept
  BY <1>1
<1>3. TypeOK'
  BY <1>2 DEF IInv, TypeOK, RowsKept, RowTypes
<1>4. NotYetCharged'
  BY <1>2, StaysUncharged DEF RowsKept, IInv, NotYetAsked
<1>5. NoOutcomeYet' /\ NoLockAcrossExternalWork'
  BY DEF IInv, NoOutcomeYet, NoLockAcrossExternalWork
<1> QED
  BY <1>2, <1>3, <1>4, <1>5 DEF IInv, RowsKept

LEMMA NextInv == IInv /\ [Next]_vars => IInv'
<1> SUFFICES ASSUME IInv, [Next]_vars PROVE IInv'
  OBVIOUS
<1>1. ASSUME NEW c \in Checks, Step(c) PROVE IInv'
  BY <1>1, StepInv
<1>2. ASSUME NEW c \in Checks, DeadlockVictim(c) PROVE IInv'
  BY <1>2, AbortInv, InvParts DEF DeadlockVictim
<1>3. ASSUME NEW c \in Checks, ConnectionLost(c) PROVE IInv'
  <2>1. faults' \in 0 .. MaxFaults
    BY <1>3, InvParts, BoundsAssumption DEF ConnectionLost
  <2> QED
    BY <1>3, <2>1, AbortInv DEF ConnectionLost
<1>4. ASSUME NEW u \in Deleters, DeleteUserData(u) PROVE IInv'
  <2>1. OutcomesMove => RowsKept
    BY <1>4, InvParts, DeleteStep
  <2>2. today' \in Days /\ UNCHANGED <<faults, pc, since, status, locker>>
    BY <1>4 DEF DeleteUserData, IInv, TypeOK
  <2> QED
    BY <2>1, <2>2, IdleChecksInv
<1>5. CASE Crash
  BY <1>5, CrashInv
<1>6. CASE NextDay
  <2>1. today' \in Days /\ UNCHANGED <<faults, pc, since, status, stored, working, locker>>
    BY <1>6, BoundsAssumption DEF NextDay, IInv, TypeOK, Days
  <2>2. OutcomesMove => RowsKept
    BY <2>1, InvParts, NoRowStep
  <2> QED
    BY <2>1, <2>2, IdleChecksInv
<1>7. CASE UNCHANGED vars
  <2>1. /\ today' \in Days
        /\ UNCHANGED <<faults, pc, since, status, stored, working, locker>>
    BY <1>7 DEF vars, IInv, TypeOK
  <2>2. OutcomesMove => RowsKept
    BY <2>1, InvParts, NoRowStep
  <2> QED
    BY <2>1, <2>2, IdleChecksInv
<1> QED
  BY <1>1, <1>2, <1>3, <1>4, <1>5, <1>6, <1>7 DEF Next

-----------------------------------------------------------------------------
(* What a step leaves to the checks that do not take it *)

\* A step of another check changes no row that x has locked, and elsewhere neither
\* charges nor refunds x.
Spares(x) ==
    \A r \in Rows :
        /\ locker'[r] = x <=> locker[r] = x
        /\ locker[r] = x => stored'[r] = stored[r] /\ working'[r] = working[r]
        /\ x \in stored'[r].charged <=> x \in stored[r].charged
        /\ x \in working'[r].charged <=> x \in working[r].charged
        /\ stored[r].stray <= stored'[r].stray

SparesOthers(c) == \A x \in Checks \ {c} : OwnChanges(x) => Spares(x)

LEMMA RowFacts ==
    ASSUME RowTypes, NEW r \in Rows
    PROVE  /\ stored[r] \in CounterRow /\ working[r] \in CounterRow
           /\ stored[r].count \in Nat /\ stored[r].stray \in Nat
           /\ working[r].count \in Nat /\ working[r].stray \in Nat
BY DEF RowTypes, CounterRow

LEMMA RowsSame ==
    ASSUME RowTypes, StraysGrow, UNCHANGED <<stored, working, locker>>
    PROVE  StraysGrow' /\ NoNewCharges
           /\ \A x \in Checks : Spares(x) /\ (OwnChanges(x) => OwnChanges(x)')
BY RowFacts DEF StraysGrow, NoNewCharges, Spares, OwnChanges

LEMMA IncrementSpares ==
    ASSUME RowTypes, RowsInv, StraysGrow, NEW c \in Checks, NEW q \in Rows, Increment(c, q),
           UNCHANGED stored
    PROVE  /\ StraysGrow' /\ SparesOthers(c) /\ (OwnChanges(c) => OwnChanges(c)')
           /\ locker[q] \in {NoCheck, c} /\ locker'[q] = c
           /\ working'[q].count = working[q].count + 1
           /\ working'[q].charged = working[q].charged \cup {c}
           /\ \A r \in Rows : r # q => working'[r] = working[r] /\ locker'[r] = locker[r]
<1>1. /\ locker[q] \in {NoCheck, c} /\ locker'[q] = c /\ working'[q] = Charge(c, working[q])
      /\ \A r \in Rows : r # q => working'[r] = working[r] /\ locker'[r] = locker[r]
  BY DEF Increment, Free, RowTypes
<1>2. /\ working'[q].count = working[q].count + 1
      /\ working'[q].charged = working[q].charged \cup {c}
      /\ working'[q].stray = working[q].stray
  BY <1>1, RowFacts, ChargeFields
<1>3. StraysGrow'
  BY <1>1, <1>2 DEF StraysGrow
<1>4. SparesOthers(c)
  BY <1>1, <1>2, RowFacts, ChecksAssumption DEF SparesOthers, Spares
<1>5. OwnChanges(c) => OwnChanges(c)'
  BY <1>1 DEF OwnChanges
<1> QED
  BY <1>1, <1>2, <1>3, <1>4, <1>5

\* What a refund does to the row it finds, if it finds one.
LEMMA DecrementSpares ==
    ASSUME RowTypes, RowsInv, StraysGrow, NEW c \in Checks, NEW q \in Rows, Decrement(c, q),
           UNCHANGED stored
    PROVE  /\ StraysGrow' /\ NoNewCharges /\ SparesOthers(c) /\ (OwnChanges(c) => OwnChanges(c)')
           /\ \A r \in Rows : r # q => working'[r] = working[r] /\ locker'[r] = locker[r]
           /\ \/ Visible(c, q).count = 0 /\ UNCHANGED <<working, locker>>
              \/ /\ locker[q] \in {NoCheck, c} /\ locker'[q] = c
                 /\ c \notin working'[q].charged /\ working'[q].count = working[q].count - 1
<1>1. CASE Visible(c, q).count = 0
  BY <1>1, RowsSame DEF Decrement, SparesOthers
<1>2. CASE Visible(c, q).count # 0
  <2>1. /\ locker[q] \in {NoCheck, c} /\ locker'[q] = c /\ working'[q] = Uncharge(c, working[q])
        /\ \A r \in Rows : r # q => working'[r] = working[r] /\ locker'[r] = locker[r]
    BY <1>2 DEF Decrement, Free, RowTypes
  <2>2. working[q].count # 0
    BY <1>2, <2>1 DEF Visible, RowsInv, UnlockedRowsCommitted
  <2>3. /\ working'[q].count = working[q].count - 1
        /\ working'[q].charged = working[q].charged \ {c}
        /\ working[q].stray <= working'[q].stray
        /\ working[q].stray \in Nat /\ working'[q].stray \in Nat
    <3> DEFINE new == Uncharge(c, working[q])
    <3>1. /\ new \in CounterRow /\ new.count = working[q].count - 1
          /\ new.charged = working[q].charged \ {c}
          /\ new.stray = IF c \in working[q].charged THEN working[q].stray ELSE working[q].stray + 1
      BY <2>2, RowFacts, UnchargeFields
    <3>2. new.stray \in Nat /\ working[q].stray \in Nat
      BY <3>1, RowFacts DEF CounterRow
    <3>3. working'[q] = new
      BY <2>1
    <3> HIDE DEF new
    <3> QED
      BY <3>1, <3>2, <3>3
  <2>4. StraysGrow'
    BY <2>1, <2>3, RowFacts DEF StraysGrow
  <2>5. SparesOthers(c)
    BY <2>1, <2>3, RowFacts, ChecksAssumption DEF SparesOthers, Spares
  <2>6. NoNewCharges
    BY <2>1, <2>3 DEF NoNewCharges
  <2> QED
    BY <2>1, <2>3, <2>4, <2>5, <2>6 DEF OwnChanges
<1> QED
  BY <1>1, <1>2

LEMMA CommitSpares ==
    ASSUME RowTypes, RowsInv, StraysGrow, NEW c \in Checks, CommitTxn(c)
    PROVE  /\ StraysGrow' /\ NoNewCharges /\ SparesOthers(c) /\ (OwnChanges(c) => OwnChanges(c)')
           /\ working' = working
           /\ \A r \in Rows : /\ stored'[r] = (IF locker[r] = c THEN working[r] ELSE stored[r])
                             /\ locker'[r] = (IF locker[r] = c THEN NoCheck ELSE locker[r])
<1>1. /\ working' = working
      /\ \A r \in Rows : /\ stored'[r] = (IF locker[r] = c THEN working[r] ELSE stored[r])
                        /\ locker'[r] = (IF locker[r] = c THEN NoCheck ELSE locker[r])
  BY DEF CommitTxn, Unlocked
<1>2. StraysGrow' /\ NoNewCharges
  BY <1>1, RowFacts DEF StraysGrow, NoNewCharges
<1>3. SparesOthers(c)
  BY <1>1, RowFacts, ChecksAssumption DEF SparesOthers, Spares, OwnChanges, StraysGrow
<1> QED
  BY <1>1, <1>2, <1>3 DEF OwnChanges

LEMMA RollbackSpares ==
    ASSUME RowTypes, RowsInv, StraysGrow, NEW c \in Checks, RollbackTxn(c)
    PROVE  /\ StraysGrow' /\ NoNewCharges /\ SparesOthers(c) /\ (OwnChanges(c) => OwnChanges(c)')
           /\ stored' = stored
           /\ \A r \in Rows : locker'[r] # c
<1>1. /\ stored' = stored
      /\ \A r \in Rows : /\ working'[r] = (IF locker[r] = c THEN stored[r] ELSE working[r])
                        /\ locker'[r] = (IF locker[r] = c THEN NoCheck ELSE locker[r])
  BY DEF RollbackTxn, Unlocked
<1>2. StraysGrow' /\ NoNewCharges
  BY <1>1, RowFacts DEF StraysGrow, NoNewCharges
<1>3. SparesOthers(c)
  BY <1>1, RowFacts, ChecksAssumption DEF SparesOthers, Spares, OwnChanges
<1> QED
  BY <1>1, <1>2, <1>3, ChecksAssumption DEF OwnChanges

LEMMA RefundSpares ==
    ASSUME RowTypes, RowsInv, StraysGrow, NEW c \in Checks, NEW q \in Rows, RefundAndCommit(c, q)
    PROVE  /\ StraysGrow' /\ NoNewCharges /\ SparesOthers(c) /\ (OwnChanges(c) => OwnChanges(c)')
           /\ locker' = locker
           /\ \A r \in Rows : r # q => stored'[r] = stored[r]
           /\ \/ stored[q].count = 0 /\ stored' = stored
              \/ c \notin stored'[q].charged /\ stored'[q].count = stored[q].count - 1
<1>1. CASE stored[q].count = 0
  BY <1>1, RowsSame DEF RefundAndCommit, SparesOthers
<1>2. CASE stored[q].count # 0
  <2>1. /\ locker[q] = NoCheck /\ locker' = locker
        /\ stored'[q] = Uncharge(c, stored[q]) /\ working'[q] = Uncharge(c, working[q])
        /\ \A r \in Rows : r # q => stored'[r] = stored[r] /\ working'[r] = working[r]
    BY <1>2 DEF RefundAndCommit, RowTypes
  <2>2. working[q] = stored[q]
    BY <2>1 DEF RowsInv, UnlockedRowsCommitted
  <2>3. /\ stored'[q].count = stored[q].count - 1
        /\ stored'[q].charged = stored[q].charged \ {c}
        /\ stored[q].stray <= stored'[q].stray
        /\ stored[q].stray \in Nat /\ stored'[q].stray \in Nat
        /\ working'[q] = stored'[q]
    <3> DEFINE new == Uncharge(c, stored[q])
    <3>1. /\ new \in CounterRow /\ new.count = stored[q].count - 1
          /\ new.charged = stored[q].charged \ {c}
          /\ new.stray = IF c \in stored[q].charged THEN stored[q].stray ELSE stored[q].stray + 1
      BY <1>2, RowFacts, UnchargeFields
    <3>2. new.stray \in Nat /\ stored[q].stray \in Nat
      BY <3>1, RowFacts DEF CounterRow
    <3>3. stored'[q] = new /\ working'[q] = new
      BY <2>1, <2>2
    <3> HIDE DEF new
    <3> QED
      BY <3>1, <3>2, <3>3
  <2>4. StraysGrow'
    BY <2>1, <2>3, RowFacts DEF StraysGrow
  <2>5. SparesOthers(c)
    BY <2>1, <2>2, <2>3, RowFacts, ChecksAssumption DEF SparesOthers, Spares
  <2>6. NoNewCharges
    BY <2>1, <2>3 DEF NoNewCharges
  <2> QED
    BY <2>1, <2>2, <2>3, <2>4, <2>5, <2>6 DEF OwnChanges
<1> QED
  BY <1>1, <1>2

\* A check that a step spares stands where it stood.
LEMMA SparedStands ==
    ASSUME RowTypes, RowTypes', NEW x \in Checks, Standing(x), Spares(x),
           pc'[x] = pc[x], since'[x] = since[x], status'[x] = status[x],
           since[x] \in Int, today \in Int, today' \in Int, today <= today'
    PROVE  Standing(x)'
<1>1. \A r \in Rows :
        /\ locker'[r] = x <=> locker[r] = x
        /\ locker[r] = x => stored'[r] = stored[r] /\ working'[r] = working[r]
        /\ x \in stored'[r].charged <=> x \in stored[r].charged
        /\ x \in working'[r].charged <=> x \in working[r].charged
        /\ stored[r].stray <= stored'[r].stray
        /\ Charged(x, r)' <=> Charged(x, r)
        /\ r[2] \in Int
  BY BoundsAssumption DEF Spares, Charged, Rows, Days
<1>2. UserOf[x] \in Keys /\ (HasIp(x) => IpOf[x] \in Keys)
  BY KeysAssumption DEF HasIp, Keys
<1>3. \A k \in Keys, d \in Days : <<k, d>> \in Rows /\ d \in Int
  BY BoundsAssumption DEF Rows, Days
<1>4. since'[x] <= today' /\ ChargedOnce(x)'
  BY <1>1 DEF Standing, ChargedOnce, OwnKeys
<1>5. OwnChanges(x)'
  BY <1>1 DEF Standing, OwnChanges
<1>6. LockAccounts(x)'
  BY <1>1 DEF Standing, LockAccounts, Unsettled, Delta, OwnKeys
<1>7. ReservedSoFar(x)'
  BY <1>1, <1>2, <1>3 DEF Standing, ReservedSoFar, Reserved, HasIp
<1>8. PaidFor(x)' => \A k \in OwnKeys(x) \ Deleters : Paid(x, k)'
  BY <1>1, <1>3 DEF Standing, PaidFor, Paid, Billable, OwnKeys
<1>9. ASSUME NEW k \in Keys, Settled(x, k) PROVE Settled(x, k)'
  <2> SUFFICES ASSUME NEW d \in Days, x \in (Visible(x, <<k, d>>)').charged
               PROVE  \/ d < today'
                      \/ (status'[x] # "rate_limited" /\ (Visible(x, <<k, d>>)').stray > 0)
    BY DEF Settled
  <2> DEFINE r == <<k, d>>
  <2>1. r \in Rows /\ d \in Int
    BY <1>3
  <2>2. x \in Visible(x, r).charged
    BY <1>1, <2>1 DEF Visible
  <2>3. d < today \/ (status[x] # "rate_limited" /\ Visible(x, r).stray > 0)
    BY <1>9, <2>2 DEF Settled
  <2> HIDE DEF r
  <2>4. stored[r].stray \in Nat /\ stored'[r].stray \in Nat
    BY <2>1 DEF RowTypes, CounterRow
  <2>5. Visible(x, r).stray > 0 => (IF locker'[r] = x THEN working'[r] ELSE stored'[r]).stray > 0
    BY <1>1, <2>1, <2>4 DEF Visible
  <2> QED
    BY <2>1, <2>3, <2>5 DEF Visible, r
<1>10. SettledSoFar(x)'
  BY <1>2, <1>9 DEF Standing, SettledSoFar, Billable, HasIp
<1>11. RejectionLeavesNone(x)'
  BY <1>1 DEF Standing, RejectionLeavesNone
<1> QED
  BY <1>4, <1>5, <1>6, <1>7, <1>8, <1>10, <1>11 DEF Standing

-----------------------------------------------------------------------------
(* What a check's own step does to its standing *)

LEMMA KeysOfCheck ==
    ASSUME NEW c \in Checks
    PROVE  /\ UserOf[c] \in OwnKeys(c) /\ UserOf[c] \in Keys /\ IpOf[c] # UserOf[c]
           /\ HasIp(c) => IpOf[c] \in OwnKeys(c) /\ IpOf[c] \in Keys
           /\ ~HasIp(c) => OwnKeys(c) = {UserOf[c]}
           /\ \A k \in OwnKeys(c) : k = UserOf[c] \/ (HasIp(c) /\ k = IpOf[c])
<1>1. UserOf[c] \in UserKeys /\ IpOf[c] \in IpKeys \cup {NoIp} /\ NoIp \notin Keys
  BY KeysAssumption
<1> QED
  BY <1>1, KeysAssumption DEF OwnKeys, HasIp, Keys

LEMMA DaysAreNumbers ==
    ASSUME IInv
    PROVE  /\ today \in Days /\ today \in Int /\ \A c \in Checks : since[c] \in Int
           /\ \A d \in Days : d \in Int
           /\ \A r \in Rows : r[2] \in Days /\ r[2] \in Int /\ r[1] \in Keys /\ r = <<r[1], r[2]>>
BY BoundsAssumption DEF IInv, TypeOK, Days, Rows

LEMMA OnceKept ==
    ASSUME IInv, NEW c \in Checks, ChargedOnce(c), NoNewCharges,
           since'[c] \in Int, since[c] <= since'[c]
    PROVE  ChargedOnce(c)'
<1>1. \A r \in Rows : Charged(c, r)' => Charged(c, r)
  BY DEF NoNewCharges, Charged
<1> QED
  BY <1>1, DaysAreNumbers DEF ChargedOnce, OwnKeys

\* A reservation charges the check for the first time on that counter.
LEMMA IncrementStands ==
    ASSUME IInv, StraysGrow, NEW c \in Checks, Standing(c), NEW q \in Rows, Increment(c, q),
           UNCHANGED stored, NotYetAsked(c, q), q[1] \in OwnKeys(c), q[2] <= today, since'[c] = today,
           pc[c] = "arrived" \/ (pc[c] = "ip_reserved" /\ q[1] # IpOf[c] /\ pc'[c] # "ip_reserved"),
           pc'[c] = "ip_reserved" => q[1] = IpOf[c],
           pc'[c] \in {"ip_reserved", "reserved", "settling"},
           \/ status'[c] = "rate_limited"
           \/ /\ pc'[c] # "settling" /\ status'[c] = status[c]
              /\ CountReturned(q) <= LimitOf[q[1]]
    PROVE  ChargedOnce(c)' /\ OwnChanges(c)' /\ LockAccounts(c)' /\ since'[c] <= today
<1>1. RowTypes /\ RowsInv
  BY InvParts
<1>2. /\ OwnChanges(c)'
      /\ locker[q] \in {NoCheck, c} /\ locker'[q] = c
      /\ working'[q].count = working[q].count + 1
      /\ working'[q].charged = working[q].charged \cup {c}
      /\ \A r \in Rows : r # q => working'[r] = working[r] /\ locker'[r] = locker[r]
  BY <1>1, IncrementSpares DEF Standing
<1>3. \A r \in Rows : locker[r] = c => pc[c] = "ip_reserved" /\ r[1] = IpOf[c]
  BY ChecksAssumption DEF IInv, NoLockAcrossExternalWork, Transacting, Standing, LockAccounts
<1>4. working[q] = stored[q]
  BY <1>1, <1>2, <1>3 DEF RowsInv, UnlockedRowsCommitted
<1>5. \A r \in Rows : r[1] = q[1] => ~Charged(c, r)
  BY DEF NotYetAsked, IInv, NotYetCharged, Charged
<1>6. ChargedOnce(c)'
  <2>1. \A r \in Rows : Charged(c, r)' => r = q \/ (Charged(c, r) /\ r[1] # q[1])
    BY <1>2, <1>5 DEF Charged
  <2>2. \A r \in Rows : Charged(c, r) => /\ r[1] \in OwnKeys(c) /\ r[2] <= today
                                         /\ \A s \in Rows : Charged(c, s) /\ s[1] = r[1] => s[2] = r[2]
    BY DaysAreNumbers DEF Standing, ChargedOnce
  <2> QED
    BY <2>1, <2>2 DEF ChargedOnce, OwnKeys
<1>7. LockAccounts(c)'
  <2> SUFFICES ASSUME NEW r \in Rows, locker'[r] = c
               PROVE  /\ r[1] \in OwnKeys(c)
                      /\ Delta(r)' \in {-1, 0, 1}
                      /\ c \in working'[r].charged <=> Delta(r)' = 1
                      /\ Unsettled(c, r[1])' => Delta(r)' = 1
                      /\ Delta(r)' = 1 =>
                            \/ status'[c] = "rate_limited"
                            \/ (pc'[c] \in {"ip_reserved", "reserved"}
                                /\ working'[r].count <= LimitOf[r[1]])
                      /\ pc'[c] = "ip_reserved" => r[1] = IpOf[c]
    BY DEF LockAccounts, OwnKeys
  <2>1. CASE r = q
    <3>1. Delta(q)' = 1
      BY <1>1, <1>2, <1>4, RowFacts DEF Delta
    <3> QED
      BY <1>2, <2>1, <3>1 DEF CountReturned
  <2>2. CASE r # q
    <3>1. /\ locker[r] = c /\ working'[r] = working[r] /\ Delta(r)' = Delta(r)
          /\ pc[c] = "ip_reserved" /\ r[1] = IpOf[c]
      BY <1>2, <1>3, <2>2 DEF Delta
    <3>2. Unsettled(c, r[1])
      BY <3>1 DEF Unsettled
    <3>3. status[c] # "rate_limited"
      BY <3>1 DEF IInv, NoOutcomeYet
    <3> QED
      BY <3>1, <3>2, <3>3 DEF Standing, LockAccounts
  <2> QED
    BY <2>1, <2>2
<1> QED
  BY <1>2, <1>6, <1>7, DaysAreNumbers

\* After a refund on a day that may be the day of its charge, the check sees itself
\* on no row of today, unless somebody else's refund had taken the slot.
LEMMA Refunded ==
    ASSUME IInv, NEW c \in Checks, Standing(c), NEW k \in Keys, NEW d \in DayRead(c),
           status'[c] = status[c], today' = today,
           \A e \in Days : e # d => Visible(c, <<k, e>>)' = Visible(c, <<k, e>>),
           \/ /\ Visible(c, <<k, d>>).count = 0
              /\ Visible(c, <<k, d>>)' = Visible(c, <<k, d>>)
           \/ c \notin (Visible(c, <<k, d>>)').charged
    PROVE  Settled(c, k)'
<1> SUFFICES ASSUME NEW e \in Days, c \in (Visible(c, <<k, e>>)').charged
             PROVE  \/ e < today'
                    \/ (status'[c] # "rate_limited" /\ (Visible(c, <<k, e>>)').stray > 0)
  BY DEF Settled
<1> DEFINE r == <<k, e>>
           row == Visible(c, r)
<1>1. r \in Rows /\ r[1] = k /\ r[2] = e /\ e \in Int /\ d \in Int /\ since[c] <= d /\ d <= today
  BY DaysAreNumbers DEF Rows, DayRead
<1>2. row' = row /\ c \in row.charged
  BY DEF Visible
<1>3. Charged(c, r)
  BY <1>2 DEF Visible, Charged
<1>4. e <= since[c]
  BY <1>1, <1>3 DEF Standing, ChargedOnce
<1>5. CASE e # d
  BY <1>1, <1>4, <1>5, DaysAreNumbers
<1>6. CASE e = d
  <2>1. row.count = 0
    BY <1>2, <1>6
  <2>2. row \in CounterRow /\ Balanced(row)
    BY <1>1 DEF Visible, IInv, TypeOK, RowsInv, RowsGood, RowGood
  <2>3. row.stray > 0
    <3>1. IsFiniteSet(row.charged) /\ Cardinality(row.charged) \in Nat /\ row.stray \in Nat
      BY <2>2, ChargedFinite DEF CounterRow
    <3>2. Cardinality(row.charged) # 0
      BY <1>2, <3>1, FS_EmptySet
    <3> QED
      BY <2>1, <2>2, <3>1, <3>2 DEF Balanced
  <2>4. CASE status[c] = "rate_limited"
    <3>1. locker[r] # c
      <4> SUFFICES ASSUME locker[r] = c PROVE FALSE
        OBVIOUS
      <4>1. row = working[r] /\ Delta(r) = 1
        BY <1>1, <1>2 DEF Visible, Standing, LockAccounts
      <4> QED
        BY <1>1, <2>1, <4>1, RowFacts, InvParts DEF Delta
    <3>2. c \in stored[r].charged
      BY <1>2, <3>1 DEF Visible
    <3> QED
      BY <1>1, <2>4, <3>2 DEF Standing, RejectionLeavesNone
  <2>5. CASE status[c] # "rate_limited"
    <3> HIDE DEF row
    <3>1. (row').stray > 0
      BY <1>2, <2>3
    <3> QED
      BY <2>5, <3>1 DEF row
  <2> QED
    BY <2>4, <2>5
<1> QED
  BY <1>5, <1>6

\* A step that leaves c's rows as they are to c, and c without a lock or where it was.
LEMMA QuietStands ==
    ASSUME IInv, IInv', NEW c \in Checks, Standing(c), NEW label, Goto(c, label), UNCHANGED today,
           UNCHANGED <<stored, working, locker>>
    PROVE  /\ since'[c] <= today' /\ ChargedOnce(c)' /\ OwnChanges(c)'
           /\ pc'[c] = label
           /\ \A k : Paid(c, k) => Paid(c, k)'
           /\ \A k \in Keys : Settled(c, k) /\ status'[c] = status[c] => Settled(c, k)'
<1>1. since'[c] = today /\ pc'[c] = label
  BY DEF Goto, IInv, TypeOK
<1>2. ChargedOnce(c)'
  BY <1>1, OnceKept, DaysAreNumbers DEF Standing, NoNewCharges
<1>3. OwnChanges(c)'
  BY DEF Standing, OwnChanges
<1> QED
  BY <1>1, <1>2, <1>3, DaysAreNumbers DEF Paid, Settled, Visible

\* A check that holds no lock accounts for none.
LEMMA NoLocksNoAccounts ==
    ASSUME NEW c \in Checks, \A r \in Rows : locker'[r] # c
    PROVE  LockAccounts(c)'
BY DEF LockAccounts

LEMMA HoldsNothing ==
    ASSUME IInv, NEW c \in Checks, pc[c] \notin Transacting
    PROVE  \A r \in Rows : locker[r] # c
BY ChecksAssumption DEF IInv, NoLockAcrossExternalWork

LEMMA OthersAreSpared ==
    ASSUME IInv, IInv', NEW c \in Checks, SparesOthers(c), \A x \in Checks : Standing(x),
           UNCHANGED today, NEW label, Goto(c, label),
           \A x \in Checks \ {c} : status'[x] = status[x]
    PROVE  \A x \in Checks \ {c} : Standing(x)'
<1> SUFFICES ASSUME NEW x \in Checks \ {c}
             PROVE  Standing(x)'
  OBVIOUS
<1>1. pc'[x] = pc[x] /\ since'[x] = since[x]
  BY DEF Goto, IInv, TypeOK
<1>2. Spares(x)
  BY DEF SparesOthers, Standing
<1> QED
  BY <1>1, <1>2, SparedStands, InvParts, DaysAreNumbers DEF IInv, TypeOK, RowTypes

LEMMA ReserveIpStands ==
    ASSUME SInv, IInv', NEW c \in Checks, ReserveIp(c)
    PROVE  SInv'
<1>1. PICK d \in DayRead(c) : /\ CountReturned(IpRow(c, d)) <= LimitOf[IpOf[c]]
                             /\ Increment(c, IpRow(c, d))
  BY DEF ReserveIp
<1> DEFINE q == IpRow(c, d)
<1>2. /\ pc[c] = "arrived" /\ HasIp(c) /\ Goto(c, "ip_reserved")
      /\ UNCHANGED <<today, faults, status, stored>>
  BY DEF ReserveIp, At
<1>3. /\ IInv /\ StraysGrow /\ Standing(c) /\ RowTypes /\ RowsInv
      /\ q \in Rows /\ q[1] = IpOf[c] /\ q[2] = d /\ d \in Days /\ d <= today
  BY <1>2, InvParts, DayReadIsDay, DaysAreNumbers DEF SInv, DayRead, IpRow
<1>4. pc'[c] = "ip_reserved" /\ since'[c] = today
  BY <1>2, <1>3 DEF Goto, IInv, TypeOK
<1>5. /\ StraysGrow' /\ SparesOthers(c)
      /\ locker'[q] = c /\ c \in working'[q].charged
  BY <1>1, <1>2, <1>3, IncrementSpares
<1>6. ChargedOnce(c)' /\ OwnChanges(c)' /\ LockAccounts(c)' /\ since'[c] <= today
  BY <1>1, <1>2, <1>3, <1>4, IncrementStands, KeysOfCheck DEF NotYetAsked
<1>7. \A r \in Rows : c \notin stored'[r].charged
  BY <1>2, <1>3 DEF NotYetAsked, IInv, NotYetCharged
<1>8. ReservedSoFar(c)'
  <2>1. q = <<IpOf[c], d>>
    BY DEF IpRow
  <2>2. Reserved(c, IpOf[c])'
    BY <1>3, <1>5, <2>1 DEF Reserved
  <2> QED
    BY <1>4, <1>7, <2>2 DEF ReservedSoFar
<1>9. ~PaidFor(c)' /\ SettledSoFar(c)'
  BY <1>4 DEF PaidFor, SettledSoFar
<1>10. Standing(c)'
  BY <1>2, <1>6, <1>7, <1>8, <1>9 DEF Standing, RejectionLeavesNone
<1>11. \A x \in Checks \ {c} : Standing(x)'
  BY <1>2, <1>3, <1>5, OthersAreSpared DEF SInv
<1> QED
  BY <1>5, <1>10, <1>11 DEF SInv

LEMMA ReserveUserStands ==
    ASSUME SInv, IInv', NEW c \in Checks, ReserveUser(c)
    PROVE  SInv'
<1>1. PICK d \in DayRead(c) : /\ CountReturned(UserRow(c, d)) <= LimitOf[UserOf[c]]
                             /\ Increment(c, UserRow(c, d))
  BY DEF ReserveUser
<1> DEFINE q == UserRow(c, d)
<1>2. /\ (pc[c] = "arrived" /\ ~HasIp(c)) \/ pc[c] = "ip_reserved"
      /\ Goto(c, "reserved") /\ UNCHANGED <<today, faults, status, stored>>
  BY DEF ReserveUser, At, AtUserLimit
<1>3. /\ IInv /\ StraysGrow /\ Standing(c) /\ RowTypes /\ RowsInv
      /\ q \in Rows /\ q[1] = UserOf[c] /\ q[2] = d /\ d \in Days /\ d <= today
  BY <1>2, InvParts, DayReadIsDay, DaysAreNumbers DEF SInv, DayRead, UserRow
<1>4. pc'[c] = "reserved" /\ since'[c] = today
  BY <1>2, <1>3 DEF Goto, IInv, TypeOK
<1>5. /\ StraysGrow' /\ SparesOthers(c)
      /\ locker'[q] = c /\ c \in working'[q].charged
      /\ \A r \in Rows : r # q => working'[r] = working[r] /\ locker'[r] = locker[r]
  BY <1>1, <1>2, <1>3, IncrementSpares
<1>6. ChargedOnce(c)' /\ OwnChanges(c)' /\ LockAccounts(c)' /\ since'[c] <= today
  BY <1>1, <1>2, <1>3, <1>4, IncrementStands, KeysOfCheck DEF NotYetAsked
<1>7. \A r \in Rows : c \notin stored'[r].charged
  BY <1>2, <1>3 DEF NotYetAsked, IInv, NotYetCharged, Standing, ReservedSoFar
<1>8. ReservedSoFar(c)'
  <2>1. q = <<UserOf[c], d>>
    BY DEF UserRow
  <2>2. Reserved(c, UserOf[c])'
    BY <1>3, <1>5, <2>1 DEF Reserved
  <2>3. ASSUME HasIp(c) PROVE Reserved(c, IpOf[c])'
    <3>1. PICK e \in Days : /\ locker[<<IpOf[c], e>>] = c
                           /\ c \in working[<<IpOf[c], e>>].charged
      BY <1>2, <1>3, <2>3 DEF Standing, ReservedSoFar, Reserved
    <3>2. <<IpOf[c], e>> \in Rows /\ <<IpOf[c], e>> # q
      BY <2>1, <2>3, KeysOfCheck DEF Rows
    <3> QED
      BY <1>5, <3>1, <3>2 DEF Reserved
  <2> QED
    BY <1>4, <1>7, <2>2, <2>3 DEF ReservedSoFar, HasIp
<1>9. ~PaidFor(c)' /\ SettledSoFar(c)'
  BY <1>4 DEF PaidFor, SettledSoFar
<1>10. Standing(c)'
  BY <1>2, <1>6, <1>7, <1>8, <1>9 DEF Standing, RejectionLeavesNone
<1>11. \A x \in Checks \ {c} : Standing(x)'
  BY <1>2, <1>3, <1>5, OthersAreSpared DEF SInv
<1> QED
  BY <1>5, <1>10, <1>11 DEF SInv

LEMMA RejectAtUserStands ==
    ASSUME SInv, IInv', NEW c \in Checks, RejectAtUser(c)
    PROVE  SInv'
<1>1. PICK d \in DayRead(c) : Increment(c, UserRow(c, d))
  BY DEF RejectAtUser
<1> DEFINE q == UserRow(c, d)
<1>2. /\ (pc[c] = "arrived" /\ ~HasIp(c)) \/ pc[c] = "ip_reserved"
      /\ Goto(c, "settling") /\ Ends(c, "rate_limited") /\ UNCHANGED <<today, faults, stored>>
  BY DEF RejectAtUser, At, AtUserLimit
<1>3. /\ IInv /\ StraysGrow /\ Standing(c) /\ RowTypes /\ RowsInv
      /\ q \in Rows /\ q[1] = UserOf[c] /\ q[2] = d /\ d \in Days /\ d <= today
  BY <1>2, InvParts, DayReadIsDay, DaysAreNumbers DEF SInv, DayRead, UserRow
<1>4. /\ pc'[c] = "settling" /\ since'[c] = today /\ status'[c] = "rate_limited"
      /\ \A x \in Checks \ {c} : status'[x] = status[x]
  BY <1>2, <1>3 DEF Goto, Ends, IInv, TypeOK
<1>5. StraysGrow' /\ SparesOthers(c)
  BY <1>1, <1>2, <1>3, IncrementSpares
<1>6. ChargedOnce(c)' /\ OwnChanges(c)' /\ LockAccounts(c)' /\ since'[c] <= today
  BY <1>1, <1>2, <1>3, <1>4, IncrementStands, KeysOfCheck DEF NotYetAsked
<1>7. \A r \in Rows : c \notin stored'[r].charged
  BY <1>2, <1>3 DEF NotYetAsked, IInv, NotYetCharged, Standing, ReservedSoFar
<1>8. ReservedSoFar(c)' /\ ~PaidFor(c)' /\ SettledSoFar(c)'
  BY <1>4 DEF ReservedSoFar, PaidFor, SettledSoFar, Billable
<1>9. Standing(c)'
  BY <1>2, <1>6, <1>7, <1>8 DEF Standing, RejectionLeavesNone
<1>10. \A x \in Checks \ {c} : Standing(x)'
  BY <1>2, <1>3, <1>4, <1>5, OthersAreSpared DEF SInv
<1> QED
  BY <1>5, <1>9, <1>10 DEF SInv

\* The steps that touch no row.
LEMMA QuietSteps ==
    ASSUME SInv, IInv', NEW c \in Checks,
           RejectAtIp(c) \/ StagesReturn(c) \/ StagesRaise(c) \/ RecordEvent(c)
    PROVE  SInv'
<1> DEFINE label == IF pc[c] = "arrived" THEN "done"
                    ELSE IF pc[c] = "recording" THEN (IF HasIp(c) THEN "settling_ip" ELSE "committing")
                    ELSE IF StagesReturn(c) THEN "settling" ELSE "refunding"
<1>1. /\ Goto(c, label) /\ UNCHANGED <<today, faults, stored, working, locker>>
      /\ pc[c] \in {"arrived", "external", "recording"}
  BY DEF RejectAtIp, StagesReturn, StagesRaise, RecordEvent, At
<1>2. /\ pc[c] = "arrived" => status'[c] = "rate_limited" /\ label = "done"
      /\ pc[c] = "external" => status'[c] # "rate_limited" /\ label \in {"settling", "refunding"}
      /\ pc[c] = "recording" => status' = status /\ label \in {"settling_ip", "committing"}
      /\ label = "committing" => ~HasIp(c)
      /\ label = "refunding" => ~Billable(c)'
      /\ \A x \in Checks \ {c} : status'[x] = status[x]
  BY DEF RejectAtIp, StagesReturn, StagesRaise, RecordEvent, At, Ends, SInv, IInv, TypeOK, Billable
<1> HIDE DEF label
<1>3. IInv /\ StraysGrow /\ Standing(c) /\ RowTypes
  BY InvParts DEF SInv
<1>4. StraysGrow' /\ SparesOthers(c)
  BY <1>1, <1>3, RowsSame DEF SparesOthers
<1>5. /\ since'[c] <= today' /\ ChargedOnce(c)' /\ OwnChanges(c)' /\ pc'[c] = label
      /\ \A k : Paid(c, k) => Paid(c, k)'
      /\ \A k \in Keys : Settled(c, k) /\ status'[c] = status[c] => Settled(c, k)'
  BY <1>1, <1>3, QuietStands
<1>6. LockAccounts(c)'
  <2>1. CASE pc[c] \in {"arrived", "external"}
    BY <1>1, <1>3, <2>1, HoldsNothing, NoLocksNoAccounts DEF Transacting
  <2>2. CASE pc[c] = "recording"
    BY <1>1, <1>2, <1>3, <1>5, <2>2 DEF Standing, LockAccounts, Delta, Unsettled, OwnKeys
  <2> QED
    BY <1>1, <2>1, <2>2
<1>7. ReservedSoFar(c)'
  BY <1>1, <1>2, <1>5 DEF ReservedSoFar
<1>8. PaidFor(c)' => \A k \in OwnKeys(c) \ Deleters : Paid(c, k)'
  <2> SUFFICES ASSUME PaidFor(c)'
               PROVE  PaidFor(c)
    BY <1>3, <1>5 DEF Standing
  <2> QED
    BY <1>1, <1>2, <1>5 DEF PaidFor, Billable
<1>9. ASSUME pc[c] = "arrived", NEW k \in Keys PROVE Settled(c, k)'
  <2>1. \A r \in Rows : ~Charged(c, r)
    BY <1>9 DEF SInv, IInv, NotYetCharged, NotYetAsked, Charged
  <2> QED
    BY <1>1, <2>1 DEF Settled, Visible, Charged, Rows
<1>10. SettledSoFar(c)'
  <2>1. CASE pc[c] = "arrived"
    BY <1>9, <2>1, KeysOfCheck DEF SettledSoFar, HasIp
  <2>2. CASE pc[c] = "external"
    BY <1>2, <1>5, <2>2 DEF SettledSoFar
  <2>3. CASE pc[c] = "recording"
    BY <1>2, <1>3, <1>5, <2>3, KeysOfCheck DEF SettledSoFar, Standing, Billable, HasIp
  <2> QED
    BY <1>1, <2>1, <2>2, <2>3
<1>11. RejectionLeavesNone(c)'
  <2>1. CASE pc[c] = "arrived"
    BY <1>1, <1>3, <2>1 DEF RejectionLeavesNone, NotYetAsked, IInv, NotYetCharged
  <2>2. CASE pc[c] # "arrived"
    BY <1>1, <1>2, <1>3, <2>2 DEF RejectionLeavesNone, Standing
  <2> QED
    BY <2>1, <2>2
<1>12. Standing(c)'
  BY <1>5, <1>6, <1>7, <1>8, <1>10, <1>11 DEF Standing, OwnKeys
<1>13. \A x \in Checks \ {c} : Standing(x)'
  BY <1>1, <1>2, <1>3, <1>4, OthersAreSpared DEF SInv
<1> QED
  BY <1>4, <1>12, <1>13 DEF SInv

LEMMA CommitsStand ==
    ASSUME SInv, IInv', NEW c \in Checks, CommitReservation(c) \/ Commit(c)
    PROVE  SInv'
<1> DEFINE label == IF pc[c] = "reserved" THEN "external" ELSE "done"
<1>1. /\ Goto(c, label) /\ CommitTxn(c) /\ UNCHANGED <<today, faults, status>>
      /\ pc[c] \in {"reserved", "committing"}
  BY DEF CommitReservation, Commit, At
<1>2. label \in {"external", "done"} /\ (label = "external" <=> pc[c] = "reserved")
  OBVIOUS
<1> HIDE DEF label
<1>3. IInv /\ StraysGrow /\ Standing(c) /\ RowTypes /\ RowsInv
  BY InvParts DEF SInv
<1>4. /\ StraysGrow' /\ NoNewCharges /\ SparesOthers(c) /\ OwnChanges(c)' /\ working' = working
      /\ \A r \in Rows : /\ stored'[r] = (IF locker[r] = c THEN working[r] ELSE stored[r])
                        /\ locker'[r] = (IF locker[r] = c THEN NoCheck ELSE locker[r])
  BY <1>1, <1>3, CommitSpares DEF Standing
<1>5. pc'[c] = label /\ since'[c] = today
  BY <1>1, <1>3 DEF Goto, IInv, TypeOK
<1>6. since'[c] <= today' /\ ChargedOnce(c)'
  BY <1>1, <1>3, <1>4, <1>5, OnceKept, DaysAreNumbers DEF Standing
<1>7. LockAccounts(c)'
  BY <1>4, ChecksAssumption, NoLocksNoAccounts
<1>8. ReservedSoFar(c)'
  BY <1>2, <1>5 DEF ReservedSoFar
<1>9. \A r \in Rows : locker'[r] # c /\ (Visible(c, r))' = Visible(c, r)
  BY <1>4, ChecksAssumption DEF Visible
<1>10. \A k \in Keys, d \in Days : <<k, d>> \in Rows
  BY DEF Rows
<1>11. ASSUME PaidFor(c)', NEW k \in OwnKeys(c) \ Deleters
       PROVE  Paid(c, k)'
  <2>0. k \in Keys
    BY DEF OwnKeys
  <2>1. CASE pc[c] = "reserved"
    <3>1. PICK d \in Days : locker[<<k, d>>] = c /\ c \in working[<<k, d>>].charged
      BY <1>3, <2>1, KeysOfCheck DEF Standing, ReservedSoFar, Reserved
    <3> QED
      BY <1>4, <1>10, <2>0, <3>1 DEF Paid
  <2>2. CASE pc[c] = "committing"
    <3>1. PaidFor(c)
      BY <1>1, <1>2, <1>5, <1>11, <2>2 DEF PaidFor, Billable
    <3>2. Paid(c, k)
      BY <1>3, <3>1 DEF Standing
    <3> QED
      BY <1>4, <1>10, <2>0, <3>2 DEF Paid
  <2> QED
    BY <1>1, <2>1, <2>2
<1>12. \A k \in Keys : Settled(c, k) => Settled(c, k)'
  BY <1>1, <1>9, <1>10 DEF Settled
<1>13. SettledSoFar(c)'
  BY <1>1, <1>2, <1>3, <1>5, <1>12, KeysOfCheck DEF Standing, SettledSoFar, Billable, HasIp
<1>14. RejectionLeavesNone(c)'
  <2> SUFFICES ASSUME status[c] = "rate_limited", NEW r \in Rows, c \in stored'[r].charged
               PROVE  r[2] < today
    BY <1>1 DEF RejectionLeavesNone
  <2>1. c \in Visible(c, r).charged
    BY <1>4 DEF Visible
  <2>2. pc[c] = "committing"
    BY <1>1, <1>3 DEF IInv, NoOutcomeYet
  <2>3. Charged(c, r)
    BY <2>1 DEF Visible, Charged
  <2>4. r[1] \in OwnKeys(c)
    BY <1>3, <2>3 DEF Standing, ChargedOnce
  <2>5. Settled(c, r[1])
    BY <1>3, <2>2, <2>4, KeysOfCheck DEF Standing, SettledSoFar, Billable
  <2> QED
    BY <1>3, <2>1, <2>5, DaysAreNumbers DEF Settled
<1>15. Standing(c)'
  BY <1>4, <1>6, <1>7, <1>8, <1>11, <1>13, <1>14 DEF Standing, OwnKeys
<1>16. \A x \in Checks \ {c} : Standing(x)'
  BY <1>1, <1>3, <1>4, OthersAreSpared DEF SInv
<1> QED
  BY <1>4, <1>15, <1>16 DEF SInv

LEMMA RefundsStand ==
    ASSUME SInv, IInv', NEW c \in Checks, RefundAfterRaise(c) \/ RefundIpAfterRaise(c)
    PROVE  SInv'
<1>1. PICK k \in OwnKeys(c), label \in {"refunding_ip", "failed"} :
        /\ pc[c] \in {"refunding", "refunding_ip"} /\ k \in Keys
        /\ Goto(c, label) /\ UNCHANGED <<today, faults, status>>
        /\ \E d \in DayRead(c) : RefundAndCommit(c, <<k, d>>)
        /\ pc[c] = "refunding" => k = UserOf[c]
        /\ pc[c] = "refunding_ip" => k = IpOf[c] /\ k # UserOf[c]
        /\ label = "failed" => pc[c] = "refunding_ip" \/ ~HasIp(c)
        /\ label = "refunding_ip" => pc[c] = "refunding"
  BY KeysOfCheck DEF RefundAfterRaise, RefundIpAfterRaise, At, UserRow, IpRow
<1>2. PICK d \in DayRead(c) : RefundAndCommit(c, <<k, d>>)
  BY <1>1
<1>3. k \in OwnKeys(c) /\ k \in Keys
  BY <1>1
<1> DEFINE q == <<k, d>>
<1>4. /\ IInv /\ StraysGrow /\ Standing(c) /\ RowTypes /\ RowsInv /\ d \in Days /\ q \in Rows
  BY <1>3, InvParts, DayReadIsDay DEF SInv, Rows
<1>5. /\ StraysGrow' /\ NoNewCharges /\ SparesOthers(c) /\ OwnChanges(c)' /\ locker' = locker
      /\ \A r \in Rows : r # q => stored'[r] = stored[r]
      /\ (stored[q].count = 0 /\ stored' = stored) \/ c \notin stored'[q].charged
  BY <1>2, <1>4, RefundSpares DEF Standing
<1>6. \A r \in Rows : locker[r] # c
  BY <1>1, <1>4, HoldsNothing DEF Transacting
<1>7. pc'[c] = label /\ since'[c] = today
  BY <1>1, <1>4 DEF Goto, IInv, TypeOK
<1>8. since'[c] <= today' /\ ChargedOnce(c)'
  BY <1>1, <1>4, <1>5, <1>7, OnceKept, DaysAreNumbers DEF Standing
<1>9. LockAccounts(c)' /\ ReservedSoFar(c)' /\ ~PaidFor(c)'
  BY <1>3, <1>5, <1>6, <1>7, NoLocksNoAccounts DEF ReservedSoFar, PaidFor
<1>10. \A r \in Rows : Visible(c, r) = stored[r] /\ (Visible(c, r))' = stored'[r]
  BY <1>5, <1>6 DEF Visible
<1>11. \A e \in Days, j \in Keys : <<j, e>> \in Rows /\ (<<j, e>> = q <=> j = k /\ e = d)
  BY DEF Rows
<1>12. Settled(c, k)'
  <2>1. \A e \in Days : e # d => Visible(c, <<k, e>>)' = Visible(c, <<k, e>>)
    BY <1>3, <1>5, <1>10, <1>11
  <2>2. \/ /\ Visible(c, <<k, d>>).count = 0
           /\ Visible(c, <<k, d>>)' = Visible(c, <<k, d>>)
        \/ c \notin (Visible(c, <<k, d>>)').charged
    BY <1>4, <1>5, <1>10
  <2> QED
    BY <1>1, <1>3, <1>4, <2>1, <2>2, Refunded
<1>13. ASSUME NEW j \in Keys, j # k, Settled(c, j) PROVE Settled(c, j)'
  <2>1. \A e \in Days : Visible(c, <<j, e>>)' = Visible(c, <<j, e>>)
    BY <1>5, <1>10, <1>11, <1>13
  <2> QED
    BY <1>1, <1>13, <2>1 DEF Settled
<1>14. SettledSoFar(c)'
  BY <1>1, <1>3, <1>4, <1>7, <1>12, <1>13, KeysOfCheck DEF Standing, SettledSoFar, Billable, HasIp
<1>15. RejectionLeavesNone(c)'
  BY <1>1, <1>4, <1>5 DEF RejectionLeavesNone, Standing
<1>16. Standing(c)'
  BY <1>5, <1>8, <1>9, <1>14, <1>15 DEF Standing
<1>17. \A x \in Checks \ {c} : Standing(x)'
  BY <1>1, <1>4, <1>5, OthersAreSpared DEF SInv
<1> QED
  BY <1>5, <1>16, <1>17 DEF SInv

LEMMA SettlesStand ==
    ASSUME SInv, IInv', NEW c \in Checks, SettleUser(c) \/ SettleIp(c)
    PROVE  SInv'
<1>1. PICK k \in OwnKeys(c), label \in {"recording", "committing"} :
        /\ pc[c] \in {"settling", "settling_ip"} /\ k \in Keys
        /\ Goto(c, label) /\ UNCHANGED <<today, faults, status, stored>>
        /\ IF Billable(c) THEN UNCHANGED <<working, locker>>
           ELSE \E d \in DayRead(c) : Decrement(c, <<k, d>>)
        /\ pc[c] = "settling" => k = UserOf[c] /\ label = "recording"
        /\ pc[c] = "settling_ip" => k = IpOf[c] /\ k # UserOf[c] /\ label = "committing"
  BY KeysOfCheck DEF SettleUser, SettleIp, At, UserRow, IpRow
<1>2. k \in OwnKeys(c) /\ k \in Keys
  BY <1>1
<1>3. IInv /\ StraysGrow /\ Standing(c) /\ RowTypes /\ RowsInv
  BY InvParts DEF SInv
<1>4. pc'[c] = label /\ since'[c] = today
  BY <1>1, <1>3 DEF Goto, IInv, TypeOK
<1>5. \A j : Unsettled(c, j)' => Unsettled(c, j) /\ j # k
  BY <1>1, <1>2, <1>4, KeysOfCheck DEF Unsettled
<1>6. ReservedSoFar(c)' /\ RejectionLeavesNone(c)' /\ (PaidFor(c)' => PaidFor(c))
  BY <1>1, <1>2, <1>3, <1>4 DEF ReservedSoFar, RejectionLeavesNone, Standing, PaidFor, Billable
<1>7. CASE Billable(c)
  <2>1. UNCHANGED <<stored, working, locker>>
    BY <1>1, <1>7
  <2>2. /\ since'[c] <= today' /\ ChargedOnce(c)' /\ OwnChanges(c)'
        /\ \A j : Paid(c, j) => Paid(c, j)'
    BY <1>1, <1>3, <2>1, QuietStands
  <2>3. LockAccounts(c)'
    BY <1>1, <1>2, <1>3, <1>4, <1>5, <2>1 DEF Standing, LockAccounts, Delta, OwnKeys
  <2>4. PaidFor(c)' => \A j \in OwnKeys(c) \ Deleters : Paid(c, j)'
    BY <1>3, <1>6, <2>2 DEF Standing
  <2>5. SettledSoFar(c)'
    BY <1>1, <1>7 DEF SettledSoFar, Billable
  <2>6. Standing(c)'
    BY <1>6, <2>2, <2>3, <2>4, <2>5 DEF Standing, OwnKeys
  <2>7. StraysGrow' /\ SparesOthers(c)
    BY <1>3, <2>1, RowsSame DEF SparesOthers
  <2>8. \A x \in Checks \ {c} : Standing(x)'
    BY <1>1, <1>3, <2>7, OthersAreSpared DEF SInv
  <2> QED
    BY <2>6, <2>7, <2>8 DEF SInv
<1>8. CASE ~Billable(c)
  <2>1. PICK d \in DayRead(c) : Decrement(c, <<k, d>>)
    BY <1>1, <1>8
  <2> DEFINE q == <<k, d>>
  <2>2. d \in Days /\ q \in Rows /\ q[1] = k
    BY <1>2, <1>3, DayReadIsDay DEF Rows
  <2>3. /\ StraysGrow' /\ NoNewCharges /\ SparesOthers(c) /\ OwnChanges(c)'
        /\ \A r \in Rows : r # q => working'[r] = working[r] /\ locker'[r] = locker[r]
        /\ \/ Visible(c, q).count = 0 /\ UNCHANGED <<working, locker>>
           \/ /\ locker[q] \in {NoCheck, c} /\ locker'[q] = c
              /\ c \notin working'[q].charged /\ working'[q].count = working[q].count - 1
    BY <1>1, <1>3, <2>1, <2>2, DecrementSpares DEF Standing
  <2>4. since'[c] <= today' /\ ChargedOnce(c)'
    BY <1>1, <1>3, <1>4, <2>3, OnceKept, DaysAreNumbers DEF Standing
  <2>5. ~PaidFor(c)'
    BY <1>1, <1>2, <1>4, <1>8 DEF PaidFor, Billable
  <2>6. Unsettled(c, k)
    BY <1>1, <1>2 DEF Unsettled
  <2>7. LockAccounts(c)'
    <3> SUFFICES ASSUME NEW r \in Rows, locker'[r] = c
                 PROVE  /\ r[1] \in OwnKeys(c)
                        /\ Delta(r)' \in {-1, 0, 1}
                        /\ c \in working'[r].charged <=> Delta(r)' = 1
                        /\ Unsettled(c, r[1])' => Delta(r)' = 1
                        /\ Delta(r)' = 1 =>
                              \/ status'[c] = "rate_limited"
                              \/ (pc'[c] \in {"ip_reserved", "reserved"}
                                  /\ working'[r].count <= LimitOf[r[1]])
                        /\ pc'[c] = "ip_reserved" => r[1] = IpOf[c]
      BY DEF LockAccounts, OwnKeys
    <3>1. CASE r # q \/ UNCHANGED <<working, locker>>
      <4>1. locker[r] = c /\ Delta(r)' = Delta(r) /\ working'[r] = working[r]
        BY <1>1, <2>3, <3>1 DEF Delta
      <4> QED
        BY <1>1, <1>2, <1>3, <1>4, <1>5, <4>1 DEF Standing, LockAccounts
    <3>2. CASE r = q /\ ~UNCHANGED <<working, locker>>
      <4>1. /\ locker[q] \in {NoCheck, c} /\ c \notin working'[q].charged
            /\ Delta(q)' = Delta(q) - 1
        BY <1>1, <1>3, <2>2, <2>3, <3>2, RowFacts DEF Delta
      <4>2. locker[q] = NoCheck => Delta(q) = 0
        BY <1>3, <2>2, RowFacts DEF RowsInv, UnlockedRowsCommitted, Delta
      <4>3. locker[q] = c => Delta(q) = 1
        BY <1>3, <2>2, <2>6 DEF Standing, LockAccounts
      <4>4. Delta(q)' \in {-1, 0}
        BY <4>1, <4>2, <4>3
      <4> QED
        BY <1>2, <1>4, <1>5, <2>2, <3>2, <4>1, <4>4
    <3> QED
      BY <3>1, <3>2
  <2>8. \A e \in Days, j \in Keys : <<j, e>> \in Rows /\ (<<j, e>> = q <=> j = k /\ e = d)
    BY DEF Rows
  <2>9. \A r \in Rows : r # q => (Visible(c, r))' = Visible(c, r)
    BY <1>1, <2>3 DEF Visible
  <2>10. Settled(c, k)'
    <3>1. \A e \in Days : e # d => Visible(c, <<k, e>>)' = Visible(c, <<k, e>>)
      BY <1>2, <2>8, <2>9
    <3>2. \/ /\ Visible(c, <<k, d>>).count = 0
             /\ Visible(c, <<k, d>>)' = Visible(c, <<k, d>>)
          \/ c \notin (Visible(c, <<k, d>>)').charged
      BY <1>1, <2>3 DEF Visible
    <3> QED
      BY <1>1, <1>2, <1>3, <3>1, <3>2, Refunded
  <2>11. ASSUME NEW j \in Keys, j # k, Settled(c, j) PROVE Settled(c, j)'
    <3>1. \A e \in Days : Visible(c, <<j, e>>)' = Visible(c, <<j, e>>)
      BY <2>8, <2>9, <2>11
    <3> QED
      BY <1>1, <2>11, <3>1 DEF Settled
  <2>12. SettledSoFar(c)'
    BY <1>1, <1>2, <1>3, <1>4, <1>8, <2>10, <2>11, KeysOfCheck
    DEF Standing, SettledSoFar, Billable, HasIp
  <2>13. Standing(c)'
    BY <1>6, <2>3, <2>4, <2>5, <2>7, <2>12 DEF Standing
  <2>14. \A x \in Checks \ {c} : Standing(x)'
    BY <1>1, <1>3, <2>3, OthersAreSpared DEF SInv
  <2> QED
    BY <2>3, <2>13, <2>14 DEF SInv
<1> QED
  BY <1>7, <1>8

LEMMA AbortStands ==
    ASSUME SInv, IInv', NEW c \in Checks, Abort(c)
    PROVE  SInv'
<1>1. Goto(c, "aborted") /\ RollbackTxn(c) /\ UNCHANGED <<today, status>>
  BY DEF Abort
<1>2. IInv /\ StraysGrow /\ Standing(c) /\ RowTypes /\ RowsInv
  BY InvParts DEF SInv
<1>3. /\ StraysGrow' /\ NoNewCharges /\ SparesOthers(c) /\ OwnChanges(c)' /\ stored' = stored
      /\ \A r \in Rows : locker'[r] # c
  BY <1>1, <1>2, RollbackSpares DEF Standing
<1>4. pc'[c] = "aborted" /\ since'[c] = today
  BY <1>1, <1>2 DEF Goto, IInv, TypeOK
<1>5. since'[c] <= today' /\ ChargedOnce(c)'
  BY <1>1, <1>2, <1>3, <1>4, OnceKept, DaysAreNumbers DEF Standing
<1>6. LockAccounts(c)' /\ ReservedSoFar(c)' /\ ~PaidFor(c)' /\ SettledSoFar(c)'
  BY <1>3, <1>4, NoLocksNoAccounts DEF ReservedSoFar, PaidFor, SettledSoFar
<1>7. RejectionLeavesNone(c)'
  BY <1>1, <1>2, <1>3 DEF RejectionLeavesNone, Standing
<1>8. Standing(c)'
  BY <1>3, <1>5, <1>6, <1>7 DEF Standing
<1>9. \A x \in Checks \ {c} : Standing(x)'
  BY <1>1, <1>2, <1>3, OthersAreSpared DEF SInv
<1> QED
  BY <1>3, <1>8, <1>9 DEF SInv

\* A check whose process dies is lost with its transaction; the others had none.
LEMMA CrashStands ==
    ASSUME SInv, IInv', Crash
    PROVE  SInv'
<1>1. /\ \A c \in Checks : pc'[c] = IF c \in InFlight THEN "lost" ELSE pc[c]
      /\ working' = stored /\ stored' = stored
      /\ \A r \in Rows : locker'[r] = NoCheck
      /\ UNCHANGED <<today, since, status>>
  BY DEF Crash
<1>2. IInv /\ StraysGrow /\ RowTypes /\ RowTypes'
  BY InvParts DEF SInv, IInv, TypeOK, RowTypes
<1>3. StraysGrow' /\ NoNewCharges
  BY <1>1, <1>2, RowFacts DEF StraysGrow, NoNewCharges
<1>4. ASSUME NEW c \in Checks, c \in InFlight PROVE Standing(c)'
  <2>1. Standing(c) /\ pc'[c] = "lost"
    BY <1>1, <1>4 DEF SInv
  <2>2. since'[c] <= today' /\ ChargedOnce(c)'
    BY <1>1, <1>2, <1>3, <2>1, OnceKept, DaysAreNumbers DEF Standing
  <2>3. OwnChanges(c)' /\ LockAccounts(c)' /\ RejectionLeavesNone(c)'
    BY <1>1, <2>1, ChecksAssumption DEF OwnChanges, LockAccounts, RejectionLeavesNone, Standing
  <2>4. ReservedSoFar(c)' /\ ~PaidFor(c)' /\ SettledSoFar(c)'
    BY <2>1 DEF ReservedSoFar, PaidFor, SettledSoFar
  <2> QED
    BY <2>2, <2>3, <2>4 DEF Standing
<1>5. ASSUME NEW c \in Checks, c \notin InFlight PROVE Standing(c)'
  <2>1. Standing(c) /\ pc'[c] = pc[c]
    BY <1>1, <1>5 DEF SInv
  <2>2. \A r \in Rows : locker[r] # c
    BY <1>2, <1>5, HoldsNothing DEF InFlight, Ended, Transacting
  <2>3. Spares(c)
    BY <1>1, <1>2, <2>1, <2>2, RowFacts, ChecksAssumption DEF Spares, Standing, OwnChanges
  <2> QED
    BY <1>1, <1>2, <2>1, <2>3, SparedStands, DaysAreNumbers
<1> QED
  BY <1>3, <1>4, <1>5 DEF SInv

\* The rows of a user who deletes his data are gone, none of them was locked.
LEMMA DeleteStands ==
    ASSUME SInv, IInv', NEW u \in Deleters, DeleteUserData(u)
    PROVE  SInv'
<1>1. /\ UNCHANGED <<today, pc, since, status, locker>>
      /\ \A r \in Rows : r[1] = u => /\ stored'[r].charged = {} /\ working'[r].charged = {}
                                    /\ stored'[r].stray = 0 /\ working'[r].stray = 0
                                    /\ locker[r] = NoCheck
      /\ \A r \in Rows : r[1] # u => stored'[r] = stored[r] /\ working'[r] = working[r]
  BY DEF DeleteUserData, EmptyRow, Rows
<1>2. IInv /\ StraysGrow /\ RowTypes
  BY InvParts DEF SInv
<1>3. StraysGrow' /\ NoNewCharges
  BY <1>1, <1>2 DEF StraysGrow, NoNewCharges
<1>4. ASSUME NEW c \in Checks PROVE Standing(c)'
  <2>1. Standing(c) /\ NoCheck # c
    BY ChecksAssumption DEF SInv
  <2>2. \A r \in Rows : /\ locker[r] = c => stored'[r] = stored[r] /\ working'[r] = working[r]
                        /\ c \in stored'[r].charged => c \in stored[r].charged
    BY <1>1, <2>1
  <2>3. since'[c] <= today' /\ ChargedOnce(c)'
    BY <1>1, <1>2, <1>3, <2>1, OnceKept, DaysAreNumbers DEF Standing
  <2>4. OwnChanges(c)'
    BY <1>1, <2>1 DEF Standing, OwnChanges
  <2>5. LockAccounts(c)'
    BY <1>1, <2>1, <2>2 DEF Standing, LockAccounts, Delta, Unsettled, OwnKeys
  <2>6. \A k \in Keys, d \in Days : <<k, d>> \in Rows /\ <<k, d>>[1] = k
    BY DEF Rows
  <2>7. ReservedSoFar(c)'
    BY <1>1, <2>1, <2>2, <2>6, KeysOfCheck DEF Standing, ReservedSoFar, Reserved, HasIp
  <2>8. PaidFor(c)' => \A k \in OwnKeys(c) \ Deleters : Paid(c, k)'
    BY <1>1, <2>1, <2>6 DEF Standing, PaidFor, Paid, Billable, OwnKeys
  <2>9. ASSUME NEW k \in Keys, Settled(c, k) PROVE Settled(c, k)'
    <3> SUFFICES ASSUME NEW d \in Days, c \in (Visible(c, <<k, d>>)').charged
                 PROVE  \/ d < today
                        \/ status[c] # "rate_limited" /\ (Visible(c, <<k, d>>)').stray > 0
      BY <1>1 DEF Settled
    <3>1. k # u
      BY <1>1, <2>6 DEF Visible
    <3>2. Visible(c, <<k, d>>)' = Visible(c, <<k, d>>)
      BY <1>1, <2>6, <3>1 DEF Visible
    <3> QED
      BY <2>9, <3>2 DEF Settled
  <2>10. SettledSoFar(c)'
    BY <1>1, <2>1, <2>9, KeysOfCheck DEF Standing, SettledSoFar, Billable, HasIp
  <2>11. RejectionLeavesNone(c)'
    BY <1>1, <2>1, <2>2 DEF Standing, RejectionLeavesNone
  <2> QED
    BY <2>3, <2>4, <2>5, <2>7, <2>8, <2>10, <2>11 DEF Standing, OwnKeys
<1> QED
  BY <1>3, <1>4 DEF SInv

\* Midnight settles what it passes.
LEMMA IdleStands ==
    ASSUME SInv, IInv', UNCHANGED <<pc, since, status, stored, working, locker>>,
           today' \in Int, today <= today'
    PROVE  SInv'
<1>1. IInv /\ StraysGrow /\ RowTypes /\ RowTypes'
  BY InvParts DEF SInv, IInv, TypeOK, RowTypes
<1>2. StraysGrow' /\ \A x \in Checks : Spares(x)
  BY <1>1, RowsSame
<1>3. \A x \in Checks : Standing(x)'
  BY <1>1, <1>2, SparedStands, DaysAreNumbers DEF SInv
<1> QED
  BY <1>2, <1>3 DEF SInv

LEMMA InitStands == Init => SInv
<1> SUFFICES ASSUME Init PROVE SInv
  OBVIOUS
<1>1. IInv
  BY InitInv
<1>2. /\ \A r \in Rows : /\ stored[r].charged = {} /\ working[r].charged = {}
                        /\ stored[r].stray = 0 /\ working[r].stray = 0
                        /\ locker[r] = NoCheck
      /\ today = 0
      /\ \A c \in Checks : pc[c] = "arrived" /\ since[c] = 0 /\ status[c] = "none"
  BY DEF Init, EmptyRow
<1>3. StraysGrow
  BY <1>2 DEF StraysGrow
<1>4. ASSUME NEW c \in Checks PROVE Standing(c)
  <2>1. ChargedOnce(c) /\ OwnChanges(c) /\ LockAccounts(c)
    BY <1>2, ChecksAssumption DEF ChargedOnce, Charged, OwnChanges, LockAccounts
  <2>2. ReservedSoFar(c) /\ ~PaidFor(c) /\ SettledSoFar(c) /\ RejectionLeavesNone(c)
    BY <1>2 DEF ReservedSoFar, PaidFor, SettledSoFar, RejectionLeavesNone
  <2> QED
    BY <1>2, <2>1, <2>2 DEF Standing
<1> QED
  BY <1>1, <1>3, <1>4 DEF SInv

LEMMA NextStands == SInv /\ [Next]_vars => SInv'
<1> SUFFICES ASSUME SInv, [Next]_vars PROVE SInv'
  OBVIOUS
<1>1. IInv /\ IInv'
  BY NextInv DEF SInv
<1>2. ASSUME NEW c \in Checks, Step(c) PROVE SInv'
  BY <1>1, <1>2, ReserveIpStands, ReserveUserStands, RejectAtUserStands, QuietSteps,
     CommitsStand, RefundsStand, SettlesStand DEF Step
<1>3. ASSUME NEW c \in Checks, DeadlockVictim(c) \/ ConnectionLost(c) PROVE SInv'
  BY <1>1, <1>3, AbortStands DEF DeadlockVictim, ConnectionLost
<1>4. ASSUME NEW u \in Deleters, DeleteUserData(u) PROVE SInv'
  BY <1>1, <1>4, DeleteStands
<1>5. CASE Crash
  BY <1>1, <1>5, CrashStands
<1>6. CASE NextDay \/ UNCHANGED vars
  <2>1. /\ UNCHANGED <<pc, since, status, stored, working, locker>>
        /\ today' \in Int /\ today <= today'
    BY <1>1, <1>6, DaysAreNumbers DEF NextDay, vars
  <2> QED
    BY <1>1, <2>1, IdleStands
<1> QED
  BY <1>2, <1>3, <1>4, <1>5, <1>6 DEF Next

LEMMA Standings == Spec => []SInv
BY InitStands, NextStands, PTL DEF Spec

-----------------------------------------------------------------------------
(* The theorems *)

THEOREM Invariance == Spec => []IInv
BY InitInv, NextInv, PTL DEF Spec

\* Every variable of the protocol keeps its type.
THEOREM TypeCorrect == Spec => []TypeOK
<1>1. IInv => TypeOK
  BY DEF IInv
<1> QED
  BY Invariance, <1>1, PTL

\* No increment of a counter row is ever lost and none is counted twice: the count
\* is the number of checks charged, less the refunds that did not belong there.
THEOREM CountsMatch == Spec => []CountsMatchCharges
<1>1. IInv => CountsMatchCharges
  BY DEF IInv, RowsInv, RowsGood, RowGood, CountsMatchCharges
<1> QED
  BY Invariance, <1>1, PTL

\* However many checks race, those let through on one counter row are at most its
\* limit, plus the refunds that did not belong there.
THEOREM LimitHolds == Spec => []AdmittedWithinLimit
<1>1. IInv => AdmittedWithinLimit
  BY DEF IInv, RowsInv, RowsGood, RowGood, AdmittedWithinLimit, Admitted, AdmittedBy
<1> QED
  BY Invariance, <1>1, PTL

\* A check whose OCR or model call is running has no counter row locked.
THEOREM NoLockDuringStages == Spec => []NoLockAcrossExternalWork
<1>1. IInv => NoLockAcrossExternalWork
  BY DEF IInv
<1> QED
  BY Invariance, <1>1, PTL

\* A set whose elements are all the same has at most one.
LEMMA AtMostOne ==
    ASSUME NEW S, \A x, y \in S : x = y
    PROVE  Cardinality(S) <= 1
<1>1. CASE S = {}
  BY <1>1, FS_EmptySet
<1>2. CASE S # {}
  <2>1. PICK x \in S : TRUE
    BY <1>2
  <2>2. S = {x}
    BY <2>1
  <2> QED
    BY <2>2, FS_Singleton
<1> QED
  BY <1>1, <1>2

\* The slots of both counters follow the outcome of the check: one that ended without
\* a billable answer holds no slot of today, unless a refund that did not belong to
\* the row has taken the count; a billable one is paid for exactly once on each of its
\* counters, unless its user deleted them.  No refund path of run_check and of its
\* callers misses a counter or refunds a paid answer, over midnight included.
THEOREM SlotsSettled == Spec => []SlotsAreSettled
<1>1. ASSUME SInv, NEW c \in Checks, pc[c] \in {"done", "failed"},
             NEW k \in {UserOf[c], IpOf[c]} \cap Keys
      PROVE  /\ ~Billable(c) /\ Holds(c, k, today) => stored[<<k, today>>].stray > 0
             /\ Billable(c) /\ pc[c] = "done" =>
                  /\ Cardinality({d \in Days : Holds(c, k, d)}) <= 1
                  /\ k \notin Deleters => \E d \in Days : Holds(c, k, d)
  <2>1. /\ IInv /\ Standing(c) /\ k \in OwnKeys(c) /\ k \in Keys /\ today \in Days
        /\ \A d \in Days : <<k, d>> \in Rows
    BY <1>1, DaysAreNumbers DEF SInv, OwnKeys, Rows
  <2>2. \A r \in Rows : locker[r] # c
    BY <1>1, <2>1, HoldsNothing DEF Transacting
  <2>3. ~Billable(c) /\ Holds(c, k, today) => stored[<<k, today>>].stray > 0
    <3>1. ~Billable(c) => Settled(c, k)
      BY <1>1, <2>1, KeysOfCheck DEF Standing, SettledSoFar
    <3>2. Visible(c, <<k, today>>) = stored[<<k, today>>]
      BY <2>1, <2>2 DEF Visible
    <3> QED
      BY <2>1, <3>1, <3>2, DaysAreNumbers DEF Settled, Holds
  <2>4. Cardinality({d \in Days : Holds(c, k, d)}) <= 1
    <3> DEFINE S == {d \in Days : Holds(c, k, d)}
    <3>1. ASSUME NEW x \in S, NEW y \in S PROVE x = y
      <4>1. Charged(c, <<k, x>>) /\ Charged(c, <<k, y>>)
        BY DEF Holds, Charged
      <4> QED
        BY <2>1, <4>1 DEF Standing, ChargedOnce
    <3> QED
      BY <3>1, AtMostOne
  <2>5. Billable(c) /\ pc[c] = "done" /\ k \notin Deleters => \E d \in Days : Holds(c, k, d)
    BY <2>1 DEF Standing, PaidFor, Paid, Holds
  <2> QED
    BY <2>3, <2>4, <2>5
<1>2. SInv => SlotsAreSettled
  BY <1>1 DEF SlotsAreSettled, FreeChecksHoldNoSlot, BillableChecksPayOnce
<1> QED
  BY <1>2, Standings, PTL

\* A check is turned away only by a committed row that others have filled up to the
\* limit, never by the increment of a check that is itself being turned away; and on
\* the row of today those others were all let through.
THEOREM RejectedWhenFull == Spec => RejectedOnlyWhenFull
<1>1. ASSUME SInv, NEW c \in Checks, NEW k \in OwnKeys(c), NEW d \in DayRead(c),
             pc[c] = "arrived" \/ (pc[c] = "ip_reserved" /\ k = UserOf[c]),
             Free(c, <<k, d>>), CountReturned(<<k, d>>) > LimitOf[k]
      PROVE  /\ d \in Days
             /\ stored[<<k, d>>].count >= LimitOf[k]
             /\ c \notin stored[<<k, d>>].charged
             /\ d = today => Cardinality(Admitted(stored[<<k, d>>])) >= LimitOf[k]
  <2> DEFINE r == <<k, d>>
  <2>1. /\ IInv /\ RowTypes /\ RowsInv /\ Standing(c) /\ k \in Keys /\ d \in Days
        /\ r \in Rows /\ r[1] = k
    BY <1>1, InvParts, DayReadIsDay DEF SInv, OwnKeys, Rows
  <2>2. locker[r] # c
    BY <1>1, <2>1, ChecksAssumption, KeysOfCheck
    DEF IInv, NoLockAcrossExternalWork, Transacting, Standing, LockAccounts
  <2>3. working[r] = stored[r]
    BY <1>1, <2>1, <2>2 DEF Free, RowsInv, UnlockedRowsCommitted
  <2>4. LimitOf[k] \in Nat /\ stored[r].count \in Nat /\ stored[r] \in CounterRow
    BY <2>1, RowFacts, LimitsAreNumbers
  <2>5. stored[r].count >= LimitOf[k]
    BY <1>1, <2>3, <2>4 DEF CountReturned
  <2>6. c \notin stored[r].charged
    BY <1>1, <2>1 DEF IInv, NotYetCharged, NotYetAsked
  <2>7. ASSUME d = today PROVE Cardinality(Admitted(stored[r])) >= LimitOf[k]
    <3>1. \A x \in stored[r].charged : x \in Checks /\ status[x] # "rate_limited"
      BY <1>1, <2>1, <2>4, <2>7, DaysAreNumbers DEF SInv, Standing, RejectionLeavesNone, CounterRow
    <3>2. Admitted(stored[r]) = stored[r].charged
      BY <3>1 DEF Admitted
    <3>3. stored[r].count <= Cardinality(stored[r].charged)
      BY <2>1 DEF RowsInv, RowsGood, RowGood, Balanced
    <3> QED
      BY <2>4, <2>5, <3>2, <3>3, ChargedFinite
  <2> QED
    BY <2>1, <2>5, <2>6, <2>7
<1>2. ASSUME SInv, [Next]_vars, NEW c \in Checks, TurnsAway(c)
      PROVE  \E k \in {UserOf[c], IpOf[c]} \cap Keys, d \in Days :
                LET row == stored[<<k, d>>]
                IN  /\ row.count >= LimitOf[k]
                    /\ c \notin row.charged
                    /\ d = today => Cardinality(Admitted(row)) >= LimitOf[k]
  <2>1. RejectAtIp(c) \/ RejectAtUser(c)
    <3>1. status' # status /\ status \in [Checks -> Outcomes]
      BY <1>2 DEF TurnsAway, SInv, IInv, TypeOK
    <3>2. PICK x \in Checks : RejectAtIp(x) \/ RejectAtUser(x) \/ StagesReturn(x) \/ StagesRaise(x)
      BY <1>2, <3>1
      DEF Next, Step, vars, ReserveIp, ReserveUser, CommitReservation, RefundAfterRaise,
          RefundIpAfterRaise, SettleUser, RecordEvent, SettleIp, Commit, DeadlockVictim,
          ConnectionLost, Abort, Crash, NextDay, DeleteUserData
    <3> QED
      BY <1>2, <3>1, <3>2 DEF TurnsAway, RejectAtIp, RejectAtUser, StagesReturn, StagesRaise, Ends
  <2>2. PICK k \in OwnKeys(c), d \in DayRead(c) :
          /\ pc[c] = "arrived" \/ (pc[c] = "ip_reserved" /\ k = UserOf[c])
          /\ Free(c, <<k, d>>) /\ CountReturned(<<k, d>>) > LimitOf[k]
    <3>1. CASE RejectAtIp(c)
      BY <3>1, KeysOfCheck DEF RejectAtIp, At, IpRow, Free
    <3>2. CASE RejectAtUser(c)
      BY <3>2, KeysOfCheck DEF RejectAtUser, AtUserLimit, At, UserRow, Increment
    <3> QED
      BY <2>1, <3>1, <3>2
  <2>3. /\ d \in Days /\ stored[<<k, d>>].count >= LimitOf[k] /\ c \notin stored[<<k, d>>].charged
        /\ d = today => Cardinality(Admitted(stored[<<k, d>>])) >= LimitOf[k]
    BY <1>1, <1>2, <2>2
  <2> QED
    BY <2>3 DEF OwnKeys
<1>3. SInv /\ [Next]_vars =>
        [\A c \in Checks : TurnsAway(c) =>
           \E k \in {UserOf[c], IpOf[c]} \cap Keys, d \in Days :
              LET row == stored[<<k, d>>]
              IN  /\ row.count >= LimitOf[k]
                  /\ c \notin row.charged
                  /\ d = today => Cardinality(Admitted(row)) >= LimitOf[k]]_vars
  BY <1>2
<1> QED
  BY <1>3, Standings, PTL DEF Spec, RejectedOnlyWhenFull

-----------------------------------------------------------------------------
(* The committed rows are the ledger *)

\* What one committed transaction may do to the rows.
Posts ==
    \A r \in Rows :
        /\ stored'[r].count - stored[r].count \in {-1, 0, 1}
        /\ stored'[r].count > stored[r].count =>
              stored[r].count < LimitOf[r[1]] \/ r[2] < today

LEMMA CommitPosts ==
    ASSUME SInv, NEW c \in Checks, CommitTxn(c), pc[c] \in {"reserved", "committing"}
    PROVE  Posts
<1> SUFFICES ASSUME NEW r \in Rows
             PROVE  /\ stored'[r].count - stored[r].count \in {-1, 0, 1}
                    /\ stored'[r].count > stored[r].count =>
                          stored[r].count < LimitOf[r[1]] \/ r[2] < today
  BY DEF Posts
<1>1. /\ IInv /\ RowTypes /\ RowsInv /\ StraysGrow /\ Standing(c)
      /\ r[1] \in Keys /\ r[2] \in Days /\ r = <<r[1], r[2]>>
      /\ stored[r].count \in Nat /\ working[r].count \in Nat /\ LimitOf[r[1]] \in Nat
  BY InvParts, DaysAreNumbers, RowFacts, LimitsAreNumbers DEF SInv
<1>2. stored'[r] = IF locker[r] = c THEN working[r] ELSE stored[r]
  BY <1>1, CommitSpares
<1>3. CASE locker[r] # c
  BY <1>1, <1>2, <1>3
<1>4. CASE locker[r] = c
  <2>1. /\ stored'[r].count - stored[r].count = Delta(r) /\ Delta(r) \in {-1, 0, 1}
        /\ r[1] \in OwnKeys(c)
        /\ c \in working[r].charged <=> Delta(r) = 1
        /\ Delta(r) = 1 => \/ status[c] = "rate_limited"
                           \/ pc[c] = "reserved" /\ working[r].count <= LimitOf[r[1]]
    BY <1>1, <1>2, <1>4 DEF Standing, LockAccounts, Delta
  <2>2. ASSUME Delta(r) = 1, status[c] # "rate_limited"
        PROVE  stored[r].count < LimitOf[r[1]]
    BY <1>1, <2>1, <2>2 DEF Delta
  <2>3. ASSUME Delta(r) = 1, status[c] = "rate_limited"
        PROVE  r[2] < today
    <3>1. pc[c] = "committing"
      BY <1>1, <2>3 DEF IInv, NoOutcomeYet
    <3>2. Settled(c, r[1])
      BY <1>1, <2>1, <2>3, <3>1, KeysOfCheck DEF Standing, SettledSoFar, Billable
    <3>3. c \in Visible(c, r).charged
      BY <1>4, <2>1, <2>3 DEF Visible
    <3> QED
      BY <1>1, <2>3, <3>2, <3>3 DEF Settled
  <2>4. stored'[r].count > stored[r].count => Delta(r) = 1
    BY <1>1, <1>2, <1>4, <2>1
  <2> QED
    BY <2>1, <2>2, <2>3, <2>4
<1> QED
  BY <1>3, <1>4

LEMMA RefundPosts ==
    ASSUME SInv, NEW c \in Checks, NEW q \in Rows, RefundAndCommit(c, q)
    PROVE  Posts
<1>1. RowTypes /\ RowsInv /\ StraysGrow
  BY InvParts DEF SInv
<1>2. /\ \A r \in Rows : r # q => stored'[r] = stored[r]
      /\ stored'[q] = stored[q] \/ stored'[q].count = stored[q].count - 1
  BY <1>1, RefundSpares
<1> QED
  BY <1>1, <1>2, RowFacts DEF Posts

\* Every step of the protocol posts one committed transaction, forgets a user, passes
\* midnight, or leaves the committed counts alone.
LEMMA StepOfLedger ==
    ASSUME SInv, [Next]_vars
    PROVE  \/ Posts /\ UNCHANGED today
           \/ /\ UNCHANGED today
              /\ \E u \in Deleters : \A r \in Rows :
                    stored'[r].count = IF r[1] = u THEN 0 ELSE stored[r].count
           \/ today' = today + 1 /\ today' \in Days /\ UNCHANGED stored
           \/ UNCHANGED <<today, stored>>
<1>1. ASSUME NEW c \in Checks, Step(c)
      PROVE  (Posts /\ UNCHANGED today) \/ UNCHANGED <<today, stored>>
  <2>1. CASE CommitReservation(c) \/ Commit(c)
    BY <2>1, CommitPosts DEF CommitReservation, Commit, At
  <2>2. CASE RefundAfterRaise(c) \/ RefundIpAfterRaise(c)
    BY <2>2, RefundPosts, DayReadIsDay DEF RefundAfterRaise, RefundIpAfterRaise, SInv
  <2>3. CASE ~(CommitReservation(c) \/ Commit(c) \/ RefundAfterRaise(c) \/ RefundIpAfterRaise(c))
    BY <1>1, <2>3
    DEF Step, ReserveIp, ReserveUser, RejectAtIp, RejectAtUser, StagesReturn, StagesRaise,
        SettleUser, RecordEvent, SettleIp
  <2> QED
    BY <2>1, <2>2, <2>3
<1>2. ASSUME NEW c \in Checks, DeadlockVictim(c) \/ ConnectionLost(c)
      PROVE  UNCHANGED <<today, stored>>
  BY <1>2 DEF DeadlockVictim, ConnectionLost, Abort, RollbackTxn
<1>3. ASSUME NEW u \in Deleters, DeleteUserData(u)
      PROVE  /\ UNCHANGED today
             /\ \A r \in Rows : stored'[r].count = IF r[1] = u THEN 0 ELSE stored[r].count
  BY <1>3 DEF DeleteUserData, EmptyRow
<1>4. CASE Crash \/ UNCHANGED vars
  BY <1>4 DEF Crash, vars
<1>5. CASE NextDay
  BY <1>5, BoundsAssumption DEF NextDay, SInv, IInv, TypeOK, Days
<1> QED
  BY <1>1, <1>2, <1>3, <1>4, <1>5 DEF Next

\* Locks, rollbacks, deadlocks and increments that go over the limit and come back are
\* never seen in the committed rows: those move as a ledger of which every entry is
\* posted whole, goes up only below the limit or on a day that is over, and never
\* goes below zero.
THEOREM LedgerImplemented == Spec => ImplementsLedger
<1> DEFINE Used == [r \in Rows |-> stored[r].count]
<1>1. Init => Ledger!Init
  BY DEF Init, Ledger!Init, Ledger!Rows, Rows, EmptyRow
<1>2. ASSUME SInv, SInv', [Next]_vars
      PROVE  [Ledger!Next]_<<today, Used>>
  <2>1. /\ \A r \in Rows : stored[r].count \in Nat /\ stored'[r].count \in Nat
        /\ Rows = Ledger!Rows
    BY <1>2, RowFacts, InvParts DEF SInv, IInv, TypeOK, CounterRow, Rows, Ledger!Rows
  <2>2. /\ Used' = [r \in Rows |-> stored'[r].count]
        /\ \A r \in Rows : Used[r] = stored[r].count /\ Used'[r] = stored'[r].count
    OBVIOUS
  <2>3. CASE Posts /\ UNCHANGED today
    BY <2>1, <2>2, <2>3 DEF Posts, Ledger!Post, Ledger!Next
  <2>4. ASSUME UNCHANGED today, NEW u \in Deleters,
               \A r \in Rows : stored'[r].count = IF r[1] = u THEN 0 ELSE stored[r].count
        PROVE  Ledger!Forget(u)
    BY <2>1, <2>2, <2>4 DEF Ledger!Forget
  <2>5. CASE today' = today + 1 /\ today' \in Days /\ UNCHANGED stored
    BY <2>5 DEF Ledger!NextDay, Ledger!Next
  <2>6. CASE UNCHANGED <<today, stored>>
    BY <2>6
  <2> QED
    BY <1>2, <2>3, <2>4, <2>5, <2>6, StepOfLedger DEF Ledger!Next
<1>3. SInv /\ SInv' /\ [Next]_vars => [Ledger!Next]_<<today, Used>>
  BY <1>2
<1> QED
  BY <1>1, <1>3, Standings, PTL DEF Spec, ImplementsLedger, Ledger!Spec

-----------------------------------------------------------------------------
(* What the ledger promises, and the committed rows with it *)

Used == [r \in Rows |-> stored[r].count]

\* The rows of today and of the days to come are within their limits; only a day that
\* is over may be overdrawn, by checks that read the date before midnight.
Covered ==
    /\ today \in Int
    /\ Used \in [Ledger!Rows -> Nat]
    /\ \A r \in Ledger!Rows : r[2] >= today => Used[r] <= LimitOf[r[1]]

LEMMA PostCovered ==
    ASSUME Covered, Ledger!Post
    PROVE  Covered'
<1>1. /\ Used' \in [Ledger!Rows -> Nat]
      /\ UNCHANGED today
      /\ \A r \in Ledger!Rows :
            /\ Used'[r] - Used[r] \in {-1, 0, 1}
            /\ Used'[r] > Used[r] => Used[r] < LimitOf[r[1]] \/ r[2] < today
  BY DEF Ledger!Post, Used
<1>2. ASSUME NEW r \in Ledger!Rows, r[2] >= today
      PROVE  Used'[r] <= LimitOf[r[1]]
  <2>1. /\ Used[r] \in Nat /\ Used'[r] \in Nat /\ LimitOf[r[1]] \in Nat
        /\ r[2] \in Int /\ today \in Int
    BY <1>1, LimitsAreNumbers, BoundsAssumption, KeysAssumption
    DEF Covered, Ledger!Rows, Days
  <2>2. CASE Used'[r] > Used[r]
    <3>1. Used[r] < LimitOf[r[1]] /\ Used'[r] - Used[r] \in {-1, 0, 1}
      BY <1>1, <1>2, <2>1, <2>2
    <3> QED
      BY <2>1, <3>1
  <2>3. CASE ~(Used'[r] > Used[r])
    <3>1. Used[r] <= LimitOf[r[1]]
      BY <1>2 DEF Covered
    <3> QED
      BY <2>1, <2>3, <3>1
  <2> QED
    BY <2>2, <2>3
<1> QED
  BY <1>1, <1>2 DEF Covered

LEMMA CoveredStep ==
    ASSUME Covered, [Ledger!Next]_<<today, Used>>
    PROVE  Covered'
<1>1. CASE Ledger!Post
  BY <1>1, PostCovered
<1>2. ASSUME NEW k \in Deleters, Ledger!Forget(k) PROVE Covered'
  <2>1. /\ Used' = [r \in Ledger!Rows |-> IF r[1] = k THEN 0 ELSE Used[r]]
        /\ UNCHANGED today
    BY <1>2 DEF Ledger!Forget, Used
  <2>2. \A r \in Ledger!Rows : LimitOf[r[1]] \in Nat
    BY KeysAssumption DEF Ledger!Rows
  <2> QED
    BY <2>1, <2>2 DEF Covered
<1>3. CASE Ledger!NextDay
  <2>1. today' = today + 1 /\ Used' = Used
    BY <1>3 DEF Ledger!NextDay, Used
  <2>2. \A r \in Ledger!Rows : r[2] \in Int
    BY BoundsAssumption DEF Ledger!Rows, Days
  <2> QED
    BY <2>1, <2>2 DEF Covered
<1>4. CASE UNCHANGED <<today, Used>>
  BY <1>4 DEF Covered
<1> QED
  BY <1>1, <1>2, <1>3, <1>4 DEF Ledger!Next, Used

\* increment_usage and the comparison with the limit, seen through the ledger: no
\* committed counter is ever above its limit on the current day, though in open
\* transactions it may be, and though a counter that was read before midnight may go
\* over once its day has passed.
THEOREM CountersWithinLimit == Spec => []Ledger!WithinLimit
<1>1. Ledger!Init => Covered
  <2> SUFFICES ASSUME Ledger!Init PROVE Covered
    OBVIOUS
  <2>1. today = 0 /\ Used = [r \in Ledger!Rows |-> 0]
    BY DEF Ledger!Init, Used
  <2>2. \A r \in Ledger!Rows : LimitOf[r[1]] \in Nat
    BY KeysAssumption DEF Ledger!Rows
  <2> QED
    BY <2>1, <2>2 DEF Covered
<1>2. Covered /\ [Ledger!Next]_<<today, Used>> => Covered'
  BY CoveredStep
<1>3. TypeOK /\ Covered => Ledger!WithinLimit
  <2> SUFFICES ASSUME TypeOK, Covered, NEW k \in Keys
               PROVE  Used[<<k, today>>] <= LimitOf[k]
    BY DEF Ledger!WithinLimit, Used
  <2>1. <<k, today>> \in Ledger!Rows
    BY DEF TypeOK, Ledger!Rows
  <2>2. <<k, today>>[1] = k /\ <<k, today>>[2] = today /\ today >= today
    BY DEF Covered
  <2> QED
    BY <2>1, <2>2 DEF Covered
<1> QED
  BY <1>1, <1>2, <1>3, LedgerImplemented, TypeCorrect, PTL
  DEF ImplementsLedger, Ledger!Spec, Used

=============================================================================
