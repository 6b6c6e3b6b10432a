----------------------------- MODULE CheckQuota -----------------------------
(***************************************************************************)
(* The daily-limit protocol of one Avvalo process: run_check               *)
(* (app/engine/pipeline.py) and its two callers, the Telegram handler      *)
(* on_content (app/bot/handlers.py) and POST /check (app/web/routes.py),   *)
(* against the rate_limit counter rows of app/data/repo.py.                *)
(*                                                                         *)
(* A bot check reserves one slot, on its user's row.  A web check reserves *)
(* two, first on the row of its hashed IP address and then on its          *)
(* browser's row.  The reservation is committed before OCR and the model   *)
(* run, and given back later if the outcome is not billable.  Many checks  *)
(* run at once on one event loop, each in a database transaction of its    *)
(* own; an UPDATE locks its row until its transaction ends, and every      *)
(* refund recomputes the day it applies to.                                *)
(*                                                                         *)
(* A counter row is keyed by (user_key, scope, day); the scope is folded   *)
(* into the key, because user keys and IP keys never meet.  An absent row  *)
(* is a row whose count is zero.                                           *)
(***************************************************************************)
EXTENDS Integers, FiniteSets

CONSTANTS
    Checks,     \* the check requests that may arrive
    UserKeys,   \* pseudonymous users: Telegram users and browser sessions
    IpKeys,     \* hashed client addresses
    NoIp,       \* IpOf of a check that has no IP counter (every bot check)
    NoCheck,    \* the holder of a row that nobody has locked
    UserOf,     \* the user whose check it is
    IpOf,       \* the IP counter it is also charged to, or NoIp
    LimitOf,    \* daily_check_limit or web_daily_limit, by key
    Deleters,   \* the users who may send /delete_my_data
    MaxDay,     \* bound: the last day of a behaviour
    MaxFaults   \* bound: connections lost and processes killed

Keys == UserKeys \cup IpKeys
Days == 0 .. MaxDay
Rows == Keys \X Days

ASSUME ChecksAssumption ==
    /\ IsFiniteSet(Checks)
    /\ NoCheck \notin Checks

ASSUME KeysAssumption ==
    /\ UserKeys \cap IpKeys = {}
    /\ NoIp \notin Keys
    /\ UserOf \in [Checks -> UserKeys]
    /\ IpOf \in [Checks -> IpKeys \cup {NoIp}]
    /\ LimitOf \in [Keys -> Nat]
    /\ Deleters \subseteq UserKeys

ASSUME BoundsAssumption ==
    /\ MaxDay \in Nat
    /\ MaxFaults \in Nat

VARIABLES
    today,      \* the UTC date
    faults,     \* how many faults have happened
    pc,         \* where each check stands
    since,      \* the date on which it got there
    status,     \* its outcome
    stored,     \* the committed counter rows
    working,    \* the rows as the transaction that locked them sees them
    locker      \* who has each row locked

vars == <<today, faults, pc, since, status, stored, working, locker>>

-----------------------------------------------------------------------------
(* Counter rows and transactions *)

\* count is the column.  The other two are history: which checks the row is
\* charged for, and how many refunds it took from checks it was not charged for.
CounterRow == [count : Nat, charged : SUBSET Checks, stray : Nat]
EmptyRow   == [count |-> 0, charged |-> {}, stray |-> 0]

Charge(c, row) ==
    [count   |-> row.count + 1,
     charged |-> row.charged \cup {c},
     stray   |-> row.stray]

Uncharge(c, row) ==
    [count   |-> row.count - 1,
     charged |-> row.charged \ {c},
     stray   |-> IF c \in row.charged THEN row.stray ELSE row.stray + 1]

HasIp(c)    == IpOf[c] # NoIp
UserRow(c, d) == <<UserOf[c], d>>
IpRow(c, d)   == <<IpOf[c], d>>

\* _utcnow().date() is read after the check's last step and before the
\* statement runs, which may have to wait for a lock.
DayRead(c) == since[c] .. today

Free(c, r) == locker[r] \in {NoCheck, c}

\* A bug the code avoids: a plain read-modify-write of the committed count.
MutantLostUpdate(c, r) ==
    /\ working' = [working EXCEPT ![r] = [Charge(c, @) EXCEPT !.count = stored[r].count + 1]]
    /\ locker' = [locker EXCEPT ![r] = c]

\* increment_usage: one INSERT .. ON CONFLICT DO UPDATE, which locks the row.
Increment(c, r) ==
    /\ Free(c, r)
    /\ working' = [working EXCEPT ![r] = Charge(c, @)]
    /\ locker' = [locker EXCEPT ![r] = c]

\* Off by one: the count before the increment is compared with the limit.
MutantCountBefore(r) == working[r].count

\* Off by one: the limit itself is already over the limit.
MutantCountBeyond(r) == working[r].count + 2

\* The count increment_usage would return to c.
CountReturned(r) == working[r].count + 1

\* refund_usage: UPDATE .. WHERE count > 0.  A row that c sees at zero matches
\* nothing and is neither changed nor locked; any other is waited for.
Visible(c, r) == IF locker[r] = c THEN working[r] ELSE stored[r]

Decrement(c, r) ==
    IF Visible(c, r).count = 0
    THEN UNCHANGED <<working, locker>>
    ELSE /\ Free(c, r)
         /\ working' = [working EXCEPT ![r] = Uncharge(c, @)]
         /\ locker' = [locker EXCEPT ![r] = c]

Unlocked(c) == [r \in Rows |-> IF locker[r] = c THEN NoCheck ELSE locker[r]]

\* session.commit(), of a transaction that has no statement left to run.
CommitTxn(c) ==
    /\ stored' = [r \in Rows |-> IF locker[r] = c THEN working[r] ELSE stored[r]]
    /\ locker' = Unlocked(c)
    /\ UNCHANGED working

\* The session is closed without a commit, or the server ended the transaction.
RollbackTxn(c) ==
    /\ working' = [r \in Rows |-> IF locker[r] = c THEN stored[r] ELSE working[r]]
    /\ locker' = Unlocked(c)
    /\ UNCHANGED stored

\* refund_usage and commit in a transaction of their own: nothing else is locked,
\* so the pair is one step.
RefundAndCommit(c, r) ==
    /\ UNCHANGED locker
    /\ IF stored[r].count = 0
       THEN UNCHANGED <<stored, working>>
       ELSE /\ locker[r] = NoCheck
            /\ stored' = [stored EXCEPT ![r] = Uncharge(c, @)]
            /\ working' = [working EXCEPT ![r] = Uncharge(c, @)]

-----------------------------------------------------------------------------
(* The steps of one check *)

\* Where a check may stand: with rows locked, perhaps, in Transacting; before a
\* statement that locks and commits by itself; while the stages run; at its end.
Transacting == {"ip_reserved", "reserved", "settling", "recording",
                "settling_ip", "committing"}
Requesting  == {"arrived", "refunding", "refunding_ip"}

\* Answered; an exception after which both refunds were made; an exception in the
\* database; the process died.
Ended  == {"done", "failed", "aborted", "lost"}
Labels == Transacting \cup Requesting \cup {"external"} \cup Ended

\* BILLABLE_STATUSES as one value, every other outcome of the stages as another.
Outcomes == {"none", "rate_limited", "billable", "free", "raised"}
Billable(c) == status[c] = "billable"

Init ==
    /\ today = 0
    /\ faults = 0
    /\ pc = [c \in Checks |-> "arrived"]
    /\ since = [c \in Checks |-> 0]
    /\ status = [c \in Checks |-> "none"]
    /\ stored = [r \in Rows |-> EmptyRow]
    /\ working = [r \in Rows |-> EmptyRow]
    /\ locker = [r \in Rows |-> NoCheck]

At(c, label) == pc[c] = label

Goto(c, label) ==
    /\ pc' = [pc EXCEPT ![c] = label]
    /\ since' = [since EXCEPT ![c] = today]

Ends(c, outcome) == status' = [status EXCEPT ![c] = outcome]

\* _reserve_web_ip_limit, within the limit: the transaction stays open.
ReserveIp(c) ==
    /\ At(c, "arrived") /\ HasIp(c)
    /\ \E d \in DayRead(c) :
          /\ CountReturned(IpRow(c, d)) <= LimitOf[IpOf[c]]
          /\ Increment(c, IpRow(c, d))
    /\ Goto(c, "ip_reserved")
    /\ UNCHANGED <<today, faults, status, stored>>

\* _reserve_web_ip_limit, over the limit: the count goes up and down again and the
\* request answers 429 without a commit, so the row is locked for the length of the
\* call and left as it was.
RejectAtIp(c) ==
    /\ At(c, "arrived") /\ HasIp(c)
    /\ \E d \in DayRead(c) :
          /\ locker[IpRow(c, d)] = NoCheck
          /\ CountReturned(IpRow(c, d)) > LimitOf[IpOf[c]]
    /\ Goto(c, "done")
    /\ Ends(c, "rate_limited")
    /\ UNCHANGED <<today, faults, stored, working, locker>>

AtUserLimit(c) ==
    \/ At(c, "arrived") /\ ~HasIp(c)
    \/ At(c, "ip_reserved")

\* _rate_limit_result returns None.
ReserveUser(c) ==
    /\ AtUserLimit(c)
    /\ \E d \in DayRead(c) :
          /\ CountReturned(UserRow(c, d)) <= LimitOf[UserOf[c]]
          /\ Increment(c, UserRow(c, d))
    /\ Goto(c, "reserved")
    /\ UNCHANGED <<today, faults, status, stored>>

\* _rate_limit_result returns a rate_limited result: the increment stays in the
\* open transaction until the check settles.
RejectAtUser(c) ==
    /\ AtUserLimit(c)
    /\ \E d \in DayRead(c) :
          /\ CountReturned(UserRow(c, d)) > LimitOf[UserOf[c]]
          /\ Increment(c, UserRow(c, d))
    /\ Goto(c, "settling")
    /\ Ends(c, "rate_limited")
    /\ UNCHANGED <<today, faults, stored>>

\* The reservation is left open, as without commit_rate_limit_reservation.
MutantOpenReservation(c) ==
    /\ At(c, "reserved")
    /\ Goto(c, "external")
    /\ UNCHANGED <<today, faults, status, stored, working, locker>>

\* commit_rate_limit_reservation
CommitReservation(c) ==
    /\ At(c, "reserved")
    /\ CommitTxn(c)
    /\ Goto(c, "external")
    /\ UNCHANGED <<today, faults, status>>

\* _run_stages returns a result.
StagesReturn(c) ==
    /\ At(c, "external")
    /\ \E outcome \in {"billable", "free"} : Ends(c, outcome)
    /\ Goto(c, "settling")
    /\ UNCHANGED <<today, faults, stored, working, locker>>

\* _run_stages raises.
StagesRaise(c) ==
    /\ At(c, "external")
    /\ Ends(c, "raised")
    /\ Goto(c, "refunding")
    /\ UNCHANGED <<today, faults, stored, working, locker>>

\* The except clause of run_check; POST /check has one of its own for the IP.
RefundAfterRaise(c) ==
    /\ At(c, "refunding")
    /\ \E d \in DayRead(c) : RefundAndCommit(c, UserRow(c, d))
    /\ Goto(c, IF HasIp(c) THEN "refunding_ip" ELSE "failed")
    /\ UNCHANGED <<today, faults, status>>

RefundIpAfterRaise(c) ==
    /\ At(c, "refunding_ip") /\ HasIp(c)
    /\ \E d \in DayRead(c) : RefundAndCommit(c, IpRow(c, d))
    /\ Goto(c, "failed")
    /\ UNCHANGED <<today, faults, status>>

\* The status is not looked at before the refund.
MutantRefundAll(c) ==
    /\ At(c, "settling")
    /\ \E d \in DayRead(c) : Decrement(c, UserRow(c, d))
    /\ Goto(c, "recording")
    /\ UNCHANGED <<today, faults, status, stored>>

\* The end of run_check: refund what is not billable, then insert the event.
SettleUser(c) ==
    /\ At(c, "settling")
    /\ IF Billable(c)
       THEN UNCHANGED <<working, locker>>
       ELSE \E d \in DayRead(c) : Decrement(c, UserRow(c, d))
    /\ Goto(c, "recording")
    /\ UNCHANGED <<today, faults, status, stored>>

RecordEvent(c) ==
    /\ At(c, "recording")
    /\ Goto(c, IF HasIp(c) THEN "settling_ip" ELSE "committing")
    /\ UNCHANGED <<today, faults, status, stored, working, locker>>

SettleIp(c) ==
    /\ At(c, "settling_ip") /\ HasIp(c)
    /\ IF Billable(c)
       THEN UNCHANGED <<working, locker>>
       ELSE \E d \in DayRead(c) : Decrement(c, IpRow(c, d))
    /\ Goto(c, "committing")
    /\ UNCHANGED <<today, faults, status, stored>>

\* The answer is sent with the transaction left open.
MutantNoCommit(c) ==
    /\ At(c, "committing")
    /\ Goto(c, "done")
    /\ UNCHANGED <<today, faults, status, stored, working, locker>>

\* The caller's commit, after which it answers.
Commit(c) ==
    /\ At(c, "committing")
    /\ CommitTxn(c)
    /\ Goto(c, "done")
    /\ UNCHANGED <<today, faults, status>>

-----------------------------------------------------------------------------
(* What goes wrong, and what happens beside the checks *)

\* Every statement c can run next needs a row locked by another check.
NextRows(c) ==
    CASE At(c, "arrived") /\ HasIp(c)       -> {IpRow(c, d) : d \in DayRead(c)}
      [] AtUserLimit(c)                     -> {UserRow(c, d) : d \in DayRead(c)}
      [] At(c, "settling") /\ ~Billable(c)  -> {UserRow(c, d) : d \in DayRead(c)}
      [] At(c, "settling_ip") /\ ~Billable(c) -> {IpRow(c, d) : d \in DayRead(c)}
      [] OTHER                              -> {}

WaitsFor(c) ==
    IF NextRows(c) # {} /\ \A r \in NextRows(c) : ~Free(c, r)
    THEN {locker[r] : r \in NextRows(c)}
    ELSE {}

Deadlocked(c) ==
    \E S \in SUBSET Checks :
        /\ c \in S
        /\ \A x \in S : /\ WaitsFor(x) \cap S # {}
                        /\ \E y \in S : x \in WaitsFor(y)

\* A statement fails.  The transaction is gone, and with it the session: the
\* refund that the except clause of POST /check still tries fails as well.
Abort(c) ==
    /\ RollbackTxn(c)
    /\ Goto(c, "aborted")
    /\ UNCHANGED <<today, status>>

\* PostgreSQL breaks a deadlock by failing the statement of one of its members.
DeadlockVictim(c) ==
    /\ Deadlocked(c)
    /\ Abort(c)
    /\ UNCHANGED faults

ConnectionLost(c) ==
    /\ faults < MaxFaults
    /\ pc[c] \in Transacting \cup Requesting
    /\ Abort(c)
    /\ faults' = faults + 1

\* The process is killed, or cancels its handlers at shutdown: a CancelledError
\* is not an Exception, so no refund runs.  Later requests find a new process.
InFlight == {c \in Checks : pc[c] \notin Ended \cup {"arrived"}}

Crash ==
    /\ faults < MaxFaults
    /\ InFlight # {}
    /\ faults' = faults + 1
    /\ pc' = [c \in Checks |-> IF c \in InFlight THEN "lost" ELSE pc[c]]
    /\ working' = stored
    /\ locker' = [r \in Rows |-> NoCheck]
    /\ UNCHANGED <<today, since, status, stored>>

\* Midnight, UTC.
NextDay ==
    /\ today < MaxDay
    /\ today' = today + 1
    /\ UNCHANGED <<faults, pc, since, status, stored, working, locker>>

\* delete_user_data and its commit: one DELETE waits for the user's locked rows and
\* removes them all.
DeleteUserData(u) ==
    /\ \A d \in Days : locker[<<u, d>>] = NoCheck
    /\ stored' = [r \in Rows |-> IF r[1] = u THEN EmptyRow ELSE stored[r]]
    /\ working' = [r \in Rows |-> IF r[1] = u THEN EmptyRow ELSE working[r]]
    /\ UNCHANGED <<today, faults, pc, since, status, locker>>

Step(c) ==
    \/ ReserveIp(c)         \/ RejectAtIp(c)
    \/ ReserveUser(c)       \/ RejectAtUser(c)
    \/ CommitReservation(c)
    \/ StagesReturn(c)      \/ StagesRaise(c)
    \/ RefundAfterRaise(c)  \/ RefundIpAfterRaise(c)
    \/ SettleUser(c)        \/ RecordEvent(c)
    \/ SettleIp(c)          \/ Commit(c)

Next ==
    \/ \E c \in Checks : Step(c) \/ DeadlockVictim(c) \/ ConnectionLost(c)
    \/ \E u \in Deleters : DeleteUserData(u)
    \/ Crash
    \/ NextDay

\* A check that has begun is scheduled by the event loop, each provider call is
\* under asyncio.wait_for, and PostgreSQL looks for deadlocks after a second.
Fairness == \A c \in Checks : WF_vars(Step(c) \/ DeadlockVictim(c))

Spec == Init /\ [][Next]_vars
FairSpec == Spec /\ Fairness

-----------------------------------------------------------------------------
(* Properties *)

TypeOK ==
    /\ today \in Days
    /\ faults \in 0 .. MaxFaults
    /\ pc \in [Checks -> Labels]
    /\ since \in [Checks -> Days]
    /\ status \in [Checks -> Outcomes]
    /\ stored \in [Rows -> CounterRow]
    /\ working \in [Rows -> CounterRow]
    /\ locker \in [Rows -> Checks \cup {NoCheck}]

\* No increment is lost: a row counts every check charged to it, except as many as
\* there were refunds by checks the row was not charged for; and it never counts a
\* check that is not charged.
Balanced(row) ==
    /\ row.count <= Cardinality(row.charged)
    /\ Cardinality(row.charged) <= row.count + row.stray

CountsMatchCharges == \A r \in Rows : Balanced(stored[r]) /\ Balanced(working[r])

\* The promise of reserving up front: however checks interleave, those that were
\* let through on one row never exceed its limit, but for the refunds that did not
\* belong there.
Admitted(row) == {c \in row.charged : status[c] # "rate_limited"}

AdmittedWithinLimit ==
    \A r \in Rows :
        Cardinality(Admitted(stored[r])) <= LimitOf[r[1]] + stored[r].stray

\* No check holds a counter row locked while OCR or the model runs.
NoLockAcrossExternalWork ==
    \A r \in Rows : locker[r] # NoCheck => pc[locker[r]] \in Transacting

\* A check that ended, other than through a failed statement or a killed process,
\* without a billable answer holds no slot of today on either of its counters,
\* unless a refund that did not belong to the row has taken the count already.
Holds(c, k, d) == c \in stored[<<k, d>>].charged

FreeChecksHoldNoSlot ==
    \A c \in Checks :
        pc[c] \in {"done", "failed"} /\ ~Billable(c) =>
            \A k \in {UserOf[c], IpOf[c]} \cap Keys :
                Holds(c, k, today) => stored[<<k, today>>].stray > 0

\* A billable answer is paid for on every one of its counters, once, unless its
\* user deleted the counter.
BillableChecksPayOnce ==
    \A c \in Checks : pc[c] = "done" /\ Billable(c) =>
        \A k \in {UserOf[c], IpOf[c]} \cap Keys :
            /\ Cardinality({d \in Days : Holds(c, k, d)}) <= 1
            /\ k \notin Deleters => \E d \in Days : Holds(c, k, d)

\* The slots of both counters follow the outcome: given back, or paid for once.
SlotsAreSettled == FreeChecksHoldNoSlot /\ BillableChecksPayOnce

\* A check is turned away only by a committed row that other checks have filled:
\* never by the passing increment of a check that is itself being turned away.
TurnsAway(c) == status[c] # "rate_limited" /\ status'[c] = "rate_limited"

RejectedOnlyWhenFull ==
    [][\A c \in Checks : TurnsAway(c) =>
         \E k \in {UserOf[c], IpOf[c]} \cap Keys, d \in Days :
            LET row == stored[<<k, d>>]
            IN  /\ row.count >= LimitOf[k]
                /\ c \notin row.charged
                /\ d = today => Cardinality(Admitted(row)) >= LimitOf[k]]_vars

\* Every check that arrives is answered or fails: no wait for a row lasts.
EveryCheckEnds == <>(\A c \in Checks : pc[c] \in Ended)

\* Locks, rollbacks and increments that go over the limit and back are invisible
\* in the committed rows: those form a ledger whose entries are posted whole.
Ledger == INSTANCE QuotaLedger
            WITH used <- [r \in Rows |-> stored[r].count],
                 Forgettable <- Deleters

ImplementsLedger == Ledger!Spec

=============================================================================
