-------------------------- MODULE BotConversation ---------------------------
(***************************************************************************)
(* The Telegram conversation (app/bot/handlers.py) over the user's rows    *)
(* (app/data/repo.py, app/data/retention.py): onboarding, consent, checks, *)
(* feedback, erasure and expiry.                                           *)
(*                                                                         *)
(* aiogram handles updates concurrently, also those of one user.  A task   *)
(* is one update being handled; it gives way at its database statements    *)
(* and its Telegram calls.  The conversation memory is lost when the       *)
(* process restarts, with every task; rows and keyboards stay.             *)
(***************************************************************************)
EXTENDS Integers, FiniteSets, Functions

CONSTANTS
    Users,
    Bystanders,     \* others in the chat: they see the answers and tap the buttons
    Tasks,          \* how many updates may be under way at a time
    Checks,         \* the ids of the checks that are ever recorded
    Languages, Usefulness, NextAction,
    CheckDays, FeedbackDays, ConsentDays,   \* the retention policy
    MaxDay, MaxVersion,                     \* the bounds of clock and notice,
    MaxChanges,                             \* and of both together
    None

ASSUME DaysAssumption ==
    {CheckDays, FeedbackDays, ConsentDays, MaxDay, MaxVersion, MaxChanges} \subseteq Nat
ASSUME NoneAssumption ==
    None \notin Users \cup Bystanders \cup Checks \cup Usefulness \cup NextAction

VARIABLES
    version,    \* NOTICE_VERSION of this process
    day,
    consent,    \* consent rows, by user
    events,     \* check_event rows, by check
    feedback,   \* feedback rows, by check
    memory,     \* the FSM state and data of each user: whether a consent prompt is
                \* open (no handler tells the other states apart), and the
                \* usefulness last answered, with its check
    notices,    \* the consent buttons each user has been shown
    keyboard,   \* the checks whose feedback buttons were sent
    task,       \* the updates under way
    owner,      \* history: who submitted a check
    agreed,     \* history: the notices, of the last version, a user accepted since erasure
    erased,     \* history: whose data is erased, without a consent since
    said,       \* history: the usefulness its owner has answered of a check
    strays      \* history: checks that have a row written by an update that was under
                \* way when the user's data was erased or the check expired

rows    == <<consent, events, feedback>>
sent    == <<notices, keyboard>>
history == <<owner, agreed, erased, said, strays>>
vars    == <<version, day, rows, memory, sent, task, history>>

Everyone == Users \cup Bystanders

Notices == [language : Languages, version : 0..MaxVersion]

Idle      == [doing |-> "idle", user |-> None, on |-> None, row |-> None, late |-> FALSE]
Forgotten == [awaiting |-> FALSE, usefulness |-> None, check |-> None]

Doing(t, step) == task[t].doing = step
Row(table, x)  == IF x \in DOMAIN table THEN table[x] ELSE None
With(table, x, row) == [y \in DOMAIN table \cup {x} |-> IF y = x THEN row ELSE table[y]]

\* An update of user u is taken up: what it is about, and the row read first.
Begin(t, u, step, on, row) ==
    /\ Doing(t, "idle")
    /\ task' = [task EXCEPT ![t] =
                  [doing |-> step, user |-> u, on |-> on, row |-> row, late |-> FALSE]]
Proceed(t, step) == task' = [task EXCEPT ![t].doing = step]
End(t)           == task' = [task EXCEPT ![t] = Idle]

Init ==
    /\ version = 0 /\ day = 0
    /\ consent = <<>> /\ events = <<>> /\ feedback = <<>>
    /\ memory = [u \in Everyone |-> Forgotten]
    /\ notices = [u \in Users |-> {}] /\ keyboard = {}
    /\ task = [t \in Tasks |-> Idle]
    /\ owner = [c \in Checks |-> None]
    /\ agreed = [u \in Users |-> {}] /\ erased = [u \in Users |-> FALSE]
    /\ said = [c \in Checks |-> {}] /\ strays = {}

IsConsentCurrent(row) == row # None /\ row.version = version

-----------------------------------------------------------------------------
(* Onboarding *)

\* Whatever the consent read, no prompt is open.
CmdStart(u) ==
    /\ memory' = [memory EXCEPT ![u].awaiting = FALSE]
    /\ UNCHANGED <<version, day, rows, sent, task, history>>

\* The consent prompt for a language, with its button.
Prompt(u, language) ==
    /\ memory' = [memory EXCEPT ![u].awaiting = TRUE]
    /\ notices' = [notices EXCEPT ![u] = @ \cup {[language |-> language, version |-> version]}]

OnLanguageChosen(u, language) ==
    /\ Prompt(u, language)
    /\ UNCHANGED <<version, day, rows, keyboard, task, history>>

\* The button is that of the notice in force, and a prompt is open.
Honours(u, notice) ==
    memory[u].awaiting /\ notice.version = version

OnConsentRefused(u) ==
    /\ \E notice \in notices[u] : ~Honours(u, notice) /\ Prompt(u, notice.language)
    /\ UNCHANGED <<version, day, rows, keyboard, task, history>>

\* upsert_consent reads the row ...
OnConsentAccepted(t, u) ==
    /\ \E notice \in notices[u] :
        Honours(u, notice) /\ Begin(t, u, "granting", notice, Row(consent, u))
    /\ UNCHANGED <<version, day, rows, memory, sent, history>>

\* ... and writes what differs from it; an insert meets no other row, and an
\* update finds the row, or the statement fails.
Overwrite(row, read, new) ==
    [f \in DOMAIN new |-> IF new[f] = read[f] THEN row[f] ELSE new[f]]

Upserts(table, x, read, new) ==
    IF read = None THEN With(table, x, new) ELSE With(table, x, Overwrite(table[x], read, new))
UpsertFits(table, x, read) == read = None <=> x \notin DOMAIN table

GrantConsent(t) ==
    LET u   == task[t].user
        new == [language |-> task[t].on.language, version |-> version, ts |-> day] IN
    /\ Doing(t, "granting")
    /\ UpsertFits(consent, u, task[t].row)
    /\ consent' = Upserts(consent, u, task[t].row, new)
    /\ agreed' = [agreed EXCEPT ![u] = {n \in @ : n.version = version} \cup {task[t].on}]
    /\ erased' = [erased EXCEPT ![u] = FALSE]
    /\ Proceed(t, "granted")
    /\ UNCHANGED <<version, day, events, feedback, memory, sent, owner, said, strays>>

OnConsentAcceptedEnds(t) ==
    /\ Doing(t, "granted")
    /\ memory' = [memory EXCEPT ![task[t].user].awaiting = FALSE]
    /\ End(t)
    /\ UNCHANGED <<version, day, rows, sent, history>>

-----------------------------------------------------------------------------
(* A check: on_content *)

\* A consent to whatever notice will do.
MutantMayCheck(row) == row # None

MayCheck(row) == IsConsentCurrent(row)

\* The row read decides; without consent in force nothing is done.  on is, for a
\* check, whether the user has accepted the notice in force.
OnContent(t, u) ==
    /\ MayCheck(Row(consent, u))
    /\ Begin(t, u, "checking", \E n \in agreed[u] : n.version = version, None)
    /\ UNCHANGED <<version, day, rows, memory, sent, history>>

Expired(table, days, today) == {x \in DOMAIN table : table[x].ts < today - days}

\* Check c is about to go, with its user or by its age.
Going(c) ==
    \E o \in Tasks :
        \/ Doing(o, "deleting") /\ task[o].user = owner[c]
        \/ Doing(o, "expiring") /\ c \in Expired(events, CheckDays, task[o].on)

WrittenBy(t, c, overtaken) ==
    strays' = IF task[t].late \/ overtaken THEN strays \cup {c} ELSE strays

\* run_check has an answer and its event is committed; from here on, on is the check.
CheckRecorded(t, c) ==
    /\ Doing(t, "checking") /\ owner[c] = None
    /\ events' = With(events, c, [user |-> task[t].user, ts |-> day, informed |-> task[t].on])
    /\ owner' = [owner EXCEPT ![c] = task[t].user]
    /\ WrittenBy(t, c, FALSE)
    /\ task' = [task EXCEPT ![t].doing = "recorded", ![t].on = c]
    /\ UNCHANGED <<version, day, consent, feedback, memory, sent, agreed, erased, said>>

\* The usefulness of an earlier check is forgotten; an answer has buttons.  A check
\* without an answer ends here too: no button and no property names its event.
ContentEnds(t) ==
    /\ task[t].doing \in {"checking", "recorded"}
    /\ memory' = [memory EXCEPT ![task[t].user].usefulness = None,
                                ![task[t].user].check = None]
    /\ keyboard' = IF Doing(t, "recorded") THEN keyboard \cup {task[t].on} ELSE keyboard
    /\ End(t)
    /\ UNCHANGED <<version, day, rows, notices, history>>

-----------------------------------------------------------------------------
(* Feedback: on_feedback *)

\* The buttons under the answer of a check.
Buttons(c) == [check : {c}, usefulness : Usefulness, next : {None}]
         \cup [check : {c}, usefulness : {None}, next : NextAction]

Authorized(u, event) == event # None /\ event.user = u

\* The event read decides whether the user may answer; nothing is done otherwise.
OnFeedback(t, u, tap) ==
    /\ Authorized(u, Row(events, tap.check))
    /\ Begin(t, u, "feedback", tap, None)
    /\ said' = IF owner[tap.check] = u /\ tap.next = None
               THEN [said EXCEPT ![tap.check] = @ \cup {tap.usefulness}] ELSE said
    /\ UNCHANGED <<version, day, rows, memory, sent, owner, agreed, erased, strays>>

\* The usefulness remembered goes with the next action, whatever its check was.
MutantAnswers(t) ==
    LET tap == task[t].on
        known == memory[task[t].user] IN
    IF tap.next = None THEN {tap.usefulness} ELSE {known.usefulness} \ {None}

\* The usefulness to record: the one tapped, or with a next action the one that
\* the conversation remembers of the same check, if any.
Answers(t) ==
    LET tap == task[t].on
        known == memory[task[t].user] IN
    IF tap.next = None THEN {tap.usefulness}
    ELSE IF known.check = tap.check THEN {known.usefulness} ELSE {}

FeedbackRefused(t) ==
    /\ Doing(t, "feedback")
    /\ Answers(t) = {}
    /\ End(t)
    /\ UNCHANGED <<version, day, rows, memory, sent, history>>

\* record_feedback reads the row of the check ...
FeedbackAccepted(t) ==
    /\ Doing(t, "feedback")
    /\ \E usefulness \in Answers(t) :
        task' = [task EXCEPT ![t].doing = "writing", ![t].on.usefulness = usefulness,
                             ![t].row = Row(feedback, task[t].on.check)]
    /\ UNCHANGED <<version, day, rows, memory, sent, history>>

\* The row is deleted by a transaction that has not ended.
Locked(c) == \E o \in Tasks : task[o].doing \in {"deleting", "expiring"} /\ c \in task[o].row

\* ... and inserts or revises it.
RecordFeedback(t) ==
    LET tap  == task[t].on
        read == task[t].row
        kept == IF read # None /\ tap.next = None THEN read.next ELSE tap.next
        new  == [usefulness |-> tap.usefulness, next |-> kept, ts |-> day] IN
    /\ Doing(t, "writing")
    /\ UpsertFits(feedback, tap.check, read) /\ ~Locked(tap.check)
    /\ feedback' = Upserts(feedback, tap.check, read, new)
    /\ WrittenBy(t, tap.check, tap.check \notin DOMAIN events \/ Going(tap.check))
    /\ IF tap.next = None THEN Proceed(t, "remembering") ELSE End(t)
    /\ UNCHANGED <<version, day, consent, events, memory, sent, owner, agreed, erased, said>>

RememberUsefulness(t) ==
    /\ Doing(t, "remembering")
    /\ memory' = [memory EXCEPT ![task[t].user].usefulness = task[t].on.usefulness,
                                ![task[t].user].check = task[t].on.check]
    /\ End(t)
    /\ UNCHANGED <<version, day, rows, sent, history>>

-----------------------------------------------------------------------------
(* Erasure, expiry, failure *)

\* The transaction of an erasure or of the expiry deletes feedback first: row is the
\* set of rows found, which stay locked until it ends.
Sweep(t, u, step, found) ==
    /\ \A c \in found : ~Locked(c)
    /\ Begin(t, u, step, day, found)
    /\ UNCHANGED <<version, day, rows, memory, sent, history>>

Mine(u) == {c \in DOMAIN events : events[c].user = u}

CmdDeleteMyData(t, u) == Sweep(t, u, "deleting", DOMAIN feedback \cap Mine(u))

\* The consent row is left behind.
MutantDeleteUserData(u, found) ==
    /\ feedback' = Restrict(feedback, DOMAIN feedback \ found)
    /\ events' = Restrict(events, DOMAIN events \ Mine(u))
    /\ UNCHANGED consent

StraysLeft == strays' = strays \cap (DOMAIN events' \cup DOMAIN feedback')

\* delete_user_data, to its commit.
DeleteUserData(u, found) ==
    /\ feedback' = Restrict(feedback, DOMAIN feedback \ found)
    /\ events' = Restrict(events, DOMAIN events \ Mine(u))
    /\ consent' = Restrict(consent, DOMAIN consent \ {u})

CmdDeleteMyDataCommits(t) ==
    LET u == task[t].user IN
    /\ Doing(t, "deleting")
    /\ DeleteUserData(u, task[t].row)
    /\ StraysLeft
    /\ agreed' = [agreed EXCEPT ![u] = {}]
    /\ erased' = [erased EXCEPT ![u] = TRUE]
    /\ task' = [o \in Tasks |->
                  IF o = t THEN [Idle EXCEPT !.doing = "deleted", !.user = u]
                  ELSE [task[o] EXCEPT !.late = @ \/ task[o].user = u]]
    /\ UNCHANGED <<version, day, memory, sent, owner, said>>

CmdDeleteMyDataEnds(t) ==
    /\ Doing(t, "deleted")
    /\ memory' = [memory EXCEPT ![task[t].user] = Forgotten]
    /\ End(t)
    /\ UNCHANGED <<version, day, rows, sent, history>>

\* Feedback goes by its own age only.
MutantExpiredFeedback == Expired(feedback, FeedbackDays, day)

\* Feedback goes by its own age, or with its check.
ExpiredFeedback == Expired(feedback, FeedbackDays, day)
                   \cup (DOMAIN feedback \cap Expired(events, CheckDays, day))

\* The scheduler runs one cleanup at a time; one that finds nothing changes nothing.
CleanupExpired(t) ==
    /\ \A o \in Tasks : ~Doing(o, "expiring")
    /\ {} # ExpiredFeedback \cup Expired(events, CheckDays, day)
                           \cup Expired(consent, ConsentDays, day)
    /\ Sweep(t, None, "expiring", ExpiredFeedback)

CleanupExpiredCommits(t) ==
    LET lapsed == Expired(consent, ConsentDays, task[t].on) IN
    /\ Doing(t, "expiring")
    /\ feedback' = Restrict(feedback, DOMAIN feedback \ task[t].row)
    /\ events' = Restrict(events, DOMAIN events \ Expired(events, CheckDays, task[t].on))
    /\ consent' = Restrict(consent, DOMAIN consent \ lapsed)
    /\ StraysLeft
    /\ agreed' = [u \in Users |-> IF u \in lapsed THEN {} ELSE agreed[u]]
    /\ End(t)
    /\ UNCHANGED <<version, day, memory, sent, owner, erased, said>>

\* A statement fails, also since an upsert no longer fits, or run_check raises.
TaskFails(t) ==
    /\ task[t].doing \in {"granting", "checking", "feedback", "writing", "deleting", "expiring"}
    /\ End(t)
    /\ UNCHANGED <<version, day, rows, memory, sent, history>>

\* The process restarts, possibly with another notice.
Restart ==
    /\ version' \in {version} \cup {v \in version..MaxVersion : v + day <= MaxChanges}
    /\ memory' = [u \in Everyone |-> Forgotten]
    /\ task' = [t \in Tasks |-> Idle]
    /\ UNCHANGED <<day, rows, sent, history>>

Tick ==
    /\ day < MaxDay /\ day + version < MaxChanges
    /\ day' = day + 1
    /\ UNCHANGED <<version, rows, memory, sent, task, history>>

-----------------------------------------------------------------------------

Update(t, u) ==
    \/ CmdDeleteMyData(t, u) \/ OnConsentAccepted(t, u) \/ OnContent(t, u)

Continue(t) ==
    \/ GrantConsent(t) \/ OnConsentAcceptedEnds(t)
    \/ ContentEnds(t) \/ \E c \in Checks : CheckRecorded(t, c)
    \/ FeedbackRefused(t) \/ FeedbackAccepted(t)
    \/ RecordFeedback(t) \/ RememberUsefulness(t)
    \/ CmdDeleteMyDataCommits(t) \/ CmdDeleteMyDataEnds(t)
    \/ CleanupExpiredCommits(t) \/ TaskFails(t)

Next ==
    \/ \E u \in Users : \/ CmdStart(u) \/ OnConsentRefused(u)
                       \/ \E l \in Languages : OnLanguageChosen(u, l)
    \/ \E t \in Tasks : Continue(t) \/ CleanupExpired(t) \/ \E u \in Users : Update(t, u)
    \/ \E t \in Tasks, u \in Everyone, c \in keyboard :
        \E tap \in Buttons(c) : OnFeedback(t, u, tap)
    \/ Restart \/ Tick

Spec == Init /\ [][Next]_vars

-----------------------------------------------------------------------------
(* Properties *)

\* The rows, the conversation's memory and the updates under way have their columns.
TypeOK ==
    /\ version \in 0..MaxVersion /\ day \in 0..MaxDay
    /\ DOMAIN consent \subseteq Users /\ DOMAIN events \subseteq Checks
    /\ DOMAIN feedback \subseteq Checks
    /\ \A u \in DOMAIN consent :
        consent[u] \in [language : Languages, version : 0..MaxVersion, ts : 0..MaxDay]
    /\ \A c \in DOMAIN events :
        events[c] \in [user : Users, ts : 0..MaxDay, informed : BOOLEAN]
    /\ \A c \in DOMAIN feedback :
        feedback[c] \in [usefulness : Usefulness, next : NextAction \cup {None}, ts : 0..MaxDay]
    /\ memory \in [Everyone -> [awaiting : BOOLEAN, usefulness : Usefulness \cup {None},
                                check : Checks \cup {None}]]
    /\ notices \in [Users -> SUBSET Notices] /\ keyboard \subseteq Checks
    /\ DOMAIN task = Tasks
    /\ \A t \in Tasks : /\ task[t] = [doing |-> task[t].doing, user |-> task[t].user,
                                       on |-> task[t].on, row |-> task[t].row,
                                       late |-> task[t].late]
                        /\ task[t].user \in Everyone \cup {None} /\ task[t].late \in BOOLEAN
    /\ owner \in [Checks -> Users \cup {None}] /\ strays \subseteq Checks
    /\ agreed \in [Users -> SUBSET Notices] /\ erased \in [Users -> BOOLEAN]
    /\ said \in [Checks -> SUBSET Usefulness]

\* handlers.py:116-166, keyboards.py:37: a consent row names a notice, of a version
\* and in a language, that the user has accepted by its own button since the last
\* erasure, however many prompts, languages and restarts there were.
ConsentIsInformed ==
    \A u \in DOMAIN consent :
        [language |-> consent[u].language, version |-> consent[u].version] \in agreed[u]

\* handlers.py:300-324: no check is recorded of a user who had not accepted the
\* notice of the process that checks, whatever the conversation's state says.
ChecksAreInformed == \A c \in DOMAIN events : events[c].informed

\* Neither a consent nor a check without the notice that it says it followed.
ConsentIsKept == ConsentIsInformed /\ ChecksAreInformed

\* handlers.py:97-113, repo.py:319-341: once a user's data is erased, what is
\* stored of the user until the next consent was written by an update that was
\* under way when the erasure, or before it the expiry of its check, overtook it:
\* no later update finds anything to go on.
ErasedStaysErased ==
    \A c \in DOMAIN events \cup DOMAIN feedback : erased[owner[c]] => c \in strays

\* handlers.py:239-297: the usefulness stored for a check is one that the user who
\* submitted it has answered of this very check, not of another one that the
\* conversation remembers, nor somebody else's.
FeedbackIsWhatWasSaid == \A c \in DOMAIN feedback : feedback[c].usefulness \in said[c]

\* repo.py:319-331, retention.py:72-86: feedback can be found only through its check,
\* so that feedback left without its check is out of reach of erasure.  What there is
\* was written by an answer that the erasure or the expiry of the check overtook.
OrphansWereOvertaken == DOMAIN feedback \ DOMAIN events \subseteq strays

=============================================================================
