----------------------- MODULE BotConversationProofs ------------------------
(***************************************************************************)
(* Theorems of BotConversation: what consent, feedback and erasure promise *)
(* however the updates of the chat overlap, for every number of users,     *)
(* updates, checks, languages and notices.                                 *)
(***************************************************************************)
EXTENDS BotConversation, TLAPS

-----------------------------------------------------------------------------
(* The inductive invariant *)

Taps == [check : Checks, usefulness : Usefulness \cup {None}, next : NextAction \cup {None}]

\* The consent row that an upsert read is still as it was read in what the notice
\* is known by, or has been written since by this process, under its own notice.
GrantIsFresh(t) ==
    Doing(t, "granting") =>
        LET u == task[t].user IN
        /\ u \in Users /\ task[t].on \in Notices /\ task[t].on.version = version
        /\ task[t].row # None /\ u \in DOMAIN consent =>
              \/ consent[u].version = version
              \/ /\ consent[u].version = task[t].row.version
                 /\ consent[u].language = task[t].row.language

\* A check under way had the consent; if its user has erased everything, it is late.
CheckIsInformed(t) ==
    Doing(t, "checking") => /\ task[t].user \in Users /\ task[t].on = TRUE
                            /\ erased[task[t].user] => task[t].late
CheckIsKnown(t) == Doing(t, "recorded") => task[t].on \in Checks

\* A tap is that of the user who submitted the check, and has its answer once told.
TapIsOwners(t) ==
    task[t].doing \in {"feedback", "writing", "remembering"} =>
        /\ task[t].on \in Taps
        /\ task[t].user \in Users /\ owner[task[t].on.check] = task[t].user
        /\ task[t].doing # "feedback" \/ task[t].on.next = None =>
              /\ task[t].on.usefulness \in said[task[t].on.check]

\* Feedback that a deletion under way will not find is known to be stray.
SweepIsComplete(t) ==
    /\ Doing(t, "deleting") =>
          /\ task[t].user \in Users
          /\ \A c \in DOMAIN feedback : owner[c] = task[t].user => c \in task[t].row \cup strays
    /\ Doing(t, "expiring") =>
          \A c \in DOMAIN feedback \cap Expired(events, CheckDays, task[t].on) :
              c \in task[t].row \cup strays

TaskHolds(t) == /\ GrantIsFresh(t) /\ CheckIsInformed(t) /\ CheckIsKnown(t)
                /\ TapIsOwners(t) /\ SweepIsComplete(t)
TasksHold == \A t \in Tasks : TaskHolds(t)

\* A check is its submitter's, and feedback is about one that was submitted.
RowsHold ==
    /\ \A c \in DOMAIN events : events[c].user = owner[c]
    /\ \A c \in DOMAIN feedback : owner[c] \in Users

\* A usefulness remembered has been answered of the check it is remembered with.
MemoryHolds ==
    \A u \in Everyone : memory[u].check # None => memory[u].usefulness \in said[memory[u].check]

\* Erased data has no consent left.
ErasedHasNoConsent == \A u \in Users : erased[u] => u \notin DOMAIN consent

Promises == ConsentIsKept /\ ErasedStaysErased /\ FeedbackIsWhatWasSaid /\ OrphansWereOvertaken

IInv == TypeOK /\ TasksHold /\ RowsHold /\ MemoryHolds /\ ErasedHasNoConsent /\ Promises

-----------------------------------------------------------------------------
(* One step of a task *)

\* What TypeOK says of one update under way.
Typed(update) ==
    /\ update = [doing |-> update.doing, user |-> update.user, on |-> update.on,
                 row |-> update.row, late |-> update.late]
    /\ update.user \in Everyone \cup {None} /\ update.late \in BOOLEAN

Others(t) == \A o \in Tasks \ {t} : task'[o] = task[o]

TasksTyped == DOMAIN task = Tasks /\ \A t \in Tasks : Typed(task[t])

LEMMA Begun ==
    ASSUME TasksTyped, NEW t \in Tasks, NEW u \in Everyone \cup {None}, NEW step, NEW on, NEW row,
           Begin(t, u, step, on, row)
    PROVE  /\ task'[t] = [doing |-> step, user |-> u, on |-> on, row |-> row, late |-> FALSE]
           /\ task[t].doing = "idle" /\ Others(t) /\ TasksTyped'
BY DEF Begin, Doing, Others, TasksTyped, Typed

LEMMA Ended ==
    ASSUME TasksTyped, NEW t \in Tasks, End(t)
    PROVE  task'[t] = Idle /\ Others(t) /\ TasksTyped'
BY DEF End, Idle, Others, TasksTyped, Typed

LEMMA Stepped ==
    ASSUME NEW update, Typed(update), NEW step
    PROVE  LET next == [update EXCEPT !.doing = step]
           IN  /\ next = [doing |-> step, user |-> update.user, on |-> update.on,
                          row |-> update.row, late |-> update.late]
               /\ Typed(next)
BY DEF Typed

LEMMA Answered ==
    ASSUME NEW update, Typed(update), NEW step, NEW on, NEW row
    PROVE  LET next == [[[update EXCEPT !.doing = step] EXCEPT !.on = on] EXCEPT !.row = row]
           IN  /\ next = [doing |-> step, user |-> update.user, on |-> on,
                          row |-> row, late |-> update.late]
               /\ Typed(next)
<1> DEFINE first == [update EXCEPT !.doing = step]
           second == [first EXCEPT !.on = on]
           third == [second EXCEPT !.row = row]
<1>1. first = [doing |-> step, user |-> update.user, on |-> update.on,
               row |-> update.row, late |-> update.late]
  BY DEF Typed
<1> HIDE DEF first
<1>2. second = [doing |-> step, user |-> update.user, on |-> on,
                row |-> update.row, late |-> update.late]
  BY <1>1
<1> HIDE DEF second
<1>3. third = [doing |-> step, user |-> update.user, on |-> on,
               row |-> row, late |-> update.late]
  BY <1>2
<1> HIDE DEF third
<1>4. Typed(third)
  BY <1>3 DEF Typed
<1> QED
  BY <1>3, <1>4 DEF first, second, third

LEMMA Proceeded ==
    ASSUME TasksTyped, NEW t \in Tasks, NEW step, Proceed(t, step)
    PROVE  /\ task'[t] = [doing |-> step, user |-> task[t].user, on |-> task[t].on,
                          row |-> task[t].row, late |-> task[t].late]
           /\ Others(t) /\ TasksTyped'
<1>1. task' = [task EXCEPT ![t] = [task[t] EXCEPT !.doing = step]]
  BY DEF Proceed
<1>2. Typed(task[t])
  BY DEF TasksTyped
<1> QED
  BY <1>1, <1>2, Stepped DEF TasksTyped, Others

\* An idle update, and one whose message is about to be forgotten, has nothing to keep.
LEMMA IdleHolds ==
    ASSUME NEW t \in Tasks,
           task'[t].doing \notin {"granting", "checking", "recorded", "feedback", "writing",
                                 "remembering", "deleting", "expiring"}
    PROVE  TaskHolds(t)'
BY DEF TaskHolds, GrantIsFresh, CheckIsInformed, CheckIsKnown, TapIsOwners, SweepIsComplete, Doing

\* An update is not disturbed by a step that writes no row.
LEMMA OtherHolds ==
    ASSUME TypeOK, NEW o \in Tasks, TaskHolds(o), task'[o] = task[o],
           UNCHANGED <<version, rows, erased, strays, owner>>,
           \A c \in Checks : said[c] \subseteq said'[c]
    PROVE  TaskHolds(o)'
<1>1. task[o].doing \in {"feedback", "writing", "remembering"} /\ task[o].on \in Taps =>
          task[o].on.check \in Checks
  BY DEF Taps
<1>2. GrantIsFresh(o)' /\ CheckIsInformed(o)' /\ CheckIsKnown(o)'
  BY DEF TaskHolds, GrantIsFresh, CheckIsInformed, CheckIsKnown, Doing, rows
<1>3. TapIsOwners(o)'
  BY <1>1 DEF TaskHolds, TapIsOwners
<1>4. SweepIsComplete(o)'
  BY DEF TaskHolds, SweepIsComplete, Doing, rows, Expired
<1> QED
  BY <1>2, <1>3, <1>4 DEF TaskHolds

\* What is promised of the rows outlasts a step that writes none.
LEMMA RowsKept ==
    ASSUME IInv, UNCHANGED <<rows, owner, agreed, erased, strays>>,
           \A c \in Checks : said[c] \subseteq said'[c]
    PROVE  RowsHold' /\ ErasedHasNoConsent' /\ Promises'
<1>1. DOMAIN feedback \subseteq Checks
  BY DEF IInv, TypeOK
<1>2. ConsentIsKept' /\ ErasedStaysErased' /\ OrphansWereOvertaken'
  BY DEF IInv, Promises, ConsentIsKept, ConsentIsInformed, ChecksAreInformed, ErasedStaysErased,
         OrphansWereOvertaken, rows
<1>3. FeedbackIsWhatWasSaid'
  BY <1>1 DEF IInv, Promises, FeedbackIsWhatWasSaid, rows
<1> QED
  BY <1>2, <1>3 DEF IInv, RowsHold, ErasedHasNoConsent, Promises, rows

LEMMA TasksAreTyped ==
    ASSUME TypeOK
    PROVE  TasksTyped
BY DEF TypeOK, TasksTyped, Typed

-----------------------------------------------------------------------------
(* The steps that write no row *)

LEMMA PromptKeeps ==
    ASSUME IInv, NEW u \in Users,
           CmdStart(u) \/ OnConsentRefused(u) \/ \E l \in Languages : OnLanguageChosen(u, l)
    PROVE  IInv'
<1>1. /\ UNCHANGED <<version, day, rows, keyboard, task, history>>
      /\ \E b \in BOOLEAN : memory' = [memory EXCEPT ![u].awaiting = b]
  BY DEF CmdStart, OnConsentRefused, OnLanguageChosen, Prompt, sent, history
<1>2. notices' \in [Users -> SUBSET Notices]
  <2>1. CASE CmdStart(u)
    BY <2>1 DEF CmdStart, IInv, TypeOK, sent
  <2>2. ASSUME NEW l \in Languages, Prompt(u, l)
        PROVE  notices' \in [Users -> SUBSET Notices]
    BY <2>2 DEF Prompt, IInv, TypeOK, Notices
  <2>3. CASE OnConsentRefused(u)
    BY <2>2, <2>3 DEF OnConsentRefused, IInv, TypeOK, Notices
  <2> QED
    BY <2>1, <2>2, <2>3 DEF OnLanguageChosen
<1>3. PICK b \in BOOLEAN : memory' = [memory EXCEPT ![u].awaiting = b]
  BY <1>1
<1>4. u \in Everyone
  BY DEF Everyone
<1>5. /\ memory' \in [Everyone -> [awaiting : BOOLEAN, usefulness : Usefulness \cup {None},
                                   check : Checks \cup {None}]]
      /\ \A v \in Everyone : /\ memory'[v].check = memory[v].check
                             /\ memory'[v].usefulness = memory[v].usefulness
  BY <1>3, <1>4 DEF IInv, TypeOK
<1>6. TypeOK'
  BY <1>1, <1>2, <1>5 DEF IInv, TypeOK, rows, history
<1>7. MemoryHolds'
  BY <1>1, <1>5 DEF IInv, MemoryHolds, history
<1>8. TasksHold'
  BY <1>1, OtherHolds DEF IInv, TasksHold, TypeOK, history
<1>9. RowsHold' /\ ErasedHasNoConsent' /\ Promises'
  BY <1>1, RowsKept DEF history
<1> QED
  BY <1>6, <1>7, <1>8, <1>9 DEF IInv

LEMMA TickKeeps ==
    ASSUME IInv, Tick
    PROVE  IInv'
<1>1. TypeOK'
  BY DaysAssumption DEF Tick, IInv, TypeOK, rows, sent, history
<1>2. MemoryHolds'
  BY DEF Tick, IInv, MemoryHolds, history
<1>3. TasksHold'
  BY OtherHolds DEF Tick, IInv, TasksHold, TypeOK, history
<1>4. RowsHold' /\ ErasedHasNoConsent' /\ Promises'
  BY RowsKept DEF Tick, history
<1> QED
  BY <1>1, <1>2, <1>3, <1>4 DEF IInv

LEMMA RestartKeeps ==
    ASSUME IInv, Restart
    PROVE  IInv'
<1>1. version' \in 0..MaxVersion /\ UNCHANGED <<day, rows, sent, history>>
  BY DaysAssumption DEF Restart, IInv, TypeOK
<1>2. /\ memory' = [u \in Everyone |-> Forgotten]
      /\ \A t \in Tasks : task'[t] = Idle /\ DOMAIN task' = Tasks
  BY DEF Restart
<1>3. TypeOK'
  <2>1. Typed(Idle)
    BY DEF Idle, Typed
  <2>2. \A t \in Tasks : Typed(task'[t])
    BY <1>2, <2>1
  <2> QED
    BY <1>1, <1>2, <2>2 DEF IInv, TypeOK, Typed, Forgotten, rows, sent, history, Restart
<1>4. MemoryHolds'
  BY <1>2 DEF MemoryHolds, Forgotten
<1>5. TasksHold'
  BY <1>2, IdleHolds DEF TasksHold, Idle
<1>6. RowsHold' /\ ErasedHasNoConsent' /\ Promises'
  BY <1>1, RowsKept DEF history
<1> QED
  BY <1>3, <1>4, <1>5, <1>6 DEF IInv

\* An update that reads, and writes neither a row nor the memory.
LEMMA ReadingKeeps ==
    ASSUME IInv, NEW t \in Tasks, Others(t), TasksTyped', TaskHolds(t)',
           UNCHANGED <<version, day, rows, memory, sent, owner, agreed, erased, strays>>,
           said' \in [Checks -> SUBSET Usefulness],
           \A c \in Checks : said[c] \subseteq said'[c]
    PROVE  IInv'
<1>1. TypeOK'
  BY DEF IInv, TypeOK, TasksTyped, Typed, rows, sent
<1>2. MemoryHolds'
  BY DEF IInv, MemoryHolds, TypeOK
<1>3. TasksHold'
  BY OtherHolds DEF IInv, TasksHold, Others
<1>4. RowsHold' /\ ErasedHasNoConsent' /\ Promises'
  BY RowsKept
<1> QED
  BY <1>1, <1>2, <1>3, <1>4 DEF IInv

\* An update that ends, with what it leaves in the conversation's memory.
LEMMA EndingKeeps ==
    ASSUME IInv, NEW t \in Tasks, End(t),
           UNCHANGED <<version, day, rows, notices, history>>,
           keyboard' \subseteq Checks,
           memory' \in [Everyone -> [awaiting : BOOLEAN, usefulness : Usefulness \cup {None},
                                     check : Checks \cup {None}]],
           MemoryHolds'
    PROVE  IInv'
<1>1. task'[t] = Idle /\ Others(t) /\ TasksTyped'
  BY Ended, TasksAreTyped DEF IInv
<1>2. TypeOK'
  BY <1>1 DEF IInv, TypeOK, TasksTyped, Typed, rows, history
<1>3. TasksHold'
  BY <1>1, OtherHolds, IdleHolds DEF IInv, TasksHold, Others, Idle, history
<1>4. RowsHold' /\ ErasedHasNoConsent' /\ Promises'
  BY RowsKept DEF history
<1> QED
  BY <1>2, <1>3, <1>4 DEF IInv

LEMMA BeginningKeeps ==
    ASSUME IInv, NEW t \in Tasks, NEW u \in Users,
           OnConsentAccepted(t, u) \/ OnContent(t, u) \/ CmdDeleteMyData(t, u)
    PROVE  IInv'
<1> USE DEF history
<1>1. u \in Everyone \cup {None} /\ UNCHANGED <<version, day, rows, memory, sent, history>>
  BY DEF OnConsentAccepted, OnContent, CmdDeleteMyData, Sweep, Everyone
<1>2. TasksTyped
  BY TasksAreTyped DEF IInv
<1>3. CASE OnConsentAccepted(t, u)
  <2>1. PICK notice \in notices[u] :
            Honours(u, notice) /\ Begin(t, u, "granting", notice, Row(consent, u))
    BY <1>3 DEF OnConsentAccepted
  <2>2. notice \in Notices /\ notice.version = version
    BY <2>1 DEF Honours, IInv, TypeOK
  <2>3. /\ task'[t] = [doing |-> "granting", user |-> u, on |-> notice,
                       row |-> Row(consent, u), late |-> FALSE]
        /\ Others(t) /\ TasksTyped'
    BY <1>1, <1>2, <2>1, Begun
  <2>4. TaskHolds(t)'
    BY <1>1, <2>2, <2>3 DEF TaskHolds, GrantIsFresh, CheckIsInformed, CheckIsKnown, TapIsOwners,
                            SweepIsComplete, Doing, Row, rows
  <2> QED
    BY <1>1, <2>3, <2>4, ReadingKeeps DEF IInv, TypeOK
<1>4. CASE OnContent(t, u)
  <2> DEFINE informed == \E n \in agreed[u] : n.version = version
  <2>1. u \in DOMAIN consent /\ consent[u].version = version
    BY <1>4 DEF OnContent, MayCheck, IsConsentCurrent, Row
  <2>2. [language |-> consent[u].language, version |-> consent[u].version] \in agreed[u]
    BY <2>1 DEF IInv, Promises, ConsentIsKept, ConsentIsInformed
  <2>3. informed
    BY <2>1, <2>2
  <2>4. ~erased[u]
    BY <2>1 DEF IInv, ErasedHasNoConsent
  <2>5. Begin(t, u, "checking", informed, None)
    BY <1>4 DEF OnContent
  <2> HIDE DEF informed
  <2>6. Begin(t, u, "checking", TRUE, None)
    BY <2>3, <2>5
  <2>7. /\ task'[t] = [doing |-> "checking", user |-> u, on |-> TRUE, row |-> None, late |-> FALSE]
        /\ Others(t) /\ TasksTyped'
    BY <1>1, <1>2, <2>6 DEF Begin, Doing, Others, TasksTyped, Typed
  <2>8. TaskHolds(t)'
    BY <1>1, <2>4, <2>7 DEF TaskHolds, GrantIsFresh, CheckIsInformed, CheckIsKnown, TapIsOwners,
                            SweepIsComplete, Doing
  <2> QED
    BY <1>1, <2>7, <2>8, ReadingKeeps DEF IInv, TypeOK
<1>5. CASE CmdDeleteMyData(t, u)
  <2> DEFINE found == DOMAIN feedback \cap Mine(u)
  <2>1. Begin(t, u, "deleting", day, found)
    BY <1>5 DEF CmdDeleteMyData, Sweep
  <2>2. /\ task'[t] = [doing |-> "deleting", user |-> u, on |-> day, row |-> found, late |-> FALSE]
        /\ Others(t) /\ TasksTyped'
    BY <1>1, <1>2, <2>1, Begun
  <2>3. \A c \in DOMAIN feedback : owner[c] = u => c \in found \cup strays
    BY DEF IInv, RowsHold, Promises, OrphansWereOvertaken, Mine
  <2> HIDE DEF found
  <2>4. TaskHolds(t)'
    BY <1>1, <2>2, <2>3 DEF TaskHolds, GrantIsFresh, CheckIsInformed, CheckIsKnown, TapIsOwners,
                            SweepIsComplete, Doing, rows
  <2> QED
    BY <1>1, <2>2, <2>4, ReadingKeeps DEF IInv, TypeOK
<1> QED
  BY <1>3, <1>4, <1>5

LEMMA CleanupKeeps ==
    ASSUME IInv, NEW t \in Tasks, CleanupExpired(t)
    PROVE  IInv'
<1> DEFINE found == ExpiredFeedback
<1>1. /\ Begin(t, None, "expiring", day, found)
      /\ UNCHANGED <<version, day, rows, memory, sent, history>>
  BY DEF CleanupExpired, Sweep
<1>2. \A c \in DOMAIN feedback \cap Expired(events, CheckDays, day) : c \in found
  BY DEF ExpiredFeedback
<1> HIDE DEF found
<1>3. /\ task'[t] = [doing |-> "expiring", user |-> None, on |-> day, row |-> found, late |-> FALSE]
      /\ Others(t) /\ TasksTyped'
  BY <1>1, Begun, TasksAreTyped DEF IInv
<1>4. TaskHolds(t)'
  BY <1>1, <1>2, <1>3 DEF TaskHolds, GrantIsFresh, CheckIsInformed, CheckIsKnown, TapIsOwners,
                          SweepIsComplete, Doing, rows, Expired
<1> QED
  BY <1>1, <1>3, <1>4, ReadingKeeps DEF IInv, TypeOK, history

LEMMA TapKeeps ==
    ASSUME IInv, NEW t \in Tasks, NEW u \in Everyone, NEW c \in keyboard, NEW tap \in Buttons(c),
           OnFeedback(t, u, tap)
    PROVE  IInv'
<1>1. /\ c \in DOMAIN events /\ events[c].user = u /\ tap.check = c
      /\ Begin(t, u, "feedback", tap, None)
      /\ UNCHANGED <<version, day, rows, memory, sent, owner, agreed, erased, strays>>
  BY DEF OnFeedback, Authorized, Row, Buttons
<1>2. c \in Checks /\ u \in Users /\ owner[c] = u
  BY <1>1 DEF IInv, TypeOK, RowsHold
<1>3. tap \in Taps /\ (tap.next = None => tap.usefulness \in Usefulness)
  BY <1>2, NoneAssumption DEF Buttons, Taps
<1>4. /\ said' \in [Checks -> SUBSET Usefulness]
      /\ \A x \in Checks : said[x] \subseteq said'[x]
      /\ tap.next = None => tap.usefulness \in said'[c]
  <2>1. said \in [Checks -> SUBSET Usefulness]
    BY DEF IInv, TypeOK
  <2>2. said' = IF tap.next = None THEN [said EXCEPT ![c] = @ \cup {tap.usefulness}] ELSE said
    BY <1>1, <1>2 DEF OnFeedback
  <2> QED
    BY <1>2, <1>3, <2>1, <2>2
<1>5. /\ task'[t] = [doing |-> "feedback", user |-> u, on |-> tap, row |-> None, late |-> FALSE]
      /\ Others(t) /\ TasksTyped'
  BY <1>1, Begun, TasksAreTyped DEF IInv
<1>6. TaskHolds(t)'
  BY <1>1, <1>2, <1>3, <1>4, <1>5 DEF TaskHolds, GrantIsFresh, CheckIsInformed, CheckIsKnown,
                                      TapIsOwners, SweepIsComplete, Doing
<1> QED
  BY <1>1, <1>4, <1>5, <1>6, ReadingKeeps

LEMMA EndsKeep ==
    ASSUME IInv, NEW t \in Tasks,
           \/ OnConsentAcceptedEnds(t) \/ ContentEnds(t) \/ FeedbackRefused(t)
           \/ RememberUsefulness(t) \/ CmdDeleteMyDataEnds(t) \/ TaskFails(t)
    PROVE  IInv'
<1> DEFINE u == task[t].user
           Memory == [awaiting : BOOLEAN, usefulness : Usefulness \cup {None},
                      check : Checks \cup {None}]
           Known(m) == m.check # None => m.usefulness \in said[m.check]
<1>1. memory \in [Everyone -> Memory] /\ \A v \in Everyone : Known(memory[v])
  BY DEF IInv, TypeOK, MemoryHolds
<1>2. End(t) /\ UNCHANGED <<version, day, rows, notices, history>> /\ keyboard' \subseteq Checks
  BY DEF OnConsentAcceptedEnds, ContentEnds, FeedbackRefused, RememberUsefulness,
         CmdDeleteMyDataEnds, TaskFails, sent, IInv, TypeOK, TasksHold, TaskHolds, CheckIsKnown, Doing
<1>3. PICK m : memory' = memory \/ /\ u \in Everyone => m \in Memory /\ Known(m)
                                   /\ memory' = [memory EXCEPT ![u] = m]
  <2>1. CASE OnConsentAcceptedEnds(t)
    <3> DEFINE m == [memory[u] EXCEPT !.awaiting = FALSE]
    <3>1. memory' = [memory EXCEPT ![u] = m]
      BY <2>1 DEF OnConsentAcceptedEnds
    <3>2. u \in Everyone => m \in Memory /\ Known(m)
      BY <1>1
    <3> QED
      BY <3>1, <3>2
  <2>2. CASE ContentEnds(t)
    <3> DEFINE m == [[memory[u] EXCEPT !.usefulness = None] EXCEPT !.check = None]
    <3>1. memory' = [memory EXCEPT ![u] = m]
      BY <1>1, <2>2 DEF ContentEnds
    <3>2. u \in Everyone => m \in Memory /\ Known(m)
      BY <1>1
    <3> QED
      BY <3>1, <3>2
  <2>3. CASE RememberUsefulness(t)
    <3> DEFINE tap == task[t].on
               m == [[memory[u] EXCEPT !.usefulness = tap.usefulness] EXCEPT !.check = tap.check]
    <3>1. memory' = [memory EXCEPT ![u] = m]
      BY <1>1, <2>3 DEF RememberUsefulness
    <3>2. tap \in Taps /\ tap.usefulness \in said[tap.check]
      BY <2>3 DEF RememberUsefulness, Doing, IInv, TasksHold, TaskHolds, TapIsOwners
    <3>3. u \in Everyone => m \in Memory /\ Known(m)
      BY <1>1, <3>2 DEF Taps
    <3> QED
      BY <3>1, <3>3
  <2>4. CASE CmdDeleteMyDataEnds(t)
    <3>1. Forgotten \in Memory /\ Known(Forgotten)
      BY DEF Forgotten
    <3> QED
      BY <2>4, <3>1 DEF CmdDeleteMyDataEnds
  <2> QED
    BY <2>1, <2>2, <2>3, <2>4 DEF FeedbackRefused, TaskFails
<1>4. memory' \in [Everyone -> Memory] /\ \A v \in Everyone : Known(memory'[v])
  <2> HIDE DEF Memory, Known
  <2> QED
    BY <1>1, <1>3
<1>5. MemoryHolds'
  BY <1>2, <1>4 DEF MemoryHolds, history
<1> QED
  BY <1>2, <1>4, <1>5, EndingKeeps

\* The usefulness that goes into the row is the one tapped, or one remembered of this check.
LEMMA AcceptedKeeps ==
    ASSUME IInv, NEW t \in Tasks, FeedbackAccepted(t)
    PROVE  IInv'
<1> DEFINE tap == task[t].on
           read == Row(feedback, tap.check)
<1> USE DEF history
<1>1. PICK usefulness \in Answers(t) :
          task' = [task EXCEPT ![t].doing = "writing", ![t].on.usefulness = usefulness,
                               ![t].row = read]
  BY DEF FeedbackAccepted
<1>2. /\ task[t].doing = "feedback"
      /\ UNCHANGED <<version, day, rows, memory, sent, history>>
  BY DEF FeedbackAccepted, Doing
<1>3. /\ tap \in Taps /\ task[t].user \in Users /\ owner[tap.check] = task[t].user
      /\ tap.next = None => tap.usefulness \in said[tap.check]
  BY <1>2 DEF IInv, TasksHold, TaskHolds, TapIsOwners
<1>4. usefulness \in said[tap.check]
  <2>1. CASE tap.next = None
    BY <1>1, <1>3, <2>1 DEF Answers
  <2>2. CASE tap.next # None
    <3>1. /\ memory[task[t].user].check = tap.check
          /\ usefulness = memory[task[t].user].usefulness
      BY <1>1, <2>2 DEF Answers
    <3>2. tap.check # None
      BY <1>3, NoneAssumption DEF Taps
    <3>3. task[t].user \in Everyone
      BY <1>3 DEF Everyone
    <3> QED
      BY <3>1, <3>2, <3>3 DEF IInv, MemoryHolds
  <2> QED
    BY <2>1, <2>2
<1>5. usefulness \in Usefulness
  BY <1>3, <1>4 DEF IInv, TypeOK, Taps
<1> DEFINE answer == [tap EXCEPT !.usefulness = usefulness]
<1>6. answer \in Taps /\ answer.check = tap.check /\ answer.usefulness = usefulness
  BY <1>3, <1>5 DEF Taps
<1>7. /\ task'[t] = [doing |-> "writing", user |-> task[t].user, on |-> answer, row |-> read,
                     late |-> task[t].late]
      /\ Others(t) /\ TasksTyped'
  <2>1. TasksTyped
    BY TasksAreTyped DEF IInv
  <2> HIDE DEF read
  <2>a. PICK f : f = [task EXCEPT ![t].doing = "writing"]
    OBVIOUS
  <2>b. PICK g : g = [f EXCEPT ![t].on.usefulness = usefulness]
    OBVIOUS
  <2>c. task' = [g EXCEPT ![t].row = read]
    BY <1>1, <2>a, <2>b
  <2>d. f = [task EXCEPT ![t] = [task[t] EXCEPT !.doing = "writing"]] /\ f[t].on = tap
    BY <2>1, <2>a DEF TasksTyped, Typed
  <2>e. g = [f EXCEPT ![t] = [f[t] EXCEPT !.on = answer]]
    BY <2>b, <2>d
  <2> HIDE DEF tap, answer
  <2>2. task' = [task EXCEPT ![t] = [[[task[t] EXCEPT !.doing = "writing"] EXCEPT !.on = answer]
                                       EXCEPT !.row = read]]
    BY <2>1, <2>c, <2>d, <2>e DEF TasksTyped
  <2> DEFINE next == [[[task[t] EXCEPT !.doing = "writing"] EXCEPT !.on = answer]
                        EXCEPT !.row = read]
  <2>3. /\ next = [doing |-> "writing", user |-> task[t].user, on |-> answer, row |-> read,
                   late |-> task[t].late]
        /\ Typed(next)
    BY <2>1, Answered DEF TasksTyped
  <2> HIDE DEF next
  <2>4. task' = [task EXCEPT ![t] = next]
    BY <2>2 DEF next
  <2> QED
    BY <2>1, <2>3, <2>4 DEF TasksTyped, Others
<1> HIDE DEF answer, read
<1>8. TaskHolds(t)'
  <2> HIDE DEF tap
  <2> QED
    BY <1>2, <1>3, <1>4, <1>6, <1>7 DEF TaskHolds, GrantIsFresh, CheckIsInformed, CheckIsKnown,
                                        TapIsOwners, SweepIsComplete, Doing
<1> QED
  BY <1>2, <1>7, <1>8, ReadingKeeps DEF IInv, TypeOK

-----------------------------------------------------------------------------
(* The steps that write rows *)

\* An update of a row leaves a column that was read at its new value as it finds it.
Revised(row, read, new, f) == IF new[f] = read[f] THEN row[f] ELSE new[f]

LEMMA ConsentOverwritten ==
    ASSUME NEW row, NEW read, NEW l, NEW v, NEW d
    PROVE  LET new == [language |-> l, version |-> v, ts |-> d]
           IN  Overwrite(row, read, new) = [language |-> Revised(row, read, new, "language"),
                                            version |-> Revised(row, read, new, "version"),
                                            ts |-> Revised(row, read, new, "ts")]
BY DEF Overwrite, Revised

LEMMA FeedbackOverwritten ==
    ASSUME NEW row, NEW read, NEW x, NEW n, NEW d
    PROVE  LET new == [usefulness |-> x, next |-> n, ts |-> d]
           IN  Overwrite(row, read, new) = [usefulness |-> Revised(row, read, new, "usefulness"),
                                            next |-> Revised(row, read, new, "next"),
                                            ts |-> Revised(row, read, new, "ts")]
BY DEF Overwrite, Revised

LEMMA Upserted ==
    ASSUME NEW table, NEW x, NEW read, NEW new
    PROVE  Upserts(table, x, read, new) =
             [y \in DOMAIN table \cup {x} |->
                IF y # x THEN table[y]
                ELSE IF read = None THEN new ELSE Overwrite(table[x], read, new)]
BY DEF Upserts, With

LEMMA GrantKeeps ==
    ASSUME IInv, NEW t \in Tasks, GrantConsent(t)
    PROVE  IInv'
<1> DEFINE u == task[t].user
           on == task[t].on
           read == task[t].row
           new == [language |-> on.language, version |-> version, ts |-> day]
<1>1. /\ task[t].doing = "granting" /\ UpsertFits(consent, u, read)
      /\ consent' = Upserts(consent, u, read, new)
      /\ agreed' = [agreed EXCEPT ![u] = {n \in @ : n.version = version} \cup {on}]
      /\ erased' = [erased EXCEPT ![u] = FALSE]
      /\ Proceed(t, "granted")
      /\ UNCHANGED <<version, day, events, feedback, memory, sent, owner, said, strays>>
  BY DEF GrantConsent, Doing
<1>2. /\ u \in Users /\ on \in Notices /\ on.version = version
      /\ read # None /\ u \in DOMAIN consent =>
            \/ consent[u].version = version
            \/ consent[u].version = read.version /\ consent[u].language = read.language
  BY <1>1 DEF IInv, TasksHold, TaskHolds, GrantIsFresh, Doing
<1>3. /\ DOMAIN consent' = DOMAIN consent \cup {u}
      /\ \A v \in DOMAIN consent : v # u => consent'[v] = consent[v]
      /\ consent'[u] = IF read = None THEN new ELSE Overwrite(consent[u], read, new)
  <2> HIDE DEF new, u, on, read
  <2> QED
    BY <1>1, Upserted
<1>4. read # None <=> u \in DOMAIN consent
  BY <1>1 DEF UpsertFits
<1>5. u \in DOMAIN consent =>
        /\ consent[u] \in [language : Languages, version : 0..MaxVersion, ts : 0..MaxDay]
        /\ [language |-> consent[u].language, version |-> consent[u].version] \in agreed[u]
  BY DEF IInv, TypeOK, Promises, ConsentIsKept, ConsentIsInformed
<1>6. /\ consent'[u] \in [language : Languages, version : 0..MaxVersion, ts : 0..MaxDay]
      /\ consent'[u].version = version
      /\ \/ consent'[u].language = on.language
         \/ /\ u \in DOMAIN consent /\ consent[u].version = version
            /\ consent'[u].language = consent[u].language
  <2>1. /\ on.language \in Languages /\ version \in 0..MaxVersion /\ day \in 0..MaxDay
    BY <1>2 DEF Notices, IInv, TypeOK
  <2>2. CASE read = None
    BY <1>3, <2>1, <2>2
  <2>3. CASE read # None
    <3> DEFINE old == consent[u]
               rev(f) == Revised(old, read, new, f)
    <3>1. consent'[u] = [language |-> rev("language"), version |-> rev("version"), ts |-> rev("ts")]
      BY <1>3, <2>3, ConsentOverwritten
    <3>2. /\ rev("language") = IF on.language = read.language THEN old.language ELSE on.language
          /\ rev("version") = IF version = read.version THEN old.version ELSE version
          /\ rev("ts") = IF day = read.ts THEN old.ts ELSE day
      BY DEF Revised
    <3> HIDE DEF rev
    <3> QED
      BY <1>2, <1>4, <1>5, <2>1, <2>3, <3>1, <3>2
  <2> QED
    BY <2>2, <2>3
<1>7. /\ task'[t] = [doing |-> "granted", user |-> u, on |-> on, row |-> read, late |-> task[t].late]
      /\ Others(t) /\ TasksTyped'
  BY <1>1, Proceeded, TasksAreTyped DEF IInv
<1> HIDE DEF new, u, on, read
<1>8. agreed' \in [Users -> SUBSET Notices] /\ erased' \in [Users -> BOOLEAN] /\ ~erased'[u]
  BY <1>1, <1>2 DEF IInv, TypeOK
<1>9. /\ agreed'[u] = {n \in agreed[u] : n.version = version} \cup {on}
      /\ \A v \in Users : v # u => agreed'[v] = agreed[v] /\ erased'[v] = erased[v]
  BY <1>1, <1>2 DEF IInv, TypeOK
<1>10. TypeOK'
  BY <1>1, <1>2, <1>3, <1>6, <1>7, <1>8 DEF IInv, TypeOK, TasksTyped, Typed, sent
<1>11. TasksHold'
  <2> SUFFICES ASSUME NEW o \in Tasks
               PROVE  TaskHolds(o)'
    BY DEF TasksHold
  <2>1. CASE o = t
    BY <1>7, <2>1, IdleHolds
  <2>2. CASE o # t
    <3>1. task'[o] = task[o] /\ TaskHolds(o)
      BY <1>7, <2>2 DEF Others, IInv, TasksHold
    <3>2. GrantIsFresh(o)'
      BY <1>1, <1>3, <1>6, <3>1 DEF TaskHolds, GrantIsFresh, Doing
    <3>3. CheckIsInformed(o)'
      BY <1>1, <1>8, <1>9, <3>1 DEF TaskHolds, CheckIsInformed, Doing
    <3>4. CheckIsKnown(o)' /\ TapIsOwners(o)' /\ SweepIsComplete(o)'
      BY <1>1, <3>1 DEF TaskHolds, CheckIsKnown, TapIsOwners, SweepIsComplete, Doing, Expired
    <3> QED
      BY <3>2, <3>3, <3>4 DEF TaskHolds
  <2> QED
    BY <2>1, <2>2
<1>12. RowsHold' /\ MemoryHolds'
  BY <1>1 DEF IInv, RowsHold, MemoryHolds
<1>13. ErasedHasNoConsent'
  BY <1>3, <1>8, <1>9 DEF IInv, ErasedHasNoConsent
<1>14. ConsentIsInformed'
  <2>1. [language |-> consent'[u].language, version |-> consent'[u].version] \in agreed'[u]
    <3>1. on = [language |-> on.language, version |-> version]
      BY <1>2 DEF Notices
    <3> QED
      BY <1>5, <1>6, <1>9, <3>1 DEF u
  <2> QED
    BY <1>3, <1>9, <2>1 DEF IInv, TypeOK, Promises, ConsentIsKept, ConsentIsInformed
<1>15. ErasedStaysErased'
  <2>1. \A c \in DOMAIN events \cup DOMAIN feedback : owner[c] \in Users
    BY DEF IInv, TypeOK, RowsHold
  <2> QED
    BY <1>1, <1>8, <1>9, <2>1 DEF IInv, Promises, ErasedStaysErased
<1>16. Promises'
  BY <1>1, <1>14, <1>15 DEF IInv, Promises, ConsentIsKept, ChecksAreInformed, FeedbackIsWhatWasSaid,
                            OrphansWereOvertaken
<1> QED
  BY <1>10, <1>11, <1>12, <1>13, <1>16 DEF IInv

LEMMA RecordedKeeps ==
    ASSUME IInv, NEW t \in Tasks, NEW c \in Checks, CheckRecorded(t, c)
    PROVE  IInv'
<1> DEFINE u == task[t].user
           row == [user |-> u, ts |-> day, informed |-> task[t].on]
<1>1. /\ task[t].doing = "checking" /\ owner[c] = None
      /\ events' = With(events, c, row)
      /\ owner' = [owner EXCEPT ![c] = u]
      /\ strays' = IF task[t].late THEN strays \cup {c} ELSE strays
      /\ task' = [task EXCEPT ![t].doing = "recorded", ![t].on = c]
      /\ UNCHANGED <<version, day, consent, feedback, memory, sent, agreed, erased, said>>
  BY DEF CheckRecorded, WrittenBy, Doing
<1>2. u \in Users /\ task[t].on = TRUE /\ (erased[u] => task[t].late) /\ u # None
  BY <1>1, NoneAssumption DEF IInv, TasksHold, TaskHolds, CheckIsInformed, Doing
<1>3. row = [user |-> u, ts |-> day, informed |-> TRUE]
  BY <1>2
<1>4. /\ events' = [x \in DOMAIN events \cup {c} |-> IF x = c THEN row ELSE events[x]]
      /\ row \in [user : Users, ts : 0..MaxDay, informed : BOOLEAN]
      /\ row.user = u /\ row.informed
  <2>1. row \in [user : Users, ts : 0..MaxDay, informed : BOOLEAN] /\ row.user = u /\ row.informed
    BY <1>2, <1>3 DEF IInv, TypeOK
  <2> HIDE DEF row
  <2> QED
    BY <1>1, <2>1 DEF With
<1>5. /\ task'[t] = [doing |-> "recorded", user |-> u, on |-> c, row |-> task[t].row,
                     late |-> task[t].late]
      /\ Others(t) /\ TasksTyped'
  <2> DEFINE next == [[[task[t] EXCEPT !.doing = "recorded"] EXCEPT !.on = c]
                        EXCEPT !.row = task[t].row]
  <2>1. TasksTyped
    BY TasksAreTyped DEF IInv
  <2>2. /\ next = [doing |-> "recorded", user |-> u, on |-> c, row |-> task[t].row,
                   late |-> task[t].late]
        /\ Typed(next)
    BY <2>1, Answered DEF TasksTyped
  <2>3. task' = [task EXCEPT ![t] = next]
    BY <1>1, <2>1 DEF TasksTyped, Typed
  <2> HIDE DEF next
  <2> QED
    BY <2>1, <2>2, <2>3 DEF TasksTyped, Others
<1> HIDE DEF u, row
<1>6. c \notin DOMAIN events /\ c \notin DOMAIN feedback
  BY <1>1, NoneAssumption DEF IInv, TypeOK, RowsHold
<1>7. /\ owner' \in [Checks -> Users \cup {None}] /\ owner'[c] = u
      /\ \A x \in Checks : x # c => owner'[x] = owner[x]
      /\ strays \subseteq strays' /\ strays' \subseteq Checks
  BY <1>1, <1>2 DEF IInv, TypeOK
<1>8. /\ DOMAIN events' = DOMAIN events \cup {c} /\ events'[c] = row
      /\ \A x \in DOMAIN events : events'[x] = events[x]
  BY <1>4, <1>6
<1>9. TypeOK'
  <2>1. \A x \in DOMAIN events' : events'[x] \in [user : Users, ts : 0..MaxDay, informed : BOOLEAN]
    BY <1>4, <1>8 DEF IInv, TypeOK
  <2> QED
    BY <1>1, <1>5, <1>7, <1>8, <2>1 DEF IInv, TypeOK, TasksTyped, Typed, sent
<1>10. TasksHold'
  <2> SUFFICES ASSUME NEW o \in Tasks
               PROVE  TaskHolds(o)'
    BY DEF TasksHold
  <2>1. CASE o = t
    BY <1>5, <2>1 DEF TaskHolds, GrantIsFresh, CheckIsInformed, CheckIsKnown, TapIsOwners,
                      SweepIsComplete, Doing
  <2>2. CASE o # t
    <3>1. task'[o] = task[o] /\ TaskHolds(o)
      BY <1>5, <2>2 DEF Others, IInv, TasksHold
    <3>2. GrantIsFresh(o)' /\ CheckIsInformed(o)' /\ CheckIsKnown(o)'
      BY <1>1, <3>1 DEF TaskHolds, GrantIsFresh, CheckIsInformed, CheckIsKnown, Doing
    <3>3. TapIsOwners(o)'
      <4> SUFFICES ASSUME task[o].doing \in {"feedback", "writing", "remembering"}
                   PROVE  TapIsOwners(o)'
        BY <3>1 DEF TapIsOwners
      <4>1. /\ task[o].on \in Taps /\ task[o].on.check \in Checks
            /\ task[o].user \in Users /\ owner[task[o].on.check] = task[o].user
        BY <3>1 DEF TaskHolds, TapIsOwners, Taps
      <4>2. owner'[task[o].on.check] = owner[task[o].on.check]
        BY <1>1, <1>7, <4>1, NoneAssumption
      <4> QED
        BY <1>1, <3>1, <4>1, <4>2 DEF TaskHolds, TapIsOwners
    <3>4. SweepIsComplete(o)'
      <4>1. \A x \in DOMAIN feedback : owner'[x] = owner[x]
        BY <1>6, <1>7 DEF IInv, TypeOK
      <4>2. \A x \in DOMAIN feedback :
                x \in Expired(events', CheckDays, task[o].on) => x \in Expired(events, CheckDays, task[o].on)
        BY <1>6, <1>8 DEF Expired
      <4> QED
        BY <1>1, <1>7, <3>1, <4>1, <4>2 DEF TaskHolds, SweepIsComplete, Doing
    <3> QED
      BY <3>2, <3>3, <3>4 DEF TaskHolds
  <2> QED
    BY <2>1, <2>2
<1>11. RowsHold' /\ MemoryHolds' /\ ErasedHasNoConsent'
  <2>1. \A x \in DOMAIN events' : events'[x].user = owner'[x]
    BY <1>4, <1>6, <1>7, <1>8 DEF IInv, TypeOK, RowsHold
  <2>2. \A x \in DOMAIN feedback' : owner'[x] \in Users
    BY <1>1, <1>6, <1>7 DEF IInv, TypeOK, RowsHold
  <2> QED
    BY <1>1, <2>1, <2>2 DEF IInv, RowsHold, MemoryHolds, ErasedHasNoConsent
<1>12. ConsentIsKept'
  BY <1>1, <1>4, <1>8 DEF IInv, Promises, ConsentIsKept, ConsentIsInformed, ChecksAreInformed
<1>13. ErasedStaysErased'
  <2>1. erased[u] => c \in strays'
    BY <1>1, <1>2
  <2>2. DOMAIN events \subseteq Checks /\ DOMAIN feedback \subseteq Checks
    BY DEF IInv, TypeOK
  <2> QED
    BY <1>1, <1>7, <1>8, <2>1, <2>2 DEF IInv, Promises, ErasedStaysErased
<1>14. Promises'
  BY <1>1, <1>7, <1>8, <1>12, <1>13 DEF IInv, Promises, FeedbackIsWhatWasSaid, OrphansWereOvertaken
<1> QED
  BY <1>9, <1>10, <1>11, <1>14 DEF IInv

LEMMA FeedbackKeeps ==
    ASSUME IInv, NEW t \in Tasks, RecordFeedback(t)
    PROVE  IInv'
<1> DEFINE tap == task[t].on
           c == tap.check
           read == task[t].row
           kept == IF read # None /\ tap.next = None THEN read.next ELSE tap.next
           new == [usefulness |-> tap.usefulness, next |-> kept, ts |-> day]
           Columns == [usefulness : Usefulness, next : NextAction \cup {None}, ts : 0..MaxDay]
<1>1. /\ task[t].doing = "writing" /\ UpsertFits(feedback, c, read)
      /\ feedback' = Upserts(feedback, c, read, new)
      /\ strays' = IF task[t].late \/ c \notin DOMAIN events \/ Going(c)
                   THEN strays \cup {c} ELSE strays
      /\ IF tap.next = None THEN Proceed(t, "remembering") ELSE End(t)
      /\ UNCHANGED <<version, day, consent, events, memory, sent, owner, agreed, erased, said>>
  BY DEF RecordFeedback, WrittenBy, Doing
<1>2. /\ tap \in Taps /\ task[t].user \in Users /\ owner[c] = task[t].user
      /\ tap.usefulness \in said[c]
  BY <1>1 DEF IInv, TasksHold, TaskHolds, TapIsOwners
<1>3. c \in Checks /\ tap.usefulness \in Usefulness /\ tap.next \in NextAction \cup {None}
      /\ day \in 0..MaxDay
  BY <1>2 DEF Taps, IInv, TypeOK
<1>4. feedback' = [x \in DOMAIN feedback \cup {c} |->
                      IF x # c THEN feedback[x]
                      ELSE IF read = None THEN new ELSE Overwrite(feedback[c], read, new)]
  <2> HIDE DEF tap, c, read, new
  <2> QED
    BY <1>1, Upserted
<1>5. read # None <=> c \in DOMAIN feedback
  BY <1>1 DEF UpsertFits
<1>6. c \in DOMAIN feedback => feedback[c] \in Columns /\ feedback[c].usefulness \in said[c]
  BY DEF IInv, TypeOK, Promises, FeedbackIsWhatWasSaid
<1>7. feedback'[c] \in Columns /\ feedback'[c].usefulness \in said[c]
  <2>1. CASE read = None
    BY <1>2, <1>3, <1>4, <2>1
  <2>2. CASE read # None
    <3> DEFINE old == feedback[c]
               rev(f) == Revised(old, read, new, f)
    <3>1. feedback'[c] = [usefulness |-> rev("usefulness"), next |-> rev("next"), ts |-> rev("ts")]
      <4>1. feedback'[c] = Overwrite(old, read, new)
        <5> HIDE DEF new, read, tap
        <5> QED
          BY <1>4, <2>2
      <4> HIDE DEF old, read, kept, tap
      <4> QED
        BY <4>1, FeedbackOverwritten
    <3>2. /\ rev("usefulness") = IF tap.usefulness = read.usefulness THEN old.usefulness ELSE tap.usefulness
          /\ rev("next") = IF kept = read.next THEN old.next ELSE kept
          /\ rev("ts") = IF day = read.ts THEN old.ts ELSE day
      BY DEF Revised
    <3>3. kept = read.next \/ kept \in NextAction \cup {None}
      BY <1>3
    <3> HIDE DEF rev, kept
    <3> QED
      BY <1>2, <1>3, <1>5, <1>6, <2>2, <3>1, <3>2, <3>3
  <2> QED
    BY <2>1, <2>2
<1>8. /\ task'[t].doing \in {"idle", "remembering"} /\ Others(t) /\ TasksTyped'
      /\ task'[t].doing = "remembering" => task'[t].on = tap /\ task'[t].user = task[t].user
  <2>1. TasksTyped
    BY TasksAreTyped DEF IInv
  <2>2. CASE tap.next = None
    <3>1. Proceed(t, "remembering")
      BY <1>1, <2>2
    <3>2. /\ task'[t] = [doing |-> "remembering", user |-> task[t].user, on |-> task[t].on,
                         row |-> task[t].row, late |-> task[t].late]
          /\ Others(t) /\ TasksTyped'
      BY <2>1, <3>1, Proceeded
    <3> QED
      BY <3>2
  <2>3. CASE tap.next # None
    BY <1>1, <2>1, <2>3, Ended DEF Idle
  <2> QED
    BY <2>2, <2>3
<1>9. /\ DOMAIN feedback' = DOMAIN feedback \cup {c}
      /\ \A x \in DOMAIN feedback : x # c => feedback'[x] = feedback[x]
  <2> HIDE DEF new, c, read
  <2> QED
    BY <1>4
<1> HIDE DEF new, kept, read
<1>10. strays \subseteq strays' /\ strays' \subseteq Checks
  <2> HIDE DEF c
  <2> QED
    BY <1>1, <1>3 DEF IInv, TypeOK
<1>11. TypeOK'
  <2>1. \A x \in DOMAIN feedback' : feedback'[x] \in Columns
    BY <1>7, <1>9 DEF IInv, TypeOK
  <2> HIDE DEF c, tap
  <2> QED
    BY <1>1, <1>3, <1>8, <1>9, <1>10, <2>1 DEF IInv, TypeOK, TasksTyped, Typed, sent
<1>12. TasksHold'
  <2> SUFFICES ASSUME NEW o \in Tasks
               PROVE  TaskHolds(o)'
    BY DEF TasksHold
  <2>1. CASE o = t
    <3>1. TapIsOwners(t)'
      BY <1>1, <1>2, <1>8 DEF TapIsOwners
    <3> QED
      BY <1>8, <2>1, <3>1 DEF TaskHolds, GrantIsFresh, CheckIsInformed, CheckIsKnown,
                              SweepIsComplete, Doing
  <2>2. CASE o # t
    <3> HIDE DEF c, tap
    <3>1. task'[o] = task[o] /\ TaskHolds(o)
      BY <1>8, <2>2 DEF Others, IInv, TasksHold
    <3>2. GrantIsFresh(o)' /\ CheckIsInformed(o)' /\ CheckIsKnown(o)' /\ TapIsOwners(o)'
      BY <1>1, <3>1 DEF TaskHolds, GrantIsFresh, CheckIsInformed, CheckIsKnown, TapIsOwners, Doing
    <3>3. ASSUME task[o].doing = "deleting"
          PROVE  \A x \in DOMAIN feedback' : owner[x] = task[o].user => x \in task[o].row \cup strays'
      <4>1. owner[c] = task[o].user => c \in strays'
        BY <1>1, <3>3 DEF Going, Doing
      <4> QED
        BY <1>9, <1>10, <3>1, <3>3, <4>1 DEF TaskHolds, SweepIsComplete, Doing
    <3>4. ASSUME task[o].doing = "expiring"
          PROVE  \A x \in DOMAIN feedback' \cap Expired(events, CheckDays, task[o].on) :
                     x \in task[o].row \cup strays'
      <4>1. c \in Expired(events, CheckDays, task[o].on) => c \in strays'
        BY <1>1, <3>4 DEF Going, Doing
      <4> QED
        BY <1>9, <1>10, <3>1, <3>4, <4>1 DEF TaskHolds, SweepIsComplete, Doing
    <3>5. SweepIsComplete(o)'
      BY <1>1, <3>1, <3>3, <3>4 DEF TaskHolds, SweepIsComplete, Doing, Expired
    <3> QED
      BY <3>2, <3>5 DEF TaskHolds
  <2> QED
    BY <2>1, <2>2
<1>13. RowsHold' /\ MemoryHolds' /\ ErasedHasNoConsent' /\ ConsentIsKept'
  BY <1>1, <1>2, <1>9 DEF IInv, RowsHold, MemoryHolds, ErasedHasNoConsent, Promises, ConsentIsKept,
                          ConsentIsInformed, ChecksAreInformed
<1>14. ErasedStaysErased' /\ OrphansWereOvertaken'
  <2>1. c \notin DOMAIN events => c \in strays'
    BY <1>1
  <2> HIDE DEF c
  <2>2. ErasedStaysErased'
    BY <1>1, <1>9, <1>10, <2>1 DEF IInv, Promises, ErasedStaysErased
  <2>3. OrphansWereOvertaken'
    BY <1>1, <1>9, <1>10, <2>1 DEF IInv, Promises, OrphansWereOvertaken
  <2> QED
    BY <2>2, <2>3
<1>15. FeedbackIsWhatWasSaid'
  BY <1>1, <1>7, <1>9 DEF IInv, Promises, FeedbackIsWhatWasSaid
<1> QED
  BY <1>11, <1>12, <1>13, <1>14, <1>15 DEF IInv, Promises

LEMMA DeletionKeeps ==
    ASSUME IInv, NEW t \in Tasks, CmdDeleteMyDataCommits(t)
    PROVE  IInv'
<1> DEFINE u == task[t].user
           found == task[t].row
<1>1. /\ task[t].doing = "deleting"
      /\ feedback' = [c \in DOMAIN feedback \ found |-> feedback[c]]
      /\ events' = [c \in DOMAIN events \ Mine(u) |-> events[c]]
      /\ consent' = [v \in DOMAIN consent \ {u} |-> consent[v]]
      /\ strays' = strays \cap (DOMAIN events' \cup DOMAIN feedback')
      /\ agreed' = [agreed EXCEPT ![u] = {}]
      /\ erased' = [erased EXCEPT ![u] = TRUE]
      /\ task' = [o \in Tasks |->
                    IF o = t THEN [Idle EXCEPT !.doing = "deleted", !.user = u]
                    ELSE [task[o] EXCEPT !.late = @ \/ task[o].user = u]]
      /\ UNCHANGED <<version, day, memory, sent, owner, said>>
  BY DEF CmdDeleteMyDataCommits, DeleteUserData, StraysLeft, Restrict, Doing
<1>2. /\ u \in Users
      /\ \A c \in DOMAIN feedback : owner[c] = u => c \in found \cup strays
  BY <1>1 DEF IInv, TasksHold, TaskHolds, SweepIsComplete, Doing
<1>3. ASSUME NEW o \in Tasks, o # t
      PROVE  /\ task'[o].doing = task[o].doing /\ task'[o].user = task[o].user
             /\ task'[o].on = task[o].on /\ task'[o].row = task[o].row
             /\ Typed(task'[o])
             /\ task[o].late \/ task[o].user = u => task'[o].late
  <2> DEFINE late == task[o].late \/ task[o].user = u
             update == task[o]
             next == [update EXCEPT !.late = late]
  <2>1. Typed(update) /\ late \in BOOLEAN
    BY TasksAreTyped DEF IInv, TasksTyped
  <2>2. task'[o] = next
    BY <1>1, <1>3
  <2> HIDE DEF late, update
  <2>3. next = [doing |-> update.doing, user |-> update.user, on |-> update.on,
                row |-> update.row, late |-> late]
    BY <2>1 DEF Typed
  <2>4. Typed(next) /\ next.late = late
    BY <2>1, <2>3 DEF Typed
  <2>5. /\ next.doing = update.doing /\ next.user = update.user
        /\ next.on = update.on /\ next.row = update.row
    BY <2>3
  <2> HIDE DEF next
  <2> QED
    BY <2>2, <2>4, <2>5 DEF late, update
<1>4. /\ task'[t] = [doing |-> "deleted", user |-> u, on |-> None, row |-> None, late |-> FALSE]
      /\ Typed(task'[t]) /\ DOMAIN task' = Tasks
  BY <1>1, <1>2 DEF Idle, Typed, Everyone
<1> HIDE DEF found, u
<1>5. /\ agreed' \in [Users -> SUBSET Notices] /\ erased' \in [Users -> BOOLEAN]
      /\ \A v \in Users : v # u => agreed'[v] = agreed[v] /\ erased'[v] = erased[v]
  BY <1>1, <1>2 DEF IInv, TypeOK
<1>6. /\ DOMAIN feedback' = DOMAIN feedback \ found /\ DOMAIN consent' = DOMAIN consent \ {u}
      /\ DOMAIN events' = DOMAIN events \ Mine(u)
      /\ \A c \in DOMAIN feedback' : feedback'[c] = feedback[c]
      /\ \A c \in DOMAIN events' : events'[c] = events[c] /\ owner[c] # u
      /\ \A v \in DOMAIN consent' : consent'[v] = consent[v]
  BY <1>1 DEF Mine, IInv, RowsHold
<1>7. TypeOK'
  <2>1. \A o \in Tasks : Typed(task'[o])
    BY <1>3, <1>4
  <2> QED
    BY <1>1, <1>4, <1>5, <1>6, <2>1 DEF IInv, TypeOK, Typed, sent
<1>8. TasksHold'
  <2> SUFFICES ASSUME NEW o \in Tasks
               PROVE  TaskHolds(o)'
    BY DEF TasksHold
  <2>1. CASE o = t
    BY <1>4, <2>1, IdleHolds
  <2>2. CASE o # t
    <3>1. /\ task'[o].doing = task[o].doing /\ task'[o].user = task[o].user
          /\ task'[o].on = task[o].on /\ task'[o].row = task[o].row
          /\ task[o].late \/ task[o].user = u => task'[o].late
      BY <1>3, <2>2
    <3>2. TaskHolds(o)
      BY DEF IInv, TasksHold
    <3>3. GrantIsFresh(o)'
      BY <1>1, <1>6, <3>1, <3>2 DEF TaskHolds, GrantIsFresh, Doing
    <3>4. CheckIsInformed(o)'
      BY <1>5, <3>1, <3>2 DEF TaskHolds, CheckIsInformed, Doing
    <3>5. CheckIsKnown(o)' /\ TapIsOwners(o)'
      BY <1>1, <3>1, <3>2 DEF TaskHolds, CheckIsKnown, TapIsOwners, Doing
    <3>6. SweepIsComplete(o)'
      <4>1. \A c \in DOMAIN feedback' : c \in strays => c \in strays'
        BY <1>1
      <4>2. Expired(events', CheckDays, task[o].on) \subseteq Expired(events, CheckDays, task[o].on)
        BY <1>6 DEF Expired
      <4>3. SweepIsComplete(o) /\ DOMAIN feedback' \subseteq DOMAIN feedback /\ owner' = owner
        BY <1>1, <1>6, <3>2 DEF TaskHolds
      <4>4. CASE Doing(o, "deleting")
        BY <3>1, <4>1, <4>3, <4>4 DEF SweepIsComplete, Doing
      <4>5. CASE Doing(o, "expiring")
        BY <3>1, <4>1, <4>2, <4>3, <4>5 DEF SweepIsComplete, Doing
      <4>6. CASE ~Doing(o, "deleting") /\ ~Doing(o, "expiring")
        BY <3>1, <4>6 DEF SweepIsComplete, Doing
      <4> QED
        BY <4>4, <4>5, <4>6
    <3> QED
      BY <3>3, <3>4, <3>5, <3>6 DEF TaskHolds
  <2> QED
    BY <2>1, <2>2
<1>9. RowsHold' /\ MemoryHolds' /\ ErasedHasNoConsent'
  BY <1>1, <1>5, <1>6 DEF IInv, RowsHold, MemoryHolds, ErasedHasNoConsent
<1>10. ConsentIsKept'
  BY <1>5, <1>6 DEF IInv, TypeOK, Promises, ConsentIsKept, ConsentIsInformed, ChecksAreInformed
<1>11. ErasedStaysErased'
  <2>1. \A c \in DOMAIN events \cup DOMAIN feedback : owner[c] \in Users
    BY DEF IInv, TypeOK, RowsHold
  <2> QED
    BY <1>1, <1>2, <1>5, <1>6, <2>1 DEF IInv, Promises, ErasedStaysErased
<1>12. OrphansWereOvertaken'
  BY <1>1, <1>2, <1>6 DEF IInv, RowsHold, Mine, Promises, OrphansWereOvertaken
<1>13. FeedbackIsWhatWasSaid'
  BY <1>1, <1>6 DEF IInv, Promises, FeedbackIsWhatWasSaid
<1> QED
  BY <1>7, <1>8, <1>9, <1>10, <1>11, <1>12, <1>13 DEF IInv, Promises

LEMMA ExpiryKeeps ==
    ASSUME IInv, NEW t \in Tasks, CleanupExpiredCommits(t)
    PROVE  IInv'
<1> DEFINE found == task[t].row
           today == task[t].on
           old == Expired(events, CheckDays, today)
           lapsed == Expired(consent, ConsentDays, today)
<1>1. /\ task[t].doing = "expiring" /\ End(t)
      /\ feedback' = [c \in DOMAIN feedback \ found |-> feedback[c]]
      /\ events' = [c \in DOMAIN events \ old |-> events[c]]
      /\ consent' = [v \in DOMAIN consent \ lapsed |-> consent[v]]
      /\ strays' = strays \cap (DOMAIN events' \cup DOMAIN feedback')
      /\ agreed' = [v \in Users |-> IF v \in lapsed THEN {} ELSE agreed[v]]
      /\ UNCHANGED <<version, day, memory, sent, owner, erased, said>>
  BY DEF CleanupExpiredCommits, StraysLeft, Restrict, Doing
<1>2. \A c \in DOMAIN feedback \cap old : c \in found \cup strays
  BY <1>1 DEF IInv, TasksHold, TaskHolds, SweepIsComplete, Doing
<1>3. task'[t] = Idle /\ Others(t) /\ TasksTyped'
  BY <1>1, Ended, TasksAreTyped DEF IInv
<1> HIDE DEF found, today, old, lapsed
<1>4. /\ agreed' \in [Users -> SUBSET Notices]
      /\ \A v \in Users : v \notin lapsed => agreed'[v] = agreed[v]
  BY <1>1 DEF IInv, TypeOK
<1>5. /\ DOMAIN feedback' = DOMAIN feedback \ found /\ DOMAIN consent' = DOMAIN consent \ lapsed
      /\ DOMAIN events' = DOMAIN events \ old
      /\ \A c \in DOMAIN feedback' : feedback'[c] = feedback[c]
      /\ \A c \in DOMAIN events' : events'[c] = events[c]
      /\ \A v \in DOMAIN consent' : consent'[v] = consent[v]
  BY <1>1
<1>6. TypeOK'
  BY <1>1, <1>3, <1>4, <1>5 DEF IInv, TypeOK, TasksTyped, Typed, sent
<1>7. TasksHold'
  <2> SUFFICES ASSUME NEW o \in Tasks
               PROVE  TaskHolds(o)'
    BY DEF TasksHold
  <2>1. CASE o = t
    BY <1>3, <2>1, IdleHolds DEF Idle
  <2>2. CASE o # t
    <3>1. task'[o] = task[o] /\ TaskHolds(o)
      BY <1>3, <2>2 DEF Others, IInv, TasksHold
    <3>2. GrantIsFresh(o)' /\ CheckIsInformed(o)' /\ CheckIsKnown(o)' /\ TapIsOwners(o)'
      BY <1>1, <1>5, <3>1 DEF TaskHolds, GrantIsFresh, CheckIsInformed, CheckIsKnown, TapIsOwners, Doing
    <3>3. SweepIsComplete(o)'
      <4>1. \A c \in DOMAIN feedback' : c \in strays => c \in strays'
        BY <1>1
      <4>2. Expired(events', CheckDays, task[o].on) \subseteq Expired(events, CheckDays, task[o].on)
        BY <1>5 DEF Expired
      <4> QED
        BY <1>1, <1>5, <3>1, <4>1, <4>2 DEF TaskHolds, SweepIsComplete, Doing
    <3> QED
      BY <3>2, <3>3 DEF TaskHolds
  <2> QED
    BY <2>1, <2>2
<1>8. RowsHold' /\ MemoryHolds' /\ ErasedHasNoConsent'
  BY <1>1, <1>5 DEF IInv, RowsHold, MemoryHolds, ErasedHasNoConsent
<1>9. ConsentIsKept'
  BY <1>4, <1>5 DEF IInv, TypeOK, Promises, ConsentIsKept, ConsentIsInformed, ChecksAreInformed
<1>10. ErasedStaysErased' /\ OrphansWereOvertaken'
  BY <1>1, <1>2, <1>5 DEF IInv, Promises, ErasedStaysErased, OrphansWereOvertaken
<1>11. FeedbackIsWhatWasSaid'
  BY <1>1, <1>5 DEF IInv, Promises, FeedbackIsWhatWasSaid
<1> QED
  BY <1>6, <1>7, <1>8, <1>9, <1>10, <1>11 DEF IInv, Promises

-----------------------------------------------------------------------------
(* The theorems *)

LEMMA Invariance == Spec => []IInv
<1>1. Init => IInv
  <2> SUFFICES ASSUME Init
               PROVE  IInv
    OBVIOUS
  <2>1. DOMAIN consent = {} /\ DOMAIN events = {} /\ DOMAIN feedback = {}
    BY DEF Init
  <2>2. \A t \in Tasks : task[t] = Idle
    BY DEF Init
  <2>3. TypeOK
    <3>1. Typed(Idle)
      BY DEF Idle, Typed
    <3>2. \A t \in Tasks : Typed(task[t])
      BY <2>2, <3>1
    <3> QED
      BY <2>1, <3>2, DaysAssumption DEF Init, TypeOK, Typed, Forgotten
  <2>4. TasksHold
    BY <2>2 DEF Idle, TasksHold, TaskHolds, GrantIsFresh, CheckIsInformed, CheckIsKnown,
                TapIsOwners, SweepIsComplete, Doing
  <2>5. MemoryHolds
    BY DEF Init, MemoryHolds, Forgotten
  <2> QED
    BY <2>1, <2>3, <2>4, <2>5 DEF Init, IInv, RowsHold, ErasedHasNoConsent, Promises, ConsentIsKept,
       ConsentIsInformed, ChecksAreInformed, ErasedStaysErased, FeedbackIsWhatWasSaid, OrphansWereOvertaken
<1>2. IInv /\ [Next]_vars => IInv'
  <2> SUFFICES ASSUME IInv, [Next]_vars
               PROVE  IInv'
    OBVIOUS
  <2>1. ASSUME NEW u \in Users,
               CmdStart(u) \/ OnConsentRefused(u) \/ \E l \in Languages : OnLanguageChosen(u, l)
        PROVE  IInv'
    BY <2>1, PromptKeeps
  <2>2. ASSUME NEW t \in Tasks, Continue(t)
        PROVE  IInv'
    BY <2>2, GrantKeeps, EndsKeep, RecordedKeeps, AcceptedKeeps, FeedbackKeeps, DeletionKeeps,
       ExpiryKeeps DEF Continue
  <2>3. ASSUME NEW t \in Tasks, NEW u \in Users, Update(t, u)
        PROVE  IInv'
    BY <2>3, BeginningKeeps DEF Update
  <2>4. CASE UNCHANGED vars
    <3> USE <2>4 DEF vars
    <3>1. TypeOK' /\ MemoryHolds'
      BY DEF IInv, TypeOK, MemoryHolds, rows, sent, history
    <3>2. TasksHold'
      BY OtherHolds DEF IInv, TasksHold, TypeOK, history
    <3>3. RowsHold' /\ ErasedHasNoConsent' /\ Promises'
      BY RowsKept DEF history
    <3> QED
      BY <3>1, <3>2, <3>3 DEF IInv
  <2> QED
    BY <2>1, <2>2, <2>3, <2>4, CleanupKeeps, TapKeeps, RestartKeeps, TickKeeps DEF Next
<1> QED
  BY <1>1, <1>2, PTL DEF Spec

\* repo.py, handlers.py: the consent, event and feedback rows, the conversation's
\* memory and the updates under way keep the columns their readers rely on.
THEOREM TypeCorrect == Spec => []TypeOK
<1>1. IInv => TypeOK
  BY DEF IInv
<1> QED
  BY <1>1, Invariance, PTL

\* handlers.py:116-166, 300-324: however prompts, languages, restarts, erasures and
\* expiry overlap, a consent row names a notice the user accepted, and no check is
\* recorded of a user who has not accepted the notice in force.
THEOREM ConsentKept == Spec => []ConsentIsKept
<1>1. IInv => ConsentIsKept
  BY DEF IInv, Promises
<1> QED
  BY <1>1, Invariance, PTL

\* repo.py:319-341: after an erasure only updates that it overtook leave rows of the user.
THEOREM ErasureHolds == Spec => []ErasedStaysErased
<1>1. IInv => ErasedStaysErased
  BY DEF IInv, Promises
<1> QED
  BY <1>1, Invariance, PTL

\* handlers.py:239-297: a usefulness stored for a check was answered of that check by
\* its owner, however taps, checks and the conversation's memory overlap.
THEOREM FeedbackIsTrue == Spec => []FeedbackIsWhatWasSaid
<1>1. IInv => FeedbackIsWhatWasSaid
  BY DEF IInv, Promises
<1> QED
  BY <1>1, Invariance, PTL

\* retention.py:72-86: feedback without its check was written by an answer that the
\* erasure or the expiry of the check overtook.
THEOREM OrphansAreOvertaken == Spec => []OrphansWereOvertaken
<1>1. IInv => OrphansWereOvertaken
  BY DEF IInv, Promises
<1> QED
  BY <1>1, Invariance, PTL

=============================================================================
