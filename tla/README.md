# Avvalo verification project

TLA+ models of Avvalo, the Telegram bot and web service that tells a user what to
check before acting on a suspicious message. The modules model the service's own
logic in `src/app`, and the migrations and scripts that deploy it: they are
translated from the code, checked with TLC on small instances, and their safety
properties are proved with TLAPS for every value of the constants.

`PROJECT.json` holds the same in tabular form: components, runs, mutants, the map
from definitions to source lines, findings, hazards and theorems.

## 1. Inventory

Avvalo is one asyncio process (`app/main.py`) on one event loop. In it run the
Telegram poller (aiogram) and the web server (uvicorn), and an APScheduler with the
refresh and retention jobs. The two channels share the engine, the PostgreSQL
database, and three process-wide snapshots: the rule pack, the knowledge base and
the OCR engines. State lives in five places: database rows, those snapshots, the
bot's conversation memory (aiogram `MemoryStorage`), cookies in browsers, and local
variables of coroutines suspended at an `await`. Recognition runs on worker threads.

| Component | State | Operations | What is hard |
|---|---|---|---|
| Daily-limit protocol (`engine/pipeline.py` `run_check`, `web/routes.py`, `bot/handlers.py`, `data/repo.py`) | `rate_limit` rows by (user, scope, day), open transactions | reserve, reject, commit, refund, erase | concurrent checks, two counters per web check, lock order, midnight, killed process |
| Pipeline stages (`pipeline._run_stages`) | the text under analysis, hits, cards, tokens | input, QR, OCR, meta, rules, retrieval, model, validation | two attempts with a fallback each, partial failures, which outcome is billed |
| Rule engine (`engine/rules`) | the rule pack in force | `run_rules` | gated rules need a second pass; exclusions |
| Links and minimisation (`engine/url.py`, `engine/minimize.py`) | none | classify, extract signals, minimise | the same link read by several stages after different replacements |
| Rule overrides (`rules_store`, `web/rules_admin.py`) | `rule_override` rows, the published pack | create, edit, rename, delete, refresh | refreshes overtake one another, stale sessions, invalid merges |
| Knowledge overrides (`knowledge_store`, `web/knowledge_admin.py`) | `knowledge_card_override` rows, the published base and its version | the same | the same, and a version that must tell bases apart |
| Retrieval (`engine/knowledge`) | the base in force | rank, route, compose | mandatory cards against the cap, router allow-list |
| Answer safety (`engine/validate.py`) | the draft | validate, partition, truncate, fall back | order of the checks, grounding, what is judged per sentence and what per answer |
| Telegram conversation (`bot/handlers.py`) | FSM data in memory; consent, feedback, event rows | start, language, consent, content, feedback, delete, share | memory against rows, restart, double taps, deletion beside a check |
| Web channel (`web/routes.py`, `web/abuse.py`, `web/session.py`) | signed cookies, consent rows | pages, check | consent and limits before any work, overlapping first requests, deploys |
| Repository and retention (`data/repo.py`, `data/retention.py`) | all user rows | record, read, delete, expire | get-then-insert, cross-table order |
| Editorial (`content`, `web/editorial.py`) | article rows, covers kept by browsers | create, edit, publish, show | overlapping saves, first publication time, covers cached for a day |
| OCR and QR (`engine/ocr`, `engine/qr`) | provider and engine caches, worker threads | recognise | double-checked lock, threads that outlive a timeout |
| LLM adapter (`engine/llm`) | none | one HTTP call | timeouts |
| Alerts and metrics (`obs`) | debounce stamps | alert, report | stamp set before the send |
| Lifecycle (`main.py`) | runner tasks, scheduler, engine | start, stop | a runner that ends while its peer serves, a job under the shutdown |
| Schema and deployment (`alembic`, `deploy`) | the schema, its revision, `IMAGE_TAG` in `.env`, the last dump | migrate, update, roll back, back up, restore | interrupted migrations, an image older than its database, rows under a schema that narrows |
| Operator login, copy texts, tools | a signed cookie, nothing else | | |

How they interact: a channel handler opens a session, checks consent, calls
`run_check`, which reserves the limit slot, commits, runs the stages (which read
the two snapshots and call OCR and the model), settles the slot, records the event,
and returns to the handler, which commits and answers. Operator pages write override
rows and republish a snapshot; scheduled jobs republish it periodically and expire
rows. `/delete_my_data` removes a user's rows in one transaction beside all of this.
The container migrates the database before `app.main` starts, and is replaced by the
update script while requests are in flight.

What makes each part correct:

* limits: no user is let through beyond the limit, an unbilled check costs nothing,
  a billed one is paid once, no lock is held while the model runs, no check hangs;
* overrides: the snapshot in force is always one that could be built, an accepted
  edit is published, deletions last, and the snapshot converges to the rows;
* pipeline: every path ends in a status whose billing, event and answer agree, and
  what a stage reads of a link or a code the others read too;
* conversation: nothing is checked or stored without the current consent, feedback
  belongs to one check, deletion leaves nothing behind;
* web: only what passed every guard is checked, the consent to it included, an
  acceptance is not lost with a refusal, a browser stays one user, a request counts on
  the address it came from;
* editorial: what is public was meant to be, and carries its time and its cover;
* lifecycle: engines load once, one end ends all, in order, and faults are reported;
* deployment: the app serves only the schema it declares, and there is a way back;
* rule engine, links, retrieval, answer safety: the algorithm agrees with its definition.

## 2. Plan

In order of importance; each module is written to be proved about (constants with
assumptions, one action per operation, no `RECURSIVE`).

1. **CheckQuota**, with the abstract **QuotaLedger** it refines.
2. **OverrideStore**, with the two instances **RulePack** and **KnowledgeBase**, and
   **KnowledgeStore** for what the rows mean to the version of the base.
3. **CheckPipeline**: the stages as a state machine, with the algorithms it calls in
   **RuleEngine**, **Links**, **Retrieval** and **AnswerSafety** over **Selections**.
4. **BotConversation**: conversation memory against consent, event and feedback rows.
5. **WebChannel**: sessions, consent and guards of the web.
6. **Editorial**: articles and covers.
7. **ProcessLifecycle** over **OcrEngines**: boot, services, shutdown, engines, alerts.
8. **Deployment** over **SchemaHistory**: migrations, update, rollback, backup, restore.

All of them are written and checked. Each of the eight has a module `...Proofs` with its
theorems, and every safety and action property that a passing run lists is a theorem for
every value of the constants (section 6). What is left is what the provers cannot reach,
the liveness properties, and breadth: the operator pages outside the override stores and
the editorial desk, and the metrics.

## 3. Modules

### CheckQuota (and QuotaLedger)

One process, several checks. `stored` is the committed `rate_limit` table, `working`
the rows as the transaction that locked them sees them, `locker` the row locks; `pc`
is the point each check's coroutine has reached and `status` its outcome. A bot
check uses its user's row; a web check the row of its IP hash and then the row of
its browser session. The actions follow the code in order:

| Code | Actions |
|---|---|
| `_reserve_web_ip_limit` | `ReserveIp`, `RejectAtIp` |
| `_rate_limit_result` | `ReserveUser`, `RejectAtUser` |
| `commit_rate_limit_reservation` | `CommitReservation` |
| `_run_stages` | `StagesReturn`, `StagesRaise` |
| `except` clauses of `run_check` and of `POST /check` | `RefundAfterRaise`, `RefundIpAfterRaise` |
| end of `run_check` | `SettleUser`, `RecordEvent` |
| end of the caller | `SettleIp`, `Commit` |
| `delete_user_data` | `DeleteUserData` |
| PostgreSQL, the process, the clock | `DeadlockVictim`, `ConnectionLost`, `Crash`, `NextDay` |

Abstractions: an absent row is a row at zero; a row's scope is folded into its key,
which is sound because user keys and IP keys never meet; the stages are one step that
returns a billable outcome, a free one, or raises. `charged` and `stray` are history:
which checks a row is charged for, and how many refunds it took from others.
A statement's day is any date between the check's last step and now, so midnight may
fall between reading the clock and running the statement. `delete_user_data` is one
step, since it holds every row it deletes until it commits. A refund in an exception
handler and its commit are one step, since nothing else is locked then. `_run_stages`
is handed the session but runs no statement on it, so no transaction is open while the
stages run. The `ValueError` that `record_check_event` could raise is not reachable
from values the pipeline produces. After a failed statement the handler in
`POST /check` tries to refund on the same broken session; that fails too, and is part
of `Abort`.

A rejected check whose transaction spans midnight may leave its own increment on
yesterday's row, because its refund goes to today's. This is why the ledger lets a
key exceed its limit on a day that is over, and on no other.

`QuotaLedger` is the abstract specification: slots used per key and day, changed by
whole postings of at most one per row, never above the limit on the current day.
`ImplementsLedger` maps its `used` to the committed counts.

### OverrideStore, RulePack, KnowledgeBase, KnowledgeStore

`app/rules_store` with `app/web/rules_admin.py`, and `app/knowledge_store` with
`app/web/knowledge_admin.py`, are the same protocol twice, so it is one module with
two parameters: `Merge` (the snapshot that rows make of the YAML baseline) and
`Acceptable` (whether that snapshot can be constructed). `RulePack` and
`KnowledgeBase` give them from `merge_rule_pack` with `validate_requires_graph`, and
from `merge_knowledge_base` with `derive_kb_version`. There every stored card loads,
because cards are validated field by field. `KnowledgeStore` reads the rows of the store
as cards, to say when an edit moves the version stamp.

`table` holds the committed rows by primary key; the overridden id is the column
`entry`, unique and open to edits, as in the forms. `held[r]` is the row that the
request's session keeps in its identity map. Since `expire_on_commit=False`, the
refresh in the same session does not read that row again (`Yields`), and since the
ORM writes only changed columns, an update merges with what others wrote
(`Overwrite`). A refresh is two steps, `Load` and `Publish`: merging and
publishing run without an `await` once the rows have arrived. The scheduler runs one
refresh at a time (`Job`); every request runs its own after its commit. The created
object is not referenced after `create_override`, so its refresh reads it from the
table. `active` carries, as history, the edition of the table it was read from.

Not distinguished: the fields of a rule or a card that no property looks at (family,
severity, wording), the `exclude` and `match_mode` controls, signals in gates (a gate
is the set of rule ids it names), and which of several validation errors is shown.

### CheckPipeline, RuleEngine, Links, Retrieval, AnswerSafety, Selections

One check, from what was sent to its result. `pc` is the stage; the actions follow
`_run_stages` and the functions it calls:

| Code | Actions |
|---|---|
| `_extract_text`, `_content_from_input` | `BeginText`, `BeginImage`, `BeginUnsupported` |
| QR decoder | `QrDecoded`, `QrFails` |
| OCR | `StartOcr`, `OcrReads`, `OcrReadsLittle`, `OcrFails` |
| the texts no rule is run on | `Shortcut` |
| `resolve_content_language`, `run_rules`, `retrieve_knowledge` | `Analyse`, `AnalyseWithoutCards`, `RouterAnswers`, `RouterFails` |
| minimisation and prompt | `Prompt` |
| `_call_llm` | `PrimaryAnswers`, `PrimaryFails`, `FallbackAnswers`, `FallbackFails` |
| `refresh_rule_pack` by somebody else | `Publish` |
| any other exception | `StageRaises` |

The coroutine gives way only while it awaits the QR decoder, OCR, the router or a
model, so everything between two awaits is one step and `Publish` is enabled at the
awaits only. The card base is read once, in one step, and is a constant.

The algorithm modules have no state. `RuleEngine` evaluates a pack of rules on a
text; `Links` reads a link and says what becomes of it on the way to the rules and to
a model; `Retrieval` ranks the cards and reads the router's answer (its first three
ids, then those on the allow-list, as `router.py` does); `AnswerSafety` composes,
filters, cuts and judges a draft. A loop that keeps some elements of a list is `Picked` of
`Selections`, which says by counting which position comes n-th, so that the proofs need
what sets do and no induction over lists. `LevenshteinAtMostOne` is the loop with its two
cursors; `OneLetterApart`, which the property uses, is what its name says.

Data is abstract. A text is a set of fragments, and a fragment a set of the patterns
that rules, cues and the link scanner look for. A link is its labels before an "@", a
flag for a password, and the labels of its host; a label is a sequence of letters, each
of one writing system, so that confusable letters, nested suffixes and words one letter
from a brand are read as the code reads them. What is before that (NFKC, case folding,
undoing of defanged spellings, the parser that splits the authority) is taken as done.
The language of a text is computed from its counts of words in either script, its marks
of Uzbek and the guess of `langdetect`. A bullet is a set of sentences and a sentence the
set of marks that the validator's expressions find in it, one mark for each reason to
reject. The code scans the joined text for most reasons; a match that spans two bullets
would reject more, never less, and is left out. A draft is the model's choice from a set
that contains what the validator tells apart. `asked` is history: the paid calls in order
and how each ended. `seen` is what the answer model reads of links and names: each as it
is written, or the token that stands for it.

Not distinguished: the wording of the answer and its address forms, the regular
expressions themselves, token counts (one per answer). Cue patterns are the same on the
minimised text, on which retrieval works, as on the text. A `t.me` link is a handle,
because that is the token it becomes. `LLMResponseFormatError`, a paid completion that
is no draft, is part of `PrimaryFails`, `FallbackFails` and `RouterFails`; the code does
not count its tokens, and `SpendIsReported` says so.

### BotConversation

The updates of the bot and the daily cleanup, over the `consent`, `check_event` and
`feedback` rows and the conversation memory of each user. aiogram starts a task per
update and waits for none, so the tasks of one user overlap; a task gives way at its
database statements. `task[t]` is the point reached, and the row it has read.

| Code | Actions |
|---|---|
| `cmd_start` | `CmdStart` |
| `on_language_chosen` | `OnLanguageChosen` |
| `on_consent_accepted`, `upsert_consent` | `OnConsentRefused`, `OnConsentAccepted`, `GrantConsent`, `OnConsentAcceptedEnds` |
| `on_content`, `record_check_event` | `OnContent`, `CheckRecorded`, `ContentEnds` |
| `on_feedback`, `record_feedback` | `OnFeedback`, `FeedbackRefused`, `FeedbackAccepted`, `RecordFeedback`, `RememberUsefulness` |
| `cmd_delete_my_data`, `delete_user_data` | `CmdDeleteMyData`, `CmdDeleteMyDataCommits`, `CmdDeleteMyDataEnds` |
| `cleanup_expired` | `CleanupExpired`, `CleanupExpiredCommits` |
| an exception, a new process, the clock | `TaskFails`, `Restart`, `Tick` |

`upsert_consent` and `record_feedback` read a row and then insert or update it. An
insert that meets a row, and an update that finds none, fails (`UpsertFits`, then only
`TaskFails` is left); an update writes the columns that differ from what was read
(`Overwrite`). Both deleting transactions delete feedback first, by the checks they
see, and the checks at their end; rows found stay locked until the commit (`Locked`),
rows added meanwhile are not found. What happens between the last statement and the
commit is the same as just after it.

A button once shown may be tapped at any later time: `notices` and `keyboard` only
grow. A bystander is another member of a group chat, who can tap the buttons there.
`owner`, `agreed`, `erased`, `said` and `strays` are history. `strays` holds the checks
that have a row from an update which an erasure or an expiry overtook: such rows do
exist (section 5), and the properties say that there are no others.

A refusal that changes nothing is a guard, not a step. Of the FSM states only "a
consent prompt is open" is kept, since no handler reads any other; the language kept in
memory decides only the wording, because every button carries its own. `on_share`
changes nothing. The event of a check without an answer is left out: no button names
it. `rate_limit` rows are in CheckQuota.

### WebChannel

One browser and its overlapping POSTs to `/check`, against the consent rows, through
deploys. `jar` is the browser's cookie, `req[r]` what a request was sent with, the user
key it was given and the consent row it read; `pc` where it stands.

| Code | Actions and operators |
|---|---|
| `get_or_create_web_session`, `_unsign` | `Session`, `Valid` |
| `client_ip_from_request` | `ClientIp` |
| `GET /check` | `CheckPage` |
| body-size middleware, `require_same_origin` | `Refused` |
| `POST /check` up to consent | `Arrives` |
| `_ensure_web_consent`, `upsert_consent` | `ConsentIsCurrent`, `ConsentIsAsked`, `ConsentIsTicked`, `LooksAgain`, `Accepts`, `AcceptFails` |
| `_form_limit_error`, `read_limited_upload`, `require_turnstile_for_image` | `FormError` |
| `_reserve_web_ip_limit` | `AddressIsFull`, `IsAdmitted` |
| `run_check` returns or raises | `IsChecked`, `CheckFails` |
| a deploy, the retention job, the browser | `Deploy`, `Expires`, `CookieIsGone` |

A secret in force is part of a user key, since the key is derived with it. Only an
answer that carries a page sets the cookie (`AnswerWithCookie`); a refusal by an
exception does not (`AnswerBare`). `IsAdmitted` is one step because CheckQuota covers
what happens inside. Three variables are history: `ticked`, the notices that a session
has accepted in a request that was answered; `agreed`, the acceptances with a ticked box
that were stored and stand; and `consented`, the requests that were let past the gate by
a tick of their own or by one that `agreed` has. The rows do not decide what is in it,
so that a gate that lets others through shows. Left out: static pages, page languages,
the recoding of uploads, and the request rates that nginx limits. `MaxSessions` bounds
the ids handed out.

### Editorial

The `editorial_post` rows, the saves of the editor, the admin cookie and one reader.
`saves[s]` is where a save stands, the form it holds and the row it read.

| Code | Actions |
|---|---|
| `admin_login_submit`, `admin_logout`, `is_admin_request` | `LogsIn`, `LogsOut`, `IsAuthenticated` |
| `admin_post_edit`, at any time before | `Shown`, `ShownCaptions` |
| `admin_post_create`, `admin_post_update` up to the first await | `Opens` |
| `prepare_editorial_cover` (a worker thread), `EditorialPostDraft.normalized` | `Prepares` |
| `create_post`, `update_post`, `_apply_cover`, commit | `Commits`, with `Created`, `Updated`, `ApplyCover` |
| `IntegrityError` | `Collides` |
| a new process | `Restarts` |
| `case_detail`, `cases` | `ReadsCase` |
| `case_cover` and the browser's cache | `FetchesCover` |

A save submits a text and captions of its own, or unedited those of an earlier save,
which the editor's page may have shown at any time before. The ORM writes only the
columns that differ from the row that the save loaded (`Updated`, `ApplyCover`), except
for the deferred bytes, and that is what overlapping saves mix: one that only publishes
leaves in the row the text that a draft wrote meanwhile. Title, summary and article are
one text here, so that a mixture within them is not told apart. Two reads of the clock
never give the same value. `overtaken` is history: the row was another one than the save
had read; so is `page.saved`, the save that a reader's page stems from. Slugs that two
saves swap, which PostgreSQL would report as a deadlock, are not modelled.

### ProcessLifecycle and OcrEngines

`OcrEngines` is `_engine` and `_run_engine` of the default provider (the Paddle provider
has the same shape) with the threads that run it. `work[j]` is the stage of an item on a
thread, `waiting` the items that somebody still awaits, `holder` the lock.
`ProcessLifecycle` is `main.run` and `_run_service_runners` around it, with the alerts.

| Code | Actions |
|---|---|
| `extract`, `warmup`: `asyncio.to_thread` under `wait_for` | `Submits`, `Picks`, `Hears`, `Abandons` |
| `_engine` | `Looks`, `Locks`, `Rechecks`, `Builds`, `BuildFails` |
| `_run_engine` | `Runs`, `RunFails` |
| start of `run` | `Connects`, `ConnectFails`, `SetsUp`, `SetUpFails` |
| the scheduler, its retention, refresh and alert jobs | `StartsScheduler`, `JobStarts`, `JobEnds`, `SchedulerStops` |
| image checks | `AsksForOcr`, `Threads`, `GetsAnswer`, `TimesOut` |
| `_run_service_runners` | `RunnerEnds`, `Notices`, `PeerStops`, `Stops` |
| signals | `Interrupted`, `Killed` |
| `finally` clauses, end of `asyncio.run`, interpreter exit | `CleansUp`, `Disposes`, `Leaves`, `Exits` |
| `OperatorAlertHandler.emit`, `_send` | `Logs`, `Delivers`, `SendFails`, `Ticks` |

A timeout abandons the answer, not the thread: an item that no thread has picked up is
withdrawn, any other runs to its end. `_run_service_runners` is one wait, then
cancellation and a gather of the peers, then the results of those that had ended.
`CleansUp` only tells the scheduler to stop: `shutdown(wait=False)` of an
`AsyncIOScheduler` is posted to the event loop, so that a job may be under way, or even
start, until the loop runs `SchedulerStops`; that cancels the job, which ends at its
next await. Meanwhile `Disposes` closes the database, if need be under that job.
`Leaves` is the end of `run()`, of which the loop hears after what was posted before.
One job stands for all of them. `Killed` includes SIGTERM: uvicorn raises the signal
again once it has shut down, whose default action ends a process that is not PID 1. An
engine's build and its run end eventually (weak fairness of `Threads`).

### Deployment and SchemaHistory

`SchemaHistory` holds the fourteen migrations as what each statement does to a set of
cells (a column and whether it accepts NULL, or a key), the rows that 0002 and 0007
rewrite, and the schema the ORM models declare. `Deployment` is the production database
under its scripts.

| Code | Actions |
|---|---|
| `alembic upgrade head` in the container's command | `Starting`, `UnknownRevision`, `MigrateOne`, `MigrationFails`, `MigrationsCommit` |
| the container | `BecomesHealthy`, `Dies`, `RestartPolicy` |
| the service's first rows | `IsUsed` |
| `remote-update.sh` | `Pin`, `Pull`, `PullFails`, `ComposeUp`, `ComposeUpFails`, `Healthy`, `Unhealthy` |
| `backup.sh`, `restore.sh` | `Backup`, `Stop`, `Psql`, `PsqlFails` |
| by hand | `Downgrade` |

An image is named by its last revision; `tx` is what the migrating container sees until
its single transaction commits (`env.py`). Types, defaults and plain indexes are left
out, and one script runs at a time except for the backup. `meant` is history: what the
rows said when they were written.

## 4. Runs

| Run | Instance | Shows |
|---|---|---|
| `quota_web` | three web checks at one address, two of one browser, limit 2, two days, one fault, fair | every invariant of CheckQuota, that nobody is turned away by a passing increment, `ImplementsLedger`, and `EveryCheckEnds` through deadlocks, lost connections and a kill |
| `quota_bot` | three messages of one user, limit 1, deletion at any time, two days, one fault | the counts again, with a row that may vanish |
| `rules` | two requests, two rules (one shipped), one fault, fair job | the gate constraint and `InForceConverges` |
| `cards` | three requests, two cards (one shipped), two seconds, one fault | no trace of refused edits, publication, lasting deletions, the version stamp |
| `rules_refused` | three requests, no faults | *violation*: a refused edit that is stored |
| `pipeline` | thirty inputs, sixteen configurations, two packs, five cards, thirteen drafts | all promises of CheckPipeline |
| `links_labelled` | the same | *violation*: a label that does not reach the rules |
| `bot` | a user and a bystander, two updates at a time, two checks, restarts and failures at will, and either one new notice or one midnight | all properties of BotConversation |
| `web` | three requests with nine kinds of form through three ways to the process, one deploy, two sessions, one slot of the address | all properties of WebChannel |
| `editorial` | three saves of up to two posts under two slugs, eight forms (some only publish, withdraw or edit a draft), a session of two ticks, four ticks | all properties of Editorial |
| `process` | a check beside the warm-up on two threads, two scripts, a scheduled job, a window of two ticks, five deployments, fair | order of the exit, engines, `OneEndEndsAll`, `FaultsReachTheOperator` |
| `deploy` | releases 1, 8 and 14, two attempts, rows of either shape | all properties of Deployment |

Every property of a passing run has a mutant, a definition named `Mutant...` beside
the one it would replace, which shows that a plausible bug in that code is caught.

**Bounds.** Three checks are needed for one to fill a counter, one to be turned away
and one to settle meanwhile; two days for one midnight inside a check; a limit of 2
lets a row be partly used, a limit of 1 makes every interference a rejection. One
fault of any kind at any point: faults act on one transaction or on the whole
process, and a second one adds no new kind of state. Three operator requests are one
that creates a row and two that edit or delete it; two with the job already gate two
rules on each other; two entries give each rule something to gate on and each row
another id to be renamed to. Two seconds give two version stamps. `MaxDay`, `MaxFaults`
and `MaxClock` are the only bounds on counters. The theorems below do not depend on them.

The pipeline has no counter to bound: `_call_llm` makes two attempts and the model
makes two. Its instance has an input for every branch of the input stage and of the
language, and a link for every label: one letter replaced, left out or added, a
confusable letter, a nested suffix, a number for a host, a shortener, a user name with
and without a password, an official address. It has a rule with an exclusion, a gate on
a rule and one on a signal, one rule more than a gate needs to tell passes apart, five
cards for three places (two selected by facts, two by cues, one by a payment code, whose
wording the validator rejects), and a draft for every reason to reject one.

In BotConversation two updates at a time are one that reads and one that overtakes it,
or one sweep and one writer; two checks are what a usefulness could be mistaken for. All
retention periods are 0 there, so that one midnight expires whatever is older. One new
notice makes the old buttons stale. `MaxChanges` lets a behaviour have the notice or the
midnight, not both. Restarts and failures need no bound.

In WebChannel three requests are two that overlap and a later one that reads what they
left; a deploy changes the notice, or notice and secret; two sessions are what two
requests without a cookie mint. In Editorial two saves overlap and a third acts on what
they left; four ticks time two saves, a session and a cached cover. In ProcessLifecycle
the deployments are the check of the connection, a process without services, with the
web only, with the bot only and alerts, and with both; alerts add states and need the
bot, so they are on in one of the two, which is enough for `FaultsReachTheOperator`. Two
threads are two that race for the lock, two scripts an engine that is there while
another is not, and two ticks a window that outlives a failed send. In Deployment 1 is
the release before any migration of rows, 8 one after them, 14 the present one.

**Type invariants.** CheckQuota, OverrideStore, BotConversation, Deployment, WebChannel,
Editorial and OcrEngines state one. Those of the first four are theorems under the name
`TypeCorrect`, the others conjuncts of an inductive invariant that is proved. No run lists
them, since they say less than the properties that are listed.

**Deadlock.** It is not checked in CheckQuota, CheckPipeline, WebChannel, Editorial and
ProcessLifecycle, where every check, request, save or process ends, or the clock reaches
its bound, and the model stops with them. It is checked in OverrideStore, whose job never
ends, in BotConversation, where `/start` is always answered, and in Deployment, where a
container that is down can be deployed again.

**Fairness.** CheckQuota assumes that a check which has begun is scheduled by the
event loop (its provider calls are under `asyncio.wait_for`) and that PostgreSQL
fails one member of a deadlock after `deadlock_timeout`. Both are weak fairness of one
check's steps. No fault, no midnight and no deletion is fair. The override stores
assume only that the scheduler keeps running the refresh and that the database
answers it again and again: `run_rule_pack_refresh_job` swallows its errors and runs
at every interval. Nothing is assumed of operators, and their requests may stop
anywhere. ProcessLifecycle assumes that the event loop runs what is ready, that threads
run, that a cancelled service or job ends and that time passes, all weakly; and, strongly, that
Telegram does not refuse every alert of a kind for ever, without which no debounce could
promise anything. No service, signal or timeout is fair.

## 5. What the violations show

1. *Refused but stored* (`rules_admin.py:385`): a gate on a gated rule is found only
   by the merge after the commit. The operator reads an error, the row stays, and
   every later refresh fails until it is repaired.
2. *A label that is lost* (`rules/engine.py:169`): addresses are blanked out before
   links are read, so `https://name@host.tld` is an e-mail address by then and its
   `credentials-in-url` label never becomes a signal, though the comment at
   `rules/engine.py:62` promises one for every label.

Each is a disagreement with a docstring or comment, quoted in `PROJECT.json`.

The models and the properties that hold contain further places where the code does less
than some words say. They have no run of their own; the property named states what does
hold.

*Limits.* A refund computes its day anew (`repo.py:300`), so a check that spans midnight
frees a slot of the new day that it never took (`stray` in `AdmittedWithinLimit`). A web
check takes the IP row before the user row when it starts and after it when it settles
(`routes.py:487`); the deadlock's victim may be the settling check, whose refunds are
rolled back and not retried, and a killed check has none. `SlotsAreSettled` excepts both.

*Overrides.* A refresh served before an edit and resumed after it puts the older pack
back until the next scheduled one (`rules_store/apply.py:92`); `InForceConverges` says
when that ends. Of two edits from one reading, the later keeps the earlier one's value in
every column it does not change (`rules_store/repo.py:208`), so a stored row need not be
as any operator submitted it. The version stamp of the knowledge base
(`knowledge_store/apply.py:43`) does not move with a second edit in one second or with
the deletion of a row that is not the newest; `VersionFollowsEdits` says when it does. A
knowledge override has no `localized` field (`knowledge_store/repo.py`, `as_card`), so
editing a shipped card drops its reviewed wording; no shipped card has any yet. The editor
accepts empty `verify_steps` and `questions`, which the YAML loader refuses.

*Pipeline.* A card's wording, which names its source, is merged in before grounding is
judged (`pipeline.py:718`). A model that names no source then loses its own warning signs
and the gap is not reported, though `docs/PIPELINE_V2.md:104` keeps such drafts whole.
The second attempt is prompted by `_retry_system_prompt` (`pipeline.py:923`), which does
not contain the system prompt of the first: the output shape and the notice that the
content is untrusted, which `docs/PRODUCT_GUIDE.md:164` places there, are not sent again.
`docs/DATA_FLOW.md:89` says a status that never reached the model refunds the slot, but
`low_ocr` is billable, also when several QR codes were found and OCR never ran. The
comment at `pipeline.py:82` says the meta reply comes before any provider is touched, but
an image has been through OCR by then. `docs/PIPELINE_V2.md:88` records
`UNGROUNDED_RED_FLAG` for any dropped bullet, the code only when required flags end up
empty. The prompt words the hits with the pack in force by then (`prompt.py:134`), which
need not be the one that fired; only wording can differ. Only an address that carries no
other brand and no public suffix inside is harmless: `url.py:286` asks each brand for its
own domains, so a subdomain of one brand that names another one is labelled a lookalike,
and `url.py:291` labels an official subdomain such as `com.` under a brand's own domain;
hence `Harmless` in `LinksAreRead`.

*Conversation.* A check or an answer under way during `/delete_my_data` (`repo.py:326`),
or an answer during the cleanup (`retention.py:73`), still writes its row. Feedback that
has lost its check cannot be found by its user any more, neither by the next erasure nor
by a tap, and stays until it expires. And of two quick first taps on one check, or two
acceptances of the first notice, both insert, so that one of them ends in an error
although the row is there (`repo.py:224`, `repo.py:71`).

*Web.* The check form does not name the notice it shows (`routes.py:506`), so ticking an
old page accepts the new notice. A refusal by an exception sets no cookie
(`routes.py:512`): the first acceptance of a browser that had none is then a row nobody
can name, and the user is asked again; `AcceptanceOutlivesRefusals` is per session.

*Editorial.* `repo.py:135` says that the first publication time is preserved; two
overlapping first publications overwrite it. A draft saved over a publication it had not
read publishes its text, and so does a save that only publishes over a draft it had not
read: the draft's own save overtook nobody, the one that published it did. And a
replacement that overlaps a removal may lose the cover. `SavedAsSubmitted` and
`DraftsStayPrivate` except saves that overtook another. Logging out clears the cookie of
that browser only. On an `IntegrityError` of an update, `editorial.py:393` renders the
form from an object that the rollback has expired.

*Process.* `main.py:90` tells the scheduler to stop and waits for no job, so that
`engine.dispose` (`main.py:92`) may run under a refresh or a cleanup; `ExitIsOrderly`
says what does hold: the scheduler was told, and no job outlives a process that ends by
itself. `main.py:140` says that a signal runs the shutdown hooks of both services.
uvicorn raises SIGTERM again when it has shut down, which in a container with `init:
true` (`docker-compose.prod.yml:88`) ends the process before the bot is cancelled and
the engine disposed (`Killed`). An alert that Telegram refuses is not sent again and
still silences its kind for a window (`alerts.py:61`); faults of the rule pack and of QR
never alert (`alerts.py:26`).

*Deployment.* `remote-update.sh:8` calls a rollback safe, but an older image cannot locate
the newer revision and restarts until somebody downgrades; nothing is served meanwhile,
which is what `ServedSchemaFits` asks. A failed pull leaves `.env` pinned to the image
that is not there. `backup.sh:32` says a dump may be restored over an existing schema: the
tables that are newer than the dump stay, and the next upgrade fails when it creates them
again, so `MigrationsCanBeUndone` is about databases that were never restored. The comment
at `0007_drop_face.py:65` says that counters are merged; one of them is dropped.

## 6. What is proved

Every invariant and every action property that a passing run lists is a theorem about all
behaviours of its specification, for every value of the constants that the named
assumptions allow; one of them, `RefusalsLeaveNoTrace`, has a hypothesis besides. Few of
them are inductive; below is what each had to be strengthened with, and why. A few
theorems state what no run checks: properties of operators for every argument, and
consequences of the others.

**CheckQuotaProofs**, for any finite set of checks, any keys, limits, days and faults.
`TypeCorrect`, `CountsMatch`, `LimitHolds` and `NoLockDuringStages` come from `IInv`. It
adds that a row nobody has locked is the same in `working` and `stored`, that a check not
yet charged is in no row, and which outcomes each label admits; this rules out that one
check is charged twice on a row, and without it the counts do not follow. Each action has
its lemma; the arguments about finite sets are in the lemmas on a row that is charged,
uncharged or cleared. `SlotsSettled` and `RejectedWhenFull` come from `SInv`, which adds
for each check its `Standing`: on which rows it is charged at each point, committed or in
its transaction, that an open transaction changed nobody else's charge, and that a stray
refund is never taken back. That is what is lost when a refund meets another day's row or
an erasure. `LedgerImplemented` is the refinement of `QuotaLedger`: `SInv` says that a
commit moves its rows by at most one entry each, so that every step of the detailed
specification is a posting, a new day or a stutter; locks, rollbacks and increments that
are taken back map to stutters. `CountersWithinLimit` draws the conclusion: the ledger
keeps every row of today within its limit (by `Covered`, which has to say it of the days
to come as well, since midnight makes one of them today), so the committed counters do.

**OverrideStoreProofs**, for any columns, drafts, requests and bounds, and for any `Merge`
and any `Acceptable` that accepts the baseline: `TypeCorrect` (with it, every column of a
stored row was submitted by some operator), `InForceAcceptable`, `EditsPublished` and
`DeletionsLast`. `InForceAcceptable` is inductive. `EditsPublished` rests on
`ReadsItsOwnWrite`: a request's refresh is served at least the edition that its write
made. `RefusalsLeaveNoTrace` has a hypothesis, that every snapshot can be built. It holds
of knowledge cards, which are validated one by one, and not of the rule pack, where run
`rules_refused` shows the violation; its invariant is `RefusedBeforeTheWrite`.
`RefusalsExplained` says what is left of it without the hypothesis: a stored edit is
answered with an error only because the rows that its own refresh was served, none older
than the edit, make no snapshot, and what is in force stays. `JobPublishesTheStore` is the
safety half of `InForceConverges`: from `JobReadsTheTable` (a refresh of the job that no
write has overtaken holds the stored rows), one such refresh puts in force what is stored,
and when every request has ended only a restart undoes that.
`VersionMoves` is about `KnowledgeStore`: the version depends on the newest stamp, and an
edit in a later second than all of them has the newest one alone.

**CheckPipelineProofs**, for any inputs, configurations, packs, cards, wording, sentences,
drafts, proposals, links and brands. On the algorithms: `TwoPasses` (since gates name
ungated rules only, the second pass cannot open a gate), `PreviewIsProduction`,
`BestCardsRetrieved` (retrieval returns the first three of a strict total order, in that
order), and `OneLetterIsFound` (the scan with two cursors finds exactly the words that are
equal or one letter apart). On the state machine:

* `RulesAlwaysAgree` adds that only packs from `Packs` are ever in force;
* `FactsOutrank` and `ShownSafe` follow once the five ways in which a step may end a check
  are known (`Endings`), the second by `AcceptableIsSafe`, which takes the validator's
  verdict on a draft apart into one on each sentence;
* `QrHonoured` comes from `QrKept`, which follows a decoded code from the decoder to the
  end of the check;
* `SpendAccounted` comes from `Accounted`: which calls the history may hold at each stage,
  that `tokens` counts the answers in it, and that `attempt` counts the drafts, without
  which the bound of two does not follow;
* `AnswerGrounded` comes from `Resting`: what was retrieved stays what the hits, signals
  and cues of this check asked for, and the router is only asked when they ask for
  nothing. Most of it is about the step that finishes an answer: that the ranking is a
  permutation that puts mandatory cards first, and that merging, filtering and cutting
  keep the first card's signs and every citation's ground;
* `BestCardsFound` adds (`FoundIsRetrieved`) that the cards found are those retrieved for
  the hits, signals and text that the check still has: none of them changes between the
  retrieval and the answer;
* `LinksRead` comes from `LinksSeen`: at the awaits the signals contain what the links of
  the text leave, and no deception besides but what a rule emitted. The rest is that the
  early returns of `classify_link` label every imitation (`LookalikeIs`, `ClassifyIs`,
  with `OneLetterIsFound`).

`PacksAssumption` is what `validate_requires_graph` enforces on every published pack, and
what `InForceAcceptable` shows of the store: `AcceptedPacksAreSound` says that the store's
condition on a pack, kept by id, and the engine's are the same. `PrecedesAssumption` says that card ids are
ordered, `WordingAssumption` and `DraftsAssumption` what the loader and the draft's schema
enforce, `SpellingAssumption` and `TokensAssumption` that hosts, brands and confusables
are written in one alphabet and that no token is the label of a link.

**BotConversationProofs**, for any users, checks, languages and notices and however many
updates overlap: `TypeCorrect`, `ConsentKept`, `ErasureHolds`, `FeedbackIsTrue` and
`OrphansAreOvertaken`, all from one `IInv`. Its core is `TasksHold`, what a task may rely
on of a row it read before an `await`. In particular (`GrantIsFresh`) the row that an
upsert read still has its notice or has been given the upsert's own, so that an update
that skips unchanged columns never mixes two notices; and (`SweepIsComplete`) feedback
that a deletion has not found is known as stray.

**WebChannelProofs**, for any requests, forms, addresses, servers, deploys and sessions:
`EntitledAlways`, `AddressesLimited`, `AcceptanceOutlives`, `OneUser`. `ConsentGiven`
says that every row is an acceptance that `agreed` has and that who comes to write one
ticked the box, whence whoever is past the gate has consented. `ConsentHolds` is about
the rows: once a request is past the consent, its row is that of the notice in force or
has expired, and what the request itself wrote cannot have expired yet; another notice
comes in force only by a deploy, which ends what is in flight. `SourceAssumption` says
that the proxy in front reports an address in one of the two ways that
`client_ip_from_request` reads.

**EditorialProofs**, for any saves, forms, posts and slugs: `Stamped`, `DraftsPrivate`,
`CoversCurrent` and `Submitted`. `SavesFiled` says that no two saves have the same time
and that a prepared cover is the one asked for; `ReadsHold` that a publication time once
read is never NULL again; `RowsSaved` that a row is the work of its last save, with that
one's state and text if it overtook nobody, and `PageSaved` the same of what a reader
sees, so that `DraftsPrivate` names the save that published the page; from these a
cover's address is only ever given by one save.

**ProcessLifecycleProofs**, for any checks, scripts, threads and kinds of alert:
`LoadedOnce` and `LockIsExclusive` from `OcrInv`, whose `BuildersAreFirst` says that who
builds, builds what is not there; `OrderlyExit` from `RunInv`: a serving runner is left
behind only by a signal, no service and no awaited warm-up is left when the database
closes, the scheduler has been told to stop by then, a job may still run but is waited
for before the process ends, and a failure is known to whoever waits.

**DeploymentProofs**, for any releases, rows and attempts: `TypeCorrect` and `RowsKept`
from `RowsInv`, `ServedFits` and `CanBeUndone` from `RowsInv` and `SchemaInv`. The
fourteen schemas are written out as sets of cells, each migration is shown to lead from
one to the next and (`Undoable`) back, and the last one to be what the ORM models declare.
`SchemaInv` carries this through deploys, failures and restores: a restored database may
have tables of later revisions, but those its own revision knows are as on a clean one.
`RowsInv` needs to say it of the migration under way, the dump and a restore under way
too, since each of them becomes the database. The rows of 0002 and 0007 are sets of any
size, of which the newest per key is kept; `FacesAssumption` says that the order by which
ties are broken is one.

*How recursion over data is reached.* The induction theorems of the library take an
operator as a parameter, which the provers cannot instantiate. Where a proof needs
induction it takes the least counterexample in a set of natural numbers (`Least`, from
well-foundedness) and refutes it. The recursive scan of the edit distance has a closed
form (`Count`, by the first place where the words differ), which is shown to satisfy the
recursion, and to be the only function that does; the chain of fourteen migrations is
unrolled.

**Only model-checked**: liveness, that is `EveryCheckEnds`, `InForceConverges`,
`OneEndEndsAll` and `FaultsReachTheOperator`, which under fairness is out of the prover's
reach; and the two violations, which are counterexamples. The theorems are about the same
definitions that the runs check, so they rest on the same abstractions (section 3).

## 7. Not modelled

* Recognition inside OCR and QR, and the recoding of uploads: libraries, whose outcomes
  are inputs.
* The HTTP call to the model and the assembly of its prompt: no state; its outcomes are
  inputs of CheckPipeline, what the prompt may contain is `seen`.
* The regular expressions of rules, scans and minimisation, Unicode normalisation: they
  work on characters; the models take what they find as given.
* Metrics and labels (read-only queries), log lines, page copy and layout, sharing, static
  files.
* The `deletion_log`, which nobody reads, and the expiry of `rate_limit` rows of past days.
* Command-line tools, which do not run with the service.

PostgreSQL is modelled from how the code uses it: READ COMMITTED, row locks until the end
of a transaction, deadlock detection, unique constraints. aiogram, uvicorn, asyncio and
Docker are modelled likewise, by what the code relies on.
