-------------------------- MODULE ProcessLifecycle --------------------------
(***************************************************************************)
(* The process (app/main.py): it connects, starts the scheduler, the       *)
(* warm-up and the two services, and stops everything once one of them     *)
(* ends. Image checks run on its worker threads (OcrEngines), and their    *)
(* faults reach the operator over Telegram (app/obs/alerts.py), at most    *)
(* one of a kind per window.                                               *)
(***************************************************************************)
EXTENDS OcrEngines

CONSTANTS
    SettingsSet,  \* checkOnly, web, bot, alerts
    Kinds,        \* the stages and error types that a fault may be logged with
    Debounce      \* operator_alert_debounce_s

ASSUME DebounceAssumption == Debounce \in Nat \ {0}
ASSUME KindsAssumption == Kinds # {} /\ "none" \notin Kinds
ASSUME SettingsAssumption ==
    \A s \in SettingsSet : {s.checkOnly, s.web, s.bot, s.alerts} \subseteq BOOLEAN

VARIABLES
    settings,
    phase,      \* where run() is
    runners,    \* the two services
    done,       \* the ones that asyncio.wait returned as done
    scheduler,  \* off, on, or told to stop by a call that the loop has yet to run
    jobRuns,    \* a scheduled job (retention, refreshes, availability) is under way
    dbOpen,     \* engine.dispose has not run
    status,     \* how the process ends
    left,       \* for each kind, what is left of its window
    outbox,     \* alerts on their way
    told,       \* kinds that reached the operator in their window
    logged      \* history: the kind of fault logged last

schedulerVars == <<scheduler, jobRuns>>
runVars == <<settings, phase, runners, done, schedulerVars, dbOpen, status>>
alertVars == <<left, outbox, told, logged>>
vars == <<ocrVars, runVars, alertVars>>

Services == {"web", "bot"}
NoKind == "none"
Live == {"serving", "cancelling"}
Enabled(s) == IF s = "web" THEN settings.web ELSE settings.bot
Serving == phase = "serving" /\ \E s \in Services : runners[s] = "serving"

Init ==
    /\ OcrInit
    /\ settings \in SettingsSet
    /\ phase = "boot"
    /\ runners = [s \in Services |-> "none"]
    /\ done = {}
    /\ scheduler = "off"
    /\ jobRuns = FALSE
    /\ dbOpen = TRUE
    /\ status = "ok"
    /\ left = [k \in Kinds |-> 0]
    /\ outbox = {}
    /\ told = {}
    /\ logged = NoKind

-----------------------------------------------------------------------------
(* OperatorAlertHandler *)

\* Bug: a fault that is held back still starts its window again.
MutantStamps(k) == TRUE

\* A window begins with the alert that it lets through.
Stamps(k) == left[k] = 0

\* emit: the window begins before the alert is sent, and it is sent once. Without
\* the handler a fault is only logged.
Logs(k) ==
    /\ logged' = k
    /\ IF settings.bot /\ settings.alerts
       THEN /\ outbox' = IF left[k] = 0 THEN outbox \cup {k} ELSE outbox
            /\ left' = IF Stamps(k) THEN [left EXCEPT ![k] = Debounce] ELSE left
       ELSE UNCHANGED <<left, outbox>>
    /\ UNCHANGED told

LogsNothing == UNCHANGED alertVars

Delivers(k) ==
    /\ k \in outbox
    /\ outbox' = outbox \ {k}
    /\ told' = told \cup {k}
    /\ UNCHANGED <<left, logged, ocrVars, runVars>>

\* Telegram refuses: the task's exception is never retrieved, and nothing is retried.
SendFails(k) ==
    /\ k \in outbox
    /\ outbox' = outbox \ {k}
    /\ UNCHANGED <<left, told, logged, ocrVars, runVars>>

\* Time passes: a window that is over no longer counts as told.
Ticks ==
    /\ phase = "serving"
    /\ left' = [k \in Kinds |-> IF left[k] = 0 THEN 0 ELSE left[k] - 1]
    /\ told' = {k \in told : left[k] > 1}
    /\ logged' = NoKind
    /\ UNCHANGED <<outbox, ocrVars, runVars>>

-----------------------------------------------------------------------------
(* Boot *)

Connects ==
    /\ phase = "boot"
    /\ phase' = IF settings.checkOnly THEN "closing" ELSE "setup"
    /\ LogsNothing /\ UNCHANGED <<ocrVars, settings, runners, done, schedulerVars, dbOpen, status>>

ConnectFails ==
    /\ phase = "boot"
    /\ phase' = "closing"
    /\ status' = "error"
    /\ LogsNothing /\ UNCHANGED <<ocrVars, settings, runners, done, schedulerVars, dbOpen>>

StartsScheduler == scheduler' = "on" /\ UNCHANGED jobRuns

\* The warm-up begins beside the services; with none of them the process idles.
SetsUp ==
    /\ phase = "setup"
    /\ StartsScheduler
    /\ Submits(Warmup)
    /\ runners' = [s \in Services |-> IF Enabled(s) THEN "serving" ELSE "none"]
    /\ phase' = IF settings.web \/ settings.bot THEN "serving" ELSE "idling"
    /\ LogsNothing /\ UNCHANGED <<settings, done, dbOpen, status>>

\* build_bot refuses the token: the warm-up is cancelled before it began.
SetUpFails ==
    /\ phase = "setup" /\ settings.bot
    /\ StartsScheduler
    /\ phase' = "cleanup"
    /\ status' = "error"
    /\ LogsNothing /\ UNCHANGED <<ocrVars, settings, runners, done, dbOpen>>

-----------------------------------------------------------------------------
(* The scheduled jobs: coroutines of the event loop, with sessions of their own *)

\* The loop may have woken the scheduler before it runs the call that stops it.
JobStarts ==
    /\ scheduler # "off" /\ ~jobRuns
    /\ phase # "exited"
    /\ jobRuns' = TRUE
    /\ LogsNothing
    /\ UNCHANGED <<ocrVars, settings, phase, runners, done, scheduler, dbOpen, status>>

\* Its fault is logged, unless it ends because it is cancelled.
JobEnds ==
    /\ jobRuns /\ phase # "exited"
    /\ jobRuns' = FALSE
    /\ \/ LogsNothing
       \/ scheduler # "off" /\ \E k \in Kinds : Logs(k)
    /\ UNCHANGED <<ocrVars, settings, phase, runners, done, scheduler, dbOpen, status>>

\* The loop runs the posted shutdown: no job starts any more, and one that is under
\* way is cancelled, to end at its next await.
SchedulerStops ==
    /\ scheduler = "stopping"
    /\ scheduler' = "off"
    /\ LogsNothing
    /\ UNCHANGED <<ocrVars, settings, phase, runners, done, jobRuns, dbOpen, status>>

-----------------------------------------------------------------------------
(* Image checks and the warm-up *)

AsksForOcr(c) ==
    /\ Serving
    /\ Submits(c)
    /\ LogsNothing /\ UNCHANGED runVars

Threads(j) == phase # "exited" /\ Works(j) /\ LogsNothing /\ UNCHANGED runVars

GetsAnswer(j) ==
    /\ Hears(j)
    /\ IF work[j] = "failed" THEN \E k \in Kinds : Logs(k) ELSE LogsNothing
    /\ UNCHANGED runVars

TimesOut(c) ==
    /\ c \in waiting
    /\ work[c] \notin {"done", "failed"}
    /\ Abandons({c})
    /\ \E k \in Kinds : Logs(k)
    /\ UNCHANGED runVars

-----------------------------------------------------------------------------
(* _run_service_runners, and what run() does last *)

Finished == {s \in Services : runners[s] \in {"returned", "failed"}}

\* A service ends by itself: uvicorn was told to, or either raises.
RunnerEnds(s) ==
    /\ runners[s] = "serving"
    /\ \E outcome \in {"returned", "failed"} : runners' = [runners EXCEPT ![s] = outcome]
    /\ LogsNothing /\ UNCHANGED <<ocrVars, settings, phase, done, schedulerVars, dbOpen, status>>

CancelServing ==
    runners' = [s \in Services |-> IF runners[s] = "serving" THEN "cancelling" ELSE runners[s]]

\* asyncio.wait returns whatever is done by then; the peers are cancelled.
Notices ==
    /\ phase = "serving"
    /\ Finished # {}
    /\ done' = Finished
    /\ CancelServing
    /\ phase' = "stopping"
    /\ LogsNothing /\ UNCHANGED <<ocrVars, settings, schedulerVars, dbOpen, status>>

\* SIGINT cancels the main task, and the finally clause its services. (In a process with
\* the bot only, until aiogram has taken the signal over, to end its polling.)
Interrupted ==
    /\ phase \in {"serving", "idling"}
    /\ status' = "interrupted"
    /\ CancelServing
    /\ phase' = "stopping"
    /\ LogsNothing /\ UNCHANGED <<ocrVars, settings, done, schedulerVars, dbOpen>>

\* A cancelled service runs its shutdown hooks; what they raise is not looked at.
PeerStops(s) ==
    /\ runners[s] = "cancelling"
    /\ runners' = [runners EXCEPT ![s] = "stopped"]
    /\ LogsNothing /\ UNCHANGED <<ocrVars, settings, phase, done, schedulerVars, dbOpen, status>>

\* gather
PeersAreAwaited == \A s \in Services : runners[s] \notin Live

\* Bug: the peers are looked at, and the one that ended is not.
MutantFailedFirst == {s \in Services \ done : runners[s] = "failed"}

\* task.result() of what was done raises what it raised.
FailedFirst == {s \in done : runners[s] = "failed"}

Stops ==
    /\ phase = "stopping"
    /\ PeersAreAwaited
    /\ status' = IF FailedFirst # {} THEN "error" ELSE status
    /\ phase' = "cleanup"
    /\ LogsNothing /\ UNCHANGED <<ocrVars, settings, runners, done, schedulerVars, dbOpen>>

\* The warm-up is cancelled and awaited, which does not stop its thread. The
\* scheduler's shutdown(wait=False) is only posted to the loop, and no job is awaited.
CleansUp ==
    /\ phase = "cleanup"
    /\ Abandons({Warmup})
    /\ scheduler' = "stopping"
    /\ phase' = "closing"
    /\ LogsNothing /\ UNCHANGED <<settings, runners, done, jobRuns, dbOpen, status>>

\* engine.dispose, under a job that may still be at the database.
Disposes ==
    /\ phase = "closing"
    /\ dbOpen' = FALSE
    /\ phase' = "leaving"
    /\ LogsNothing /\ UNCHANGED <<ocrVars, settings, runners, done, schedulerVars, status>>

\* run() is over, which the loop hears of after what was posted to it before; then
\* asyncio.run cancels the checks that outlived their service, a job, and the alerts
\* on their way.
Leaves ==
    /\ phase = "leaving" /\ scheduler # "stopping"
    /\ Abandons(Jobs)
    /\ outbox' = {}
    /\ phase' = "draining"
    /\ UNCHANGED <<settings, runners, done, schedulerVars, dbOpen, status, left, told, logged>>

\* asyncio.run awaits what it cancelled, and the interpreter joins the threads of the
\* executor.
Exits ==
    /\ phase = "draining"
    /\ Busy = {} /\ ~jobRuns
    /\ phase' = "exited"
    /\ LogsNothing /\ UNCHANGED <<ocrVars, settings, runners, done, schedulerVars, dbOpen, status>>

\* The process is killed: with SIGKILL, or with SIGTERM, which uvicorn handles and
\* then raises again for its default action, before the bot hears of it. (Without
\* uvicorn aiogram handles SIGTERM and ends its polling.)
Killed ==
    /\ phase = "serving"
    /\ phase' = "exited"
    /\ status' = "signal"
    /\ Abandons(Jobs)
    /\ outbox' = {}
    /\ UNCHANGED <<settings, runners, done, schedulerVars, dbOpen, left, told, logged>>

Next ==
    \/ Connects \/ ConnectFails \/ SetsUp \/ SetUpFails
    \/ Notices \/ Interrupted \/ Stops \/ CleansUp \/ Disposes \/ Leaves \/ Exits
    \/ Killed \/ Ticks \/ JobStarts \/ JobEnds \/ SchedulerStops
    \/ \E s \in Services : RunnerEnds(s) \/ PeerStops(s)
    \/ \E c \in Calls : AsksForOcr(c) \/ TimesOut(c)
    \/ \E j \in Jobs : Threads(j) \/ GetsAnswer(j)
    \/ \E k \in Kinds : Delivers(k) \/ SendFails(k)

\* The event loop runs what is ready, threads run, a cancelled service or job ends,
\* time passes; and Telegram does not refuse every alert for ever.
Fairness ==
    /\ WF_vars(Notices) /\ WF_vars(Stops) /\ WF_vars(CleansUp) /\ WF_vars(Disposes)
    /\ WF_vars(Leaves) /\ WF_vars(Exits) /\ WF_vars(Ticks)
    /\ WF_vars(SchedulerStops) /\ WF_vars(scheduler = "off" /\ JobEnds)
    /\ \A s \in Services : WF_vars(PeerStops(s))
    /\ \A j \in Jobs : WF_vars(Threads(j)) /\ WF_vars(GetsAnswer(j))
    /\ \A k \in Kinds : SF_vars(Delivers(k))

Spec == Init /\ [][Next]_vars
FairSpec == Spec /\ Fairness

-----------------------------------------------------------------------------
(* Properties *)

\* When the database is closed no service is still shutting down on it, nobody awaits
\* the warm-up and the scheduler was told to stop. A job may still be at the database
\* then, and even start; but the process does not end under it (main.run,
\* _run_service_runners).
ShutdownIsOrderly ==
    /\ ~dbOpen => /\ \A s \in Services : runners[s] \notin Live
                  /\ Warmup \notin waiting
                  /\ scheduler # "on"
    /\ phase = "exited" /\ status # "signal" => scheduler = "off" /\ ~jobRuns

\* A service that failed while the process was serving ends it with an error, though
\* its peer may have ended well at the same moment; only a signal hides it.
FailuresAreReported ==
    phase = "exited" /\ (\E s \in Services : runners[s] = "failed") =>
        status \in {"error", "interrupted", "signal"}

\* Resources are closed in order, and the exit status tells what went wrong.
ExitIsOrderly == ShutdownIsOrderly /\ FailuresAreReported

\* Once a service has ended, the process ends, whatever checks, threads and alerts
\* are under way.
OneEndEndsAll == (Finished # {}) ~> (phase = "exited")

\* With alerts on, a fault that keeps being logged keeps reaching the operator, though
\* an alert that failed is not sent again and silences its kind for a window.
FaultsReachTheOperator ==
    \A k \in Kinds :
        (settings.bot /\ settings.alerts /\ []<>(phase = "serving" /\ logged = k))
            => []<>(k \in told)

=============================================================================
