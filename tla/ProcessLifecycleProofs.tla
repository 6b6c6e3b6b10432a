----------------------- MODULE ProcessLifecycleProofs -----------------------
(***************************************************************************)
(* Theorems of OcrEngines and ProcessLifecycle: an engine is built once    *)
(* whatever calls meet on its lock, and the process closes in order and    *)
(* exits with the truth, for any number of calls, scripts, threads and     *)
(* kinds of faults.                                                        *)
(***************************************************************************)
EXTENDS ProcessLifecycle, TLAPS

-----------------------------------------------------------------------------
(* The engines *)

\* Who builds, builds what is not there: nobody else is past the lock to build it.
BuildersAreFirst == \A j \in Jobs : work[j] = "build" => script[j] \notin engines

OcrInv == OcrTypeOK /\ OneInside /\ BuildersAreFirst /\ EnginesLoadOnce

\* The steps of the calls, with the fewest that make up the others.
OcrNext ==
    \/ \E j \in Jobs : Submits(j) \/ Works(j) \/ Hears(j)
    \/ \E js \in SUBSET Jobs : Abandons(js)

LEMMA OcrInvInit == OcrInit => OcrInv
BY PoolAssumption, WarmupAssumption
   DEF OcrInit, OcrInv, OcrTypeOK, OneInside, BuildersAreFirst, EnginesLoadOnce,
       Stages, OnThread, Inside, Jobs

LEMMA OcrInvStep ==
    ASSUME OcrInv, OcrNext
    PROVE  OcrInv'
<1> USE DEF OcrInv, OcrTypeOK, OneInside, BuildersAreFirst, EnginesLoadOnce, Stages, OnThread,
        Inside, Moves
<1>0. NoOne \notin Jobs
  BY WarmupAssumption DEF Jobs
<1>1. ASSUME NEW j \in Jobs, Submits(j) PROVE OcrInv'
  BY <1>1, PoolAssumption DEF Submits
<1>2. ASSUME NEW j \in Jobs, Picks(j) \/ Looks(j) PROVE OcrInv'
  BY <1>2 DEF Picks, Looks
<1>3. ASSUME NEW j \in Jobs, Locks(j) PROVE OcrInv'
  BY <1>0, <1>3 DEF Locks
<1>4. ASSUME NEW j \in Jobs, Rechecks(j) PROVE OcrInv'
  BY <1>0, <1>4 DEF Rechecks, IsBuilt
<1>5. ASSUME NEW j \in Jobs, Builds(j) PROVE OcrInv'
  <2>1. holder = j /\ script[j] \notin engines /\ script[j] \in 1..Scripts
    BY <1>5 DEF Builds
  <2>2. \A i \in Jobs \ {j} : work[i] \notin {"check", "build"}
    BY <2>1
  <2>3. loads[script[j]] = 0
    BY <2>1
  <2>4. /\ loads' = [loads EXCEPT ![script[j]] = 1]
        /\ engines' = engines \cup {script[j]}
    BY <1>5, <2>3 DEF Builds
  <2>5. EnginesLoadOnce'
    BY <2>1, <2>4
  <2>6. OcrTypeOK'
    <3>1. loads' \in [1..Scripts -> Nat] /\ engines' \subseteq 1..Scripts
      BY <2>1, <2>4
    <3>2. work' \in [Jobs -> Stages] /\ script' = script /\ waiting' = waiting /\ holder' = NoOne
      BY <1>5 DEF Builds
    <3> QED
      BY <3>1, <3>2
  <2>7. OneInside'
    BY <1>0, <1>5, <2>1 DEF Builds
  <2>8. BuildersAreFirst'
    BY <1>5, <2>1, <2>2 DEF Builds
  <2> QED
    BY <2>5, <2>6, <2>7, <2>8
<1>6. ASSUME NEW j \in Jobs, BuildFails(j) PROVE OcrInv'
  BY <1>0, <1>6 DEF BuildFails, Ends
<1>7. ASSUME NEW j \in Jobs, Runs(j) PROVE OcrInv'
  <2>1. CASE script[j] < Scripts /\ script' = [script EXCEPT ![j] = @ + 1] /\ Moves(j, "look")
    <3>1. script[j] + 1 \in 1..Scripts
      BY <2>1, PoolAssumption
    <3>2. OcrTypeOK'
      BY <1>7, <2>1, <3>1 DEF Runs
    <3>3. OneInside' /\ BuildersAreFirst' /\ EnginesLoadOnce'
      BY <1>7, <2>1 DEF Runs
    <3> QED
      BY <3>2, <3>3
  <2>2. CASE Ends(j, "done") /\ UNCHANGED script
    BY <1>7, <2>2 DEF Runs, Ends
  <2> QED
    BY <1>7, <2>1, <2>2 DEF Runs
<1>8. ASSUME NEW j \in Jobs, RunFails(j) \/ Hears(j) PROVE OcrInv'
  BY <1>8 DEF RunFails, Hears, Ends
<1>9. ASSUME NEW js \in SUBSET Jobs, Abandons(js) PROVE OcrInv'
  BY <1>9 DEF Abandons
<1> QED
  BY <1>1, <1>2, <1>3, <1>4, <1>5, <1>6, <1>7, <1>8, <1>9 DEF OcrNext, Works

\* The process does nothing to the engines but what the calls do.
LEMMA OcrSteps ==
    ASSUME [Next]_vars
    PROVE  OcrNext \/ UNCHANGED ocrVars
<1>1. Warmup \in Jobs /\ Calls \subseteq Jobs
  BY DEF Jobs
<1>2. ASSUME NEW c \in Calls, AsksForOcr(c) \/ TimesOut(c) PROVE OcrNext
  BY <1>1, <1>2 DEF AsksForOcr, TimesOut, OcrNext
<1>3. ASSUME NEW j \in Jobs, Threads(j) \/ GetsAnswer(j) PROVE OcrNext
  BY <1>3 DEF Threads, GetsAnswer, OcrNext
<1>4. CASE SetsUp \/ CleansUp \/ Leaves \/ Killed
  BY <1>1, <1>4 DEF SetsUp, CleansUp, Leaves, Killed, OcrNext
<1>5. CASE Connects \/ ConnectFails \/ SetUpFails \/ Notices \/ Interrupted \/ Stops \/ Disposes \/ Exits
           \/ Ticks \/ JobStarts \/ JobEnds \/ SchedulerStops
  BY <1>5 DEF Connects, ConnectFails, SetUpFails, Notices, Interrupted, Stops, Disposes, Exits,
     Ticks, JobStarts, JobEnds, SchedulerStops
<1>6. ASSUME NEW s \in Services, RunnerEnds(s) \/ PeerStops(s) PROVE UNCHANGED ocrVars
  BY <1>6 DEF RunnerEnds, PeerStops
<1>7. ASSUME NEW k \in Kinds, Delivers(k) \/ SendFails(k) PROVE UNCHANGED ocrVars
  BY <1>7 DEF Delivers, SendFails
<1>8. CASE UNCHANGED vars
  BY <1>8 DEF vars
<1> QED
  BY <1>2, <1>3, <1>4, <1>5, <1>6, <1>7, <1>8 DEF Next

LEMMA OcrInvariance == Spec => []OcrInv
<1>1. Init => OcrInv
  BY OcrInvInit DEF Init
<1>2. OcrInv /\ [Next]_vars => OcrInv'
  <2>1. OcrInv /\ UNCHANGED ocrVars => OcrInv'
    BY DEF OcrInv, OcrTypeOK, OneInside, BuildersAreFirst, EnginesLoadOnce, ocrVars
  <2> QED
    BY <2>1, OcrInvStep, OcrSteps
<1> QED
  BY <1>1, <1>2, PTL DEF Spec

\* RapidOcrProvider._engine: however many checks and the warm-up find an engine
\* missing at once, whichever builds fail and whichever callers give up, no model is
\* loaded twice, and none is kept that was not loaded.
THEOREM LoadedOnce == Spec => []EnginesLoadOnce
<1>1. OcrInv => EnginesLoadOnce
  BY DEF OcrInv
<1> QED
  BY <1>1, OcrInvariance, PTL

\* The lock is held by exactly the thread that is past it, so that a build that fails
\* leaves it free.
THEOREM LockIsExclusive == Spec => []OneInside
<1>1. OcrInv => OneInside
  BY DEF OcrInv
<1> QED
  BY <1>1, OcrInvariance, PTL

-----------------------------------------------------------------------------
(* The end of the process *)

RunnerStates == {"none", "serving", "returned", "failed", "cancelling", "stopped"}
Reported == status \in {"error", "interrupted", "signal"}

RunOK ==
    /\ runners \in [Services -> RunnerStates]
    /\ scheduler \in {"off", "on", "stopping"}
    /\ jobRuns \in BOOLEAN /\ dbOpen \in BOOLEAN
    /\ done \subseteq Services

\* The services are started once, and a serving one is left behind only by a signal.
ServicesFollow ==
    \A s \in Services :
        /\ phase \in {"boot", "setup", "idling"} => runners[s] = "none"
        /\ runners[s] = "serving" => phase = "serving" \/ (phase = "exited" /\ status = "signal")
        /\ phase \in {"cleanup", "closing", "leaving", "draining"} => runners[s] \notin Live

\* What was started is told to stop before the process closes, and has stopped before
\* it exits by itself.
ClosesLast ==
    /\ phase \in {"boot", "setup"} => scheduler = "off" /\ Warmup \notin waiting
    /\ phase \in {"closing", "leaving", "draining"} => scheduler # "on" /\ Warmup \notin waiting
    /\ phase = "draining" => scheduler = "off"
    /\ phase = "exited" /\ status # "signal" => scheduler = "off" /\ ~jobRuns
    /\ ~dbOpen => /\ phase \in {"leaving", "draining", "exited"}
                  /\ scheduler # "on" /\ Warmup \notin waiting
                  /\ \A s \in Services : runners[s] \notin Live

\* A failure is seen by whoever waits for the services, or was overtaken by a signal.
FailuresAreSeen ==
    \A s \in Services : runners[s] = "failed" =>
        /\ phase = "stopping" => s \in done \/ status = "interrupted"
        /\ phase \in {"cleanup", "closing", "leaving", "draining", "exited"} => Reported

RunInv == RunOK /\ ServicesFollow /\ ClosesLast /\ FailuresAreSeen


LEMMA RunInvInit == Init => RunInv
BY DEF Init, OcrInit, RunInv, RunOK, ServicesFollow, ClosesLast, FailuresAreSeen, RunnerStates, Reported

\* Threads, answers and alerts leave the closing of the process alone, and nobody
\* asks for the warm-up again.
LEMMA RunUntouched ==
    ASSUME RunInv, UNCHANGED runVars, Warmup \notin waiting => Warmup \notin waiting'
    PROVE  RunInv'
BY DEF RunInv, RunOK, ServicesFollow, ClosesLast, FailuresAreSeen, Reported, runVars, schedulerVars, Live

\* A serving service is cancelled, any other stays as it is.
LEMMA Cancelled ==
    ASSUME RunOK, CancelServing
    PROVE  /\ runners' \in [Services -> RunnerStates]
           /\ \A s \in Services :
                runners'[s] = IF runners[s] = "serving" THEN "cancelling" ELSE runners[s]
BY DEF RunOK, CancelServing, RunnerStates

LEMMA RunInvStep ==
    ASSUME RunInv, [Next]_vars
    PROVE  RunInv'
<1> USE DEF RunInv, RunOK, ServicesFollow, ClosesLast, FailuresAreSeen, Reported, Live, LogsNothing,
        ocrVars, schedulerVars, StartsScheduler
<1>1. CASE Connects \/ ConnectFails
  BY <1>1 DEF Connects, ConnectFails
<1>2. CASE SetsUp
  <2>1. runners' \in [Services -> RunnerStates] /\ \A s \in Services : runners'[s] \in {"serving", "none"}
    BY <1>2 DEF SetsUp, RunnerStates
  <2>2. phase' = "idling" => \A s \in Services : runners'[s] = "none"
    BY <1>2 DEF SetsUp, Enabled, Services
  <2>3. phase' \in {"serving", "idling"} /\ dbOpen' = dbOpen /\ dbOpen /\ scheduler' = "on"
        /\ UNCHANGED <<done, jobRuns>>
    BY <1>2 DEF SetsUp
  <2> QED
    BY <2>1, <2>2, <2>3
<1>3. CASE SetUpFails
  BY <1>3 DEF SetUpFails
<1>4. CASE Notices
  <2>1. /\ runners' \in [Services -> RunnerStates]
        /\ \A s \in Services : runners'[s] = IF runners[s] = "serving" THEN "cancelling" ELSE runners[s]
    BY <1>4, Cancelled DEF Notices
  <2>2. \A s \in Services : runners'[s] = "failed" => s \in done'
    BY <1>4, <2>1 DEF Notices, Finished
  <2>3. done' \subseteq Services /\ phase = "serving" /\ phase' = "stopping"
    BY <1>4 DEF Notices, Finished
  <2> QED
    BY <1>4, <2>1, <2>2, <2>3 DEF Notices
<1>5. CASE Interrupted
  <2>1. /\ runners' \in [Services -> RunnerStates]
        /\ \A s \in Services : runners'[s] = IF runners[s] = "serving" THEN "cancelling" ELSE runners[s]
    BY <1>5, Cancelled DEF Interrupted
  <2> QED
    BY <1>5, <2>1 DEF Interrupted
<1>6. CASE Stops
  <2>1. \A s \in Services : runners[s] = "failed" => status' \in {"error", "interrupted"}
    BY <1>6 DEF Stops, FailedFirst
  <2> QED
    BY <1>6, <2>1 DEF Stops, PeersAreAwaited
<1>7. CASE CleansUp
  <2>1. Warmup \notin waiting'
    BY <1>7 DEF CleansUp, Abandons
  <2> QED
    BY <1>7, <2>1 DEF CleansUp
<1>8. CASE Disposes
  <2>1. phase = "closing" /\ phase' = "leaving" /\ dbOpen' = FALSE
    BY <1>8 DEF Disposes
  <2>2. UNCHANGED <<runners, done, scheduler, jobRuns, status, waiting>>
    BY <1>8 DEF Disposes
  <2>3. \A s \in Services : runners[s] \notin Live
    BY <2>1
  <2> QED
    BY <2>1, <2>2, <2>3
<1>9. CASE Leaves
  <2>1. phase = "leaving" /\ phase' = "draining" /\ scheduler = "off" /\ Warmup \notin waiting'
    BY <1>9 DEF Leaves, Abandons, Jobs
  <2>2. UNCHANGED <<runners, done, scheduler, jobRuns, dbOpen, status>>
    BY <1>9 DEF Leaves
  <2> QED
    BY <2>1, <2>2
<1>10. CASE Killed
  <2>1. Warmup \notin waiting'
    BY <1>10 DEF Killed, Abandons, Jobs
  <2> QED
    BY <1>10, <2>1 DEF Killed
<1>11. CASE JobStarts \/ JobEnds \/ SchedulerStops
  <2>1. UNCHANGED <<phase, runners, done, dbOpen, status, waiting>>
    BY <1>11 DEF JobStarts, JobEnds, SchedulerStops
  <2>2. /\ scheduler' \in {scheduler, "off"} /\ jobRuns' \in BOOLEAN
        /\ scheduler = "off" => jobRuns' \in {jobRuns, FALSE}
    BY <1>11 DEF JobStarts, JobEnds, SchedulerStops
  <2> QED
    BY <2>1, <2>2
<1>12. CASE Exits
  BY <1>12 DEF Exits
<1>13. ASSUME NEW s \in Services, RunnerEnds(s) \/ PeerStops(s) PROVE RunInv'
  <2>1. PICK outcome \in {"returned", "failed", "stopped"} : runners' = [runners EXCEPT ![s] = outcome]
    BY <1>13 DEF RunnerEnds, PeerStops
  <2>2. UNCHANGED <<phase, done, scheduler, jobRuns, dbOpen, status, waiting>>
    BY <1>13 DEF RunnerEnds, PeerStops
  <2>3. outcome = "failed" => runners[s] = "serving"
    BY <1>13, <2>1 DEF RunnerEnds, PeerStops
  <2>4. runners[s] \in {"serving", "cancelling"}
    BY <1>13 DEF RunnerEnds, PeerStops
  <2> QED
    BY <2>1, <2>2, <2>3, <2>4 DEF RunnerStates
<1>14. ASSUME NEW c \in Calls, AsksForOcr(c) \/ TimesOut(c) PROVE RunInv'
  BY <1>14, RunUntouched, WarmupAssumption DEF AsksForOcr, TimesOut, Submits, Abandons
<1>15. ASSUME NEW j \in Jobs, Threads(j) \/ GetsAnswer(j) PROVE RunInv'
  <2>1. UNCHANGED runVars /\ waiting' \subseteq waiting
    BY <1>15 DEF Threads, GetsAnswer, Works, Picks, Looks, Locks, Rechecks, Builds, BuildFails,
       Runs, RunFails, Hears
  <2> QED
    BY <2>1, RunUntouched
<1>16. CASE Ticks \/ UNCHANGED vars \/ \E k \in Kinds : Delivers(k) \/ SendFails(k)
  BY <1>16, RunUntouched DEF Ticks, Delivers, SendFails, vars
<1> QED
  BY <1>1, <1>2, <1>3, <1>4, <1>5, <1>6, <1>7, <1>8, <1>9, <1>10, <1>11, <1>12, <1>13, <1>14,
     <1>15, <1>16 DEF Next

LEMMA RunInvariance == Spec => []RunInv
BY RunInvInit, RunInvStep, PTL DEF Spec

\* main.run and _run_service_runners: the database is closed under no service and no
\* warm-up, after the scheduler was told to stop; no job outlives a process that ends
\* by itself; and a failure of a service is in the exit status, whatever ended when.
THEOREM OrderlyExit == Spec => []ExitIsOrderly
<1>1. RunInv => ExitIsOrderly
  BY DEF RunInv, ClosesLast, FailuresAreSeen, Reported, ExitIsOrderly, ShutdownIsOrderly, FailuresAreReported
<1> QED
  BY <1>1, RunInvariance, PTL

=============================================================================
