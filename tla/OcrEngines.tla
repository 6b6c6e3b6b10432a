----------------------------- MODULE OcrEngines -----------------------------
(***************************************************************************)
(* The recognition engines of the configured OCR provider, one per script, *)
(* built on first use inside the worker threads that all image checks and  *)
(* the warm-up at boot share (app/engine/ocr/rapidocr.py; paddleocr.py has *)
(* the same steps). A call that is given up leaves its thread running.     *)
(***************************************************************************)
EXTENDS Naturals, FiniteSets

CONSTANTS
    Calls,    \* the image checks that may be under way
    Warmup,   \* the warm-up
    Scripts,  \* the provider's scripts are 1 .. Scripts, in their order
    Workers,  \* threads of the default executor
    NoOne

ASSUME WarmupAssumption == Warmup \notin Calls /\ NoOne \notin Calls \cup {Warmup}
ASSUME PoolAssumption == Scripts \in Nat \ {0} /\ Workers \in Nat \ {0}

VARIABLES
    work,     \* where the work item of each call stands
    script,   \* the script it is at
    waiting,  \* the calls whose caller still awaits the answer
    engines,  \* the scripts whose engine is kept
    loads,    \* how many engines were built for each
    holder    \* who holds _engine_lock

ocrVars == <<work, script, waiting, engines, loads, holder>>

Jobs == Calls \cup {Warmup}
Inside == {"check", "build"}
OnThread == {"look", "lock", "run"} \cup Inside
Stages == {"idle", "queued", "done", "failed"} \cup OnThread
Busy == {j \in Jobs : work[j] \in OnThread}

OcrTypeOK ==
    /\ work \in [Jobs -> Stages]
    /\ script \in [Jobs -> 1..Scripts]
    /\ waiting \subseteq Jobs
    /\ engines \subseteq 1..Scripts
    /\ loads \in [1..Scripts -> Nat]
    /\ holder \in Jobs \cup {NoOne}

OcrInit ==
    /\ work = [j \in Jobs |-> "idle"]
    /\ script = [j \in Jobs |-> 1]
    /\ waiting = {}
    /\ engines = {}
    /\ loads = [s \in 1..Scripts |-> 0]
    /\ holder = NoOne

Moves(j, stage) == work' = [work EXCEPT ![j] = stage]

\* extract and warmup: asyncio.to_thread
Submits(j) ==
    /\ work[j] = "idle"
    /\ Moves(j, "queued")
    /\ script' = [script EXCEPT ![j] = 1]
    /\ waiting' = waiting \cup {j}
    /\ UNCHANGED <<engines, loads, holder>>

\* A thread of the executor takes the item up.
Picks(j) ==
    /\ work[j] = "queued"
    /\ Cardinality(Busy) < Workers
    /\ Moves(j, "look")
    /\ UNCHANGED <<script, waiting, engines, loads, holder>>

\* The answer is there for whoever awaits it; nobody else hears of it.
Ends(j, outcome) == Moves(j, IF j \in waiting THEN outcome ELSE "idle")

-----------------------------------------------------------------------------
(* _engine: double-checked under the lock *)

\* The look without the lock.
Looks(j) ==
    /\ work[j] = "look"
    /\ Moves(j, IF script[j] \in engines THEN "run" ELSE "lock")
    /\ UNCHANGED <<script, waiting, engines, loads, holder>>

Locks(j) ==
    /\ work[j] = "lock"
    /\ holder = NoOne
    /\ holder' = j
    /\ Moves(j, "check")
    /\ UNCHANGED <<script, waiting, engines, loads>>

\* Bug: what was seen before the lock was held still counts.
MutantIsBuilt(j) == FALSE

IsBuilt(j) == script[j] \in engines

\* The second look.
Rechecks(j) ==
    /\ work[j] = "check"
    /\ \/ IsBuilt(j) /\ Moves(j, "run") /\ holder' = NoOne
       \/ ~IsBuilt(j) /\ Moves(j, "build") /\ UNCHANGED holder
    /\ UNCHANGED <<script, waiting, engines, loads>>

Builds(j) ==
    /\ work[j] = "build"
    /\ engines' = engines \cup {script[j]}
    /\ loads' = [loads EXCEPT ![script[j]] = @ + 1]
    /\ holder' = NoOne
    /\ Moves(j, "run")
    /\ UNCHANGED <<script, waiting>>

\* Bug: the lock is not released when the build raises.
MutantBuildFails(j) ==
    /\ work[j] = "build"
    /\ Ends(j, "failed")
    /\ UNCHANGED <<script, waiting, engines, loads, holder>>

\* Nothing is kept, and the next caller builds again.
BuildFails(j) ==
    /\ work[j] = "build"
    /\ holder' = NoOne
    /\ Ends(j, "failed")
    /\ UNCHANGED <<script, waiting, engines, loads>>

-----------------------------------------------------------------------------
(* _run_engine and the pass of _load_engines over a blank frame *)

Runs(j) ==
    /\ work[j] = "run"
    /\ \/ /\ script[j] < Scripts
          /\ script' = [script EXCEPT ![j] = @ + 1]
          /\ Moves(j, "look")
       \/ /\ script[j] = Scripts
          /\ Ends(j, "done")
          /\ UNCHANGED script
    /\ UNCHANGED <<waiting, engines, loads, holder>>

\* A check fails with its engine; the warm-up suppresses that.
RunFails(j) ==
    /\ work[j] = "run"
    /\ j # Warmup
    /\ Ends(j, "failed")
    /\ UNCHANGED <<script, waiting, engines, loads, holder>>

Works(j) ==
    \/ Picks(j) \/ Looks(j) \/ Locks(j) \/ Rechecks(j)
    \/ Builds(j) \/ BuildFails(j) \/ Runs(j) \/ RunFails(j)

-----------------------------------------------------------------------------
(* The caller, on the event loop *)

Hears(j) ==
    /\ j \in waiting
    /\ work[j] \in {"done", "failed"}
    /\ waiting' = waiting \ {j}
    /\ Moves(j, "idle")
    /\ UNCHANGED <<script, engines, loads, holder>>

\* The timeout of wait_for, or a cancellation: an item that no thread has taken up
\* is withdrawn, any other runs on; an answer that was there by then is dropped.
Abandons(js) ==
    /\ waiting' = waiting \ js
    /\ work' = [j \in Jobs |->
                   IF j \in js \cap waiting /\ work[j] \notin OnThread THEN "idle" ELSE work[j]]
    /\ UNCHANGED <<script, engines, loads, holder>>

-----------------------------------------------------------------------------
(* Properties *)

\* Every engine is built once, however many calls find it missing at once and
\* whichever builds failed before ("keeps two callers from loading the same model
\* twice", rapidocr.py).
EnginesLoadOnce ==
    \A s \in 1..Scripts : loads[s] = IF s \in engines THEN 1 ELSE 0

\* Only the holder of the lock is past it.
OneInside == \A j \in Jobs : work[j] \in Inside <=> holder = j

=============================================================================
