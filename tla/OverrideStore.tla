---------------------------- MODULE OverrideStore ----------------------------
(***************************************************************************)
(* How operator overrides reach the checks: the rows of an override table, *)
(* the snapshot every check reads, and the refreshes between them.         *)
(* app/rules_store with app/web/rules_admin.py, and app/knowledge_store    *)
(* with app/web/knowledge_admin.py, are this protocol twice; what a row    *)
(* holds and how rows are merged onto the shipped YAML files is left to    *)
(* Merge and Acceptable (modules RulePack and KnowledgeBase).              *)
(*                                                                         *)
(* A refresh is a SELECT and, when its rows arrive, a merge and an         *)
(* assignment with no await in between.  Others may write and publish      *)
(* after the SELECT was served and before its rows arrive.  Refreshes are  *)
(* run by the scheduler, one at a time, and by every operator request once *)
(* its own write is committed.                                             *)
(*                                                                         *)
(* Sessions keep their objects at commit (expire_on_commit=False) and      *)
(* write only the columns that an assignment changed; both matter here.    *)
(* The id of the rule or card that a row overrides is a column like the    *)
(* others, "entry": unique, and open to the operator's edits.              *)
(***************************************************************************)
EXTENDS Integers

CONSTANTS
    Columns,        \* the editable columns of a row
    Drafts,         \* what an operator may submit: a value for each column
    Requests,       \* operator requests, each made once
    Job,            \* the scheduled refresh
    Merge(_),       \* the snapshot that a table makes of the YAML baseline
    Acceptable(_),  \* can that snapshot be built?
    MaxFaults,      \* bound: requests cut off and processes killed
    MaxClock        \* bound: the last second of a behaviour

ASSUME RequestsAssumption == Job \notin Requests
ASSUME DraftsAssumption == "entry" \in Columns /\ \A d \in Drafts : DOMAIN d = Columns
ASSUME BoundsAssumption == MaxFaults \in Nat /\ MaxClock \in Nat

VARIABLES
    clock,      \* seconds
    faults,     \* how many faults have happened
    table,      \* the committed rows, by primary key
    edition,    \* history: how often the table was written
    active,     \* the snapshot in force, and the edition it was read from
    pc,         \* where each refresher stands
    held,       \* the row that each request's session has in memory
    seen,       \* the rows a refresher was served, and their edition
    made        \* history: the edition that each request's write made

vars == <<clock, faults, table, edition, active, pc, held, seen, made>>

-----------------------------------------------------------------------------
(* Rows and snapshots *)

\* A row's primary key is named after the request that created it.
NoRows == [x \in {} |-> 0]

RowOf(body) == [at |-> clock, body |-> body]

With(rows, x, row) == [y \in DOMAIN rows \cup {x} |-> IF y = x THEN row ELSE rows[y]]
Without(rows, x)   == [y \in DOMAIN rows \ {x} |-> rows[y]]
Only(x, row)       == [y \in {x} |-> row]

\* The UNIQUE constraint.
Unique(rows) ==
    \A x, y \in DOMAIN rows : rows[x].body.entry = rows[y].body.entry => x = y

\* UPDATE sets the columns whose value differs from the one that was read; the
\* others keep what the row holds by now.
Overwrite(current, read, draft) ==
    [col \in Columns |-> IF draft[col] # read[col] THEN draft[col] ELSE current[col]]

\* The rows a SELECT yields to a session: a row that the session already has in
\* memory is not read again.
Yields(own) == [x \in DOMAIN table |-> IF x \in DOMAIN own THEN own[x] ELSE table[x]]

NothingSeen == [rows |-> NoRows, edition |-> 0]

\* The snapshot of a new process is the YAML baseline.
Snapshot(read) == [content |-> Merge(read.rows), edition |-> read.edition]
Baseline == Snapshot(NothingSeen)

\* The YAML files are loaded through the same constructors: a process whose files do
\* not pass serves no check.
ASSUME BaselineAssumption == Acceptable(Merge(NoRows))

-----------------------------------------------------------------------------
(* Refreshers *)

Refreshers == Requests \cup {Job}
Ended  == {"accepted", "refused", "failed", "lost"}
Labels == {"idle", "read", "due", "loaded"} \cup Ended

Init ==
    /\ clock = 0
    /\ faults = 0
    /\ table = NoRows
    /\ edition = 0
    /\ active = Baseline
    /\ pc = [p \in Refreshers |-> IF p = Job THEN "due" ELSE "idle"]
    /\ held = [r \in Requests |-> NoRows]
    /\ seen = [p \in Refreshers |-> NothingSeen]
    /\ made = [r \in Requests |-> 0]

At(p, label)   == pc[p] = label
Goto(p, label) == pc' = [pc EXCEPT ![p] = label]

\* A committed write of request r, which has a refresh to run next.
Write(r, rows) ==
    /\ table' = rows
    /\ edition' = edition + 1
    /\ made' = [made EXCEPT ![r] = edition + 1]
    /\ Goto(r, "due")

\* A committed write of request r, unless the constraint refuses it.
WriteUnique(r, rows) ==
    IF Unique(rows)
    THEN Write(r, rows)
    ELSE Goto(r, "refused") /\ UNCHANGED <<table, edition, made>>

\* create_override, create_card: the new object is not kept.
Create(r, draft) ==
    /\ At(r, "idle")
    /\ WriteUnique(r, With(table, r, RowOf(draft)))
    /\ UNCHANGED <<clock, faults, active, held, seen>>

\* get_override, get_card: the row is missing, or is now in the session.
NotFound(r) ==
    /\ At(r, "idle")
    /\ Goto(r, "refused")
    /\ UNCHANGED <<clock, faults, table, edition, active, held, seen, made>>

Get(r, x) ==
    /\ At(r, "idle")
    /\ x \in DOMAIN table
    /\ held' = [held EXCEPT ![r] = Only(x, table[x])]
    /\ Goto(r, "read")
    /\ UNCHANGED <<clock, faults, table, edition, active, seen, made>>

\* The session's row after an update of it.
Assigned(r, x, draft) == held' = [held EXCEPT ![r] = Only(x, RowOf(draft))]

\* An update whose row is gone inserts it again.
MutantUpdateOrInsert(r, x, draft) ==
    /\ At(r, "read")
    /\ x \in DOMAIN held[r]
    /\ Assigned(r, x, draft)
    /\ WriteUnique(r, With(table, x, RowOf(draft)))
    /\ UNCHANGED <<clock, faults, active, seen>>

\* update_override, update_card and the commit: an UPDATE by primary key that finds
\* no row is an error (StaleDataError).
Update(r, x, draft) ==
    /\ At(r, "read")
    /\ x \in DOMAIN held[r]
    /\ Assigned(r, x, draft)
    /\ IF x \in DOMAIN table
       THEN WriteUnique(r, With(table, x, RowOf(
                Overwrite(table[x].body, held[r][x].body, draft))))
       ELSE Goto(r, "failed") /\ UNCHANGED <<table, edition, made>>
    /\ UNCHANGED <<clock, faults, active, seen>>

\* delete_override, delete_card and the commit: a DELETE that finds no row is only
\* warned about.
Delete(r, x) ==
    /\ At(r, "read")
    /\ x \in DOMAIN held[r]
    /\ held' = [held EXCEPT ![r] = NoRows]
    /\ IF x \in DOMAIN table
       THEN Write(r, Without(table, x))
       ELSE Goto(r, "due") /\ UNCHANGED <<table, edition, made>>
    /\ UNCHANGED <<clock, faults, active, seen>>

\* A refresh that begins beside the job's shares what the job was served.
MutantLoadShared(p) ==
    /\ At(p, "due")
    /\ seen' = [seen EXCEPT ![p] =
                  IF At(Job, "loaded") THEN seen[Job]
                  ELSE [rows |-> IF p = Job THEN table ELSE Yields(held[p]),
                        edition |-> edition]]
    /\ Goto(p, "loaded")
    /\ UNCHANGED <<clock, faults, table, edition, active, held, made>>

\* A refresh begins: load_overrides is served by the database.
Load(p) ==
    /\ At(p, "due")
    /\ seen' = [seen EXCEPT ![p] =
                  [rows |-> IF p = Job THEN table ELSE Yields(held[p]),
                   edition |-> edition]]
    /\ Goto(p, "loaded")
    /\ UNCHANGED <<clock, faults, table, edition, active, held, made>>

\* The snapshot is put in force unchecked.
MutantPublishUnchecked(p) ==
    /\ At(p, "loaded")
    /\ active' = Snapshot(seen[p])
    /\ Goto(p, IF p = Job THEN "due" ELSE "accepted")
    /\ seen' = [seen EXCEPT ![p] = NothingSeen]
    /\ UNCHANGED <<clock, faults, table, edition, held, made>>

\* A refresh that another write has overtaken is an error.
MutantPublishLatest(p) ==
    /\ At(p, "loaded")
    /\ IF seen[p].edition = edition
       THEN active' = Snapshot(seen[p]) /\ Goto(p, IF p = Job THEN "due" ELSE "accepted")
       ELSE Goto(p, IF p = Job THEN "due" ELSE "refused") /\ UNCHANGED active
    /\ seen' = [seen EXCEPT ![p] = NothingSeen]
    /\ UNCHANGED <<clock, faults, table, edition, held, made>>

\* The job refreshes a new process only.
MutantPublishAtBoot(p) ==
    /\ At(p, "loaded")
    /\ active' = IF p # Job \/ active = Baseline THEN Snapshot(seen[p]) ELSE active
    /\ Goto(p, IF p = Job THEN "due" ELSE "accepted")
    /\ seen' = [seen EXCEPT ![p] = NothingSeen]
    /\ UNCHANGED <<clock, faults, table, edition, held, made>>

\* The rows arrive: merge and publish, or raise.  The job logs the error and comes
\* again; an operator is told, the write being committed all the same.
Publish(p) ==
    /\ At(p, "loaded")
    /\ IF Acceptable(Merge(seen[p].rows))
       THEN /\ active' = Snapshot(seen[p])
            /\ Goto(p, IF p = Job THEN "due" ELSE "accepted")
       ELSE /\ Goto(p, IF p = Job THEN "due" ELSE "refused")
            /\ UNCHANGED active
    /\ seen' = [seen EXCEPT ![p] = NothingSeen]
    /\ UNCHANGED <<clock, faults, table, edition, held, made>>

-----------------------------------------------------------------------------
(* Faults and time *)

\* A statement of the request fails: what it had committed stays.
Interrupted(r) ==
    /\ faults < MaxFaults
    /\ pc[r] \in {"read", "due"}
    /\ faults' = faults + 1
    /\ Goto(r, "failed")
    /\ UNCHANGED <<clock, table, edition, active, held, seen, made>>

\* The process is killed; the next one starts from the YAML baseline, and runs the
\* scheduled refresh at once.
Restart ==
    /\ faults < MaxFaults
    /\ faults' = faults + 1
    /\ active' = Baseline
    /\ pc' = [p \in Refreshers |->
                IF p = Job THEN "due"
                ELSE IF pc[p] \in Ended \cup {"idle"} THEN pc[p] ELSE "lost"]
    /\ seen' = [p \in Refreshers |-> NothingSeen]
    /\ UNCHANGED <<clock, table, edition, held, made>>

Tick ==
    /\ clock < MaxClock
    /\ clock' = clock + 1
    /\ UNCHANGED <<faults, table, edition, active, pc, held, seen, made>>

Request(r) ==
    \/ \E draft \in Drafts : Create(r, draft)
    \/ \E x \in Requests, draft \in Drafts : Update(r, x, draft)
    \/ \E x \in Requests : Get(r, x) \/ Delete(r, x)
    \/ NotFound(r)
    \/ Interrupted(r)

Next ==
    \/ \E r \in Requests : Request(r)
    \/ \E p \in Refreshers : Load(p) \/ Publish(p)
    \/ Restart
    \/ Tick

\* The scheduler keeps running the job, and the database answers it again and again.
\* Nothing is assumed of the operators' requests.
Fairness == WF_vars(Load(Job)) /\ WF_vars(Publish(Job))

Spec == Init /\ [][Next]_vars
FairSpec == Spec /\ Fairness

-----------------------------------------------------------------------------
(* Properties *)

\* Every column of a row holds a value that some draft had, though not always of
\* one draft.
IsBody(body) ==
    /\ DOMAIN body = Columns
    /\ \A col \in Columns : \E d \in Drafts : body[col] = d[col]

IsRow(row) ==
    /\ DOMAIN row = {"at", "body"}
    /\ row.at \in 0 .. MaxClock
    /\ IsBody(row.body)

IsTable(rows) == DOMAIN rows \subseteq Requests /\ \A x \in DOMAIN rows : IsRow(rows[x])
IsRead(read)  == DOMAIN read = {"rows", "edition"} /\ IsTable(read.rows) /\ read.edition \in Nat

TypeOK ==
    /\ clock \in 0 .. MaxClock
    /\ faults \in 0 .. MaxFaults
    /\ IsTable(table)
    /\ edition \in Nat
    /\ DOMAIN active = {"content", "edition"}
    /\ active.edition \in Nat
    /\ pc \in [Refreshers -> Labels]
    /\ DOMAIN held = Requests /\ \A r \in Requests : IsTable(held[r])
    /\ DOMAIN seen = Refreshers /\ \A p \in Refreshers : IsRead(seen[p])
    /\ made \in [Requests -> Nat]

\* The checks never run on a snapshot that could not be built, whatever mixture of
\* concurrent edits is stored, and whichever refresh was served which rows.
InForceIsAcceptable == Acceptable(active.content)

\* An operator is told that an edit was accepted only in a step that publishes a
\* snapshot no older than that edit.
AcceptedEditsArePublished ==
    [][\A r \in Requests : ~At(r, "accepted") /\ pc'[r] = "accepted" =>
           active'.edition >= made[r]]_vars

\* A row that an operator deleted never comes back through somebody's update: the
\* rows that appear are those that a request creates.
NoRowComesBack ==
    [][\A x \in DOMAIN table' \ DOMAIN table : At(x, "idle")]_vars

\* Stale publications are passing: in the end, and for ever, the snapshot in force is
\* the one that the stored rows make, if they make one.
InForceConverges ==
    <>[](Acceptable(Merge(table)) => active.content = Merge(table))

\* An edit that is answered with an error was not stored.
RefusedEditsLeaveNoTrace ==
    \A r \in Requests : At(r, "refused") => made[r] = 0
=============================================================================
