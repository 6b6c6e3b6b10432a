----------------------------- MODULE Deployment -----------------------------
(***************************************************************************)
(* The life of the production database under its scripts: the app          *)
(* container, which migrates before it serves ("alembic upgrade head &&    *)
(* python -m app.main", restarted unless stopped), deploy/remote-update.sh,*)
(* deploy/backup.sh and deploy/restore.sh.                                 *)
(*                                                                         *)
(* An image is identified by the last revision that its alembic/versions   *)
(* holds.  One script runs at a time, except for the backup, which cron    *)
(* starts.  alembic env.py runs all pending revisions in one transaction.  *)
(***************************************************************************)
EXTENDS SchemaHistory

CONSTANTS
    Releases,   \* the images that have been built, by their last revision
    RowSets,    \* the rows that the service may have by the time it is used
    Attempts,   \* how often remote-update.sh tries to bring the stack up
    NoTx, NoDump

ASSUME ReleasesAssumption == Releases \subseteq 1..Head
ASSUME RowSetsAssumption == \A rows \in RowSets : IsRows(rows)
ASSUME AttemptsAssumption == Attempts \in Nat \ {0}

VARIABLES
    tag,        \* IMAGE_TAG in .env
    app,        \* the container: its image and what it is doing
    tx,         \* what the migrations of the container see, until they commit
    db,         \* the database: revision, schema, rows
    dump,       \* the last backup
    script,     \* the script that is running and where it stands
    meant,      \* history: what the rows said when they were written
    restored    \* history: whether a dump has ever been restored

vars == <<tag, app, tx, db, dump, script, meant, restored>>
history == <<meant, restored>>

Up(i)   == Migrations[i].up
Down(i) == Migrations[i].down

\* The schema that revision i has on a clean database.
Fresh[i \in 0..Head] == IF i = 0 THEN {} ELSE Result(Up(i), Fresh[i - 1])

\* Every table of revision i is there as that revision has it; tables that it
\* does not know are not looked at.
Fits(schema, i) == {c \in schema : c.table \in TablesIn(Fresh[i])} = Fresh[i]

\* Revision i can be reached, and left, on a clean database.
RevisionIsSound(i) ==
    /\ Possible(Up(i), Fresh[i - 1])
    /\ Possible(Down(i), Fresh[i])
    /\ Result(Down(i), Fresh[i]) = Fresh[i - 1]

\* What rows say of their users: who accepted the notice and when last, and
\* whose checks are counted, a user's or an address's.
Meaning(rows) ==
    [accepted |-> {[user |-> a.user, ts |-> a.ts] :
                     a \in {c \in rows.consents :
                              \A b \in rows.consents : b.user = c.user => b.ts <= c.ts}},
     counted  |-> {[user |-> c.user, ip |-> c.label \in IpFaces \cup {"web_ip"}] : c \in rows.counters}]

Idle == [name |-> "none", step |-> "none", left |-> 0]
At(step) == [script EXCEPT !.step = step]

Running == app.does \in {"started", "healthy"}
Does(what) == [app EXCEPT !.does = what]

Init ==
    /\ tag \in Releases
    /\ app = [image |-> tag, does |-> "stopped"]
    /\ tx = NoTx
    /\ db = [rev |-> 0, schema |-> {}, rows |-> EmptyRows]
    /\ dump = NoDump
    /\ script = Idle
    /\ meant = Meaning(EmptyRows)
    /\ restored = FALSE

-----------------------------------------------------------------------------
(* The container *)

Starting(image) ==
    /\ app' = [image |-> image, does |-> "migrating"]
    /\ tx' = db

\* A database at a revision that the image does not know cannot be located.
UnknownRevision ==
    /\ app.does = "migrating" /\ tx.rev > app.image
    /\ app' = Does("exited") /\ tx' = NoTx
    /\ UNCHANGED <<tag, db, dump, script, history>>

Applicable(i, d) ==
    /\ Possible(Up(i), d.schema)
    /\ RowsFit(i, RowsUp(i, d.rows))

MigrateOne ==
    /\ app.does = "migrating" /\ tx.rev < app.image
    /\ LET i == tx.rev + 1
       IN  /\ Applicable(i, tx)
           /\ tx' = [rev |-> i, schema |-> Result(Up(i), tx.schema), rows |-> RowsUp(i, tx.rows)]
    /\ UNCHANGED <<tag, app, db, dump, script, history>>

MigrationFails ==
    /\ app.does = "migrating" /\ tx.rev < app.image
    /\ ~ Applicable(tx.rev + 1, tx)
    /\ app' = Does("exited") /\ tx' = NoTx
    /\ UNCHANGED <<tag, db, dump, script, history>>

MigrationsCommit ==
    /\ app.does = "migrating" /\ tx.rev = app.image
    /\ db' = tx /\ tx' = NoTx
    /\ app' = Does("started")
    /\ UNCHANGED <<tag, dump, script, history>>

BecomesHealthy ==
    /\ app.does = "started"
    /\ app' = Does("healthy")
    /\ UNCHANGED <<tag, tx, db, dump, script, history>>

\* The process dies: a failed start, no memory, a reboot.
Dies ==
    /\ app.does \in {"migrating", "started", "healthy"}
    /\ app' = Does("exited") /\ tx' = NoTx
    /\ UNCHANGED <<tag, db, dump, script, history>>

RestartPolicy ==
    /\ app.does = "exited"
    /\ Starting(app.image)
    /\ UNCHANGED <<tag, db, dump, script, history>>

\* The service gets its first consents and counts its first checks.
IsUsed(rows) ==
    /\ Running
    /\ db.rows = EmptyRows
    /\ RowsFit(db.rev, rows)
    /\ LabelsFit(db.rev, rows)
    /\ db' = [db EXCEPT !.rows = rows]
    /\ meant' = Meaning(rows)
    /\ UNCHANGED <<tag, app, tx, dump, script, restored>>

-----------------------------------------------------------------------------
(* remote-update.sh *)

Pin(t) ==
    /\ script = Idle
    /\ tag' = t
    /\ script' = [name |-> "update", step |-> "pull", left |-> Attempts]
    /\ UNCHANGED <<app, tx, db, dump, history>>

PullFails ==
    /\ script.step = "pull"
    /\ script' = Idle
    /\ UNCHANGED <<tag, app, tx, db, dump, history>>

Pull ==
    /\ script.step = "pull"
    /\ script' = At("up")
    /\ UNCHANGED <<tag, app, tx, db, dump, history>>

\* The container of another image, or a stopped one, is replaced; one that runs
\* the pinned image, or is being restarted with it, is left as it is.
ComposeUp ==
    /\ script.step = "up"
    /\ IF app.image # tag \/ app.does = "stopped" THEN Starting(tag) ELSE UNCHANGED <<app, tx>>
    /\ script' = At("wait")
    /\ UNCHANGED <<tag, db, dump, history>>

\* "removal of container is already in progress": the old one is gone, no new
\* one is there.
ComposeUpFails ==
    /\ script.step = "up"
    /\ app' = Does("stopped") /\ tx' = NoTx
    /\ script' = IF script.left > 1 THEN [script EXCEPT !.left = @ - 1] ELSE Idle
    /\ UNCHANGED <<tag, db, dump, history>>

Healthy ==
    /\ script.step = "wait" /\ app.does = "healthy"
    /\ script' = Idle
    /\ UNCHANGED <<tag, app, tx, db, dump, history>>

\* The container exited, or the time to wait is over.
Unhealthy ==
    /\ script.step = "wait" /\ app.does # "healthy"
    /\ script' = IF script.left > 1 THEN [At("up") EXCEPT !.left = @ - 1] ELSE Idle
    /\ UNCHANGED <<tag, app, tx, db, dump, history>>

-----------------------------------------------------------------------------
(* backup.sh and restore.sh *)

\* pg_dump sees one committed state.  Bound: no dump is taken between the
\* revisions of releases, in the middle of a downgrade.
Backup ==
    /\ db.rev \in Releases
    /\ dump' = [db |-> db, meant |-> meant]
    /\ UNCHANGED <<tag, app, tx, db, script, history>>

Stop ==
    /\ script = Idle /\ dump # NoDump
    /\ app' = Does("stopped") /\ tx' = NoTx
    /\ script' = [name |-> "restore", step |-> "psql", left |-> 1]
    /\ UNCHANGED <<tag, db, dump, history>>

\* The dump drops the tables it holds before it creates them; a table that it
\* does not hold stays.  The revision is in a table as well.
RestoredOver(d, old) ==
    LET kept == {c \in old.schema : c.table \notin TablesIn(d.schema)}
    IN  IF d.rev = 0 THEN old ELSE [d EXCEPT !.schema = @ \cup kept]

Psql ==
    /\ script.step = "psql"
    /\ db' = RestoredOver(dump.db, db)
    /\ meant' = IF dump.db.rev = 0 THEN meant ELSE dump.meant
    /\ restored' = TRUE
    /\ script' = At("up")
    /\ UNCHANGED <<tag, app, tx, dump>>

\* The app intentionally remains stopped when the restore fails.
PsqlFails ==
    /\ script.step = "psql"
    /\ script' = Idle
    /\ UNCHANGED <<tag, app, tx, db, dump, history>>

-----------------------------------------------------------------------------
\* By hand, with the app stopped and the pinned image: alembic downgrade -1.
Downgrade ==
    /\ script = Idle /\ app.does = "stopped"
    /\ db.rev \in 2..tag
    /\ Possible(Down(db.rev), db.schema)
    /\ RowsFit(db.rev - 1, RowsDown(db.rev, db.rows))
    /\ db' = [rev |-> db.rev - 1, schema |-> Result(Down(db.rev), db.schema),
              rows |-> RowsDown(db.rev, db.rows)]
    /\ UNCHANGED <<tag, app, tx, dump, script, history>>

Next ==
    \/ UnknownRevision \/ MigrateOne \/ MigrationFails \/ MigrationsCommit \/ BecomesHealthy
    \/ Dies \/ RestartPolicy
    \/ \E rows \in RowSets : IsUsed(rows)
    \/ \E t \in Releases : Pin(t)
    \/ Pull \/ PullFails \/ ComposeUp \/ ComposeUpFails \/ Healthy \/ Unhealthy
    \/ Backup \/ Stop \/ Psql \/ PsqlFails
    \/ Downgrade

Spec == Init /\ [][Next]_vars

-----------------------------------------------------------------------------
(* Properties *)

Containers ==
    [image : Releases, does : {"stopped", "migrating", "exited", "started", "healthy"}]
Scripts ==
    [name : {"none", "update", "restore"}, step : {"none", "pull", "up", "wait", "psql"},
     left : 0..Attempts]

IsDatabase(d) ==
    /\ d = [rev |-> d.rev, schema |-> d.schema, rows |-> d.rows]
    /\ d.rev \in 0..Head /\ IsRows(d.rows) /\ LabelsFit(d.rev, d.rows)

TypeOK ==
    /\ tag \in Releases
    /\ app \in Containers
    /\ IsDatabase(db)
    /\ app.does = "migrating" => IsDatabase(tx)
    /\ dump # NoDump => IsDatabase(dump.db)
    /\ script \in Scripts

\* The app answers requests only on a database at its own revision, in which
\* every table it knows has the columns and keys that its models declare,
\* whatever was deployed, rolled back, interrupted or restored before.
ServedSchemaFits ==
    Running =>
        /\ db.rev = app.image
        /\ Fits(db.schema, app.image)
        /\ app.image = Head => {c \in db.schema : c.table \in TablesIn(Declared)} = Declared

\* There is a way out of a bad deploy: on a database that was never restored,
\* each migration can be undone with the rows that are there, and undoing it
\* leads to the schema that the revision before has on a clean database.
MigrationsCanBeUndone ==
    ~ restored /\ db.rev > 1 =>
        /\ db.schema = Fresh[db.rev]
        /\ RevisionIsSound(db.rev)
        /\ RowsFit(db.rev - 1, RowsDown(db.rev, db.rows))

\* Through all migrations, in both directions, failures and restores, every
\* user's newest acceptance stays, no counter of an address becomes a user's or
\* is lost, and since DropFace a user has one acceptance.
RowsKeepTheirMeaning ==
    /\ Meaning(db.rows) = meant
    /\ RowsFit(db.rev, db.rows)
=============================================================================
