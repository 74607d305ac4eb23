----------------------------- MODULE Migrations -----------------------------
(***************************************************************************)
(* Schema migrations of the PostgreSQL store.  Every server runs           *)
(* run_migrations when it connects: for each entry of MIGRATIONS, in       *)
(* order, it asks whether the name is recorded, runs the SQL (one implicit *)
(* transaction of its own) and then records the name with a second         *)
(* statement.  No lock keeps two servers apart, and a crash may fall       *)
(* between the SQL and the record.  Almost every statement may be run      *)
(* twice (IF NOT EXISTS); the constraints of 008 may not.                  *)
(***************************************************************************)
EXTENDS Naturals, FiniteSets

CONSTANTS Starters,             \* servers that start against one database
          MaxMigrationCrashes   \* process deaths considered

\* The list, as what it means for a second run: whether it can be repeated.
Migrations == <<"repeatable", "once", "repeatable">>
Repeatable(k) == Migrations[k] = "repeatable"
MigrationNames == DOMAIN Migrations

VARIABLES schema,    \* migrations whose SQL has been committed
          recorded,  \* names in _orbflow_migrations
          starter,   \* server -> [step, at]: where its run of run_migrations is
          migrationCrashes  \* deaths so far

migrationVars == <<schema, recorded, starter, migrationCrashes>>

MigrationsInit ==
    /\ schema = {} /\ recorded = {} /\ migrationCrashes = 0
    /\ starter = [s \in Starters |-> [step |-> "down", at |-> 1]]

StarterAt(s, step, k) == starter' = [starter EXCEPT ![s] = [step |-> step, at |-> k]]
StarterExits(s) == StarterAt(s, "down", 1)

\* PgStore::new: the tracking table is created if missing, then the loop begins.
Connect(s) ==
    /\ starter[s].step = "down"
    /\ StarterAt(s, "check", 1) /\ UNCHANGED <<schema, recorded, migrationCrashes>>

\* After entry k: the next one, or the store is ready and the server goes on.
NextEntry(s, k) == IF k + 1 \in MigrationNames THEN StarterAt(s, "check", k + 1) ELSE StarterAt(s, "up", k)

\* A claim before the work: the name is recorded when it is found missing.
CheckClaims(s) ==
    LET k == starter[s].at IN
    /\ starter[s].step = "check"
    /\ IF k \in recorded THEN NextEntry(s, k) ELSE StarterAt(s, "apply", k)
    /\ recorded' = recorded \cup {k} /\ UNCHANGED <<schema, migrationCrashes>>

CheckRecorded(s) ==
    LET k == starter[s].at IN
    /\ starter[s].step = "check"
    /\ IF k \in recorded THEN NextEntry(s, k) ELSE StarterAt(s, "apply", k)
    /\ UNCHANGED <<schema, recorded, migrationCrashes>>

\* SQL without IF NOT EXISTS: no entry can be run twice.
ApplyOnceOnly(s) ==
    LET k == starter[s].at IN
    /\ starter[s].step = "apply"
    /\ IF k \in schema
       THEN StarterExits(s) /\ UNCHANGED schema
       ELSE StarterAt(s, "record", k) /\ schema' = schema \cup {k}
    /\ UNCHANGED <<recorded, migrationCrashes>>

\* raw_sql: a constraint that exists already is an error, which ends the start;
\* otherwise the whole entry is committed.
ApplySql(s) ==
    LET k == starter[s].at IN
    /\ starter[s].step = "apply"
    /\ IF k \in schema /\ ~Repeatable(k)
       THEN StarterExits(s) /\ UNCHANGED schema
       ELSE StarterAt(s, "record", k) /\ schema' = schema \cup {k}
    /\ UNCHANGED <<recorded, migrationCrashes>>

\* The INSERT: the name is the primary key, so the slower of two servers fails.
RecordName(s) ==
    LET k == starter[s].at IN
    /\ starter[s].step = "record"
    /\ IF k \in recorded
       THEN StarterExits(s) /\ UNCHANGED recorded
       ELSE NextEntry(s, k) /\ recorded' = recorded \cup {k}
    /\ UNCHANGED <<schema, migrationCrashes>>

\* A process dies; it is started again by its supervisor (Connect).
MigrationCrash(s) ==
    /\ starter[s].step # "down" /\ migrationCrashes < MaxMigrationCrashes
    /\ StarterExits(s) /\ migrationCrashes' = migrationCrashes + 1 /\ UNCHANGED <<schema, recorded>>

MigrationStep(s) == Connect(s) \/ CheckRecorded(s) \/ ApplySql(s) \/ RecordName(s)

MigrationsNext == \E s \in Starters : MigrationStep(s) \/ MigrationCrash(s)
MigrationsFairness == \A s \in Starters : WF_migrationVars(MigrationStep(s))
MigrationsSpec == MigrationsInit /\ [][MigrationsNext]_migrationVars /\ MigrationsFairness

-----------------------------------------------------------------------------
(* Properties *)

\* Servers that are started again and again all come up in the end, on every table
\* and constraint they were written for, whichever server ran the SQL and wherever
\* processes died, unless an entry that cannot be repeated was committed and never
\* recorded: a crash between the two statements of 008 keeps every server down for
\* good.
HalfMigrated == \E k \in schema \ recorded : ~Repeatable(k)
UpUnlessHalfMigrated ==
    \A s \in Starters : starter[s].step # "down" ~>
        ([]HalfMigrated \/ [](starter[s].step = "up" /\ schema = MigrationNames))
=============================================================================
