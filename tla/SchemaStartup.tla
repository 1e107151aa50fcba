--------------------------- MODULE SchemaStartup ---------------------------
(***************************************************************************)
(* How the control plane brings its Postgres schema up to date before it   *)
(* serves: Alembic migrations for a database that has none or a version,   *)
(* a repair and a stamp for one that an earlier release made without       *)
(* Alembic, and create_all for the tables still missing.  The production   *)
(* compose file starts two API containers against one database when its    *)
(* loopback profile is on, and restarts those that exit.                   *)
(*                                                                         *)
(* Columns that always come together are one group: "base" is what the     *)
(* first migration or create_all gave a table.  Tables that no statement   *)
(* tells apart are one: "catalogs" stands for model_configs, job_events    *)
(* and the graph and market data tables, "registries" for those of         *)
(* revision 5.                                                             *)
(***************************************************************************)
EXTENDS Naturals, FiniteSets

CONSTANTS
    Apis,          \* API processes that share the database
    LateGroups,    \* groups a database made without Alembic may have or lack
    MaxFalls       \* bound on crashes and redeployments

\* Every release gave a table the columns it began with.
ASSUME SchemaConstants == "base" \notin LateGroups /\ MaxFalls \in Nat

VARIABLES
    columns,   \* table -> groups of its columns, for the tables that exist
    version,   \* the revision in alembic_version, 0 while there is none
    boot,      \* process -> how far its start has come
    missing,   \* process -> the tables its create_all saw missing
    madeBy,    \* "nobody", "create_all" or "migrations": how the database began
    falls      \* crashes and redeployments so far

schemaVars == <<columns, version, boot, missing, madeBy, falls>>

HeadRevision == 6

\* What the mapped classes read and write.
ModelColumns ==
    [catalogs |-> {"base"}, parameter_sets |-> {"base"}, registries |-> {"base"},
     training_runs |-> {"base", "context", "lineage"},
     parameter_sweep_runs |-> {"base", "provenance", "task", "lineage"},
     backtest_runs |-> {"base", "determinism", "lineage"},
     testing_runs |-> {"base", "lineage"},
     run_artifacts |-> {"base", "retention", "governance", "integrity"}]

Tables == DOMAIN ModelColumns

\* The tables a revision creates, and the group it adds to each table it expects.
NoTables == [t \in {} |-> {}]
Initial ==
    [creates |-> {"catalogs", "training_runs", "parameter_sweep_runs",
                  "backtest_runs", "run_artifacts"}, adds |-> NoTables]
Provenance ==
    [creates |-> {"parameter_sets"}, adds |-> [t \in {"parameter_sweep_runs"} |-> "provenance"]]
Retention ==
    [creates |-> {}, adds |-> [t \in {"run_artifacts"} |-> "retention"]]
Context ==
    [creates |-> {}, adds |-> [t \in {"training_runs"} |-> "context"]]
Governance ==
    [creates |-> {"registries"}, adds |-> [t \in {"run_artifacts"} |-> "governance"]]

\* 0006 adds the lineage columns to its RUN_TABLES and the integrity columns to
\* run_artifacts.
LineageTables == {"training_runs", "parameter_sweep_runs", "backtest_runs", "testing_runs"}
Durable ==
    [creates |-> {}, adds |-> [t \in LineageTables \cup {"run_artifacts"} |->
                                IF t = "run_artifacts" THEN "integrity" ELSE "lineage"]]

Revisions == <<Initial, Provenance, Retention, Context, Governance, Durable>>

\* CREATE TABLE fails on a table that exists, ADD COLUMN on one that does not
\* or that has the column.
Runs(rev, cols) ==
    /\ rev.creates \cap DOMAIN cols = {}
    /\ \A t \in DOMAIN rev.adds : t \in DOMAIN cols /\ rev.adds[t] \notin cols[t]

\* The schema that the revisions after v, up to k, make of one.
Migrated(cols, v, k) ==
    [t \in DOMAIN cols \cup UNION {Revisions[i].creates : i \in v + 1 .. k} |->
        (IF t \in DOMAIN cols THEN cols[t] ELSE {"base"}) \cup
        {Revisions[i].adds[t] : i \in {j \in v + 1 .. k : t \in DOMAIN Revisions[j].adds}}]

\* Each of them runs on what the ones before it left.
Upgradable(cols, v) ==
    \A k \in v + 1 .. HeadRevision : Runs(Revisions[k], Migrated(cols, v, k - 1))

\* Mutant: a table left out of the repair.
RepairColumnsForgetful ==
    [training_runs |-> {"context", "lineage"},
     parameter_sweep_runs |-> {"provenance", "task", "lineage"},
     backtest_runs |-> {"determinism", "lineage"},
     run_artifacts |-> {"retention", "governance", "integrity"}]

\* LEGACY_REPAIR_SQL: every statement says IF NOT EXISTS.
RepairColumns ==
    [training_runs |-> {"context", "lineage"},
     parameter_sweep_runs |-> {"provenance", "task", "lineage"},
     backtest_runs |-> {"determinism", "lineage"},
     testing_runs |-> {"lineage"},
     run_artifacts |-> {"retention", "governance", "integrity"}]

Repaired(cols) ==
    [t \in DOMAIN cols |->
        cols[t] \cup (IF t \in DOMAIN RepairColumns THEN RepairColumns[t] ELSE {})]

LegacyTables == DOMAIN RepairColumns \cup {"catalogs"}
HasLegacySchema(cols) == DOMAIN cols \cap LegacyTables # {}
-----------------------------------------------------------------------------
(* The databases a process may find.                                       *)

\* An earlier release without Alembic ran create_all: its tables lack some of
\* the late groups, and it may not have known all the tables.
LegacyDatabases ==
    {[t \in ts |-> ModelColumns[t] \ lacking] :
        ts \in {Tables, Tables \ {"testing_runs", "parameter_sets", "registries"}},
        lacking \in SUBSET LateGroups}

\* An earlier release migrated to revision v, and its create_all made the table
\* that no migration makes, or did not know it yet.
ManagedDatabases(v) ==
    LET made == Migrated(NoTables, 0, v)
    IN  {made, [t \in DOMAIN made \cup {"testing_runs"} |->
                 IF t = "testing_runs" THEN {"base"} ELSE made[t]]}

SchemaInit ==
    /\ \/ madeBy = "nobody" /\ version = 0 /\ columns = NoTables
       \/ madeBy = "create_all" /\ version = 0 /\ columns \in LegacyDatabases
       \/ /\ madeBy = "migrations" /\ version \in 1..HeadRevision - 1
          /\ columns \in ManagedDatabases(version)
    /\ boot = [p \in Apis |-> "down"]
    /\ missing = [p \in Apis |-> {}]
    /\ falls = 0
-----------------------------------------------------------------------------
At(p, here, there) == boot[p] = here /\ boot' = [boot EXCEPT ![p] = there]

\* run_database_migrations looks for alembic_version, then for the old tables.
Inspect(p) ==
    /\ At(p, "down", IF version = 0 /\ HasLegacySchema(columns) THEN "repair" ELSE "upgrade")
    /\ UNCHANGED <<columns, version, missing, madeBy, falls>>

\* command.upgrade runs all revisions in one transaction (alembic/env.py).
Upgrade(p) ==
    /\ At(p, "upgrade", "create")
    /\ Upgradable(columns, version)
    /\ columns' = Migrated(columns, version, HeadRevision)
    /\ version' = HeadRevision
    /\ UNCHANGED <<missing, madeBy, falls>>

UpgradeFails(p) ==
    /\ At(p, "upgrade", "down")
    /\ ~Upgradable(columns, version)
    /\ UNCHANGED <<columns, version, missing, madeBy, falls>>

\* Mutant: statements without IF NOT EXISTS, which fail on a column that exists.
RepairStrict(p) ==
    /\ At(p, "repair", IF \E t \in DOMAIN RepairColumns \cap DOMAIN columns :
                            RepairColumns[t] \cap columns[t] # {}
                       THEN "down" ELSE "stamp")
    /\ columns' = IF boot'[p] = "stamp" THEN Repaired(columns) ELSE columns
    /\ UNCHANGED <<version, missing, madeBy, falls>>

\* The repair is one transaction; the stamp is a second one.
Repair(p) ==
    /\ At(p, "repair", "stamp")
    /\ columns' = Repaired(columns)
    /\ UNCHANGED <<version, missing, madeBy, falls>>

Stamp(p) ==
    /\ At(p, "stamp", "create")
    /\ version' = HeadRevision
    /\ UNCHANGED <<columns, missing, madeBy, falls>>

\* create_all looks which tables exist, and then creates the others.
LookForTables(p) ==
    /\ At(p, "create", "creating")
    /\ missing' = [missing EXCEPT ![p] = Tables \ DOMAIN columns]
    /\ UNCHANGED <<columns, version, madeBy, falls>>

CreateTables(p) ==
    /\ missing[p] \cap DOMAIN columns = {}
    /\ At(p, "creating", "serving")
    /\ columns' = [t \in DOMAIN columns \cup missing[p] |->
                     IF t \in missing[p] THEN ModelColumns[t] ELSE columns[t]]
    /\ missing' = [missing EXCEPT ![p] = {}]
    /\ UNCHANGED <<version, madeBy, falls>>

\* The other process made one of them meanwhile: the start fails.
CreateFails(p) ==
    /\ missing[p] \cap DOMAIN columns # {}
    /\ At(p, "creating", "down")
    /\ missing' = [missing EXCEPT ![p] = {}]
    /\ UNCHANGED <<columns, version, madeBy, falls>>

\* A process dies at any point of its start, or is deployed again.
Fall(p) ==
    /\ boot[p] # "down" /\ falls < MaxFalls
    /\ boot' = [boot EXCEPT ![p] = "down"]
    /\ missing' = [missing EXCEPT ![p] = {}]
    /\ falls' = falls + 1
    /\ UNCHANGED <<columns, version, madeBy>>

Boot(p) ==
    \/ Inspect(p) \/ Upgrade(p) \/ UpgradeFails(p) \/ Repair(p) \/ Stamp(p)
    \/ LookForTables(p) \/ CreateTables(p) \/ CreateFails(p)

SchemaNext == \E p \in Apis : Boot(p) \/ Fall(p)

\* A container that exits is started again and its start goes on.
SchemaFairness == \A p \in Apis : WF_schemaVars(Boot(p))
SchemaSpec == SchemaInit /\ [][SchemaNext]_schemaVars
SchemaLiveSpec == SchemaSpec /\ SchemaFairness
-----------------------------------------------------------------------------
(* Properties                                                              *)

Lacks(t) == ModelColumns[t] \ columns[t]

\* A process that serves finds every table and every column its classes name,
\* whatever crashed before and whichever process did what: the repair covers all
\* a legacy database may lack.  Only a database that came by migrations lacks
\* the columns no migration adds (db.py:46, 58-70 add them to legacy ones).
ServesItsModels ==
    (\E p \in Apis : boot[p] = "serving") =>
        /\ DOMAIN columns = Tables
        /\ \A t \in Tables : Lacks(t) # {} =>
             madeBy = "migrations" /\ Lacks(t) \subseteq {"task", "determinism"}

\* A database is at the revision its version names: a failed or interrupted
\* upgrade leaves neither columns without their version nor a version in between.
VersionIsTrue ==
    madeBy = "migrations" /\ version < HeadRevision => columns \in ManagedDatabases(version)

\* Who serves has the schema its classes name, and the version tells the truth about the
\* database, through crashes and several processes starting at once (init_db).
SchemaServed ==
    /\ ServesItsModels
    /\ VersionIsTrue

\* However its processes crash and collide, a database made without Alembic is
\* in the end served by all of them (db.py:131-136 with the restart policy of
\* docker-compose.prod.yml).
LegacyIsServed ==
    madeBy = "create_all" => <>[](\A p \in Apis : boot[p] = "serving")

\* server-deploy.md:62-87: after "up -d" on a new host the API answers.
FreshIsServed ==
    madeBy = "nobody" => <>(\E p \in Apis : boot[p] = "serving")
=============================================================================
