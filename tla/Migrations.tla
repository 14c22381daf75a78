------------------------------ MODULE Migrations ------------------------------
(***************************************************************************)
(* SqliteHandStore._run_migrations: processes that open one database file  *)
(* at the same time, and may die while they do.                            *)
(*                                                                         *)
(* Python's sqlite3 commits DDL at once as long as no row has been written *)
(* and opens a transaction at the first INSERT; the INSERTs of all         *)
(* versions are then committed together at the end of the with block.  A   *)
(* step is one statement.  The statements of version 1 are abstracted to   *)
(* the table hands, the other tables, the index that needs the column      *)
(* session_id of hands, and the table schema_version.                      *)
(***************************************************************************)
EXTENDS Integers, Sequences, SequencesExt, FiniteSets

CONSTANTS
    Processes,
    SchemaVersion,   \* SCHEMA_VERSION
    MaxCrashes       \* bound on the number of crashes

ASSUME VersionAssumption == SchemaVersion \in Nat \ {0}

VARIABLES
    schema,      \* objects of the database: "hands", "session_id", "tables", ...
    versions,    \* committed rows of schema_version, with repetitions: a sequence
    writer,      \* the process whose transaction is open, or "nobody"
    at,          \* at[p]: the next step of process p
    existing,    \* existing[p]: p has seen hands without session_id
    current,     \* current[p]: the version p has read
    crashes

schemaVars == <<schema, versions, writer, at, existing, current, crashes>>

(* MIGRATIONS: an object, and what a statement that makes it needs.        *)
Statements(version) ==
    IF version = 1 THEN <<"hands", "tables", "session_index", "schema_version">> ELSE <<>>
Makes(object) == IF object = "hands" /\ "hands" \notin schema THEN {"hands", "session_id"}
                 ELSE {object}
Needs(object) == IF object = "session_index" THEN {"hands", "session_id"} ELSE {}

Everything == {"hands", "session_id", "tables", "session_index", "schema_version"}
Legacy == {"hands", "tables"}

ToStep(p, step) == at' = [at EXCEPT ![p] = step]

Highest(rows) == IF rows = <<>> THEN 0 ELSE Max(ToSet(rows))

(* Mutant: a database with hands is taken for a migrated one.              *)
VersionByTable == IF "hands" \in schema THEN SchemaVersion ELSE 0

(* _current_version: 0 also when the table is not there.                   *)
CurrentVersion == IF "schema_version" \in schema THEN Highest(versions) ELSE 0

(* The first step of version, or the end: versions that were applied       *)
(* before are skipped.                                                     *)
NextVersion(p, version) ==
    IF version > SchemaVersion THEN <<"analyze">>
    ELSE <<"statement", version, 1>>

-----------------------------------------------------------------------------
Open(p) ==
    /\ at[p] = <<"closed">>
    /\ existing' = [existing EXCEPT ![p] = "hands" \in schema /\ "session_id" \notin schema]
    /\ ToStep(p, <<"alter">>)
    /\ UNCHANGED <<schema, versions, writer, current, crashes>>

(* The column may be there by now: "duplicate column name" is an           *)
(* OperationalError like that of a missing table, and is passed over.      *)
Alter(p) ==
    /\ at[p] = <<"alter">> /\ writer = "nobody"
    /\ schema' = IF existing[p] THEN schema \cup {"session_id"} ELSE schema
    /\ ToStep(p, <<"select_version">>)
    /\ UNCHANGED <<versions, writer, existing, current, crashes>>

SelectVersion(p) ==
    /\ at[p] = <<"select_version">>
    /\ current' = [current EXCEPT ![p] = CurrentVersion]
    /\ ToStep(p, NextVersion(p, CurrentVersion + 1))
    /\ UNCHANGED <<schema, versions, writer, existing, crashes>>

Waits(p) == writer \notin {"nobody", p}

(* The next statement of a version (each says IF NOT EXISTS), or, after    *)
(* the last, the INSERT of the version, which opens the transaction.       *)
Statement(p) ==
    /\ at[p][1] = "statement" /\ ~Waits(p)
    /\ LET version == at[p][2]
           number == at[p][3]
       IN  IF number > Len(Statements(version))
           THEN /\ writer' = p
                /\ ToStep(p, NextVersion(p, version + 1))
                /\ UNCHANGED schema
           ELSE LET object == Statements(version)[number]
                IN  /\ IF Needs(object) \subseteq schema
                       THEN /\ schema' = schema \cup Makes(object)
                            /\ ToStep(p, <<"statement", version, number + 1>>)
                       ELSE ToStep(p, <<"failed">>) /\ UNCHANGED schema
                    /\ UNCHANGED writer
    /\ UNCHANGED <<versions, existing, current, crashes>>

(* ANALYZE, and the commit of the with block: the rows of all versions     *)
(* above the one that was read appear together.                            *)
AnalyzeAndCommit(p) ==
    /\ at[p] = <<"analyze">> /\ ~Waits(p)
    /\ versions' = versions \o [i \in 1 .. SchemaVersion - current[p] |-> current[p] + i]
    /\ writer' = "nobody"
    /\ ToStep(p, <<"ready">>)
    /\ UNCHANGED <<schema, existing, current, crashes>>

(* The process dies; its open transaction is rolled back.                  *)
Die(p) ==
    /\ crashes < MaxCrashes /\ at[p] \notin {<<"closed">>, <<"failed">>}
    /\ crashes' = crashes + 1
    /\ writer' = IF writer = p THEN "nobody" ELSE writer
    /\ ToStep(p, <<"closed">>)
    /\ UNCHANGED <<schema, versions, existing, current>>

MigrationInit ==
    /\ schema \in {{}, Legacy}
    /\ versions = <<>> /\ writer = "nobody" /\ crashes = 0
    /\ at = [p \in Processes |-> <<"closed">>]
    /\ existing = [p \in Processes |-> FALSE]
    /\ current = [p \in Processes |-> 0]

Migrate(p) == Alter(p) \/ SelectVersion(p) \/ Statement(p) \/ AnalyzeAndCommit(p)

MigrationNext == \E p \in Processes : Open(p) \/ Migrate(p) \/ Die(p)

MigrationSpec == MigrationInit /\ [][MigrationNext]_schemaVars

(* A process that has begun goes on: it waits for the lock of another at   *)
(* most as long as that one runs.                                          *)
MigrationFairness == \A p \in Processes : WF_schemaVars(Migrate(p))

-----------------------------------------------------------------------------
(* Properties.                                                             *)

(* A process that has started finds everything it needs, whatever kind of  *)
(* database it found, whoever else was migrating it, and wherever earlier  *)
(* ones died: all tables, the column and the version.  And a recorded      *)
(* version is a whole one at every moment, so that skipping it is right.   *)
SchemaIsWhole ==
    /\ \A p \in Processes :
          at[p] = <<"ready">> => schema = Everything /\ CurrentVersion = SchemaVersion
    /\ versions # <<>> => schema = Everything

(* Every process that opens the database gets to work with it: no          *)
(* statement fails because of what another process did or left undone.     *)
StartsUp == \A p \in Processes : at[p] = <<"alter">> ~> at[p] \in {<<"ready">>, <<"closed">>}
=============================================================================
