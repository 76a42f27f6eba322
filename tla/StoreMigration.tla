--------------------------- MODULE StoreMigration ---------------------------
(***************************************************************************)
(* Opening console.sqlite: Store::open, set_pragmas, migrate and the        *)
(* MIGRATION_V* batches (crates/core/src/store.rs), and bootstrap's way     *)
(* with a failure (crates/api/src/bus/feed.rs).                             *)
(*                                                                          *)
(* execute_batch runs the statements of a batch one by one and each commits *)
(* on its own; the version is one pragma, written after the last of them.   *)
(* The process may die between any two.                                     *)
(*                                                                          *)
(* A definition marked Mutant is a wrong form of the one after it; no       *)
(* action uses it.                                                          *)
(***************************************************************************)
EXTENDS Integers, Sequences

CONSTANT MaxRestarts     \* bound: process deaths and restarts

SchemaVersion == 7

\* One statement: the version gate it stands behind, what it makes, what must be
\* there for it, and whether it says IF [NOT] EXISTS.  Indexes of one table and
\* one migration are one statement.
Make(v, what, on) == [gate |-> v, makes |-> what, on |-> on, again |-> TRUE]
Add(v, what, on)  == [gate |-> v, makes |-> what, on |-> on, again |-> FALSE]

Migrations == <<
    Make(1, "events", "none"), Make(1, "events_indexes", "events"),
    Make(1, "source_offsets", "none"), Make(1, "event_quarantine", "none"),
    Make(1, "rollup_spend_1m", "none"),
    Make(2, "commands_journal", "none"), Make(2, "commands_journal_indexes", "commands_journal"),
    Add(3, "events_dedupe", "events"), Add(3, "events_ts_ms", "events"),
    Make(3, "idx_events_dedupe", "events_dedupe"), Make(3, "idx_events_ts_ms", "events_ts_ms"),
    Add(4, "source_offsets_head_sha", "source_offsets"),
    Make(5, "idx_events_agent_ts_ms", "events_ts_ms"),
    Make(6, "idx_events_agent_type_ts_ms", "events_ts_ms"),
    [gate |-> 7, makes |-> "none", on |-> "none", again |-> TRUE] >>   \* DROP TABLE IF EXISTS rollup

Last == Len(Migrations)
\* What a store that was brought to version v holds.
Schema(v) ==
    {Migrations[i].makes : i \in {j \in 1..(Last - 1) : Migrations[j].gate <= v}}
        \ (IF v >= 7 THEN {"rollup_spend_1m"} ELSE {})
Needed == Schema(SchemaVersion)

VARIABLES
    objects,     \* disk: the tables, columns and indexes
    userVersion, \* disk: PRAGMA user_version
    at,          \* the statement migrate runs next; 0 when no process runs
    current,     \* the user_version migrate read at its start
    bus,         \* "none", "up", or "mock" after a failed open
    restarts       \* counter for the bound

storeVars == <<objects, userVersion, at, current, bus, restarts>>

\* A new file, or a store an older console left.
StoreInit ==
    /\ userVersion \in 0..SchemaVersion
    /\ objects = Schema(userVersion)
    /\ at = 0 /\ current = 0 /\ bus = "none" /\ restarts = 0

\* Store::open up to the version read.
Open ==
    /\ at = 0 /\ bus = "none"
    /\ at' = 1 /\ current' = userVersion
    /\ UNCHANGED <<objects, userVersion, bus, restarts>>

Skipped(i) == current >= Migrations[i].gate

Effect(i) ==
    IF Migrations[i].gate = 7 THEN objects \ {"rollup_spend_1m"}
    ELSE objects \cup {Migrations[i].makes}

\* A statement is refused: its column is there already, or its table is not.
Refused(i) ==
    \/ ~Migrations[i].again /\ Migrations[i].makes \in objects
    \/ Migrations[i].on # "none" /\ Migrations[i].on \notin objects

Step ==
    /\ at \in 1..Last /\ (Skipped(at) \/ ~Refused(at))
    /\ objects' = IF Skipped(at) THEN objects ELSE Effect(at)
    /\ at' = at + 1
    /\ UNCHANGED <<userVersion, current, bus, restarts>>

\* store_err: bootstrap fails and the console serves mock data until restarted.
Fail ==
    /\ at \in 1..Last /\ ~Skipped(at) /\ Refused(at)
    /\ at' = 0 /\ bus' = "mock"
    /\ UNCHANGED <<objects, userVersion, current, restarts>>

\* Mutant: the version is written before the batches.
SetVersionEarly ==
    /\ at >= 1
    /\ userVersion' = SchemaVersion
    /\ bus' = IF at = Last + 1 THEN "up" ELSE bus
    /\ at' = IF at = Last + 1 THEN 0 ELSE at
    /\ UNCHANGED <<objects, current, restarts>>

SetVersion ==
    /\ at = Last + 1
    /\ userVersion' = SchemaVersion /\ at' = 0 /\ bus' = "up"
    /\ UNCHANGED <<objects, current, restarts>>

\* The process dies, in the middle of a migration or while serving.
Die ==
    /\ restarts < MaxRestarts /\ restarts' = restarts + 1
    /\ at' = 0 /\ bus' = "none"
    /\ UNCHANGED <<objects, userVersion, current>>

\* The process is started again after it gave the bus up.
Relaunch ==
    /\ bus \in {"mock", "up"} /\ restarts < MaxRestarts
    /\ restarts' = restarts + 1 /\ bus' = "none"
    /\ UNCHANGED <<objects, userVersion, at, current>>

Migrate == Open \/ Step \/ Fail \/ SetVersion
StoreNext == Migrate \/ Die \/ Relaunch

StoreSpec == StoreInit /\ [][StoreNext]_storeVars
FairSpec == StoreSpec /\ WF_storeVars(Migrate)

-----------------------------------------------------------------------------
(***************************************************************************)
(* Properties.                                                              *)
(***************************************************************************)
\* The version never claims more than the file holds: at SCHEMA_VERSION, every
\* table, column and index of every migration is there and the dropped table is
\* not, whichever version the store came from and wherever a process died.
VersionMeansSchema ==
    /\ userVersion = SchemaVersion => objects = Needed
    /\ Schema(userVersion) \ {"rollup_spend_1m"} \subseteq objects
    /\ bus = "up" => objects = Needed

\* A started console brings its store up, in the end, however often it died
\* before: migrate "is a safe no-op" against a migrated store and its statements
\* are "IF NOT EXISTS" (store.rs:1213).
\* It does not hold: a death after an ALTER of V3 or V4 leaves a store whose
\* next open runs that ALTER again and fails.
StoreComesUp == (bus = "none") ~> (bus = "up")
=============================================================================
