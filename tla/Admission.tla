------------------------------ MODULE Admission ------------------------------
(***************************************************************************)
(* Opening the primary store for writing: SQLiteStore._admit_compatibility *)
(* and _migrate of core/store.py with inspect_schema and inspect_store of  *)
(* core/schema_state.py.  Runs, `deliver`, `test-notify`,                  *)
(* `delivery-activation` and the dashboard open the same file, most of     *)
(* them without the run lock.                                              *)
(*                                                                         *)
(* The inspection is a few SELECTs, each its own snapshot; the migration   *)
(* is a script of statements, each its own transaction.  A process may be  *)
(* killed, or meet a database error, between any two.  The store keeps the *)
(* names of its tables, the columns of `runs` beyond those it was born     *)
(* with in version 1, and the version in its marker, 0 when it has none.   *)
(***************************************************************************)
EXTENDS Naturals

CONSTANTS
    Procs,      \* processes that open the store
    Tables,     \* EXPECTED_TABLES
    Columns,    \* the columns of runs that version 1 did not have
    Born,       \* those of them in the CREATE TABLE statement
    Position,   \* the order of the statements: a function on tables and columns
    Expected,   \* EXPECTED_SCHEMA_VERSION
    Stores,     \* what the processes may find
    MaxCrashes, MaxFaults, MaxUpgrades  \* bounds of the model

Store == [exists : BOOLEAN, corrupt : BOOLEAN, tables : SUBSET Tables,
          columns : SUBSET Columns, version : 0..Expected + 1]

Complete(s) == s.tables = Tables /\ s.columns = Columns

ASSUME AdmissionConstants ==
    /\ {"runs", "schema_version"} \subseteq Tables
    /\ Born \subseteq Columns
    /\ Position \in [Tables \cup Columns -> Nat]
    /\ Expected \in Nat \ {0}
    /\ Stores \subseteq Store
    /\ {MaxCrashes, MaxFaults, MaxUpgrades} \subseteq Nat

(* A marker sits in its table, and columns in theirs; nothing else is      *)
(* promised of what is found.                                              *)
ASSUME StoresShaped ==
    \A s \in Stores :
        /\ s.tables # {} \/ s.corrupt => s.exists
        /\ s.version # 0 => "schema_version" \in s.tables
        /\ "runs" \notin s.tables => s.columns = {}

VARIABLES store, pc, job, crashes, faults, upgrades

vars == <<store, pc, job, crashes, faults, upgrades>>

Verdicts == {"FRESH", "MIGRATION_REQUIRED", "COMPATIBLE", "INCOMPATIBLE_NEWER", "UNKNOWN",
             "CORRUPT", "PARTIAL"}

(* verifying: the inspection after the migration; tables: those it saw;    *)
(* todo: tables, then columns, still to make; wrote: the store was changed *)
Idle == [verifying |-> FALSE, tables |-> {}, todo |-> {}, wrote |-> FALSE]

Init ==
    /\ store \in Stores
    /\ pc = [p \in Procs |-> "idle"]
    /\ job = [p \in Procs |-> Idle]
    /\ crashes = 0 /\ faults = 0 /\ upgrades = 0

Goto(p, from, to) == pc[p] = from /\ pc' = [pc EXCEPT ![p] = to]

First(x, S) == x \in S /\ \A y \in S : Position[x] <= Position[y]

-----------------------------------------------------------------------------
(* The decision for each thing the inspection may see.                     *)

(* LEGACY_GENERATIONS: exactly `runs`, at the columns of v1 or of v2.      *)
Legacy(tables, columns) == tables = {"runs"} /\ columns \in {{}, Born}

ContractTablesOnly(tables, columns) ==
    IF tables = Tables THEN "COMPATIBLE" ELSE "PARTIAL"
Contract(tables, columns) ==
    IF tables = Tables /\ columns = Columns THEN "COMPATIBLE" ELSE "PARTIAL"

(* The same decisions over one snapshot of the store. *)
Verdict(s) ==
    CASE s.corrupt -> "CORRUPT"
      [] ~ s.corrupt /\ s.tables = {} -> "FRESH"
      [] ~ s.corrupt /\ s.tables # {} /\ "schema_version" \notin s.tables ->
            IF Legacy(s.tables, s.columns) THEN "MIGRATION_REQUIRED" ELSE "UNKNOWN"
      [] ~ s.corrupt /\ "schema_version" \in s.tables ->
            IF s.version = 0 THEN "UNKNOWN"
            ELSE IF s.version > Expected THEN "INCOMPATIBLE_NEWER"
            ELSE IF s.version < Expected THEN "MIGRATION_REQUIRED"
            ELSE Contract(s.tables, s.columns)

(* A verdict admits, sends the store to the migration, or refuses it; after *)
(* the migration only COMPATIBLE admits.                                    *)
AfterFreshOnly(p, verdict) ==
    IF verdict = "COMPATIBLE" THEN "admitted"
    ELSE IF verdict = "FRESH" /\ ~ job[p].verifying THEN "creating" ELSE "refused"
After(p, verdict) ==
    IF verdict = "COMPATIBLE" THEN "admitted"
    ELSE IF verdict \in {"FRESH", "MIGRATION_REQUIRED"} /\ ~ job[p].verifying THEN "creating"
    ELSE "refused"

(* The guard of the marker's upsert: a version never goes down. *)
StampOver(version) == Expected
Stamp(version) == IF Expected > version THEN Expected ELSE version

-----------------------------------------------------------------------------
(* Opening: an absent file is migrated at once, another is inspected.      *)

Open(p) ==
    /\ IF store.exists THEN Goto(p, "idle", "inspecting") ELSE Goto(p, "idle", "creating")
    /\ job' = [job EXCEPT ![p] = [Idle EXCEPT !.todo = Tables]]
    /\ UNCHANGED <<store, crashes, faults, upgrades>>

ReadTables(p) ==
    LET seen == store.tables IN
    /\ IF store.corrupt THEN Goto(p, "inspecting", After(p, "CORRUPT"))
       ELSE IF seen = {} THEN Goto(p, "inspecting", After(p, "FRESH"))
       ELSE IF "schema_version" \in seen THEN Goto(p, "inspecting", "marker")
       ELSE IF seen = {"runs"} THEN Goto(p, "inspecting", "legacy")
       ELSE Goto(p, "inspecting", After(p, "UNKNOWN"))
    /\ job' = [job EXCEPT ![p].tables = seen, ![p].todo = Tables]
    /\ UNCHANGED <<store, crashes, faults, upgrades>>

ReadLegacyColumns(p) ==
    /\ IF Legacy(job[p].tables, store.columns)
         THEN Goto(p, "legacy", After(p, "MIGRATION_REQUIRED"))
         ELSE Goto(p, "legacy", After(p, "UNKNOWN"))
    /\ UNCHANGED <<store, job, crashes, faults, upgrades>>

ReadMarker(p) ==
    /\ IF store.version = 0 THEN Goto(p, "marker", After(p, "UNKNOWN"))
       ELSE IF store.version > Expected THEN Goto(p, "marker", After(p, "INCOMPATIBLE_NEWER"))
       ELSE IF store.version < Expected THEN Goto(p, "marker", After(p, "MIGRATION_REQUIRED"))
       ELSE Goto(p, "marker", "columns")
    /\ UNCHANGED <<store, job, crashes, faults, upgrades>>

ReadColumns(p) ==
    /\ Goto(p, "columns", After(p, Contract(job[p].tables, store.columns)))
    /\ UNCHANGED <<store, job, crashes, faults, upgrades>>

-----------------------------------------------------------------------------
(* _migrate.                                                               *)

(* CREATE TABLE IF NOT EXISTS; runs is made with the columns of v2. *)
CreateTable(p, t) ==
    /\ First(t, job[p].todo)
    /\ IF job[p].todo = {t} THEN Goto(p, "creating", "created")
       ELSE pc[p] = "creating" /\ UNCHANGED pc
    /\ store' = [store EXCEPT !.exists = TRUE, !.tables = @ \cup {t},
                     !.columns = IF t = "runs" /\ t \notin store.tables THEN Born ELSE @]
    /\ job' = [job EXCEPT ![p].todo = @ \ {t}, ![p].wrote = @ \/ t \notin store.tables]
    /\ UNCHANGED <<crashes, faults, upgrades>>

(* PRAGMA table_info(runs), once for all the ALTER statements. *)
MissingOfV2(columns) == Born \ columns
Missing(columns) == Columns \ columns

ListColumns(p) ==
    /\ IF Missing(store.columns) = {} THEN Goto(p, "created", "altered")
       ELSE Goto(p, "created", "altering")
    /\ job' = [job EXCEPT ![p].todo = Missing(store.columns)]
    /\ UNCHANGED <<store, crashes, faults, upgrades>>

AddColumn(p, c) ==
    /\ First(c, job[p].todo)
    /\ c \notin store.columns
    /\ IF job[p].todo = {c} THEN Goto(p, "altering", "altered")
       ELSE pc[p] = "altering" /\ UNCHANGED pc
    /\ store' = [store EXCEPT !.columns = @ \cup {c}]
    /\ job' = [job EXCEPT ![p].todo = @ \ {c}, ![p].wrote = TRUE]
    /\ UNCHANGED <<crashes, faults, upgrades>>

(* Another process added it meanwhile: "duplicate column name". *)
DuplicateColumn(p, c) ==
    /\ First(c, job[p].todo)
    /\ c \in store.columns
    /\ Goto(p, "altering", "refused")
    /\ UNCHANGED <<store, job, crashes, faults, upgrades>>

StampMarker(p) ==
    /\ Goto(p, "altered", "inspecting")
    /\ store' = [store EXCEPT !.version = Stamp(@)]
    /\ job' = [job EXCEPT ![p].verifying = TRUE, ![p].wrote = @ \/ Stamp(store.version) # store.version]
    /\ UNCHANGED <<crashes, faults, upgrades>>

Migrating == {"creating", "created", "altering", "altered"}

(* A statement fails (the database is busy or full): sqlite3.Error becomes *)
(* a refusal.                                                              *)
StatementFails(p) ==
    /\ faults < MaxFaults
    /\ pc[p] \in Migrating
    /\ pc' = [pc EXCEPT ![p] = "refused"]
    /\ faults' = faults + 1
    /\ UNCHANGED <<store, job, crashes, upgrades>>

Close(p) ==
    /\ pc[p] \in {"admitted", "refused"}
    /\ pc' = [pc EXCEPT ![p] = "idle"]
    /\ job' = [job EXCEPT ![p] = Idle]
    /\ UNCHANGED <<store, crashes, faults, upgrades>>

Crash(p) ==
    /\ crashes < MaxCrashes
    /\ pc[p] # "idle"
    /\ pc' = [pc EXCEPT ![p] = "idle"]
    /\ job' = [job EXCEPT ![p] = Idle]
    /\ crashes' = crashes + 1
    /\ UNCHANGED <<store, faults, upgrades>>

(* A newer release, deployed meanwhile, migrates a store of this version.  *)
Upgrade ==
    /\ upgrades < MaxUpgrades
    /\ store.version = Expected /\ Complete(store)
    /\ store' = [store EXCEPT !.version = Expected + 1]
    /\ upgrades' = upgrades + 1
    /\ UNCHANGED <<pc, job, crashes, faults>>

Advance(p) ==
    \/ Open(p)
    \/ ReadTables(p)
    \/ ReadLegacyColumns(p)
    \/ ReadMarker(p)
    \/ ReadColumns(p)
    \/ \E t \in Tables : CreateTable(p, t)
    \/ ListColumns(p)
    \/ \E c \in Columns : AddColumn(p, c) \/ DuplicateColumn(p, c)
    \/ StampMarker(p)
    \/ Close(p)

Next ==
    \/ \E p \in Procs : Advance(p) \/ StatementFails(p) \/ Crash(p)
    \/ Upgrade

Spec == Init /\ [][Next]_vars

(* Runs are scheduled again and again, and an open goes on until it ends.  *)
FairSpec == Spec /\ \A p \in Procs : WF_vars(Advance(p))

-----------------------------------------------------------------------------
Stages == {"idle", "inspecting", "marker", "legacy", "columns", "admitted", "refused"}
              \cup Migrating

Job == [verifying : BOOLEAN, tables : SUBSET Tables, todo : SUBSET (Tables \cup Columns),
        wrote : BOOLEAN]

(* Every variable keeps its type. *)
TypeOK ==
    /\ store \in Store
    /\ pc \in [Procs -> Stages]
    /\ job \in [Procs -> Job]
    /\ crashes \in 0..MaxCrashes /\ faults \in 0..MaxFaults /\ upgrades \in 0..MaxUpgrades

(* Whoever is let in works on a store that has every table and column of   *)
(* this build, whatever other openers, kills and errors did to it before   *)
(* and meanwhile (_admit_compatibility: construction is the barrier).      *)
AdmittedComplete ==
    \A p \in Procs : pc[p] = "admitted" => Complete(store) /\ store.version >= Expected

(* Nothing strands a marked store: however migrations are interleaved and  *)
(* interrupted, a marker is never put on a store, and never left on one,   *)
(* that the next inspection calls partial (the marker is stamped last, in  *)
(* _migrate).  A store that was found stranded stays so.  A store without  *)
(* a marker is another matter: see UnmarkedOpensSucceed.                   *)
Openable == {"MIGRATION_REQUIRED", "COMPATIBLE", "INCOMPATIBLE_NEWER"}
Stranded(s) == s.version # 0 /\ Verdict(s) \notin Openable

MarkedNeverStranded == [][Stranded(store') => Stranded(store)]_store

(* No opener takes a marker back, a newer release's least of all (the      *)
(* upsert's WHERE excluded.version > schema_version.version).              *)
MarkerNeverFalls == [][store'.version >= store.version]_store

(* A marked store is opened in the end, or belongs to a newer release,     *)
(* although openers may meanwhile refuse what they half read of each other *)
(* (inspect_schema reads the tables before the marker).                    *)
MarkedOpensSucceed ==
    store.version # 0 /\ ~ Stranded(store) ~>
        store.version > Expected \/ \E p \in Procs : pc[p] = "admitted"

(* A store that is new, or of a generation before the marker, has one in   *)
(* the end.  The code does not promise it: a bootstrap or a migration from  *)
(* v1 or v2 that is killed, or meets an error, after its second table and   *)
(* before the marker leaves tables that no inspection recognises            *)
(* (inspect_schema: UNKNOWN), and every later open refuses them.            *)
UnmarkedOpensSucceed ==
    store.version = 0 /\ Verdict(store) \in {"FRESH", "MIGRATION_REQUIRED"} ~> store.version # 0

(* core/schema_state.py, SchemaStateError: the database was left untouched *)
(* for diagnosis.                                                          *)
RefusedUntouched == \A p \in Procs : pc[p] = "refused" => ~ job[p].wrote
=============================================================================
