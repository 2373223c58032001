---------------------------- MODULE CollectionRun ----------------------------
(***************************************************************************)
(* Collection runs of one collector against the store: Runner._run_one of  *)
(* core/runner.py with the store's qualification epochs, run rows,         *)
(* terminal evidence and health row, started by `run` (cli.py) or by the   *)
(* dashboard (local_collection.py) under the database's run lock, or by    *)
(* `run --no-lock` without it.  Every table the runner touches is keyed by *)
(* collector, so collectors do not meet and one stands for all.            *)
(*                                                                         *)
(* Every transaction, every SELECT between transactions and the call of    *)
(* the collector is a step.  Row ids are positions in the sequences; no    *)
(* row of these tables is ever deleted.                                    *)
(***************************************************************************)
EXTENDS CatalogueDiff, Sequences

CONSTANTS
    Procs,          \* processes that may run the collector, one run at a time
    Unlocked,       \* those started with --no-lock
    Items,          \* identities
    Observations,   \* what the source may say of an identity
    Snapshots,      \* the catalogues the collector may return
    Materials,      \* qualification material: revision, config, scope, schema
    Trusted,        \* materials with a version, a config and a known revision
    Triggers,       \* SCHEDULED, MANUAL, UNKNOWN
    Paths,          \* "cli" runs wire notification intents, "local" ones do not
    MayNotify,      \* the collector is production-tier and allowlisted
    ZeroIsFailure,  \* unexpected_zero_is_failure
    Nobody,
    MaxExecutions, MaxFaults, MaxCrashes   \* bounds of the model

ASSUME RunConstants ==
    /\ Unlocked \subseteq Procs
    /\ Nobody \notin Procs
    /\ Nothing \notin Observations
    /\ Snapshots \subseteq UNION {[S -> Observations] : S \in SUBSET Items}
    /\ Nothing \notin Snapshots /\ \A c \in Snapshots : IsFiniteSet(DOMAIN c)
    /\ Trusted \subseteq Materials
    /\ Triggers \subseteq {"SCHEDULED", "MANUAL", "UNKNOWN"}
    /\ Paths \subseteq {"cli", "local"}
    /\ {MayNotify, ZeroIsFailure} \subseteq BOOLEAN
    /\ {MaxExecutions, MaxFaults, MaxCrashes} \subseteq Nat

VARIABLES
    runs,       \* table runs, with its observations, discoveries and intents
    epochs,     \* table qualification_epochs
    terminals,  \* the TERMINAL rows of qualification_events
    health,     \* the collector's row of collector_health
    lock,       \* who holds the run lock
    pc, job,    \* a process: where it is and what it has in hand
    executions, \* executions begun: the last run_uuid
    lost,       \* executions whose process died
    faults, crashes     \* how often each bounded event happened

tables == <<runs, epochs, terminals, health>>
bounds == <<executions, lost, faults, crashes>>
vars   == <<tables, lock, pc, job, bounds>>

NoCatalogue == [i \in {} |-> Nothing]

Task(e, path, m, t) ==
    [exec |-> e, path |-> path, material |-> m, trigger |-> t, current |-> 0, epoch |-> 0,
     previous |-> NoCatalogue, known |-> FALSE, result |-> NoCatalogue]

Idle == Task(0, "none", Nothing, "none")

Init ==
    /\ runs = <<>> /\ epochs = <<>> /\ terminals = <<>>
    /\ health = [exec |-> 0, healthy |-> FALSE]
    /\ lock = Nobody
    /\ pc = [p \in Procs |-> "idle"]
    /\ job = [p \in Procs |-> Idle]
    /\ executions = 0 /\ lost = {} /\ faults = 0 /\ crashes = 0

-----------------------------------------------------------------------------
(* Queries and decisions of the store.                                     *)

(* ORDER BY id DESC LIMIT 1 *)
IsNewest(i, S) == i \in S /\ \A j \in S : j <= i

RowsOfEpoch(e) == {i \in DOMAIN runs : runs[i].epoch = e}
HealthyRowsEver(e) == {i \in DOMAIN runs : runs[i].healthy}

(* last_healthy_catalogue and has_healthy_run look at the epoch's rows.    *)
HealthyRows(e) == {i \in DOMAIN runs : runs[i].healthy /\ runs[i].epoch = e}

LastHealthyCatalogue(e) ==
    IF HealthyRows(e) = {} THEN {NoCatalogue}
    ELSE {runs[i].catalogue : i \in {k \in HealthyRows(e) : IsNewest(k, HealthyRows(e))}}

(* prepare_qualification reuses the newest epoch when its material matches. *)
ReusableUnborn(e, m) == e # 0 => epochs[e].material = m
Reusable(e, m) == e # 0 /\ epochs[e].material = m

(* INSERT OR IGNORE on UNIQUE(collector, event_type, execution_id).        *)
RecordedTwice(t) == Append(terminals, t)
Recorded(t) ==
    IF \E i \in DOMAIN terminals : terminals[i].exec = t.exec THEN terminals
    ELSE Append(terminals, t)

(* save_health is an upsert. *)
UpsertOnce(h) == IF health.exec = 0 THEN h ELSE health
Upsert(h) == h

LockIgnored(p) == TRUE
LockFree(p) == p \in Unlocked \/ lock = Nobody

(* qualification_gate, asked about the collector alone: the newest terminal *)
(* of the newest epoch decides.  A caller who also names the epoch or the   *)
(* material it expects is first refused when either is not the active one   *)
(* (STALE_EPOCH, MATERIAL_IDENTITY_MISMATCH), and has this answer otherwise.*)
ActiveTerminals == {i \in DOMAIN terminals : terminals[i].epoch = Len(epochs)}

Credible(t) ==
    /\ t.trigger # "UNKNOWN"
    /\ t.material \in Trusted
    /\ t.material = epochs[Len(epochs)].material

QualifiedAnyOutcome(i) == IsNewest(i, ActiveTerminals) /\ Credible(terminals[i])

Qualified(i) ==
    IsNewest(i, ActiveTerminals) /\ Credible(terminals[i]) /\ terminals[i].healthy

-----------------------------------------------------------------------------
(* One execution.                                                          *)

Goto(p, from, to) == pc[p] = from /\ pc' = [pc EXCEPT ![p] = to]

(* The lock, the execution's uuid and its material. *)
Begin(p, path, m, t) ==
    /\ Goto(p, "idle", "begun")
    /\ executions < MaxExecutions
    /\ LockFree(p)
    /\ path = "local" => p \notin Unlocked /\ MayNotify
    /\ lock' = IF p \in Unlocked THEN lock ELSE p
    /\ executions' = executions + 1
    /\ job' = [job EXCEPT ![p] = Task(executions + 1, path, m, t)]
    /\ UNCHANGED <<tables, lost, faults, crashes>>

(* prepare_qualification's SELECT runs before its transaction opens. *)
ReadEpoch(p) ==
    /\ \/ Reusable(Len(epochs), job[p].material) /\ Goto(p, "begun", "prepared")
       \/ ~ Reusable(Len(epochs), job[p].material) /\ Goto(p, "begun", "resetting")
    /\ job' = [job EXCEPT ![p].current = Len(epochs), ![p].epoch = Len(epochs)]
    /\ UNCHANGED <<tables, lock, bounds>>

(* The epoch and its EPOCH_STARTED or RESET event, in one transaction. *)
InsertEpoch(p) ==
    /\ Goto(p, "resetting", "prepared")
    /\ epochs' = Append(epochs, [material |-> job[p].material, exec |-> job[p].exec,
                                 previous |-> job[p].current])
    /\ job' = [job EXCEPT ![p].epoch = Len(epochs) + 1]
    /\ UNCHANGED <<runs, terminals, health, lock, bounds>>

ReadCatalogue(p) ==
    /\ Goto(p, "prepared", "reading")
    /\ \E c \in LastHealthyCatalogue(job[p].epoch) : job' = [job EXCEPT ![p].previous = c]
    /\ UNCHANGED <<tables, lock, bounds>>

CheckHistory(p) ==
    /\ Goto(p, "reading", "ready")
    /\ job' = [job EXCEPT ![p].known = (HealthyRows(job[p].epoch) # {})]
    /\ UNCHANGED <<tables, lock, bounds>>

(* collector.run() returns a catalogue, which assess_catalogue accepts or   *)
(* rejects.                                                                *)
Collect(p, c) ==
    /\ IF Collapsed(Cardinality(DOMAIN c), job[p].known,
                    Cardinality(DOMAIN job[p].previous), ZeroIsFailure)
         THEN Goto(p, "ready", "failing") ELSE Goto(p, "ready", "assessed")
    /\ job' = [job EXCEPT ![p].result = c]
    /\ UNCHANGED <<tables, lock, bounds>>

(* It raises, or returns foreign or duplicate identities. *)
CollectRaises(p) ==
    /\ Goto(p, "ready", "failing")
    /\ UNCHANGED <<tables, job, lock, bounds>>

Found(p) == IF job[p].known THEN Diff(job[p].previous, job[p].result) ELSE {}

Intents(p) ==
    IF MayNotify /\ job[p].path = "cli" THEN {d \in Found(p) : DeliveryEligible(d)} ELSE {}

Row(p, healthy) ==
    [exec |-> job[p].exec, epoch |-> job[p].epoch, material |-> job[p].material,
     healthy |-> healthy,
     catalogue |-> IF healthy THEN job[p].result ELSE NoCatalogue,
     found |-> IF healthy THEN Found(p) ELSE {},
     intents |-> IF healthy THEN Intents(p) ELSE {}]

(* save_run: the row, its observations, discoveries and intents commit     *)
(* together.                                                               *)
SaveRun(p, healthy, from, to) ==
    /\ Goto(p, from, to)
    /\ runs' = Append(runs, Row(p, healthy))
    /\ UNCHANGED <<epochs, terminals, health, job, lock, bounds>>

RecordTerminal(p, healthy, from, to) ==
    /\ Goto(p, from, to)
    /\ terminals' = Recorded([exec |-> job[p].exec, epoch |-> job[p].epoch, healthy |-> healthy,
                              material |-> job[p].material, trigger |-> job[p].trigger])
    /\ UNCHANGED <<runs, epochs, health, job, lock, bounds>>

SaveHealth(p, healthy, from) ==
    /\ Goto(p, from, "done")
    /\ health' = Upsert([exec |-> job[p].exec, healthy |-> healthy])
    /\ UNCHANGED <<runs, epochs, terminals, job, lock, bounds>>

Succeed(p) ==
    \/ SaveRun(p, TRUE, "assessed", "saved")
    \/ RecordTerminal(p, TRUE, "saved", "evidenced")
    \/ SaveHealth(p, TRUE, "evidenced")

(* The except branch stores the failure under the same execution. *)
Fail(p) ==
    \/ SaveRun(p, FALSE, "failing", "failsaved")
    \/ RecordTerminal(p, FALSE, "failsaved", "failevidenced")
    \/ SaveHealth(p, FALSE, "failevidenced")

(* A store call of the try block raises (the database is busy): nothing of *)
(* its transaction is kept and the except branch runs.                     *)
StoreRaises(p) ==
    /\ faults < MaxFaults
    /\ pc[p] \in {"assessed", "saved", "evidenced"}
    /\ pc' = [pc EXCEPT ![p] = "failing"]
    /\ faults' = faults + 1
    /\ UNCHANGED <<tables, job, lock, executions, lost, crashes>>

ReleaseForgotten(p) == UNCHANGED lock
Release(p) == lock' = IF lock = p THEN Nobody ELSE lock

Finish(p) ==
    /\ Goto(p, "done", "idle")
    /\ job' = [job EXCEPT ![p] = Idle]
    /\ Release(p)
    /\ UNCHANGED <<tables, bounds>>

(* A kill, a reboot, or a store error outside the try block: the kernel     *)
(* drops the lock of a dead process.                                       *)
Crash(p) ==
    /\ pc[p] # "idle"
    /\ crashes < MaxCrashes
    /\ pc' = [pc EXCEPT ![p] = "idle"]
    /\ job' = [job EXCEPT ![p] = Idle]
    /\ lost' = lost \cup {job[p].exec}
    /\ crashes' = crashes + 1
    /\ Release(p)
    /\ UNCHANGED <<tables, executions, faults>>

Advance(p) ==
    \/ ReadEpoch(p)
    \/ InsertEpoch(p)
    \/ ReadCatalogue(p)
    \/ CheckHistory(p)
    \/ \E c \in Snapshots : Collect(p, c)
    \/ CollectRaises(p)
    \/ Succeed(p)
    \/ Fail(p)
    \/ Finish(p)

Next ==
    \E p \in Procs :
        \/ \E path \in Paths, m \in Materials, t \in Triggers : Begin(p, path, m, t)
        \/ Advance(p)
        \/ StoreRaises(p)
        \/ Crash(p)

Spec == Init /\ [][Next]_vars

(* A run goes on until it ends: every fetch has a timeout. *)
FairSpec == Spec /\ \A p \in Procs : WF_vars(Advance(p))

-----------------------------------------------------------------------------
(* Properties of every interleaving, --no-lock runs included.              *)

Catalogues == UNION {[S -> Observations] : S \in SUBSET Items}
Sides      == Observations \cup {Nothing}
Changes    == {"NEW_DEVICE", "NEWS_ITEM_APPEARED", "PRICE_CHANGE", "AVAILABILITY_CHANGE",
               "FIRMWARE_RELEASED", "SPEC_CHANGED", "SOURCE_LISTING_REMOVED", "PRODUCT_REMOVED"}
Executions == 1..MaxExecutions
Discoveries == [item : Items, change : Changes, before : Sides, after : Sides]

RunRow == [exec : Executions, epoch : Nat \ {0}, material : Materials, healthy : BOOLEAN,
           catalogue : Catalogues, found : SUBSET Discoveries, intents : SUBSET Discoveries]
EpochRow == [material : Materials, exec : Executions, previous : Nat]
TerminalRow == [exec : Executions, epoch : Nat, healthy : BOOLEAN, material : Materials,
                trigger : Triggers]
Stages == {"idle", "begun", "resetting", "prepared", "reading", "ready", "assessed", "saved",
           "evidenced", "failing", "failsaved", "failevidenced", "done"}
Job == [exec : Executions, path : Paths, material : Materials, trigger : Triggers,
        current : Nat, epoch : Nat, previous : Catalogues, known : BOOLEAN, result : Catalogues]

JobOK(stage, work) ==
    IF stage = "idle" THEN work = Idle
    ELSE work \in Job /\ (stage \notin {"begun", "resetting"} => work.epoch > 0)

ProcessesOK ==
    /\ pc \in [Procs -> Stages]
    /\ job \in [Procs -> Job \cup {Idle}]
    /\ \A p \in Procs : JobOK(pc[p], job[p])

(* Every variable keeps its type. *)
TypeOK ==
    /\ runs \in Seq(RunRow) /\ epochs \in Seq(EpochRow) /\ terminals \in Seq(TerminalRow)
    /\ health \in [exec : 0..MaxExecutions, healthy : BOOLEAN]
    /\ lock \in Procs \cup {Nobody}
    /\ ProcessesOK
    /\ executions \in 0..MaxExecutions /\ lost \subseteq Executions
    /\ faults \in 0..MaxFaults /\ crashes \in 0..MaxCrashes

HealthyNow == {i \in DOMAIN runs : runs[i].healthy}
RowsOf(e) == {i \in DOMAIN runs : runs[i].exec = e}
Ended(e)  == e \in 1..executions /\ \A p \in Procs : job[p].exec # e

(* The evidence of an execution is one TERMINAL row, never without the run *)
(* row it reports; an execution that failed after its commit has a second, *)
(* failed row and no other; and one that ended alive has left evidence     *)
(* (_run_one's save_run and record_qualification_terminal in both          *)
(* branches).                                                              *)
TerminalUnique ==
    \A i, j \in DOMAIN terminals : terminals[i].exec = terminals[j].exec => i = j
TerminalBacked ==
    \A i \in DOMAIN terminals : \E k \in RowsOf(terminals[i].exec) :
        /\ runs[k].healthy = terminals[i].healthy
        /\ runs[k].epoch = terminals[i].epoch
        /\ runs[k].material = terminals[i].material
SecondRowFailed ==
    \A i, j \in DOMAIN runs :
        i < j /\ runs[i].exec = runs[j].exec => runs[i].healthy /\ ~ runs[j].healthy
EndedReported ==
    \A e \in Executions : Ended(e) /\ e \notin lost =>
        \E i \in DOMAIN terminals : terminals[i].exec = e

ExecutionLedger == TerminalUnique /\ TerminalBacked /\ SecondRowFailed /\ EndedReported

(* The gate opens only on a stored healthy run of trusted material and a   *)
(* known trigger, made under the newest epoch and that epoch's material    *)
(* (qualification_gate).                                                   *)
GateEarned ==
    \A t \in DOMAIN terminals : Qualified(t) => \E i \in RowsOf(terminals[t].exec) :
        /\ runs[i].healthy
        /\ runs[i].epoch = Len(epochs)
        /\ runs[i].material = epochs[Len(epochs)].material
        /\ runs[i].material \in Trusted

-----------------------------------------------------------------------------
(* Properties that need the run lock.                                      *)

(* Within an epoch the discoveries of each healthy run tell exactly how    *)
(* its catalogue came from the last healthy one before it, and the first   *)
(* tells nothing, whatever failed, crashed or was rejected in between      *)
(* (README: a collector's first healthy result is a silent baseline).      *)
HistoryTells ==
    \A i \in DOMAIN runs : runs[i].healthy =>
        LET before == {j \in HealthyNow : runs[j].epoch = runs[i].epoch /\ j < i} IN
        /\ before = {} => runs[i].found = {}
        /\ \A j \in before : IsNewest(j, before) =>
             Tells(runs[i].found, runs[j].catalogue, runs[i].catalogue)

(* An epoch begins only when the material really changed, and names the    *)
(* epoch it replaces (prepare_qualification).                              *)
ResetsOnlyOnChange ==
    \A i \in DOMAIN epochs :
        /\ epochs[i].previous = i - 1
        /\ i > 1 => epochs[i].material # epochs[i - 1].material

(* Once an execution has ended alive and nothing runs, collector_health    *)
(* shows that execution with the outcome of the newest run row.            *)
HealthMirrorsLastRun ==
    (\A p \in Procs : pc[p] = "idle") /\ executions > 0 /\ executions \notin lost =>
        health = [exec |-> executions, healthy |-> runs[Len(runs)].healthy]

(* Every execution ends with its evidence stored, or is lost with its      *)
(* process, and does not keep the lock (the lock's with-block, and the     *)
(* kernel's release on death).                                             *)
EveryRunReports ==
    \A e \in Executions :
        (executions >= e) ~>
            /\ Ended(e)
            /\ e \in lost \/ \E i \in DOMAIN terminals : terminals[i].exec = e
            /\ executions = e => lock = Nobody

(* The promise of CatalogueWatch: the newest healthy row is what a watcher *)
(* holds, and the discoveries of an execution are what it announced.       *)
LastHealthy == CHOOSE i \in HealthyNow : IsNewest(i, HealthyNow)
Held        == IF HealthyNow = {} THEN Nothing ELSE runs[LastHealthy].catalogue
HeldIn      == IF HealthyNow = {} THEN 0 ELSE runs[LastHealthy].epoch
Announced   == [e \in Executions |-> UNION {runs[i].found : i \in RowsOf(e)}]

Watch == INSTANCE CatalogueWatch WITH
    Runs       <- Executions,
    Eras       <- Executions,
    Catalogues <- Snapshots,
    Unknown    <- Nothing,
    known      <- Held,
    era        <- HeldIn,
    announced  <- Announced

ImplementsWatch == Watch!Spec

-----------------------------------------------------------------------------
(* What the documentation says.                                            *)

(* README, safety model: a catastrophically shrunken catalogue never       *)
(* replaces the last healthy one, whatever became of the material.         *)
ShrunkenNeverReplaces ==
    \A i, j \in HealthyNow :
        i < j /\ (\A k \in HealthyNow : k <= i \/ k >= j) =>
            ~ Collapsed(Cardinality(DOMAIN runs[j].catalogue), TRUE,
                        Cardinality(DOMAIN runs[i].catalogue), ZeroIsFailure)

(* docs/qualification-provenance.md, Gate: healthy terminal evidence is     *)
(* required and divergent evidence is ineligible.  So an execution that     *)
(* qualifies and has ended must not have failed by its own last run row.    *)
DivergentIneligible ==
    \A t \in DOMAIN terminals : Qualified(t) /\ Ended(terminals[t].exec) =>
        \A k \in RowsOf(terminals[t].exec) :
            IsNewest(k, RowsOf(terminals[t].exec)) => runs[k].healthy

(* README: an eligible discovery and its notification intent commit        *)
(* together.                                                               *)
EligibleHaveIntents ==
    MayNotify => \A i \in DOMAIN runs :
        {d \in runs[i].found : DeliveryEligible(d)} \subseteq runs[i].intents
=============================================================================
