------------------------------ MODULE RunCycle ------------------------------
(***************************************************************************)
(* What surrounds the collectors of a `run` (main of cli.py), and `backup` *)
(* beside it: the continuity registry of core/continuity.py, the run lock  *)
(* of core/lock.py with the owner record in its file, the soak cycle of    *)
(* core/soak.py, and the news evidence of intelligence/news.py.  The       *)
(* collectors themselves are CollectionRun's; here one step leaves the     *)
(* news collector's newest healthy feed.                                   *)
(*                                                                         *)
(* Every transaction, SELECT and file operation is a step.  The lock is an *)
(* advisory lock on an open file: the kernel drops it when its holder      *)
(* dies, and the owner record inside stays behind.                         *)
(***************************************************************************)
EXTENDS Naturals, Sequences, SequencesExt

CONSTANTS
    Runs,       \* processes that call `run`
    Unlocked,   \* those of them started with --no-lock
    Backups,    \* processes that call `backup`
    ReadOnly,   \* those of them that see the database on a read-only mount
    Hosts,      \* SMARTWATCH_CLANK_HOST_ID
    Seeds,      \* the number of SEED_EVENTS
    Articles,   \* identities of articles, naturals in the order of their names
    Promoted,   \* those classified as relevant or possibly so
    Feeds,      \* what the news collector may find: sets of articles
    NoHost, Nobody,
    MaxRuns, MaxFaults      \* bounds of the model

Procs == Runs \cup Backups
Locking == Procs \ Unlocked

ASSUME CycleConstants ==
    /\ Runs \cap Backups = {} /\ Unlocked \subseteq Runs /\ ReadOnly \subseteq Backups
    /\ Nobody \notin Procs /\ {"absent", "empty"} \cap Procs = {}
    /\ NoHost \notin Hosts
    /\ Seeds \in Nat /\ Articles \subseteq Nat
    /\ Promoted \subseteq Articles /\ Feeds \subseteq SUBSET Articles
    /\ IsFiniteSet(Runs) /\ {MaxRuns, MaxFaults} \subseteq Nat

VARIABLES
    registry,   \* continuity-events.jsonl: its whole lines; if the last is torn,
                \* the runs that were appending when that happened
    flock, lockFile,    \* who holds the lock; the file's text, "empty" if unreadable
    unsigned,   \* the last to take the lock has not been able to write its name
    activeHost, activeName, moves,  \* soak_state, soak_host_migrations
    feed,       \* the last healthy articles and when they were collected
    evidence, timeline,     \* evidence_records, evidence_timeline
    partial, backup,    \* the .partial file and the finished one
    pc, job,
    starts, clock,      \* commands begun, collections timed
    crashes, unwritten  \* deaths, owner records that could not be written

owner == <<lockFile, unsigned, unwritten>>
soak  == <<activeHost, activeName, moves>>
news  == <<feed, evidence, timeline>>
files == <<partial, backup>>
vars  == <<registry, flock, owner, soak, news, files, pc, job, starts, clock, crashes>>

NoEvidence == [first |-> 0, last |-> 0]
NoBackup   == [evidence |-> [a \in Articles |-> NoEvidence], timeline |-> <<>>, lines |-> <<>>,
               whole |-> FALSE]
Idle == [host |-> NoHost, known |-> {}, previous |-> NoHost, todo |-> {}]

Init ==
    /\ registry = [lines |-> <<>>, torn |-> {}]
    /\ flock = Nobody /\ lockFile = "absent" /\ unsigned = FALSE /\ unwritten = 0
    /\ activeHost = NoHost /\ activeName = NoHost /\ moves = <<>>
    /\ feed = [articles |-> {}, at |-> 0]
    /\ evidence = [a \in Articles |-> NoEvidence] /\ timeline = <<>>
    /\ partial = NoBackup /\ backup = NoBackup
    /\ pc = [p \in Procs |-> "idle"] /\ job = [p \in Procs |-> Idle]
    /\ starts = 0 /\ clock = 0 /\ crashes = 0

Goto(p, from, to) == pc[p] = from /\ pc' = [pc EXCEPT ![p] = to]
Least(i, S) == i \in S /\ \A j \in S : i <= j

-----------------------------------------------------------------------------
(* The continuity registry: ensure_registry, before the lock is taken.     *)

Begin(p, h) ==
    /\ starts < MaxRuns
    /\ IF p \in Runs THEN Goto(p, "idle", "seeking") ELSE Goto(p, "idle", "locking")
    /\ starts' = starts + 1
    /\ job' = [job EXCEPT ![p] = [Idle EXCEPT !.host = h]]
    /\ UNCHANGED <<registry, flock, owner, soak, news, files, clock, crashes>>

Torn == registry.torn # {}

(* read_events parses every line, or raises and ends the run. *)
ReadEvents(p) ==
    /\ IF Torn THEN Goto(p, "seeking", "idle") ELSE Goto(p, "seeking", "seeding")
    /\ job' = [job EXCEPT ![p] = IF Torn THEN Idle
                                ELSE [@ EXCEPT !.known = ToSet(registry.lines)]]
    /\ UNCHANGED <<registry, flock, owner, soak, news, files, starts, clock, crashes>>

MissingOnlyFirst(known) == IF known = {} THEN {1} ELSE {}
Missing(known) == (1..Seeds) \ known

(* append_event writes one line and syncs it; after a torn line it is lost, *)
(* for nobody reads past one.                                               *)
AppendSeed(p, s) ==
    /\ pc[p] = "seeding"
    /\ Least(s, Missing(job[p].known))
    /\ registry' = IF Torn THEN registry
                   ELSE [registry EXCEPT !.lines = Append(@, s)]
    /\ job' = [job EXCEPT ![p].known = @ \cup {s}]
    /\ UNCHANGED <<flock, owner, soak, news, files, pc, starts, clock, crashes>>

Seeded(p) ==
    /\ Missing(job[p].known) = {}
    /\ IF p \in Unlocked THEN Goto(p, "seeding", "opened") ELSE Goto(p, "seeding", "locking")
    /\ UNCHANGED <<registry, flock, owner, soak, news, files, job, starts, clock, crashes>>

-----------------------------------------------------------------------------
(* RunLock.                                                                *)

MaySteal(p) == TRUE
MayLock(p) == flock = Nobody

OpenedCutting(p) == IF p \in ReadOnly THEN lockFile ELSE "empty"
Opened(p) == IF lockFile = "absent" /\ p \notin ReadOnly THEN "empty" ELSE lockFile

Critical(p) == IF p \in Runs THEN "opened" ELSE "copying"

Acquire(p) ==
    /\ MayLock(p)
    /\ p \in ReadOnly => lockFile # "absent"
    /\ flock' = p
    /\ lockFile' = Opened(p)
    /\ unsigned' = (p \in ReadOnly)
    /\ IF p \in ReadOnly THEN Goto(p, "locking", Critical(p)) ELSE Goto(p, "locking", "naming")
    /\ UNCHANGED <<registry, unwritten, soak, news, files, job, starts, clock, crashes>>

(* Held by another, or a read-only mount without a lock file: RunLockError. *)
Refused(p) ==
    /\ \/ ~ MayLock(p)
       \/ p \in ReadOnly /\ lockFile = "absent"
    /\ Goto(p, "locking", "idle")
    /\ lockFile' = Opened(p)
    /\ job' = [job EXCEPT ![p] = Idle]
    /\ UNCHANGED <<registry, flock, unsigned, unwritten, soak, news, files, starts, clock, crashes>>

(* The owner record: the file is cut, then written.  An OSError of either  *)
(* is passed over: the holder goes on, and the file keeps what it had.     *)
CutOwner(p) ==
    /\ Goto(p, "naming", "signing")
    /\ lockFile' = "empty"
    /\ UNCHANGED <<registry, flock, unsigned, unwritten, soak, news, files, job, starts, clock, crashes>>

SignOwner(p) ==
    /\ Goto(p, "signing", Critical(p))
    /\ lockFile' = p
    /\ UNCHANGED <<registry, flock, unsigned, unwritten, soak, news, files, job, starts, clock, crashes>>

StaysUnsigned(p) ==
    /\ Goto(p, "naming", Critical(p)) \/ Goto(p, "signing", Critical(p))
    /\ crashes + unwritten < MaxFaults
    /\ unsigned' = TRUE /\ unwritten' = unwritten + 1
    /\ UNCHANGED <<registry, flock, lockFile, soak, news, files, job, starts, clock, crashes>>

UnlockForgotten(p) == UNCHANGED flock
Unlock(p) == flock' = IF flock = p THEN Nobody ELSE flock

Release(p) ==
    /\ Goto(p, "releasing", "idle")
    /\ Unlock(p)
    /\ job' = [job EXCEPT ![p] = Idle]
    /\ UNCHANGED <<registry, owner, soak, news, files, starts, clock, crashes>>

-----------------------------------------------------------------------------
(* prepare_soak_cycle: a read, then four transactions.                     *)

Moved(previous, h) == previous # NoHost /\ previous # h

ReadHost(p) ==
    /\ IF Moved(activeHost, job[p].host) THEN Goto(p, "opened", "moving")
       ELSE Goto(p, "opened", "activating")
    /\ job' = [job EXCEPT ![p].previous = activeHost]
    /\ UNCHANGED <<registry, flock, owner, soak, news, files, starts, clock, crashes>>

Move(from, to) == [from |-> from, to |-> to]

MigrationFromName(p) == Move(activeName, job[p].host)
Migration(p) == Move(job[p].previous, job[p].host)

SaveMigration(p) ==
    /\ Goto(p, "moving", "activating")
    /\ moves' = Append(moves, Migration(p))
    /\ UNCHANGED <<registry, flock, owner, activeHost, activeName, news, files, job,
                   starts, clock, crashes>>

SetHost(p) ==
    /\ Goto(p, "activating", "renaming")
    /\ activeHost' = job[p].host
    /\ UNCHANGED <<registry, flock, owner, activeName, moves, news, files, job, starts, clock, crashes>>

SetHostname(p) ==
    /\ Goto(p, "renaming", "stamping")
    /\ activeName' = job[p].host
    /\ UNCHANGED <<registry, flock, owner, activeHost, moves, news, files, job, starts, clock, crashes>>

(* last_cycle_started_at is written here and read nowhere. *)
SetCycleStart(p) ==
    /\ Goto(p, "stamping", "collecting")
    /\ UNCHANGED <<registry, flock, owner, soak, news, files, job, starts, clock, crashes>>

-----------------------------------------------------------------------------
(* persist_news_evidence over the newest healthy feed, this run's or an    *)
(* older one's: per article an upsert, then a timeline event.              *)

Collect(p, F) ==
    /\ Goto(p, "collecting", "publishing")
    /\ clock' = clock + 1
    /\ \/ feed' = [articles |-> F, at |-> clock']
       \/ UNCHANGED feed     \* this run's collector was not healthy
    /\ job' = [job EXCEPT ![p].todo = feed'.articles \cap Promoted]
    /\ UNCHANGED <<registry, flock, owner, soak, evidence, timeline, files, starts, crashes>>

(* INSERT, or UPDATE of all but first_seen. *)
SeenAgain(old, at) == [first |-> at, last |-> at]
Seen(old, at) == [first |-> IF old = NoEvidence THEN at ELSE old.first, last |-> at]

RecordEvidence(p, a) ==
    /\ Least(a, job[p].todo)
    /\ Goto(p, "publishing", "dating")
    /\ evidence' = [evidence EXCEPT ![a] = Seen(@, feed.at)]
    /\ UNCHANGED <<registry, flock, owner, soak, feed, timeline, files, job, starts, clock, crashes>>

RecordEvent(p, a) ==
    /\ Least(a, job[p].todo)
    /\ Goto(p, "dating", "publishing")
    /\ timeline' = Append(timeline, [article |-> a, at |-> feed.at])
    /\ job' = [job EXCEPT ![p].todo = @ \ {a}]
    /\ UNCHANGED <<registry, flock, owner, soak, feed, evidence, files, starts, clock, crashes>>

Published(p) ==
    /\ job[p].todo = {}
    /\ Goto(p, "publishing", "releasing")
    /\ UNCHANGED <<registry, flock, owner, soak, news, files, job, starts, clock, crashes>>

-----------------------------------------------------------------------------
(* backup_to: the copy goes to a .partial file that replaces the target.   *)

OpenCopy(p) ==
    /\ Goto(p, "copying", "filling")
    /\ partial' = NoBackup
    /\ UNCHANGED <<registry, flock, owner, soak, news, backup, job, starts, clock, crashes>>

FillCopy(p) ==
    /\ Goto(p, "filling", "replacing")
    /\ partial' = [NoBackup EXCEPT !.evidence = evidence, !.timeline = timeline, !.whole = TRUE]
    /\ UNCHANGED <<registry, flock, owner, soak, news, backup, job, starts, clock, crashes>>

(* The disk is full or the source is unreadable: the .partial is unlinked. *)
FailCopy(p) ==
    /\ Goto(p, "filling", "releasing")
    /\ partial' = NoBackup
    /\ UNCHANGED <<registry, flock, owner, soak, news, backup, job, starts, clock, crashes>>

Replace(p) ==
    /\ Goto(p, "replacing", "snapshotting")
    /\ backup' = [partial EXCEPT !.lines = backup.lines]
    /\ partial' = NoBackup
    /\ UNCHANGED <<registry, flock, owner, soak, news, job, starts, clock, crashes>>

(* The registry is copied beside the backup, outside any registry lock. *)
SnapshotRegistry(p) ==
    /\ Goto(p, "snapshotting", "releasing")
    /\ backup' = [backup EXCEPT !.lines = registry.lines]
    /\ UNCHANGED <<registry, flock, owner, soak, news, partial, job, starts, clock, crashes>>

-----------------------------------------------------------------------------
(* A kill or an exception, wherever the command is: the lock comes free     *)
(* with it, and a registry line that was being written may stay torn.      *)
Appending(p) == pc[p] = "seeding" /\ Missing(job[p].known) # {}

Crash(p) ==
    /\ crashes + unwritten < MaxFaults
    /\ pc[p] # "idle"
    /\ pc' = [pc EXCEPT ![p] = "idle"]
    /\ job' = [job EXCEPT ![p] = Idle]
    /\ crashes' = crashes + 1
    /\ Unlock(p)
    /\ \/ UNCHANGED registry
       \/ /\ Appending(p)
          /\ registry' = [registry EXCEPT !.torn = @ \cup {q \in Runs : Appending(q)}]
    /\ UNCHANGED <<owner, soak, news, files, starts, clock>>

Advance(p) ==
    \/ ReadEvents(p)
    \/ \E s \in 1..Seeds : AppendSeed(p, s)
    \/ Seeded(p)
    \/ Acquire(p)
    \/ Refused(p)
    \/ CutOwner(p)
    \/ SignOwner(p)
    \/ StaysUnsigned(p)
    \/ ReadHost(p)
    \/ SaveMigration(p)
    \/ SetHost(p)
    \/ SetHostname(p)
    \/ SetCycleStart(p)
    \/ \E F \in Feeds : Collect(p, F)
    \/ \E a \in Articles : RecordEvidence(p, a) \/ RecordEvent(p, a)
    \/ Published(p)
    \/ OpenCopy(p)
    \/ FillCopy(p)
    \/ FailCopy(p)
    \/ Replace(p)
    \/ SnapshotRegistry(p)
    \/ Release(p)

Next ==
    \E p \in Procs :
        \/ \E h \in Hosts : Begin(p, h)
        \/ Advance(p)
        \/ Crash(p)

Spec == Init /\ [][Next]_vars

(* A command that has begun goes on until it ends. *)
FairSpec == Spec /\ \A p \in Procs : WF_vars(Advance(p))

-----------------------------------------------------------------------------
RunStages    == {"opened", "moving", "activating", "renaming", "stamping", "collecting", "publishing",
                 "dating"}
BackupStages == {"copying", "filling", "replacing", "snapshotting"}
Inside(p)    == pc[p] \in RunStages \cup BackupStages \cup {"naming", "signing", "releasing"}

(* Inside the lock is one locking process at a time, whatever became of    *)
(* the owner record; and while it works the file names it, unless it could *)
(* not write its record, for which RunLock.acquire goes on without one.    *)
LockExcludes == \A p \in Locking : Inside(p) => flock = p
OwnerNamed ==
    \A p \in Locking :
        pc[p] \in RunStages \cup BackupStages \cup {"releasing"} => unsigned \/ lockFile = p
HolderNamed == LockExcludes /\ OwnerNamed

(* A run works on its database only when every seed event is in the        *)
(* registry, which is written outside the lock; a torn line excuses only   *)
(* the runs that were appending when it tore, and keeps all later ones     *)
(* out.  Runs that find an event missing together all append it, so it is  *)
(* there at most once for each run that may be under way                   *)
(* (ensure_registry).                                                      *)
SeedsFounded ==
    \A p \in Runs : pc[p] \in RunStages =>
        p \in registry.torn \/ 1..Seeds \subseteq ToSet(registry.lines)
Appended(s) == {i \in DOMAIN registry.lines : registry.lines[i] = s}
SeedsBounded == \A s \in 1..Seeds : Cardinality(Appended(s)) <= Cardinality(Runs)
SeedsPresent == SeedsFounded /\ SeedsBounded

(* The recorded host migrations are a trail: each starts where the last    *)
(* one led, or where it had started when its run died before it became the *)
(* active host; and the active host is where the last one led or started   *)
(* (prepare_soak_cycle commits the migration first).                       *)
HostTrail ==
    /\ \A i \in DOMAIN moves :
        /\ moves[i].from # NoHost /\ moves[i].from # moves[i].to
        /\ i > 1 => moves[i].from \in {moves[i - 1].from, moves[i - 1].to}
        /\ i > 1 /\ crashes = 0 => moves[i].from = moves[i - 1].to
    /\ moves # <<>> => activeHost \in {moves[Len(moves)].from, moves[Len(moves)].to}

(* An article's timeline lies between its first and its last sighting and  *)
(* goes forward; and each record has the event of its last sighting but    *)
(* the one in hand and at most one for every process that died             *)
(* (persist_news_evidence commits the record first, then its event).       *)
Undated(records, events) ==
    {a \in Articles : records[a] # NoEvidence
                     /\ [article |-> a, at |-> records[a].last] \notin ToSet(events)}

EvidenceAccounted ==
    /\ \A i \in DOMAIN timeline :
        /\ evidence[timeline[i].article].first <= timeline[i].at
        /\ timeline[i].at <= evidence[timeline[i].article].last
        /\ \A j \in 1..i : timeline[j].at <= timeline[i].at
    /\ Cardinality(Undated(evidence, timeline)) <= Cardinality({p \in Runs : pc[p] = "dating"}) + crashes

(* A backup shows the database whole and between two runs, never inside    *)
(* one, and the registry beside it has every event a run of that database  *)
(* worked under (backup under the run lock).                               *)
BackupSettled ==
    /\ Cardinality(Undated(backup.evidence, backup.timeline)) <= crashes
    /\ backup.lines # <<>> => backup.whole
    /\ backup.timeline # <<>> =>
        \/ \E p \in Backups : pc[p] = "snapshotting"
        \/ crashes > 0
        \/ 1..Seeds \subseteq ToSet(backup.lines)

(* The lock comes free again, whoever takes it and whether it ends well,   *)
(* by an error or by a kill.                                               *)
LockComesFree == \A p \in Procs : flock = p ~> flock # p
=============================================================================
