--------------------------- MODULE RunCycleProofs ----------------------------
(***************************************************************************)
(* Proofs about RunCycle, for every set of runs (locked or not), backups,  *)
(* hosts, articles and bounds.                                             *)
(*                                                                         *)
(* HolderNamed rests on only locking processes coming to the lock (Roles); *)
(* SeedsPresent on what a run that is still seeding has already read or    *)
(* written (Known), and on there being no more lines with an event and     *)
(* runs that may still append it, together, than runs (Bounded).           *)
(***************************************************************************)
EXTENDS RunCycle, FiniteSetTheorems, TLAPS

Stages == {"idle", "seeking", "seeding", "locking", "naming", "signing", "releasing"}
              \cup RunStages \cup BackupStages

Roles ==
    \A p \in Procs :
        /\ pc[p] \in {"locking", "naming", "signing"} => p \in Locking
        /\ pc[p] \in {"seeking", "seeding"} => p \in Runs

LockInv == pc \in [Procs -> Stages] /\ Roles /\ LockExcludes /\ OwnerNamed

Seeking == {"idle", "seeking", "seeding"}

(* A run past the registry leaves every seed event in it. *)
Known ==
    \A p \in Runs :
        /\ pc[p] = "seeding" => p \in registry.torn \/ job[p].known \subseteq ToSet(registry.lines)
        /\ Torn /\ Appending(p) => p \in registry.torn
        /\ pc[p] \notin Seeking => p \in registry.torn \/ 1..Seeds \subseteq ToSet(registry.lines)

Jobs == [host : Hosts \cup {NoHost}, known : SUBSET (1..Seeds),
         previous : Hosts \cup {NoHost}, todo : SUBSET Articles]
Registries == [lines : Seq(1..Seeds), torn : SUBSET Runs]

Types ==
    /\ pc \in [Procs -> Stages] /\ job \in [Procs -> Jobs] /\ registry \in Registries
    /\ activeHost \in Hosts \cup {NoHost}

SeedInv == Types /\ Known

-----------------------------------------------------------------------------
(* The lock.                                                               *)

(* Nobody holds it at first. *)
LEMMA LockInit == Init => LockInv
  BY DEF Init, LockInv, Roles, LockExcludes, OwnerNamed, Stages, Inside, RunStages, BackupStages,
         Locking, Idle

(* A process that moves between two stages inside or between two outside,  *)
(* without touching the lock.                                              *)
LEMMA MoveKeeps ==
  ASSUME LockInv, NEW p \in Procs, NEW stage \in Stages, pc' = [pc EXCEPT ![p] = stage],
         UNCHANGED <<flock, lockFile, unsigned>>,
         stage \in RunStages \cup BackupStages \cup {"releasing"} =>
             pc[p] \in RunStages \cup BackupStages \cup {"releasing"} \/ p \notin Locking,
         stage \notin {"naming", "signing"},
         stage = "locking" => p \in Locking, stage \in {"seeking", "seeding"} => p \in Runs
  PROVE  LockInv'
<1>1. pc' \in [Procs -> Stages]
  BY DEF LockInv
<1>2. Roles'
  BY DEF LockInv, Roles
<1>3. LockExcludes'
  BY DEF LockInv, LockExcludes, Inside, Locking
<1>4. OwnerNamed'
  BY DEF LockInv, OwnerNamed, Locking
<1> QED
  BY <1>1, <1>2, <1>3, <1>4 DEF LockInv

(* Taking, naming and giving up the lock. *)
LEMMA LockSteps ==
  ASSUME LockInv, NEW p \in Procs,
         \/ Acquire(p) \/ Refused(p) \/ CutOwner(p) \/ SignOwner(p)
             \/ StaysUnsigned(p) \/ Release(p) \/ Crash(p)
  PROVE  LockInv'
<1> USE CycleConstants DEF Procs, Locking
<1>0. /\ pc \in [Procs -> Stages] /\ Roles /\ LockExcludes /\ OwnerNamed
      /\ Runs \cap Backups = {} /\ Nobody \notin Procs /\ "absent" \notin Procs
  BY DEF LockInv
<1>1. CASE Acquire(p)
  <2>1. /\ pc[p] = "locking" /\ p \in Locking /\ flock = Nobody /\ flock' = p
        /\ (p \in ReadOnly => unsigned')
        /\ pc' = [pc EXCEPT ![p] = IF p \in ReadOnly THEN Critical(p) ELSE "naming"]
    BY <1>0, <1>1 DEF Acquire, Goto, MayLock, Roles
  <2>2. \A q \in Locking : ~ Inside(q)
    BY <1>0, <2>1 DEF LockExcludes
  <2>3. \A q \in Procs \ {p} : pc'[q] = pc[q]
    BY <1>0, <2>1
  <2>4. pc'[p] \in {"opened", "copying", "naming"} /\ pc' \in [Procs -> Stages]
        /\ (pc'[p] # "naming" => p \in ReadOnly)
    BY <1>0, <2>1 DEF Critical, Stages, RunStages, BackupStages
  <2>5. Roles'
    BY <1>0, <2>1, <2>3, <2>4 DEF Roles
  <2>6. LockExcludes'
    BY <2>1, <2>2, <2>3 DEF LockExcludes, Inside
  <2>7. OwnerNamed'
    BY <2>1, <2>2, <2>3, <2>4 DEF OwnerNamed, Inside, RunStages, BackupStages
  <2> QED
    BY <2>4, <2>5, <2>6, <2>7 DEF LockInv
<1>2. CASE Refused(p)
  <2>1. /\ pc' = [pc EXCEPT ![p] = "idle"] /\ UNCHANGED <<flock, unsigned>>
        /\ lockFile' = lockFile \/ lockFile = "absent"
    BY <1>2 DEF Refused, Goto, Opened
  <2>2. pc' \in [Procs -> Stages] /\ Roles' /\ LockExcludes'
    BY <1>0, <2>1 DEF Stages, Roles, LockExcludes, Inside, RunStages, BackupStages
  <2>3. OwnerNamed'
    BY <1>0, <2>1 DEF OwnerNamed, RunStages, BackupStages
  <2> QED
    BY <2>2, <2>3 DEF LockInv
<1>3. CASE CutOwner(p) \/ SignOwner(p) \/ StaysUnsigned(p)
  <2>1. /\ pc[p] \in {"naming", "signing"} /\ p \in Locking /\ flock = p /\ flock' = flock
    BY <1>0, <1>3 DEF CutOwner, SignOwner, StaysUnsigned, Goto, Roles, LockExcludes, Inside
  <2>2. PICK stage \in {"signing", Critical(p)} :
          /\ pc' = [pc EXCEPT ![p] = stage]
          /\ stage # "signing" => unsigned' \/ lockFile' = p
    BY <1>3 DEF CutOwner, SignOwner, StaysUnsigned, Goto
  <2>3. stage \in {"signing", "opened", "copying"} /\ pc' \in [Procs -> Stages]
    BY <1>0, <2>2 DEF Critical, Stages, RunStages, BackupStages
  <2>4. \A q \in Procs \ {p} : pc'[q] = pc[q] /\ (q \in Locking => ~ Inside(q))
    BY <1>0, <2>1, <2>2 DEF LockExcludes
  <2>5. Roles'
    BY <1>0, <2>1, <2>2, <2>3, <2>4 DEF Roles
  <2>6. LockExcludes'
    BY <2>1, <2>2, <2>4 DEF LockExcludes, Inside
  <2>7. OwnerNamed'
    BY <1>0, <2>2, <2>3, <2>4 DEF OwnerNamed, Inside, RunStages, BackupStages
  <2> QED
    BY <2>3, <2>5, <2>6, <2>7 DEF LockInv
<1>4. CASE Release(p) \/ Crash(p)
  <2>1. /\ pc' = [pc EXCEPT ![p] = "idle"] /\ UNCHANGED <<lockFile, unsigned>>
        /\ flock # p => flock' = flock
    BY <1>4 DEF Release, Crash, Goto, Unlock, owner
  <2>2. pc' \in [Procs -> Stages] /\ Roles'
    BY <1>0, <2>1 DEF Stages, Roles
  <2>3. LockExcludes'
    BY <1>0, <2>1 DEF LockExcludes, Inside, RunStages, BackupStages
  <2>4. OwnerNamed'
    BY <1>0, <2>1 DEF OwnerNamed, RunStages, BackupStages
  <2> QED
    BY <2>2, <2>3, <2>4 DEF LockInv
<1> QED
  BY <1>1, <1>2, <1>3, <1>4

(* Every step keeps the lock's invariant. *)
LEMMA LockStep == LockInv /\ [Next]_vars => LockInv'
<1> SUFFICES ASSUME LockInv, [Next]_vars PROVE LockInv'
  OBVIOUS
<1> USE CycleConstants
<1>0. pc \in [Procs -> Stages] /\ Roles
  BY DEF LockInv
<1>1. ASSUME NEW p \in Procs, NEW h \in Hosts, Begin(p, h) PROVE LockInv'
  <2>1. PICK stage \in {"seeking", "locking"} : pc' = [pc EXCEPT ![p] = stage]
                 /\ (stage = "locking" <=> p \notin Runs) /\ UNCHANGED <<flock, lockFile, unsigned>>
    BY <1>1 DEF Begin, Goto, owner
  <2>2. stage = "locking" => p \in Locking
    BY <2>1 DEF Procs, Locking
  <2> QED
    BY <2>1, <2>2, MoveKeeps DEF Stages, RunStages, BackupStages
<1>2. ASSUME NEW p \in Procs, ReadEvents(p) \/ Seeded(p) \/ \E s \in 1..Seeds : AppendSeed(p, s)
      PROVE  LockInv'
  <2>1. CASE ReadEvents(p)
    <3>1. PICK stage \in {"idle", "seeding"} : pc' = [pc EXCEPT ![p] = stage]
                 /\ pc[p] = "seeking" /\ UNCHANGED <<flock, lockFile, unsigned>>
      BY <2>1 DEF ReadEvents, Goto, owner
    <3> QED
      BY <1>0, <3>1, MoveKeeps DEF Stages, RunStages, BackupStages, Roles
  <2>2. CASE Seeded(p)
    <3>1. PICK stage \in {"opened", "locking"} : pc' = [pc EXCEPT ![p] = stage]
                 /\ (stage = "opened" => p \in Unlocked) /\ (stage = "locking" => p \notin Unlocked)
                 /\ UNCHANGED <<flock, lockFile, unsigned>>
      BY <2>2 DEF Seeded, Goto, owner
    <3> QED
      BY <3>1, MoveKeeps DEF Stages, RunStages, BackupStages, Locking
  <2>3. CASE \E s \in 1..Seeds : AppendSeed(p, s)
    BY <2>3, <1>0 DEF AppendSeed, owner, LockInv, Roles, LockExcludes, OwnerNamed, Inside
  <2> QED
    BY <1>2, <2>1, <2>2, <2>3
<1>3. ASSUME NEW p \in Procs,
             \/ ReadHost(p) \/ SaveMigration(p) \/ SetHost(p) \/ SetHostname(p) \/ SetCycleStart(p)
             \/ \E F \in Feeds : Collect(p, F)
             \/ \E a \in Articles : RecordEvidence(p, a) \/ RecordEvent(p, a)
             \/ Published(p) \/ OpenCopy(p) \/ FillCopy(p) \/ FailCopy(p) \/ Replace(p)
             \/ SnapshotRegistry(p)
      PROVE  LockInv'
  <2>1. PICK stage \in RunStages \cup BackupStages \cup {"releasing"} :
          /\ pc' = [pc EXCEPT ![p] = stage] /\ pc[p] \in RunStages \cup BackupStages
          /\ UNCHANGED <<flock, lockFile, unsigned>>
    BY <1>3
       DEF ReadHost, SaveMigration, SetHost, SetHostname, SetCycleStart, Collect, RecordEvidence,
           RecordEvent,
          Published, OpenCopy, FillCopy, FailCopy, Replace, SnapshotRegistry, Goto, owner,
          RunStages, BackupStages
  <2> QED
    BY <2>1, MoveKeeps DEF Stages, RunStages, BackupStages
<1>4. ASSUME NEW p \in Procs,
             \/ Acquire(p) \/ Refused(p) \/ CutOwner(p) \/ SignOwner(p)
             \/ StaysUnsigned(p) \/ Release(p) \/ Crash(p)
      PROVE  LockInv'
  BY <1>4, LockSteps
<1>5. CASE UNCHANGED vars
  BY <1>5 DEF vars, owner, LockInv, Roles, LockExcludes, OwnerNamed, Inside
<1> QED
  BY <1>1, <1>2, <1>3, <1>4, <1>5 DEF Next, Advance

(* Inside the lock is one locking process, and while it works the file     *)
(* names it, unless its record could not be written or it may not write it *)
(* (RunLock.acquire).                                                      *)
THEOREM HolderIsNamed == Spec => []HolderNamed
<1>1. LockInv => HolderNamed
  BY DEF LockInv, HolderNamed, LockExcludes, OwnerNamed
<1> QED
  BY <1>1, LockInit, LockStep, PTL DEF Spec

-----------------------------------------------------------------------------
(* The registry.                                                           *)

(* Appending loses no line. *)
LEMMA AppendAt ==
  ASSUME NEW S, NEW q \in Seq(S), NEW x \in S
  PROVE  /\ Append(q, x) \in Seq(S) /\ Len(q) \in Nat
         /\ DOMAIN q = 1..Len(q) /\ DOMAIN Append(q, x) = 1..Len(q) + 1
         /\ \A i \in DOMAIN q : Append(q, x)[i] = q[i]
         /\ Append(q, x)[Len(q) + 1] = x
  OBVIOUS

LEMMA AppendKeeps ==
  ASSUME NEW S, NEW q \in Seq(S), NEW x \in S
  PROVE  Append(q, x) \in Seq(S) /\ ToSet(Append(q, x)) = ToSet(q) \cup {x}
<1> DEFINE r == Append(q, x)
<1>1. /\ r \in Seq(S) /\ DOMAIN q = 1..Len(q) /\ DOMAIN r = 1..Len(q) + 1
      /\ \A i \in DOMAIN q : r[i] = q[i]
      /\ r[Len(q) + 1] = x /\ Len(q) \in Nat
  BY AppendAt
<1> HIDE DEF r
<1>2. ToSet(r) \subseteq ToSet(q) \cup {x}
  <2> SUFFICES ASSUME NEW i \in DOMAIN r PROVE r[i] \in ToSet(q) \cup {x}
    BY DEF ToSet
  <2>1. i \in DOMAIN q \/ i = Len(q) + 1
    BY <1>1
  <2> QED
    BY <1>1, <2>1 DEF ToSet
<1>3. ToSet(q) \cup {x} \subseteq ToSet(r)
  <2>1. \A i \in DOMAIN q : i \in DOMAIN r
    BY <1>1
  <2>2. Len(q) + 1 \in DOMAIN r
    BY <1>1
  <2> QED
    BY <1>1, <2>1, <2>2 DEF ToSet
<1>4. ToSet(r) = ToSet(q) \cup {x}
  BY <1>2, <1>3
<1> QED
  BY <1>1, <1>4 DEF r

(* A sequence holds what it is made of. *)
LEMMA ElementIn ==
  ASSUME NEW S, NEW q \in Seq(S), NEW i \in DOMAIN q PROVE q[i] \in S
  OBVIOUS

(* Lines are seed events. *)
LEMMA LinesKnown ==
  ASSUME NEW S, NEW q \in Seq(S) PROVE ToSet(q) \in SUBSET S
<1>1. \A i \in DOMAIN q : q[i] \in S
  BY ElementIn
<1> QED
  BY <1>1 DEF ToSet

(* No run is past the registry at first. *)
LEMMA SeedInit == Init => SeedInv
  BY CycleConstants
     DEF Init, SeedInv, Types, Known, Torn, Appending, Seeking, Stages, Jobs, Registries, Idle, Procs

(* A step that leaves the registry and what a run knows alone, and takes   *)
(* no run past it.                                                         *)
LEMMA SeedMoves ==
  ASSUME SeedInv, activeHost' \in Hosts \cup {NoHost},
         NEW p \in Procs, NEW stage \in Stages, NEW work \in Jobs,
         pc' = [pc EXCEPT ![p] = stage], job' = [job EXCEPT ![p] = work],
         UNCHANGED registry,
         stage = "seeding" => pc[p] = "seeding" /\ work.known = job[p].known,
         stage \notin Seeking => pc[p] \notin Seeking \/ p \notin Runs
  PROVE  SeedInv'
  BY DEF SeedInv, Types, Known, Torn, Appending

(* The same, where the work in hand does not change. *)
LEMMA SeedGoes ==
  ASSUME SeedInv, activeHost' \in Hosts \cup {NoHost},
         NEW p \in Procs, NEW stage \in Stages,
         pc' = [pc EXCEPT ![p] = stage], UNCHANGED <<job, registry>>,
         stage # "seeding",
         stage \notin Seeking => pc[p] \notin Seeking \/ p \notin Runs
  PROVE  SeedInv'
  BY DEF SeedInv, Types, Known, Torn, Appending

(* Every step keeps the registry's invariant. *)
LEMMA SeedStep == SeedInv /\ [Next]_vars => SeedInv'
<1> SUFFICES ASSUME SeedInv, [Next]_vars PROVE SeedInv'
  OBVIOUS
<1> USE CycleConstants
<1>0. /\ pc \in [Procs -> Stages] /\ job \in [Procs -> Jobs] /\ registry \in Registries
      /\ registry.lines \in Seq(1..Seeds) /\ Known /\ Idle \in Jobs
      /\ activeHost \in Hosts \cup {NoHost}
  BY DEF SeedInv, Types, Registries, Idle, Jobs
<1>1. ASSUME NEW p \in Procs, NEW h \in Hosts, Begin(p, h) PROVE SeedInv'
  <2>1. PICK stage \in {"seeking", "locking"} : pc' = [pc EXCEPT ![p] = stage]
                 /\ (stage = "locking" => p \notin Runs)
    BY <1>1 DEF Begin, Goto
  <2>2. [Idle EXCEPT !.host = h] \in Jobs
    BY DEF Idle, Jobs
  <2> QED
    BY <1>0, <1>1, <2>1, <2>2, SeedMoves DEF Begin, soak, Seeking, Stages
<1>2. ASSUME NEW p \in Procs, ReadEvents(p) PROVE SeedInv'
  <2>1. CASE Torn
    BY <1>0, <1>2, <2>1, SeedMoves DEF ReadEvents, soak, Goto, Seeking, Stages
  <2>2. CASE ~ Torn
    <3> DEFINE work == [job[p] EXCEPT !.known = ToSet(registry.lines)]
    <3>1. /\ pc' = [pc EXCEPT ![p] = "seeding"] /\ job' = [job EXCEPT ![p] = work]
          /\ UNCHANGED <<registry, activeHost>>
      BY <1>0, <1>2, <2>2 DEF ReadEvents, soak, Goto
    <3>2. work \in Jobs /\ work.known = ToSet(registry.lines)
      BY <1>0, LinesKnown DEF Jobs
    <3> HIDE DEF work
    <3>3. pc'[p] = "seeding" /\ job'[p] = work /\ ~ Torn'
          /\ \A q \in Procs \ {p} : pc'[q] = pc[q] /\ job'[q] = job[q]
      BY <1>0, <2>2, <3>1 DEF Torn
    <3>4. Runs \subseteq Procs
      BY DEF Procs
    <3>5. Known'
      BY <1>0, <3>1, <3>2, <3>3, <3>4 DEF Known, Seeking
    <3> QED
      BY <1>0, <3>1, <3>2, <3>5 DEF SeedInv, Types, Stages
  <2> QED
    BY <2>1, <2>2
<1>3. ASSUME NEW p \in Procs, NEW s \in 1..Seeds, AppendSeed(p, s) PROVE SeedInv'
  <2> DEFINE work == [job[p] EXCEPT !.known = job[p].known \cup {s}]
             lines == Append(registry.lines, s)
  <2>1. /\ pc[p] = "seeding" /\ pc' = pc /\ job' = [job EXCEPT ![p] = work]
        /\ UNCHANGED activeHost
    BY <1>0, <1>3 DEF AppendSeed, soak
  <2>2. work \in Jobs /\ work.known = job[p].known \cup {s}
    BY <1>0 DEF Jobs
  <2>3. CASE Torn
    <3>1. registry' = registry
      BY <1>3, <2>3 DEF AppendSeed
    <3> HIDE DEF work
    <3> QED
      BY <1>0, <2>1, <2>2, <2>3, <3>1 DEF SeedInv, Types, Known, Torn, Appending, Missing
  <2>4. CASE ~ Torn
    <3>1. registry' = [registry EXCEPT !.lines = lines]
      BY <1>3, <2>4 DEF AppendSeed
    <3>2. lines \in Seq(1..Seeds) /\ ToSet(lines) = ToSet(registry.lines) \cup {s}
      BY <1>0, AppendKeeps
    <3> HIDE DEF work, lines
    <3>3. registry' \in Registries /\ registry'.lines = lines /\ registry'.torn = registry.torn
      BY <1>0, <3>1, <3>2 DEF Registries
    <3> QED
      BY <1>0, <2>1, <2>2, <2>4, <3>2, <3>3 DEF SeedInv, Types, Known, Torn, Appending
  <2> QED
    BY <2>3, <2>4
<1>4. ASSUME NEW p \in Procs, Seeded(p) PROVE SeedInv'
  <2>1. PICK stage \in {"opened", "locking"} :
          pc[p] = "seeding" /\ pc' = [pc EXCEPT ![p] = stage] /\ UNCHANGED <<job, registry, activeHost>>
    BY <1>4 DEF Seeded, soak, Goto
  <2>2. 1..Seeds \subseteq job[p].known
    BY <1>4 DEF Seeded, Missing
  <2> QED
    BY <1>0, <2>1, <2>2 DEF SeedInv, Types, Known, Torn, Appending, Seeking, Stages, RunStages
<1>5. ASSUME NEW p \in Procs, Acquire(p) \/ CutOwner(p) \/ SignOwner(p) \/ StaysUnsigned(p)
      PROVE  SeedInv'
  <2>1. PICK stage \in {"naming", "signing", "opened", "copying"} :
          /\ pc[p] \in {"locking", "naming", "signing"} /\ pc' = [pc EXCEPT ![p] = stage]
          /\ UNCHANGED <<job, registry, activeHost>>
    BY <1>5 DEF Acquire, CutOwner, SignOwner, StaysUnsigned, soak, Goto, Critical
  <2> QED
    BY <1>0, <2>1, SeedGoes DEF Stages, RunStages, BackupStages, Seeking
<1>6. ASSUME NEW p \in Procs, Refused(p) \/ Release(p) PROVE SeedInv'
  <2>1. /\ pc' = [pc EXCEPT ![p] = "idle"] /\ job' = [job EXCEPT ![p] = Idle]
        /\ UNCHANGED <<registry, activeHost>>
    BY <1>6 DEF Refused, Release, soak, Goto
  <2> QED
    BY <1>0, <2>1, SeedMoves DEF Stages, Seeking
<1>7. ASSUME NEW p \in Procs, ReadHost(p) PROVE SeedInv'
  <2> DEFINE work == [job[p] EXCEPT !.previous = activeHost]
  <2>1. PICK stage \in {"moving", "activating"} :
          /\ pc[p] = "opened" /\ pc' = [pc EXCEPT ![p] = stage]
          /\ job' = [job EXCEPT ![p] = work] /\ UNCHANGED <<registry, activeHost>>
    BY <1>0, <1>7 DEF ReadHost, soak, Goto
  <2>2. work \in Jobs
    BY <1>0 DEF Jobs
  <2> HIDE DEF work
  <2> QED
    BY <1>0, <2>1, <2>2, SeedMoves DEF Stages, RunStages, Seeking
<1>8. ASSUME NEW p \in Procs,
             (\E F \in Feeds : Collect(p, F)) \/ (\E a \in Articles : RecordEvent(p, a))
      PROVE  SeedInv'
  <2>1. PICK todo \in SUBSET Articles :
          /\ pc[p] \in {"collecting", "dating"} /\ pc' = [pc EXCEPT ![p] = "publishing"]
          /\ job' = [job EXCEPT ![p].todo = todo] /\ UNCHANGED <<registry, activeHost>>
    <3>1. ASSUME NEW F \in Feeds, Collect(p, F)
          PROVE  /\ pc[p] = "collecting" /\ pc' = [pc EXCEPT ![p] = "publishing"]
                 /\ job' = [job EXCEPT ![p].todo = feed'.articles \cap Promoted]
                 /\ UNCHANGED <<registry, activeHost>>
      BY <3>1 DEF Collect, soak, Goto
    <3>2. ASSUME NEW a \in Articles, RecordEvent(p, a)
          PROVE  /\ pc[p] = "dating" /\ pc' = [pc EXCEPT ![p] = "publishing"]
                 /\ job' = [job EXCEPT ![p].todo = job[p].todo \ {a}]
                 /\ UNCHANGED <<registry, activeHost>>
      BY <1>0, <3>2 DEF RecordEvent, soak, Goto
    <3>3. job[p].todo \subseteq Articles
      BY <1>0 DEF Jobs
    <3>4. CASE \E F \in Feeds : Collect(p, F)
      <4> DEFINE found == feed'.articles \cap Promoted
      <4>1. found \in SUBSET Articles
        OBVIOUS
      <4>2. /\ pc[p] = "collecting" /\ pc' = [pc EXCEPT ![p] = "publishing"]
            /\ job' = [job EXCEPT ![p].todo = found] /\ UNCHANGED <<registry, activeHost>>
        BY <3>1, <3>4
      <4> HIDE DEF found
      <4> QED
        BY <4>1, <4>2
    <3>5. CASE \E a \in Articles : RecordEvent(p, a)
      <4>1. PICK a \in Articles : RecordEvent(p, a)
        BY <3>5
      <4> DEFINE left == job[p].todo \ {a}
      <4>2. left \in SUBSET Articles
        BY <3>3
      <4>3. /\ pc[p] = "dating" /\ pc' = [pc EXCEPT ![p] = "publishing"]
            /\ job' = [job EXCEPT ![p].todo = left] /\ UNCHANGED <<registry, activeHost>>
        BY <3>2, <4>1
      <4> HIDE DEF left
      <4> QED
        BY <4>2, <4>3
    <3> QED
      BY <1>8, <3>4, <3>5
  <2> DEFINE work == [job[p] EXCEPT !.todo = todo]
  <2>2. work \in Jobs /\ job' = [job EXCEPT ![p] = work]
    BY <1>0, <2>1 DEF Jobs
  <2> HIDE DEF work
  <2> QED
    BY <1>0, <2>1, <2>2, SeedMoves DEF Stages, RunStages, Seeking
<1>9. ASSUME NEW p \in Procs,
             \/ SaveMigration(p) \/ SetHost(p) \/ SetHostname(p) \/ SetCycleStart(p)
             \/ \E a \in Articles : RecordEvidence(p, a)
             \/ Published(p) \/ OpenCopy(p) \/ FillCopy(p) \/ FailCopy(p) \/ Replace(p)
             \/ SnapshotRegistry(p)
      PROVE  SeedInv'
  <2>1. PICK stage \in RunStages \cup BackupStages \cup {"releasing"} :
          /\ pc' = [pc EXCEPT ![p] = stage] /\ pc[p] \in RunStages \cup BackupStages
          /\ UNCHANGED <<registry, job>>
    BY <1>9 DEF SaveMigration, SetHost, SetHostname, SetCycleStart, RecordEvidence, Published, OpenCopy,
          FillCopy, FailCopy, Replace, SnapshotRegistry, Goto, RunStages, BackupStages
  <2>2. activeHost' \in {activeHost, job[p].host}
    BY <1>9 DEF SaveMigration, SetHost, SetHostname, SetCycleStart, RecordEvidence, Published, OpenCopy,
          FillCopy, FailCopy, Replace, SnapshotRegistry, soak
  <2>3. activeHost' \in Hosts \cup {NoHost}
    BY <1>0, <2>2 DEF Jobs
  <2> QED
    BY <2>1, <2>3, SeedGoes DEF Stages, RunStages, BackupStages, Seeking
<1>10. ASSUME NEW p \in Procs, Crash(p) PROVE SeedInv'
  <2>1. /\ pc' = [pc EXCEPT ![p] = "idle"] /\ job' = [job EXCEPT ![p] = Idle]
        /\ UNCHANGED activeHost
        /\ \/ registry' = registry
           \/ registry' = [registry EXCEPT !.torn = registry.torn \cup {q \in Runs : Appending(q)}]
    BY <1>10 DEF Crash, soak
  <2>2. CASE registry' = registry
    BY <1>0, <2>1, <2>2, SeedMoves DEF Stages, Seeking
  <2>3. CASE registry' # registry
    <3>1. /\ registry' \in Registries /\ registry'.lines = registry.lines
          /\ registry'.torn = registry.torn \cup {q \in Runs : Appending(q)}
      BY <1>0, <2>1, <2>3 DEF Registries
    <3>2. \A q \in Procs : pc'[q] # "idle" => pc'[q] = pc[q] /\ job'[q] = job[q]
      BY <1>0, <2>1
    <3>3. \A q \in Runs : q \in Procs
      BY DEF Procs
    <3> QED
      BY <1>0, <2>1, <3>1, <3>2, <3>3 DEF SeedInv, Types, Known, Stages, Seeking, Torn, Appending
  <2> QED
    BY <2>1, <2>2, <2>3
<1>11. CASE UNCHANGED vars
  BY <1>11 DEF vars, soak, SeedInv, Types, Known, Torn, Appending
<1> QED
  BY <1>1, <1>2, <1>3, <1>4, <1>5, <1>6, <1>7, <1>8, <1>9, <1>10, <1>11 DEF Next, Advance

(* The runs that may still append an event, having found it missing.       *)
Behind(s) == {p \in Runs : pc[p] = "seeding" /\ s \notin job[p].known}

Bounded ==
    \A s \in 1..Seeds :
        /\ IsFiniteSet(Appended(s))
        /\ Cardinality(Appended(s)) + Cardinality(Behind(s)) <= Cardinality(Runs)

BoundInv == LockInv /\ SeedInv /\ Bounded

(* Sets of runs are finite. *)
LEMMA RunsFinite ==
  ASSUME NEW T \in SUBSET Runs
  PROVE  IsFiniteSet(T) /\ Cardinality(T) \in Nat /\ Cardinality(T) <= Cardinality(Runs)
         /\ Cardinality(Runs) \in Nat
  BY CycleConstants, FS_Subset, FS_CardinalityType

(* No event is there at first. *)
LEMMA BoundInit == Init => BoundInv
<1> SUFFICES ASSUME Init, NEW s \in 1..Seeds
             PROVE  /\ IsFiniteSet(Appended(s))
                    /\ Cardinality(Appended(s)) + Cardinality(Behind(s)) <= Cardinality(Runs)
  BY LockInit, SeedInit DEF BoundInv, Bounded
<1>1. Appended(s) = {}
  BY DEF Init, Appended
<1>2. Behind(s) \in SUBSET Runs
  BY DEF Behind
<1> QED
  BY <1>1, <1>2, RunsFinite, FS_EmptySet

(* Steps after which nobody is behind who was not. *)
LEMMA BoundRest ==
  ASSUME Bounded, registry'.lines = registry.lines,
         \A p \in Runs : pc'[p] = "seeding" => pc[p] = "seeding" /\ job'[p] = job[p]
  PROVE  Bounded'
<1> SUFFICES ASSUME NEW s \in 1..Seeds
             PROVE  /\ IsFiniteSet(Appended(s)')
                    /\ Cardinality(Appended(s)') + Cardinality(Behind(s)') <= Cardinality(Runs)
  BY DEF Bounded
<1>1. Appended(s)' = Appended(s)
  BY DEF Appended
<1>2. Behind(s)' \in SUBSET Behind(s) /\ Behind(s) \in SUBSET Runs
  BY DEF Behind
<1>3. IsFiniteSet(Appended(s)) /\ Cardinality(Appended(s)) \in Nat
      /\ Cardinality(Appended(s)) + Cardinality(Behind(s)) <= Cardinality(Runs)
  BY FS_CardinalityType DEF Bounded
<1>4. /\ Cardinality(Behind(s)') <= Cardinality(Behind(s))
      /\ Cardinality(Behind(s)') \in Nat /\ Cardinality(Behind(s)) \in Nat
      /\ Cardinality(Runs) \in Nat
  BY <1>2, RunsFinite, FS_Subset
<1> QED
  BY <1>1, <1>3, <1>4

(* A run is behind after its read only with events that nobody appended. *)
LEMMA BoundRead ==
  ASSUME BoundInv, NEW p \in Procs, ReadEvents(p)
  PROVE  Bounded'
<1>0. pc \in [Procs -> Stages] /\ job \in [Procs -> Jobs] /\ Runs \subseteq Procs
  BY DEF BoundInv, SeedInv, Types, Procs
<1>1. CASE Torn
  <2>1. /\ pc' = [pc EXCEPT ![p] = "idle"] /\ job' = [job EXCEPT ![p] = Idle] /\ UNCHANGED registry
    BY <1>1 DEF ReadEvents, Goto
  <2> QED
    BY <1>0, <2>1, BoundRest DEF BoundInv
<1>2. CASE ~ Torn
  <2> SUFFICES ASSUME NEW s \in 1..Seeds
               PROVE  /\ IsFiniteSet(Appended(s)')
                      /\ Cardinality(Appended(s)') + Cardinality(Behind(s)') <= Cardinality(Runs)
    BY DEF Bounded
  <2>1. /\ pc[p] = "seeking" /\ pc' = [pc EXCEPT ![p] = "seeding"] /\ UNCHANGED registry
        /\ job' = [job EXCEPT ![p] = [job[p] EXCEPT !.known = ToSet(registry.lines)]]
    BY <1>0, <1>2 DEF ReadEvents, Goto
  <2>2. /\ \A q \in Procs \ {p} : pc'[q] = pc[q] /\ job'[q] = job[q]
        /\ job'[p].known = ToSet(registry.lines)
    BY <1>0, <2>1 DEF Jobs
  <2>3. Appended(s)' = Appended(s)
    BY <2>1 DEF Appended
  <2>4. /\ Behind(s)' \in SUBSET Runs /\ Behind(s) \in SUBSET Runs
        /\ IsFiniteSet(Appended(s)) /\ Cardinality(Appended(s)) \in Nat
        /\ Cardinality(Appended(s)) + Cardinality(Behind(s)) <= Cardinality(Runs)
    BY FS_CardinalityType DEF Behind, BoundInv, Bounded
  <2>5. CASE s \in ToSet(registry.lines)
    <3>1. Behind(s)' \in SUBSET Behind(s)
      BY <1>0, <2>2, <2>5 DEF Behind
    <3>2. /\ Cardinality(Behind(s)') <= Cardinality(Behind(s))
          /\ Cardinality(Behind(s)') \in Nat /\ Cardinality(Behind(s)) \in Nat
          /\ Cardinality(Runs) \in Nat
      BY <2>4, <3>1, RunsFinite, FS_Subset
    <3> QED
      BY <2>3, <2>4, <3>2
  <2>6. CASE s \notin ToSet(registry.lines)
    <3>1. Appended(s) = {}
      BY <2>6 DEF Appended, ToSet
    <3>2. Cardinality(Appended(s)) = 0
      BY <3>1, FS_EmptySet
    <3>3. Cardinality(Behind(s)') <= Cardinality(Runs) /\ Cardinality(Behind(s)') \in Nat
          /\ Cardinality(Runs) \in Nat
      BY <2>4, RunsFinite
    <3> QED
      BY <2>3, <2>4, <3>2, <3>3
  <2> QED
    BY <2>5, <2>6
<1> QED
  BY <1>1, <1>2

(* Appending an event takes the run from those behind. *)
LEMMA BoundAppend ==
  ASSUME BoundInv, NEW p \in Procs, NEW e \in 1..Seeds, AppendSeed(p, e)
  PROVE  Bounded'
<1>0. /\ pc \in [Procs -> Stages] /\ job \in [Procs -> Jobs] /\ Runs \subseteq Procs
      /\ registry \in Registries /\ registry.lines \in Seq(1..Seeds) /\ Roles
  BY DEF BoundInv, SeedInv, LockInv, Types, Registries, Procs
<1>1. /\ pc[p] = "seeding" /\ p \in Runs /\ e \notin job[p].known /\ UNCHANGED pc
      /\ job' = [job EXCEPT ![p] = [job[p] EXCEPT !.known = job[p].known \cup {e}]]
      /\ registry' = IF Torn THEN registry
                     ELSE [registry EXCEPT !.lines = Append(registry.lines, e)]
  BY <1>0 DEF AppendSeed, Least, Missing, Roles
<1>2. /\ \A q \in Procs \ {p} : job'[q] = job[q]
      /\ job'[p].known = job[p].known \cup {e}
  BY <1>0, <1>1 DEF Jobs
<1> SUFFICES ASSUME NEW s \in 1..Seeds
             PROVE  /\ IsFiniteSet(Appended(s)')
                    /\ Cardinality(Appended(s)') + Cardinality(Behind(s)') <= Cardinality(Runs)
  BY DEF Bounded
<1>3. /\ Behind(s) \in SUBSET Runs /\ IsFiniteSet(Appended(s)) /\ Cardinality(Appended(s)) \in Nat
      /\ Cardinality(Appended(s)) + Cardinality(Behind(s)) <= Cardinality(Runs)
  BY FS_CardinalityType DEF Behind, BoundInv, Bounded
<1>4. /\ IsFiniteSet(Behind(s)) /\ Cardinality(Behind(s)) \in Nat /\ Cardinality(Runs) \in Nat
  BY <1>3, RunsFinite
<1>5. /\ Len(registry.lines) \in Nat
      /\ ~ Torn => /\ DOMAIN registry.lines = 1..Len(registry.lines)
                   /\ DOMAIN registry'.lines = 1..Len(registry.lines) + 1
                   /\ \A i \in DOMAIN registry.lines : registry'.lines[i] = registry.lines[i]
                   /\ registry'.lines[Len(registry.lines) + 1] = e
  <2> DEFINE Events == 1..Seeds
             r == Append(registry.lines, e)
  <2>1. registry.lines \in Seq(Events) /\ e \in Events
    BY <1>0
  <2> HIDE DEF Events
  <2>2. /\ Len(registry.lines) \in Nat /\ DOMAIN registry.lines = 1..Len(registry.lines)
        /\ DOMAIN r = 1..Len(registry.lines) + 1
        /\ \A i \in DOMAIN registry.lines : r[i] = registry.lines[i]
        /\ r[Len(registry.lines) + 1] = e
    BY <2>1, AppendAt
  <2> HIDE DEF r
  <2>3. ~ Torn => registry'.lines = r
    BY <1>0, <1>1 DEF Registries, r
  <2> QED
    BY <2>2, <2>3
<1>6. CASE s # e
  <2>1. Behind(s)' = Behind(s)
    BY <1>0, <1>1, <1>2, <1>6 DEF Behind
  <2>2. Appended(s)' = Appended(s)
    <3>1. CASE Torn
      BY <1>1, <3>1 DEF Appended
    <3>2. CASE ~ Torn
      BY <1>5, <1>6, <3>2 DEF Appended
    <3> QED
      BY <3>1, <3>2
  <2> QED
    BY <1>3, <2>1, <2>2
<1>7. CASE s = e
  <2>1. p \in Behind(s) /\ Behind(s)' = Behind(s) \ {p}
    BY <1>0, <1>1, <1>2, <1>7 DEF Behind
  <2>2. Cardinality(Behind(s)') = Cardinality(Behind(s)) - 1
    BY <1>4, <2>1, FS_RemoveElement
  <2>3. IsFiniteSet(Appended(s)') /\ Cardinality(Appended(s)') <= Cardinality(Appended(s)) + 1
        /\ Cardinality(Appended(s)') \in Nat
    <3>1. CASE Torn
      <4>1. Appended(s)' = Appended(s)
        BY <1>1, <3>1 DEF Appended
      <4> QED
        BY <1>3, <4>1
    <3>2. CASE ~ Torn
      <4> DEFINE appended == Appended(s)
                 next == Len(registry.lines) + 1
      <4>1. Appended(s)' = appended \cup {next}
        BY <1>5, <1>7, <3>2 DEF Appended
      <4>2. IsFiniteSet(appended) /\ Cardinality(appended) \in Nat
        BY <1>3
      <4> HIDE DEF appended, next
      <4>3. /\ IsFiniteSet(appended \cup {next})
            /\ Cardinality(appended \cup {next}) \in {Cardinality(appended), Cardinality(appended) + 1}
        BY <4>2, FS_AddElement
      <4>4. Cardinality(appended \cup {next}) \in Nat
            /\ Cardinality(appended \cup {next}) <= Cardinality(appended) + 1
        BY <4>2, <4>3
      <4> QED
        BY <4>1, <4>3, <4>4 DEF appended
    <3> QED
      BY <3>1, <3>2
  <2> QED
    BY <1>3, <1>4, <2>2, <2>3
<1> QED
  BY <1>6, <1>7

(* Every step keeps the events bounded. *)
LEMMA BoundStep == BoundInv /\ [Next]_vars => BoundInv'
<1> SUFFICES ASSUME BoundInv, [Next]_vars PROVE Bounded'
  BY LockStep, SeedStep DEF BoundInv
<1>0. /\ pc \in [Procs -> Stages] /\ job \in [Procs -> Jobs] /\ Runs \subseteq Procs
      /\ registry \in Registries /\ Bounded
  BY DEF BoundInv, SeedInv, Types, Procs
<1>1. ASSUME NEW p \in Procs,
             \/ \E h \in Hosts : Begin(p, h)
             \/ Seeded(p) \/ Acquire(p) \/ Refused(p) \/ CutOwner(p) \/ SignOwner(p)
             \/ StaysUnsigned(p) \/ Release(p) \/ ReadHost(p) \/ SaveMigration(p) \/ SetHost(p)
             \/ SetHostname(p) \/ SetCycleStart(p) \/ (\E F \in Feeds : Collect(p, F))
             \/ (\E a \in Articles : RecordEvidence(p, a) \/ RecordEvent(p, a)) \/ Published(p)
             \/ OpenCopy(p) \/ FillCopy(p) \/ FailCopy(p) \/ Replace(p) \/ SnapshotRegistry(p)
      PROVE  Bounded'
  <2>1. UNCHANGED registry
    BY <1>1
       DEF Begin, Seeded, Acquire, Refused, CutOwner, SignOwner, StaysUnsigned, Release, ReadHost,
           SaveMigration, SetHost, SetHostname, SetCycleStart, Collect, RecordEvidence, RecordEvent,
           Published, OpenCopy, FillCopy, FailCopy, Replace, SnapshotRegistry
  <2>2. /\ \A q \in Procs \ {p} : pc'[q] = pc[q] /\ job'[q] = job[q]
        /\ pc'[p] # "seeding"
    BY <1>0, <1>1
       DEF Begin, Seeded, Acquire, Refused, CutOwner, SignOwner, StaysUnsigned, Release, ReadHost,
           SaveMigration, SetHost, SetHostname, SetCycleStart, Collect, RecordEvidence, RecordEvent,
           Published, OpenCopy, FillCopy, FailCopy, Replace, SnapshotRegistry, Goto, Critical
  <2> QED
    BY <1>0, <2>1, <2>2, BoundRest
<1>2. ASSUME NEW p \in Procs, ReadEvents(p) \/ \E s \in 1..Seeds : AppendSeed(p, s) PROVE Bounded'
  BY <1>2, BoundRead, BoundAppend
<1>3. ASSUME NEW p \in Procs, Crash(p) PROVE Bounded'
  <2>1. /\ pc' = [pc EXCEPT ![p] = "idle"] /\ job' = [job EXCEPT ![p] = Idle]
        /\ registry'.lines = registry.lines
    BY <1>0, <1>3 DEF Crash, Registries
  <2> QED
    BY <1>0, <2>1, BoundRest
<1>4. CASE UNCHANGED vars
  BY <1>0, <1>4, BoundRest DEF vars
<1> QED
  BY <1>1, <1>2, <1>3, <1>4 DEF Next, Advance

(* A run works on its database only when every seed event is in the        *)
(* registry, unless it was appending when a line tore; and an event is     *)
(* there at most once for each run that may be under way.                  *)
THEOREM SeedsArePresent == Spec => []SeedsPresent
<1>1. SeedInv => SeedsFounded
  BY DEF SeedInv, Known, SeedsFounded, Seeking, RunStages
<1>2. BoundInv => SeedsBounded
  <2> SUFFICES ASSUME BoundInv, NEW s \in 1..Seeds
               PROVE  Cardinality(Appended(s)) <= Cardinality(Runs)
    BY DEF SeedsBounded
  <2>1. /\ Behind(s) \in SUBSET Runs /\ IsFiniteSet(Appended(s))
        /\ Cardinality(Appended(s)) + Cardinality(Behind(s)) <= Cardinality(Runs)
    BY DEF Behind, BoundInv, Bounded
  <2>2. Cardinality(Behind(s)) \in Nat /\ Cardinality(Runs) \in Nat /\ Cardinality(Appended(s)) \in Nat
    BY <2>1, RunsFinite, FS_CardinalityType
  <2> QED
    BY <2>1, <2>2
<1>3. BoundInv => SeedsPresent
  BY <1>1, <1>2 DEF BoundInv, SeedsPresent
<1> QED
  BY <1>3, BoundInit, BoundStep, PTL DEF Spec

-----------------------------------------------------------------------------
(* The host migrations, when every run takes the lock.  HostTrail rests on *)
(* where the active host stands while a run is moving it.                  *)

LastMove == moves[Len(moves)]

Trail ==
    /\ moves \in Seq([from : Hosts, to : Hosts]) /\ crashes \in Nat
    /\ HostTrail
    /\ moves # <<>> =>
        \/ activeHost = LastMove.to \/ crashes > 0
        \/ \E p \in Procs : pc[p] = "activating" /\ job[p].host = LastMove.to
    /\ \A p \in Procs :
        /\ pc[p] # "idle" => job[p].host \in Hosts
        /\ pc[p] \in {"moving", "activating"} => p \in Locking
        /\ pc[p] = "moving" => job[p].previous = activeHost /\ Moved(activeHost, job[p].host)
        /\ pc[p] = "activating" /\ moves # <<>> => job[p].host \in {LastMove.to, activeHost}

TrailInv == LockInv /\ SeedInv /\ Trail

(* Nothing has moved at first. *)
LEMMA TrailInit == Init => TrailInv
<1> SUFFICES ASSUME Init PROVE Trail
  BY LockInit, SeedInit DEF TrailInv
<1> QED
  BY CycleConstants DEF Init, Trail, HostTrail

(* A step that leaves the hosts alone. *)
LEMMA TrailRest ==
  ASSUME Trail, UNCHANGED <<moves, activeHost, crashes>>, NEW p \in Procs,
         \A q \in Procs \ {p} : pc'[q] = pc[q] /\ job'[q] = job[q],
         pc[p] # "activating", pc'[p] \notin {"moving", "activating"},
         pc'[p] # "idle" => job'[p].host \in Hosts
  PROVE  Trail'
<1>1. HostTrail' /\ LastMove' = LastMove
  BY DEF Trail, HostTrail, LastMove
<1> QED
  BY <1>1 DEF Trail

(* Every step keeps the trail. *)
LEMMA TrailStep ==
  ASSUME Unlocked = {}, TrailInv, [Next]_vars PROVE TrailInv'
<1> USE CycleConstants
<1>0. /\ LockInv /\ SeedInv /\ Trail /\ LockInv' /\ SeedInv'
      /\ pc \in [Procs -> Stages] /\ job \in [Procs -> Jobs] /\ Locking = Procs
      /\ LockExcludes /\ activeHost \in Hosts \cup {NoHost} /\ Idle \in Jobs
      /\ crashes \in Nat /\ moves \in Seq([from : Hosts, to : Hosts])
  BY LockStep, SeedStep DEF TrailInv, LockInv, SeedInv, Types, Locking, Idle, Jobs, Trail
<1> SUFFICES Trail'
  BY <1>0 DEF TrailInv
<1>1. \A p, q \in Procs : pc[p] \in RunStages /\ pc[q] \in RunStages => p = q
  BY <1>0 DEF LockExcludes, Inside
<1>2. moves # <<>> => LastMove \in [from : Hosts, to : Hosts] /\ Len(moves) \in Nat /\ Len(moves) > 0
                      /\ Len(moves) \in DOMAIN moves
  <2>1. ASSUME moves # <<>>
        PROVE  Len(moves) \in Nat /\ Len(moves) > 0 /\ DOMAIN moves = 1..Len(moves)
    BY <1>0, <2>1
  <2>2. ASSUME NEW i \in DOMAIN moves PROVE moves[i] \in [from : Hosts, to : Hosts]
    BY <1>0, ElementIn
  <2>3. moves # <<>> => Len(moves) \in DOMAIN moves
    BY <2>1
  <2> QED
    BY <2>1, <2>2, <2>3 DEF LastMove
<1>3. ASSUME NEW p \in Procs, ReadHost(p) PROVE Trail'
  <2> DEFINE work == [job[p] EXCEPT !.previous = activeHost]
  <2>1. /\ pc[p] = "opened" /\ UNCHANGED <<moves, activeHost, crashes>>
        /\ pc' = [pc EXCEPT ![p] = IF Moved(activeHost, job[p].host) THEN "moving" ELSE "activating"]
        /\ job' = [job EXCEPT ![p] = work]
    BY <1>0, <1>3 DEF ReadHost, Goto, soak
  <2>2. work.previous = activeHost /\ work.host = job[p].host
    BY <1>0 DEF Jobs
  <2> HIDE DEF work
  <2>3. HostTrail' /\ LastMove' = LastMove
    BY <1>0, <2>1 DEF Trail, HostTrail, LastMove
  <2>4. \A q \in Procs \ {p} : pc'[q] = pc[q] /\ job'[q] = job[q]
    BY <1>0, <2>1
  <2>5. job'[p] = work /\ pc'[p] \in {"moving", "activating"}
        /\ (pc'[p] = "moving" <=> Moved(activeHost, job[p].host)) /\ job[p].host \in Hosts
    BY <1>0, <2>1 DEF Trail
  <2>6. moves # <<>> /\ ~ Moved(activeHost, job[p].host) => job[p].host = activeHost
    BY <1>0, <1>2 DEF Trail, HostTrail, Moved, LastMove
  <2> QED
    BY <1>0, <2>1, <2>2, <2>3, <2>4, <2>5, <2>6 DEF Trail
<1>4. ASSUME NEW p \in Procs, SaveMigration(p) PROVE Trail'
  <2> DEFINE move == Move(activeHost, job[p].host)
  <2>1. /\ pc[p] = "moving" /\ job[p].previous = activeHost /\ Moved(activeHost, job[p].host)
        /\ job[p].host \in Hosts /\ activeHost \in Hosts
        /\ pc' = [pc EXCEPT ![p] = "activating"]
        /\ moves' = Append(moves, move) /\ UNCHANGED <<activeHost, crashes, job>>
    BY <1>0, <1>4 DEF SaveMigration, Goto, Migration, Trail, Moved
  <2>2. /\ move \in [from : Hosts, to : Hosts] /\ move.from = activeHost
        /\ move.to = job[p].host /\ move.from # move.to /\ move.from # NoHost
    BY <2>1 DEF Move, Moved
  <2> HIDE DEF move
  <2>3. /\ moves' \in Seq([from : Hosts, to : Hosts]) /\ moves' # <<>>
        /\ Len(moves') = Len(moves) + 1 /\ DOMAIN moves' = 1..Len(moves) + 1
        /\ DOMAIN moves = 1..Len(moves) /\ Len(moves) \in Nat
        /\ \A i \in DOMAIN moves : moves'[i] = moves[i]
        /\ moves'[Len(moves) + 1] = move
    <3> DEFINE Moves == [from : Hosts, to : Hosts]
    <3>1. moves \in Seq(Moves) /\ move \in Moves
      BY <1>0, <2>2
    <3> HIDE DEF Moves
    <3>2. /\ Append(moves, move) \in Seq(Moves) /\ Len(moves) \in Nat
          /\ DOMAIN moves = 1..Len(moves) /\ DOMAIN Append(moves, move) = 1..Len(moves) + 1
          /\ \A i \in DOMAIN moves : Append(moves, move)[i] = moves[i]
          /\ Append(moves, move)[Len(moves) + 1] = move
      BY <3>1, AppendAt
    <3>3. Append(moves, move) # <<>> /\ Len(Append(moves, move)) = Len(moves) + 1
      BY <3>1, <3>2
    <3> QED
      BY <2>1, <3>2, <3>3 DEF Moves
  <2>4. LastMove' = move
    BY <2>3 DEF LastMove
  <2>5. \A q \in Procs \ {p} : pc'[q] = pc[q] /\ pc[q] \notin RunStages
    BY <1>0, <1>1, <2>1 DEF RunStages
  <2>6. moves # <<>> => /\ move.from \in {LastMove.from, LastMove.to}
                        /\ crashes = 0 => move.from = LastMove.to
    BY <1>0, <2>1, <2>2, <2>5 DEF Trail, HostTrail, LastMove, RunStages
  <2>7. HostTrail'
    <3>1. ASSUME NEW i \in DOMAIN moves'
          PROVE  /\ moves'[i].from # NoHost /\ moves'[i].from # moves'[i].to
                 /\ i > 1 => moves'[i].from \in {moves'[i - 1].from, moves'[i - 1].to}
                 /\ i > 1 /\ crashes' = 0 => moves'[i].from = moves'[i - 1].to
      <4>1. CASE i = Len(moves) + 1
        <5>1. i > 1 => moves # <<>> /\ i - 1 = Len(moves) /\ moves'[i - 1] = LastMove
          BY <2>3, <4>1 DEF LastMove
        <5> QED
          BY <2>1, <2>2, <2>3, <2>6, <4>1, <5>1
      <4>2. CASE i # Len(moves) + 1
        <5>1. i \in DOMAIN moves /\ (i > 1 => i - 1 \in DOMAIN moves)
          BY <2>3, <4>2
        <5> QED
          BY <1>0, <2>1, <2>3, <5>1 DEF Trail, HostTrail
      <4> QED
        BY <4>1, <4>2
    <3>2. activeHost' \in {LastMove'.from, LastMove'.to}
      BY <2>1, <2>2, <2>4
    <3> QED
      BY <3>1, <3>2 DEF HostTrail, LastMove
  <2>8. pc'[p] = "activating" /\ job'[p] = job[p]
    BY <1>0, <2>1
  <2> QED
    BY <1>0, <2>1, <2>2, <2>3, <2>4, <2>5, <2>7, <2>8 DEF Trail, RunStages
<1>5. ASSUME NEW p \in Procs, SetHost(p) PROVE Trail'
  <2>1. /\ pc[p] = "activating" /\ job[p].host \in Hosts
        /\ pc' = [pc EXCEPT ![p] = "renaming"] /\ activeHost' = job[p].host
        /\ UNCHANGED <<moves, crashes, job>>
    BY <1>0, <1>5 DEF SetHost, Goto, Trail
  <2>2. \A q \in Procs \ {p} : pc'[q] = pc[q] /\ pc[q] \notin RunStages
    BY <1>0, <1>1, <2>1 DEF RunStages
  <2>3. moves # <<>> => /\ activeHost' \in {LastMove.from, LastMove.to}
                        /\ activeHost' = LastMove.to \/ crashes > 0
    BY <1>0, <2>1, <2>2 DEF Trail, HostTrail, LastMove, RunStages
  <2>4. HostTrail' /\ LastMove' = LastMove
    BY <1>0, <2>1, <2>3 DEF Trail, HostTrail, LastMove
  <2> QED
    BY <1>0, <2>1, <2>2, <2>3, <2>4 DEF Trail, RunStages
<1>6. ASSUME NEW p \in Procs, Crash(p) PROVE Trail'
  <2>1. /\ pc' = [pc EXCEPT ![p] = "idle"] /\ job' = [job EXCEPT ![p] = Idle]
        /\ crashes' = crashes + 1 /\ UNCHANGED <<moves, activeHost>>
    BY <1>6 DEF Crash, soak
  <2>2. crashes' > 0 /\ crashes' \in Nat /\ crashes' # 0
    BY <1>0, <2>1
  <2>3. LastMove' = LastMove
    BY <2>1 DEF LastMove
  <2>4. HostTrail'
    BY <1>0, <2>1, <2>2 DEF Trail, HostTrail
  <2> QED
    BY <1>0, <2>1, <2>2, <2>3, <2>4 DEF Trail
<1>7. ASSUME NEW p \in Procs,
             \/ \E h \in Hosts : Begin(p, h)
             \/ ReadEvents(p) \/ Seeded(p) \/ (\E s \in 1..Seeds : AppendSeed(p, s))
             \/ Acquire(p) \/ Refused(p) \/ CutOwner(p) \/ SignOwner(p) \/ StaysUnsigned(p) \/ Release(p)
             \/ SetHostname(p) \/ SetCycleStart(p) \/ (\E F \in Feeds : Collect(p, F))
             \/ (\E a \in Articles : RecordEvidence(p, a) \/ RecordEvent(p, a))
             \/ Published(p) \/ OpenCopy(p) \/ FillCopy(p) \/ FailCopy(p) \/ Replace(p)
             \/ SnapshotRegistry(p)
      PROVE  Trail'
  <2>1. UNCHANGED <<moves, activeHost, crashes>>
    BY <1>7
       DEF Begin, ReadEvents, Seeded, AppendSeed, Acquire, Refused, CutOwner, SignOwner, StaysUnsigned,
          Release, SetHostname, SetCycleStart, Collect, RecordEvidence, RecordEvent, Published, OpenCopy,
          FillCopy, FailCopy, Replace, SnapshotRegistry, soak
  <2>2. \A q \in Procs \ {p} : pc'[q] = pc[q] /\ job'[q] = job[q]
    BY <1>0, <1>7
       DEF Begin, ReadEvents, Seeded, AppendSeed, Acquire, Refused, CutOwner, SignOwner, StaysUnsigned,
          Release, SetHostname, SetCycleStart, Collect, RecordEvidence, RecordEvent, Published, OpenCopy,
          FillCopy, FailCopy, Replace, SnapshotRegistry, Goto
  <2>3. pc[p] # "activating" /\ pc'[p] \notin {"moving", "activating"}
    BY <1>0, <1>7
       DEF Begin, ReadEvents, Seeded, AppendSeed, Acquire, Refused, CutOwner, SignOwner, StaysUnsigned,
          Release, SetHostname, SetCycleStart, Collect, RecordEvidence, RecordEvent, Published, OpenCopy,
          FillCopy, FailCopy, Replace, SnapshotRegistry, Goto, Critical
  <2>4. pc'[p] # "idle" => job'[p].host \in Hosts
    <3>1. CASE \E h \in Hosts : Begin(p, h)
      BY <1>0, <3>1 DEF Begin, Idle
    <3>2. CASE ~ \E h \in Hosts : Begin(p, h)
      <4>1. pc'[p] # "idle" => pc[p] # "idle" /\ job'[p].host = job[p].host
        <5>1. CASE ReadEvents(p) \/ Refused(p) \/ Release(p)
          <6>1. CASE ReadEvents(p)
            <7>1. CASE Torn
              BY <1>0, <6>1, <7>1 DEF ReadEvents, Goto
            <7>2. CASE ~ Torn
              BY <1>0, <6>1, <7>2 DEF ReadEvents, Goto, Jobs
            <7> QED
              BY <7>1, <7>2
          <6>2. CASE Refused(p) \/ Release(p)
            BY <1>0, <6>2 DEF Refused, Release, Goto
          <6> QED
            BY <5>1, <6>1, <6>2
        <5>2. CASE (\E s \in 1..Seeds : AppendSeed(p, s)) \/ (\E F \in Feeds : Collect(p, F))
                     \/ (\E a \in Articles : RecordEvent(p, a))
          <6>1. ASSUME NEW s \in 1..Seeds, AppendSeed(p, s)
                PROVE  pc[p] # "idle" /\ job'[p].host = job[p].host
            BY <1>0, <6>1 DEF AppendSeed, Jobs
          <6>2. ASSUME NEW F \in Feeds, Collect(p, F)
                PROVE  pc[p] # "idle" /\ job'[p].host = job[p].host
            <7>1. pc[p] # "idle" /\ job' = [job EXCEPT ![p].todo = feed'.articles \cap Promoted]
              BY <6>2 DEF Collect, Goto
            <7> QED
              BY <1>0, <7>1 DEF Jobs
          <6>3. ASSUME NEW a \in Articles, RecordEvent(p, a)
                PROVE  pc[p] # "idle" /\ job'[p].host = job[p].host
            BY <1>0, <6>3 DEF RecordEvent, Goto, Jobs
          <6> QED
            BY <5>2, <6>1, <6>2, <6>3
        <5>3. CASE \/ Seeded(p) \/ Acquire(p) \/ CutOwner(p) \/ SignOwner(p) \/ StaysUnsigned(p)
                   \/ SetHostname(p) \/ SetCycleStart(p)
                   \/ (\E a \in Articles : RecordEvidence(p, a)) \/ Published(p)
                   \/ OpenCopy(p) \/ FillCopy(p) \/ FailCopy(p) \/ Replace(p)
                   \/ SnapshotRegistry(p)
          BY <1>0, <5>3
             DEF Seeded, Acquire, CutOwner, SignOwner, StaysUnsigned, SetHostname, SetCycleStart, RecordEvidence,
                Published, OpenCopy, FillCopy, FailCopy, Replace, SnapshotRegistry, Goto
        <5> QED
          BY <1>7, <3>2, <5>1, <5>2, <5>3
      <4> QED
        BY <1>0, <4>1 DEF Trail
    <3> QED
      BY <3>1, <3>2
  <2> QED
    BY <1>0, <2>1, <2>2, <2>3, <2>4, TrailRest
<1>8. CASE UNCHANGED vars
  BY <1>0, <1>8 DEF vars, soak, Trail, HostTrail, LastMove
<1> QED
  BY <1>3, <1>4, <1>5, <1>6, <1>7, <1>8 DEF Next, Advance

(* The recorded host migrations are a trail when every run takes the lock. *)
THEOREM HostsAreTrailed ==
  ASSUME Unlocked = {} PROVE Spec => []HostTrail
<1>1. TrailInv /\ [Next]_vars => TrailInv'
  BY TrailStep
<1>2. TrailInv => HostTrail
  BY DEF TrailInv, Trail
<1> QED
  BY <1>1, <1>2, TrailInit, PTL DEF Spec

-----------------------------------------------------------------------------
(* The news evidence, when every run takes the lock.  EvidenceAccounted is *)
(* not inductive: after a repeated feed the record in hand already has its *)
(* event, so what must be bounded is the undated records other than the    *)
(* one in hand (Pending).  That needs the feed of the run that publishes   *)
(* to stand still (FeedDated) and the record in hand to bear its date      *)
(* (Sighted).                                                              *)

(* Who works where. *)
Workers ==
    \A p \in Procs :
        /\ pc[p] \in RunStages => p \in Runs
        /\ pc[p] \in BackupStages => p \in Backups

NewsTypes ==
    /\ feed \in [articles : SUBSET Articles, at : Nat] /\ clock \in Nat /\ crashes \in Nat
    /\ evidence \in [Articles -> [first : Nat, last : Nat]]
    /\ timeline \in Seq([article : Articles, at : Nat \ {0}])

FeedDated ==
    /\ feed.at <= clock /\ (feed.articles # {} => feed.at > 0)
    /\ \A p \in Procs : pc[p] \in {"publishing", "dating"} => job[p].todo \subseteq feed.articles

Sighted ==
    /\ \A a \in Articles : evidence[a].first <= evidence[a].last /\ evidence[a].last <= feed.at
    /\ \A p \in Procs : pc[p] = "dating" =>
        \A a \in Articles : Least(a, job[p].todo) => evidence[a].last = feed.at

Dated ==
    \A i \in DOMAIN timeline :
        /\ evidence[timeline[i].article].first <= timeline[i].at
        /\ timeline[i].at <= evidence[timeline[i].article].last
        /\ \A j \in 1..i : timeline[j].at <= timeline[i].at

InHand == {a \in Articles : \E p \in Procs : pc[p] = "dating" /\ Least(a, job[p].todo)}

Within(records, limit) == IsFiniteSet(records) /\ Cardinality(records) <= limit

Pending ==
    IsFiniteSet(Undated(evidence, timeline)) /\ Within(Undated(evidence, timeline) \ InHand, crashes)

EvidenceInv ==
    LockInv /\ SeedInv /\ Workers /\ NewsTypes /\ FeedDated /\ Sighted /\ Dated /\ Pending

(* Whoever works inside the lock is alone when every run takes it. *)
LEMMA OneWorks ==
  ASSUME Unlocked = {}, LockInv, NEW p \in Procs, pc[p] \in RunStages \cup BackupStages
  PROVE  \A q \in Procs \ {p} : pc[q] \notin RunStages \cup BackupStages
  BY DEF LockInv, LockExcludes, Inside, Locking

(* A part of a small set is small, and one more member makes one more. *)
LEMMA WithinPart ==
  ASSUME NEW S, NEW n \in Nat, Within(S, n), NEW T \in SUBSET S
  PROVE  Within(T, n)
<1>1. IsFiniteSet(T) /\ Cardinality(T) <= Cardinality(S) /\ IsFiniteSet(S)
  BY FS_Subset DEF Within
<1>2. Cardinality(T) \in Nat /\ Cardinality(S) \in Nat
  BY <1>1, FS_CardinalityType
<1> QED
  BY <1>1, <1>2 DEF Within

LEMMA WithinMore ==
  ASSUME NEW S, NEW n \in Nat, Within(S, n), NEW x, NEW T \in SUBSET (S \cup {x})
  PROVE  Within(T, n + 1)
<1>1. /\ IsFiniteSet(S) /\ IsFiniteSet(S \cup {x})
      /\ Cardinality(S \cup {x}) = IF x \in S THEN Cardinality(S) ELSE Cardinality(S) + 1
  BY FS_AddElement DEF Within
<1>2. Cardinality(S) \in Nat
  BY <1>1, FS_CardinalityType
<1>3. Within(S \cup {x}, n + 1)
  BY <1>1, <1>2 DEF Within
<1> QED
  BY <1>3, WithinPart

(* At most one record is in hand. *)
LEMMA OneInHand ==
  ASSUME Unlocked = {}, LockInv
  PROVE  \E x : InHand \subseteq {x}
<1>1. ASSUME NEW a \in InHand, NEW b \in InHand PROVE a = b
  <2>1. PICK p \in Procs : pc[p] = "dating" /\ Least(a, job[p].todo)
    BY DEF InHand
  <2>2. PICK q \in Procs : pc[q] = "dating" /\ Least(b, job[q].todo)
    BY DEF InHand
  <2>3. p = q
    BY <2>1, <2>2, OneWorks DEF RunStages
  <2>4. a \in Nat /\ b \in Nat /\ a <= b /\ b <= a
    BY <2>1, <2>2, <2>3, CycleConstants DEF Least, InHand
  <2> QED
    BY <2>4
<1> QED
  BY <1>1

(* Nothing is recorded at first. *)
LEMMA EvidenceInit == Init => EvidenceInv
<1> SUFFICES ASSUME Init PROVE EvidenceInv
  OBVIOUS
<1>1. \A p \in Procs : pc[p] = "idle"
  BY DEF Init
<1>2. Workers /\ FeedDated /\ InHand = {}
  BY <1>1 DEF Init, Workers, FeedDated, RunStages, BackupStages, InHand
<1>3. evidence = [a \in Articles |-> NoEvidence] /\ timeline = <<>> /\ crashes = 0
  BY DEF Init
<1>4. NewsTypes /\ Sighted /\ Dated
  BY <1>1, <1>3 DEF Init, NewsTypes, Sighted, Dated, NoEvidence
<1>5. Undated(evidence, timeline) = {} /\ Undated(evidence, timeline) \ InHand = {}
  BY <1>3 DEF Undated
<1>6. Pending
  <2>1. IsFiniteSet({}) /\ Cardinality({}) = 0
    BY FS_EmptySet
  <2>2. Within({}, 0)
    BY <2>1 DEF Within
  <2> HIDE DEF Init
  <2> QED
    BY <1>3, <1>5, <2>1, <2>2 DEF Pending
<1> QED
  BY <1>2, <1>4, <1>6, LockInit, SeedInit DEF EvidenceInv

(* Runs stay in the stages of runs, backups in those of backups. *)
LEMMA WorkersStep ==
  ASSUME LockInv, Workers, [Next]_vars PROVE Workers'
<1> USE CycleConstants DEF Goto
<1>0. pc \in [Procs -> Stages]
  BY DEF LockInv
<1>1. ASSUME NEW p \in Procs, NEW stage, pc' = [pc EXCEPT ![p] = stage],
             stage \in RunStages => p \in Runs, stage \in BackupStages => p \in Backups
      PROVE  Workers'
  BY <1>0, <1>1 DEF Workers
<1>2. ASSUME NEW p \in Procs,
             \/ \E h \in Hosts : Begin(p, h)
             \/ ReadEvents(p) \/ Refused(p) \/ CutOwner(p) \/ Release(p) \/ Crash(p)
             \/ Published(p) \/ FailCopy(p) \/ SnapshotRegistry(p)
      PROVE  Workers'
  <2>1. PICK stage \in {"seeking", "locking", "idle", "seeding", "signing", "releasing"} :
          pc' = [pc EXCEPT ![p] = stage]
    BY <1>2 DEF Begin, ReadEvents, Refused, CutOwner, Release, Crash, Published, FailCopy,
       SnapshotRegistry
  <2> QED
    BY <1>1, <2>1 DEF RunStages, BackupStages
<1>3. ASSUME NEW p \in Procs, Seeded(p) \/ Acquire(p) \/ SignOwner(p) \/ StaysUnsigned(p)
      PROVE  Workers'
  <2>1. PICK stage \in {"opened", "locking", "naming", "copying"} :
          /\ pc' = [pc EXCEPT ![p] = stage]
          /\ stage = "opened" => p \in Runs
          /\ stage = "copying" => p \in Backups
    BY <1>3 DEF Seeded, Acquire, SignOwner, StaysUnsigned, Critical, Procs
  <2> QED
    BY <1>1, <2>1 DEF RunStages, BackupStages
<1>4. ASSUME NEW p \in Procs,
             \/ ReadHost(p) \/ SaveMigration(p) \/ SetHost(p) \/ SetHostname(p) \/ SetCycleStart(p)
             \/ \E F \in Feeds : Collect(p, F)
             \/ \E a \in Articles : RecordEvidence(p, a) \/ RecordEvent(p, a)
      PROVE  Workers'
  <2>1. PICK stage \in RunStages : pc[p] \in RunStages /\ pc' = [pc EXCEPT ![p] = stage]
    BY <1>4 DEF ReadHost, SaveMigration, SetHost, SetHostname, SetCycleStart, Collect, RecordEvidence,
       RecordEvent, RunStages
  <2>2. p \in Runs
    BY <2>1 DEF Workers
  <2> QED
    BY <1>1, <2>1, <2>2 DEF RunStages, BackupStages
<1>5. ASSUME NEW p \in Procs, OpenCopy(p) \/ FillCopy(p) \/ Replace(p) PROVE Workers'
  <2>1. PICK stage \in BackupStages : pc[p] \in BackupStages /\ pc' = [pc EXCEPT ![p] = stage]
    BY <1>5 DEF OpenCopy, FillCopy, Replace, BackupStages
  <2>2. p \in Backups
    BY <2>1 DEF Workers
  <2> QED
    BY <1>1, <2>1, <2>2 DEF RunStages, BackupStages
<1>6. CASE UNCHANGED pc
  BY <1>6 DEF Workers
<1> QED
  BY <1>2, <1>3, <1>4, <1>5, <1>6 DEF Next, Advance, AppendSeed, vars

(* A step that leaves the news alone and does not go to publishing. *)
LEMMA EvidenceRest ==
  ASSUME EvidenceInv, NEW p \in Procs, UNCHANGED <<feed, evidence, timeline, clock, crashes>>,
         \A q \in Procs \ {p} : pc'[q] = pc[q] /\ job'[q] = job[q],
         pc[p] # "dating", pc'[p] \notin {"publishing", "dating"}
  PROVE  NewsTypes' /\ FeedDated' /\ Sighted' /\ Dated' /\ Pending'
<1>1. InHand' = InHand
  BY DEF InHand
<1>2. Undated(evidence, timeline)' = Undated(evidence, timeline)
  BY DEF Undated
<1> QED
  BY <1>1, <1>2 DEF EvidenceInv, NewsTypes, FeedDated, Sighted, Dated, Pending

(* Collecting: the feed stays, or becomes one as new as the clock. *)
LEMMA EvidenceCollect ==
  ASSUME Unlocked = {}, EvidenceInv, NEW p \in Procs, NEW F \in Feeds, Collect(p, F)
  PROVE  NewsTypes' /\ FeedDated' /\ Sighted' /\ Dated' /\ Pending'
<1> USE CycleConstants DEF Goto
<1>0. /\ pc \in [Procs -> Stages] /\ job \in [Procs -> Jobs] /\ LockInv
      /\ feed \in [articles : SUBSET Articles, at : Nat] /\ clock \in Nat /\ crashes \in Nat
  BY DEF EvidenceInv, LockInv, SeedInv, Types, NewsTypes
<1>1. /\ pc[p] = "collecting" /\ pc' = [pc EXCEPT ![p] = "publishing"]
      /\ clock' = clock + 1
      /\ job' = [job EXCEPT ![p].todo = feed'.articles \cap Promoted]
      /\ UNCHANGED <<evidence, timeline, crashes>>
      /\ feed' = [articles |-> F, at |-> clock'] \/ feed' = feed
  BY DEF Collect
<1>2. /\ feed' \in [articles : SUBSET Articles, at : Nat]
      /\ feed.at <= feed'.at /\ feed'.at <= clock' /\ (feed'.articles # {} => feed'.at > 0)
  BY <1>0, <1>1 DEF EvidenceInv, FeedDated
<1>3. /\ \A q \in Procs \ {p} : pc[q] \notin RunStages /\ pc'[q] = pc[q]
      /\ pc'[p] = "publishing" /\ job'[p].todo = feed'.articles \cap Promoted
  BY <1>0, <1>1, OneWorks DEF RunStages, Jobs
<1>4. FeedDated'
  BY <1>2, <1>3 DEF FeedDated, RunStages
<1>5. \A q \in Procs : pc[q] # "dating" /\ pc'[q] # "dating"
  BY <1>1, <1>3 DEF RunStages
<1>6. NewsTypes'
  BY <1>0, <1>1, <1>2 DEF EvidenceInv, NewsTypes
<1>7. Sighted'
  <2>1. \A a \in Articles : evidence[a].last \in Nat /\ feed.at \in Nat /\ feed'.at \in Nat
    BY <1>0, <1>2 DEF EvidenceInv, NewsTypes
  <2> QED
    BY <1>1, <1>2, <1>5, <2>1 DEF EvidenceInv, Sighted
<1>8. Dated'
  BY <1>1 DEF EvidenceInv, Dated
<1>9. InHand' = {} /\ InHand = {}
  BY <1>5 DEF InHand
<1>10. Undated(evidence, timeline)' = Undated(evidence, timeline)
  BY <1>1 DEF Undated
<1>11. Pending'
  BY <1>1, <1>9, <1>10 DEF EvidenceInv, Pending
<1> QED
  BY <1>4, <1>6, <1>7, <1>8, <1>11

(* The upsert: the record in hand bears the date of the feed. *)
LEMMA EvidenceRecord ==
  ASSUME Unlocked = {}, EvidenceInv, NEW p \in Procs, NEW a \in Articles, RecordEvidence(p, a)
  PROVE  NewsTypes' /\ FeedDated' /\ Sighted' /\ Dated' /\ Pending'
<1> USE CycleConstants DEF Goto
<1>0. /\ pc \in [Procs -> Stages] /\ job \in [Procs -> Jobs] /\ LockInv /\ NewsTypes
      /\ feed.at \in Nat /\ evidence \in [Articles -> [first : Nat, last : Nat]]
      /\ crashes \in Nat
  BY DEF EvidenceInv, LockInv, SeedInv, Types, NewsTypes
<1>1. /\ pc[p] = "publishing" /\ pc' = [pc EXCEPT ![p] = "dating"] /\ Least(a, job[p].todo)
      /\ evidence' = [evidence EXCEPT ![a] = Seen(evidence[a], feed.at)]
      /\ UNCHANGED <<job, feed, clock, timeline, crashes>>
  BY DEF RecordEvidence
<1>2. feed.at > 0
  BY <1>1 DEF EvidenceInv, FeedDated, Least
<1>3. \A q \in Procs \ {p} : pc[q] \notin RunStages /\ pc'[q] = pc[q]
  BY <1>0, <1>1, OneWorks DEF RunStages
<1>4. /\ Seen(evidence[a], feed.at) \in [first : Nat, last : Nat]
      /\ Seen(evidence[a], feed.at).last = feed.at
      /\ Seen(evidence[a], feed.at).first =
            IF evidence[a] = NoEvidence THEN feed.at ELSE evidence[a].first
  BY <1>0 DEF Seen
<1>5. /\ evidence' \in [Articles -> [first : Nat, last : Nat]]
      /\ evidence'[a] = Seen(evidence[a], feed.at)
      /\ \A b \in Articles \ {a} : evidence'[b] = evidence[b]
  BY <1>0, <1>1, <1>4
<1>6. NewsTypes' /\ FeedDated'
  <2>1. FeedDated'
    BY <1>0, <1>1, <1>3 DEF EvidenceInv, FeedDated, RunStages
  <2> QED
    BY <1>0, <1>1, <1>5, <2>1 DEF NewsTypes
<1>7. evidence[a].first <= evidence[a].last /\ evidence[a].last <= feed.at
  BY DEF EvidenceInv, Sighted
<1>8. Sighted'
  <2>1. evidence'[a].first <= evidence'[a].last /\ evidence'[a].last = feed.at
    BY <1>0, <1>4, <1>5, <1>7
  <2>2. \A b \in Articles : evidence'[b].first <= evidence'[b].last /\ evidence'[b].last <= feed.at
    BY <1>0, <1>5, <2>1 DEF EvidenceInv, Sighted
  <2>3. \A b \in Articles : Least(b, job[p].todo) => b = a
    BY <1>1 DEF Least
  <2>4. \A q \in Procs : pc'[q] = "dating" => q = p
    BY <1>3 DEF RunStages
  <2> QED
    BY <1>1, <2>1, <2>2, <2>3, <2>4 DEF Sighted
<1>9. Dated'
  <2> SUFFICES ASSUME NEW i \in DOMAIN timeline
               PROVE  /\ evidence'[timeline[i].article].first <= timeline[i].at
                      /\ timeline[i].at <= evidence'[timeline[i].article].last
                      /\ \A j \in 1..i : timeline[j].at <= timeline[i].at
    BY <1>1 DEF Dated
  <2>1. timeline[i] \in [article : Articles, at : Nat \ {0}]
    BY <1>0, ElementIn DEF NewsTypes
  <2>2. /\ evidence[timeline[i].article].first <= timeline[i].at
        /\ timeline[i].at <= evidence[timeline[i].article].last
        /\ \A j \in 1..i : timeline[j].at <= timeline[i].at
    BY DEF EvidenceInv, Dated
  <2>3. CASE timeline[i].article = a
    <3>1. evidence[a] # NoEvidence
      BY <2>1, <2>2, <2>3 DEF NoEvidence
    <3>2. evidence'[a].first = evidence[a].first /\ evidence'[a].last = feed.at
      BY <1>4, <1>5, <3>1
    <3>3. timeline[i].at \in Nat /\ evidence[a].last \in Nat
      BY <1>0, <2>1
    <3> QED
      BY <1>0, <1>7, <2>2, <2>3, <3>2, <3>3
  <2>4. CASE timeline[i].article # a
    <3>1. evidence'[timeline[i].article] = evidence[timeline[i].article]
      BY <1>5, <2>1, <2>4
    <3> QED
      BY <2>2, <3>1
  <2> QED
    BY <2>3, <2>4
<1>10. InHand = {} /\ InHand' = {a}
  <2>1. \A q \in Procs : pc[q] # "dating"
    BY <1>1, <1>3 DEF RunStages
  <2>2. pc'[p] = "dating" /\ \A q \in Procs \ {p} : pc'[q] # "dating"
    BY <1>0, <1>1, <1>3 DEF RunStages
  <2>3. \A b \in Articles : Least(b, job[p].todo) <=> b = a
    BY <1>1 DEF Least
  <2> QED
    BY <1>1, <2>1, <2>2, <2>3 DEF InHand
<1>11. \A b \in Articles \ {a} : b \in Undated(evidence, timeline)'
                                <=> b \in Undated(evidence, timeline)
  BY <1>1, <1>5 DEF Undated
<1>12. Pending'
  <2> DEFINE old == Undated(evidence, timeline)
             new == Undated(evidence, timeline)'
  <2>1. new \subseteq old \cup {a} /\ new \ {a} \subseteq old
    BY <1>11 DEF Undated
  <2>2. IsFiniteSet(old) /\ Within(old \ InHand, crashes)
    BY DEF EvidenceInv, Pending
  <2> HIDE DEF old, new
  <2>3. Within(old, crashes) /\ old \ InHand = old
    BY <1>10, <2>2
  <2>4. IsFiniteSet(new)
    <3>1. IsFiniteSet(old \cup {a})
      BY <2>2, FS_AddElement
    <3> QED
      BY <2>1, <3>1, FS_Subset
  <2>5. Within(new \ {a}, crashes)
    BY <1>0, <2>1, <2>3, WithinPart
  <2> QED
    BY <1>1, <1>10, <2>4, <2>5 DEF Pending, new, Within
<1> QED
  BY <1>6, <1>8, <1>9, <1>12

(* The event of the record in hand. *)
LEMMA EvidenceEvent ==
  ASSUME Unlocked = {}, EvidenceInv, NEW p \in Procs, NEW a \in Articles, RecordEvent(p, a)
  PROVE  NewsTypes' /\ FeedDated' /\ Sighted' /\ Dated' /\ Pending'
<1> USE CycleConstants DEF Goto
<1> DEFINE event == [article |-> a, at |-> feed.at]
           n     == Len(timeline) + 1
<1>0. /\ pc \in [Procs -> Stages] /\ job \in [Procs -> Jobs] /\ LockInv /\ NewsTypes
      /\ feed.at \in Nat /\ evidence \in [Articles -> [first : Nat, last : Nat]]
      /\ crashes \in Nat
  BY DEF EvidenceInv, LockInv, SeedInv, Types, NewsTypes
<1>1. /\ pc[p] = "dating" /\ pc' = [pc EXCEPT ![p] = "publishing"] /\ Least(a, job[p].todo)
      /\ timeline' = Append(timeline, event)
      /\ job' = [job EXCEPT ![p].todo = job[p].todo \ {a}]
      /\ UNCHANGED <<evidence, feed, clock, crashes>>
  BY DEF RecordEvent
<1>2. feed.at > 0 /\ evidence[a].last = feed.at /\ evidence[a].first <= feed.at
  BY <1>0, <1>1 DEF EvidenceInv, FeedDated, Sighted, Least
<1>3. /\ \A q \in Procs \ {p} : pc[q] \notin RunStages /\ pc'[q] = pc[q]
      /\ pc'[p] = "publishing" /\ job'[p].todo = job[p].todo \ {a}
  BY <1>0, <1>1, OneWorks DEF RunStages, Jobs
<1>4. \A q \in Procs : pc'[q] # "dating"
  BY <1>3 DEF RunStages
<1>5. event \in [article : Articles, at : Nat \ {0}] /\ event.article = a /\ event.at = feed.at
  BY <1>0, <1>2
<1> HIDE DEF event
<1>6. /\ timeline' \in Seq([article : Articles, at : Nat \ {0}])
      /\ ToSet(timeline') = ToSet(timeline) \cup {event}
      /\ n \in Nat /\ n > 0 /\ DOMAIN timeline = 1..(n - 1) /\ DOMAIN timeline' = 1..n
      /\ \A i \in DOMAIN timeline : timeline'[i] = timeline[i]
      /\ timeline'[n] = event
  <2> DEFINE Events == [article : Articles, at : Nat \ {0}]
  <2>1. timeline \in Seq(Events) /\ event \in Events
    BY <1>0, <1>5 DEF NewsTypes
  <2> HIDE DEF Events
  <2>2. timeline' \in Seq(Events) /\ ToSet(timeline') = ToSet(timeline) \cup {event}
    BY <1>1, <2>1, AppendKeeps
  <2>3. /\ Len(timeline) \in Nat /\ DOMAIN timeline = 1..Len(timeline) /\ DOMAIN timeline' = 1..n
        /\ \A i \in DOMAIN timeline : timeline'[i] = timeline[i]
        /\ timeline'[n] = event
    BY <1>1, <2>1, AppendAt
  <2>4. n \in Nat /\ n > 0 /\ n - 1 = Len(timeline)
    BY <2>3
  <2> QED
    BY <2>2, <2>3, <2>4 DEF Events
<1> HIDE DEF n
<1>7. NewsTypes'
  BY <1>0, <1>1, <1>6 DEF NewsTypes
<1>8. FeedDated' /\ Sighted'
  <2>1. FeedDated'
    BY <1>1, <1>3 DEF EvidenceInv, FeedDated, RunStages
  <2> QED
    BY <1>1, <1>4, <2>1 DEF EvidenceInv, Sighted
<1>9. \A i \in DOMAIN timeline : /\ timeline[i] \in [article : Articles, at : Nat \ {0}]
                                /\ timeline[i].at <= feed.at
  <2> SUFFICES ASSUME NEW i \in DOMAIN timeline
               PROVE  /\ timeline[i] \in [article : Articles, at : Nat \ {0}]
                      /\ timeline[i].at <= feed.at
    OBVIOUS
  <2>1. timeline[i] \in [article : Articles, at : Nat \ {0}]
    BY <1>0, ElementIn DEF NewsTypes
  <2>2. /\ timeline[i].at <= evidence[timeline[i].article].last
        /\ evidence[timeline[i].article].last <= feed.at
    BY <2>1 DEF EvidenceInv, Dated, Sighted
  <2>3. timeline[i].at \in Nat /\ evidence[timeline[i].article].last \in Nat
    BY <1>0, <2>1
  <2> QED
    BY <1>0, <2>1, <2>2, <2>3
<1>10. Dated'
  <2> SUFFICES ASSUME NEW i \in DOMAIN timeline'
               PROVE  /\ evidence[timeline'[i].article].first <= timeline'[i].at
                      /\ timeline'[i].at <= evidence[timeline'[i].article].last
                      /\ \A j \in 1..i : timeline'[j].at <= timeline'[i].at
    BY <1>1 DEF Dated
  <2>1. CASE i = n
    <3>1. \A j \in 1..i : j \in DOMAIN timeline \/ j = n
      BY <1>6, <2>1
    <3>2. ASSUME NEW j \in 1..i PROVE timeline'[j].at <= feed.at
      <4>1. CASE j \in DOMAIN timeline
        BY <1>6, <1>9, <4>1
      <4>2. CASE j = n
        BY <1>0, <1>5, <1>6, <4>2
      <4> QED
        BY <3>1, <4>1, <4>2
    <3> QED
      BY <1>0, <1>2, <1>5, <1>6, <2>1, <3>2
  <2>2. CASE i # n
    <3>1. i \in DOMAIN timeline /\ \A j \in 1..i : j \in DOMAIN timeline
      BY <1>6, <2>2
    <3> QED
      BY <1>6, <3>1 DEF EvidenceInv, Dated
  <2> QED
    BY <2>1, <2>2
<1>11. InHand \subseteq {a} /\ InHand' = {}
  <2>1. \A b \in Articles : Least(b, job[p].todo) => b = a
    BY <1>1 DEF Least
  <2>2. \A q \in Procs : pc[q] = "dating" => q = p
    BY <1>3 DEF RunStages
  <2> QED
    BY <1>4, <2>1, <2>2 DEF InHand
<1>12. [article |-> a, at |-> evidence'[a].last] = event
  BY <1>1, <1>2 DEF event
<1>13. Undated(evidence, timeline)' \subseteq Undated(evidence, timeline) \ {a}
  <2> SUFFICES ASSUME NEW b \in Undated(evidence, timeline)'
               PROVE  b \in Undated(evidence, timeline) \ {a}
    OBVIOUS
  <2>1. b \in Articles /\ evidence[b] # NoEvidence
        /\ [article |-> b, at |-> evidence'[b].last] \notin ToSet(timeline) \cup {event}
    BY <1>1, <1>6 DEF Undated
  <2>2. b # a
    BY <1>12, <2>1
  <2> QED
    BY <1>1, <2>1, <2>2 DEF Undated
<1>14. Pending'
  <2> DEFINE old == Undated(evidence, timeline)
             new == Undated(evidence, timeline)'
  <2>1. new \subseteq old \ InHand
    BY <1>11, <1>13
  <2>2. Within(old \ InHand, crashes)
    BY DEF EvidenceInv, Pending
  <2> HIDE DEF old, new
  <2>3. Within(new, crashes)
    BY <1>0, <2>1, <2>2, WithinPart
  <2>4. new \ InHand' = new
    BY <1>11
  <2> QED
    BY <1>1, <2>3, <2>4 DEF Pending, new, Within
<1> QED
  BY <1>7, <1>8, <1>10, <1>14

(* A death leaves at most the record in hand without its event. *)
LEMMA EvidenceCrash ==
  ASSUME Unlocked = {}, EvidenceInv, NEW p \in Procs, Crash(p)
  PROVE  NewsTypes' /\ FeedDated' /\ Sighted' /\ Dated' /\ Pending'
<1>0. /\ pc \in [Procs -> Stages] /\ job \in [Procs -> Jobs] /\ LockInv /\ crashes \in Nat
  BY DEF EvidenceInv, LockInv, SeedInv, Types, NewsTypes
<1>1. /\ pc' = [pc EXCEPT ![p] = "idle"] /\ job' = [job EXCEPT ![p] = Idle]
      /\ crashes' = crashes + 1 /\ UNCHANGED <<feed, evidence, timeline, clock>>
  BY DEF Crash, news
<1>2. pc'[p] = "idle" /\ \A q \in Procs \ {p} : pc'[q] = pc[q] /\ job'[q] = job[q]
  BY <1>0, <1>1
<1>3. NewsTypes' /\ FeedDated' /\ Sighted' /\ Dated'
  BY <1>0, <1>1, <1>2 DEF EvidenceInv, NewsTypes, FeedDated, Sighted, Dated
<1>4. Undated(evidence, timeline)' = Undated(evidence, timeline)
  BY <1>1 DEF Undated
<1>5. PICK x : InHand \subseteq {x}
  BY <1>0, OneInHand
<1>6. Pending'
  <2> DEFINE old == Undated(evidence, timeline)
  <2>1. IsFiniteSet(old) /\ Within(old \ InHand, crashes)
    BY DEF EvidenceInv, Pending
  <2>2. old \ InHand' \subseteq (old \ InHand) \cup {x}
    BY <1>5
  <2> HIDE DEF old
  <2>3. Within(old \ InHand', crashes + 1)
    BY <1>0, <2>1, <2>2, WithinMore
  <2> QED
    BY <1>1, <1>4, <2>1, <2>3 DEF Pending, Within, old
<1> QED
  BY <1>3, <1>6

(* Every step keeps the account. *)
LEMMA EvidenceStep ==
  ASSUME Unlocked = {}, EvidenceInv, [Next]_vars PROVE EvidenceInv'
<1>0. /\ LockInv' /\ SeedInv' /\ Workers'
      /\ pc \in [Procs -> Stages] /\ job \in [Procs -> Jobs]
  BY LockStep, SeedStep, WorkersStep DEF EvidenceInv, LockInv, SeedInv, Types
<1> SUFFICES NewsTypes' /\ FeedDated' /\ Sighted' /\ Dated' /\ Pending'
  BY <1>0 DEF EvidenceInv
<1>1. ASSUME NEW p \in Procs,
             \/ \E h \in Hosts : Begin(p, h)
             \/ ReadEvents(p) \/ (\E s \in 1..Seeds : AppendSeed(p, s)) \/ Seeded(p)
             \/ Acquire(p) \/ Refused(p) \/ CutOwner(p) \/ SignOwner(p) \/ StaysUnsigned(p) \/ Release(p)
             \/ ReadHost(p) \/ SaveMigration(p) \/ SetHost(p) \/ SetHostname(p)
             \/ SetCycleStart(p) \/ Published(p)
             \/ OpenCopy(p) \/ FillCopy(p) \/ FailCopy(p) \/ Replace(p) \/ SnapshotRegistry(p)
      PROVE  NewsTypes' /\ FeedDated' /\ Sighted' /\ Dated' /\ Pending'
  <2>1. UNCHANGED <<feed, evidence, timeline, clock, crashes>>
    BY <1>1
       DEF Begin, ReadEvents, AppendSeed, Seeded, Acquire, Refused, CutOwner, SignOwner, StaysUnsigned, Release,
          ReadHost, SaveMigration, SetHost, SetHostname, SetCycleStart, Published, OpenCopy, FillCopy, FailCopy,
          Replace, SnapshotRegistry, news
  <2>2. \A q \in Procs \ {p} : pc'[q] = pc[q] /\ job'[q] = job[q]
    BY <1>0, <1>1
       DEF Begin, ReadEvents, AppendSeed, Seeded, Acquire, Refused, CutOwner, SignOwner, StaysUnsigned, Release,
          ReadHost, SaveMigration, SetHost, SetHostname, SetCycleStart, Published, OpenCopy, FillCopy, FailCopy,
          Replace, SnapshotRegistry, Goto
  <2>3. pc[p] # "dating" /\ pc'[p] \notin {"publishing", "dating"}
    BY <1>0, <1>1
       DEF Begin, ReadEvents, AppendSeed, Seeded, Acquire, Refused, CutOwner, SignOwner, StaysUnsigned, Release,
          ReadHost, SaveMigration, SetHost, SetHostname, SetCycleStart, Published, OpenCopy, FillCopy, FailCopy,
          Replace, SnapshotRegistry, Goto, Critical
  <2> QED
    BY <2>1, <2>2, <2>3, EvidenceRest
<1>2. ASSUME NEW p \in Procs, NEW F \in Feeds, Collect(p, F)
      PROVE  NewsTypes' /\ FeedDated' /\ Sighted' /\ Dated' /\ Pending'
  BY <1>2, EvidenceCollect
<1>3. ASSUME NEW p \in Procs, NEW a \in Articles, RecordEvidence(p, a) \/ RecordEvent(p, a)
      PROVE  NewsTypes' /\ FeedDated' /\ Sighted' /\ Dated' /\ Pending'
  BY <1>3, EvidenceRecord, EvidenceEvent
<1>4. ASSUME NEW p \in Procs, Crash(p)
      PROVE  NewsTypes' /\ FeedDated' /\ Sighted' /\ Dated' /\ Pending'
  BY <1>4, EvidenceCrash
<1>5. CASE UNCHANGED vars
  <2>1. UNCHANGED <<feed, evidence, timeline, clock, crashes, pc, job>>
    BY <1>5 DEF vars, news
  <2>2. InHand' = InHand /\ Undated(evidence, timeline)' = Undated(evidence, timeline)
    BY <2>1 DEF InHand, Undated
  <2> QED
    BY <2>1, <2>2 DEF EvidenceInv, NewsTypes, FeedDated, Sighted, Dated, Pending
<1> QED
  BY <1>1, <1>2, <1>3, <1>4, <1>5 DEF Next, Advance

(* The account is what EvidenceAccounted says: with a record in hand one   *)
(* more may be undated, and the run that holds it counts for it.           *)
LEMMA EvidenceMeans ==
  ASSUME Unlocked = {}, EvidenceInv
  PROVE  EvidenceAccounted
<1> DEFINE undated == Undated(evidence, timeline)
           dating  == {p \in Runs : pc[p] = "dating"}
<1>1. IsFiniteSet(undated) /\ Within(undated \ InHand, crashes) /\ crashes \in Nat /\ LockInv
  BY DEF EvidenceInv, Pending, NewsTypes
<1>2. PICK x : InHand \subseteq {x}
  BY <1>1, OneInHand
<1>3. \A p \in Procs : pc[p] = "dating" => dating = {p}
  <2> SUFFICES ASSUME NEW p \in Procs, pc[p] = "dating" PROVE dating = {p}
    OBVIOUS
  <2>1. p \in Runs /\ \A q \in Procs \ {p} : pc[q] # "dating"
    BY <1>1, OneWorks DEF EvidenceInv, Workers, RunStages
  <2> QED
    BY <2>1 DEF Procs
<1>4. Cardinality(undated) <= Cardinality(dating) + crashes
  <2>1. CASE InHand = {}
    <3>1. Within(undated, crashes)
      BY <1>1, <2>1
    <3>2. Cardinality(dating) \in Nat
      <4>1. dating = {} \/ \E p \in Procs : dating = {p}
        BY <1>3 DEF Procs
      <4> HIDE DEF dating
      <4>2. dating = {} => Cardinality(dating) = 0
        BY FS_EmptySet
      <4>3. (\E p \in Procs : dating = {p}) => Cardinality(dating) = 1
        BY FS_Singleton
      <4> QED
        BY <4>1, <4>2, <4>3
    <3>3. Cardinality(undated) \in Nat
      BY <1>1, FS_CardinalityType
    <3> HIDE DEF undated, dating
    <3> QED
      BY <1>1, <3>1, <3>2, <3>3 DEF Within
  <2>2. CASE InHand # {}
    <3>1. \E p \in Procs : pc[p] = "dating"
      BY <2>2 DEF InHand
    <3>2. Cardinality(dating) = 1
      BY <1>3, <3>1, FS_Singleton
    <3>3. undated \subseteq (undated \ InHand) \cup {x}
      BY <1>2
    <3> HIDE DEF undated, dating
    <3>4. Within(undated, crashes + 1)
      BY <1>1, <3>3, WithinMore
    <3> QED
      BY <1>1, <3>2, <3>4 DEF Within
  <2> QED
    BY <2>1, <2>2
<1> QED
  BY <1>4 DEF EvidenceAccounted, EvidenceInv, Dated

(* When every run takes the lock, the timeline of an article lies between   *)
(* its sightings and every record has the event of its last sighting but   *)
(* the one in hand and one for every process that died.                    *)
THEOREM EvidenceIsAccounted ==
  ASSUME Unlocked = {} PROVE Spec => []EvidenceAccounted
<1>1. EvidenceInv /\ [Next]_vars => EvidenceInv'
  BY EvidenceStep
<1>2. EvidenceInv => EvidenceAccounted
  BY EvidenceMeans
<1> QED
  BY <1>1, <1>2, EvidenceInit, PTL DEF Spec

-----------------------------------------------------------------------------
(* The backup, when every run takes the lock.  A copy is filled while no    *)
(* record is in hand, so it shows no more undated records than processes    *)
(* died (Counted); the database it shows was worked on under a registry     *)
(* with every seed event (Founded); and what is put in place is a whole     *)
(* copy with the registry copied after it (Whole, Beside).                  *)
Copies == [evidence : [Articles -> [first : Nat, last : Nat]],
           timeline : Seq([article : Articles, at : Nat \ {0}]),
           lines : Seq(1..Seeds), whole : BOOLEAN]

Counted ==
    \A copy \in {partial, backup} : Within(Undated(copy.evidence, copy.timeline), crashes)

SeedsThere == Torn \/ 1..Seeds \subseteq ToSet(registry.lines)

Founded ==
    /\ Torn => crashes > 0
    /\ timeline # <<>> \/ partial.timeline # <<>> \/ backup.timeline # <<>> => SeedsThere

Whole ==
    /\ \A p \in Procs : /\ pc[p] = "replacing" => partial.whole
                        /\ pc[p] = "snapshotting" => backup.whole
    /\ backup.lines # <<>> => backup.whole

Beside ==
    backup.timeline # <<>> =>
        \/ \E p \in Backups : pc[p] = "snapshotting"
        \/ crashes > 0
        \/ 1..Seeds \subseteq ToSet(backup.lines)

Copied == partial \in Copies /\ backup \in Copies /\ Counted /\ Founded /\ Whole /\ Beside

BackupInv == EvidenceInv /\ Copied

(* Nothing is copied at first. *)
LEMMA CopiedInit == Init => Copied
<1> SUFFICES ASSUME Init PROVE Copied
  OBVIOUS
<1>1. partial = NoBackup /\ backup = NoBackup /\ timeline = <<>> /\ crashes = 0 /\ ~ Torn
  BY DEF Init, Torn
<1>2. NoBackup \in Copies /\ NoBackup.timeline = <<>> /\ NoBackup.lines = <<>>
  BY DEF NoBackup, Copies, NoEvidence
<1>3. Undated(NoBackup.evidence, NoBackup.timeline) = {}
  BY DEF NoBackup, Undated
<1>4. Within({}, 0)
  BY FS_EmptySet DEF Within
<1>5. \A p \in Procs : pc[p] = "idle"
  BY DEF Init
<1>6. Counted
  BY <1>1, <1>3, <1>4 DEF Counted
<1> HIDE DEF Init
<1> QED
  BY <1>1, <1>2, <1>5, <1>6 DEF Copied, Founded, Whole, Beside

(* A step that leaves the registry, the timeline and the copies alone.      *)
LEMMA CopiedRest ==
  ASSUME BackupInv, NEW p \in Procs, UNCHANGED <<registry, timeline, partial, backup, crashes>>,
         \A q \in Procs \ {p} : pc'[q] = pc[q],
         pc[p] # "snapshotting", pc'[p] \notin {"replacing", "snapshotting"}
  PROVE  Copied'
<1>1. Backups \subseteq Procs
  BY DEF Procs
<1>2. Counted' /\ Founded'
  BY DEF BackupInv, Copied, Counted, Founded, SeedsThere, Torn, Undated
<1>3. Whole'
  BY DEF BackupInv, Copied, Whole
<1>4. Beside'
  BY <1>1 DEF BackupInv, Copied, Beside
<1> QED
  BY <1>2, <1>3, <1>4 DEF BackupInv, Copied

(* The registry only grows. *)
LEMMA CopiedSeed ==
  ASSUME BackupInv, NEW p \in Procs, NEW s \in 1..Seeds, AppendSeed(p, s)
  PROVE  Copied'
<1>0. registry \in Registries /\ registry.lines \in Seq(1..Seeds)
  BY DEF BackupInv, EvidenceInv, SeedInv, Types, Registries
<1>1. UNCHANGED <<timeline, partial, backup, crashes, pc>>
  BY DEF AppendSeed, news, files
<1>2. registry'.torn = registry.torn /\ ToSet(registry.lines) \subseteq ToSet(registry'.lines)
  <2>1. CASE Torn
    BY <2>1 DEF AppendSeed
  <2>2. CASE ~ Torn
    <3>1. registry' = [registry EXCEPT !.lines = Append(registry.lines, s)]
      BY <2>2 DEF AppendSeed
    <3>2. ToSet(Append(registry.lines, s)) = ToSet(registry.lines) \cup {s}
      <4> DEFINE Events == 1..Seeds
      <4>1. registry.lines \in Seq(Events) /\ s \in Events
        BY <1>0
      <4> HIDE DEF Events
      <4> QED
        BY <4>1, AppendKeeps
    <3>3. registry'.lines = Append(registry.lines, s) /\ registry'.torn = registry.torn
      BY <1>0, <3>1 DEF Registries
    <3> QED
      BY <3>2, <3>3
  <2> QED
    BY <2>1, <2>2
<1>3. Founded'
  BY <1>1, <1>2 DEF BackupInv, Copied, Founded, SeedsThere, Torn
<1>4. Counted' /\ Whole' /\ Beside'
  BY <1>1 DEF BackupInv, Copied, Counted, Whole, Beside, Undated
<1> QED
  BY <1>1, <1>3, <1>4 DEF BackupInv, Copied

(* A run that records an event is past the registry. *)
LEMMA CopiedEvent ==
  ASSUME BackupInv, NEW p \in Procs, NEW a \in Articles, RecordEvent(p, a)
  PROVE  Copied'
<1>0. pc \in [Procs -> Stages] /\ Workers /\ Known /\ Backups \subseteq Procs
  BY DEF BackupInv, EvidenceInv, SeedInv, Types, Procs
<1>1. /\ pc[p] = "dating" /\ pc' = [pc EXCEPT ![p] = "publishing"]
      /\ UNCHANGED <<registry, partial, backup, crashes>>
  BY DEF RecordEvent, files, Goto
<1>2. SeedsThere
  BY <1>0, <1>1 DEF Workers, RunStages, Known, Seeking, SeedsThere, Torn
<1>3. Founded'
  BY <1>1, <1>2 DEF BackupInv, Copied, Founded, SeedsThere, Torn
<1>4. Counted' /\ Whole' /\ Beside'
  BY <1>0, <1>1 DEF BackupInv, Copied, Counted, Whole, Beside, Undated
<1> QED
  BY <1>1, <1>3, <1>4 DEF BackupInv, Copied

(* The .partial file is opened, filled or unlinked: nobody else works, so   *)
(* no record is in hand.                                                    *)
LEMMA CopiedPartial ==
  ASSUME Unlocked = {}, BackupInv, NEW p \in Procs, OpenCopy(p) \/ FillCopy(p) \/ FailCopy(p)
  PROVE  Copied'
<1>0. /\ pc \in [Procs -> Stages] /\ LockInv /\ NewsTypes /\ crashes \in Nat
      /\ Backups \subseteq Procs
  BY DEF BackupInv, EvidenceInv, LockInv, NewsTypes, Procs
<1>1. PICK stage \in {"filling", "replacing", "releasing"} :
        /\ pc[p] \in {"copying", "filling"} /\ pc' = [pc EXCEPT ![p] = stage]
        /\ UNCHANGED <<registry, evidence, timeline, backup, crashes>>
        /\ \/ stage # "replacing" /\ partial' = NoBackup
           \/ partial' = [NoBackup EXCEPT !.evidence = evidence, !.timeline = timeline, !.whole = TRUE]
  BY DEF OpenCopy, FillCopy, FailCopy, Goto, news
<1>2. /\ \A q \in Procs \ {p} : pc[q] \notin RunStages \cup BackupStages /\ pc'[q] = pc[q]
      /\ pc'[p] = stage
  BY <1>0, <1>1, OneWorks DEF BackupStages
<1>3. NoBackup \in Copies /\ NoBackup.timeline = <<>>
  BY DEF NoBackup, Copies, NoEvidence
<1>4. /\ partial' \in Copies /\ (stage = "replacing" => partial'.whole)
      /\ partial'.timeline \in {<<>>, timeline}
  <2>1. CASE partial' = NoBackup
    BY <1>1, <1>3, <2>1 DEF NoBackup
  <2>2. CASE partial' # NoBackup
    BY <1>0, <1>1, <1>3, <2>2 DEF NewsTypes, Copies
  <2> QED
    BY <2>1, <2>2
<1>5. Within(Undated(partial'.evidence, partial'.timeline), crashes)
  <2>1. CASE partial' = NoBackup
    <3>1. Undated(NoBackup.evidence, NoBackup.timeline) = {}
      BY DEF NoBackup, Undated
    <3>2. Within({}, crashes)
      BY <1>0, FS_EmptySet DEF Within
    <3> QED
      BY <2>1, <3>1, <3>2
  <2>2. CASE partial' # NoBackup
    <3>1. partial'.evidence = evidence /\ partial'.timeline = timeline
      BY <1>1, <1>3, <2>2 DEF Copies
    <3>2. InHand = {}
      BY <1>1, <1>2 DEF InHand, RunStages
    <3>3. Undated(evidence, timeline) \ InHand = Undated(evidence, timeline)
      BY <3>2
    <3> QED
      BY <3>1, <3>3 DEF BackupInv, EvidenceInv, Pending
  <2> QED
    BY <2>1, <2>2
<1>6. Counted'
  <2>1. Within(Undated(backup.evidence, backup.timeline), crashes)
    BY DEF BackupInv, Copied, Counted
  <2>2. \A copy \in {partial', backup} : Within(Undated(copy.evidence, copy.timeline), crashes)
    BY <1>5, <2>1
  <2> QED
    BY <1>1, <2>2 DEF Counted, Undated
<1>7. Founded'
  BY <1>1, <1>4 DEF BackupInv, Copied, Founded, SeedsThere, Torn
<1>8. Whole'
  BY <1>1, <1>2, <1>4 DEF BackupInv, Copied, Whole, BackupStages
<1>9. Beside'
  BY <1>0, <1>1, <1>2 DEF BackupInv, Copied, Beside
<1> QED
  BY <1>1, <1>4, <1>6, <1>7, <1>8, <1>9 DEF BackupInv, Copied

(* The whole .partial file replaces the backup. *)
LEMMA CopiedReplace ==
  ASSUME Unlocked = {}, BackupInv, NEW p \in Procs, Replace(p)
  PROVE  Copied'
<1>0. /\ pc \in [Procs -> Stages] /\ LockInv /\ Workers /\ crashes \in Nat
      /\ partial \in Copies /\ backup \in Copies
  BY DEF BackupInv, EvidenceInv, LockInv, NewsTypes, Copied
<1>1. /\ pc[p] = "replacing" /\ pc' = [pc EXCEPT ![p] = "snapshotting"]
      /\ backup' = [partial EXCEPT !.lines = backup.lines] /\ partial' = NoBackup
      /\ UNCHANGED <<registry, timeline, crashes>>
  BY DEF Replace, Goto, news
<1>2. /\ \A q \in Procs \ {p} : pc[q] \notin RunStages \cup BackupStages /\ pc'[q] = pc[q]
      /\ pc'[p] = "snapshotting" /\ p \in Backups
  BY <1>0, <1>1, OneWorks DEF BackupStages, Workers
<1>3. /\ NoBackup \in Copies /\ NoBackup.timeline = <<>>
      /\ Undated(NoBackup.evidence, NoBackup.timeline) = {}
  BY DEF NoBackup, Copies, NoEvidence, Undated
<1>4. /\ backup' \in Copies /\ backup'.evidence = partial.evidence
      /\ backup'.timeline = partial.timeline /\ backup'.whole = partial.whole
  BY <1>0, <1>1 DEF Copies
<1>5. Counted'
  <2>1. Within(Undated(partial.evidence, partial.timeline), crashes)
    BY DEF BackupInv, Copied, Counted
  <2>2. Within(Undated(backup'.evidence, backup'.timeline), crashes)
    BY <1>4, <2>1
  <2>3. Within({}, crashes)
    BY <1>0, FS_EmptySet DEF Within
  <2>4. Within(Undated(partial'.evidence, partial'.timeline), crashes)
    BY <1>1, <1>3, <2>3
  <2>5. \A copy \in {partial', backup'} : Within(Undated(copy.evidence, copy.timeline), crashes)
    BY <2>2, <2>4
  <2> QED
    BY <1>1, <2>5 DEF Counted, Undated
<1>6. Founded'
  BY <1>1, <1>3, <1>4 DEF BackupInv, Copied, Founded, SeedsThere, Torn
<1>7. Whole'
  <2>1. partial.whole
    BY <1>1 DEF BackupInv, Copied, Whole
  <2> QED
    BY <1>2, <1>4, <2>1 DEF Whole, BackupStages
<1>8. Beside'
  BY <1>2 DEF Beside
<1> QED
  BY <1>1, <1>3, <1>4, <1>5, <1>6, <1>7, <1>8 DEF Copied

(* The registry is copied beside a whole backup. *)
LEMMA CopiedSnapshot ==
  ASSUME BackupInv, NEW p \in Procs, SnapshotRegistry(p)
  PROVE  Copied'
<1>0. /\ pc \in [Procs -> Stages] /\ registry.lines \in Seq(1..Seeds) /\ backup \in Copies
  BY DEF BackupInv, EvidenceInv, SeedInv, Types, Registries, Copied
<1>1. /\ pc[p] = "snapshotting" /\ pc' = [pc EXCEPT ![p] = "releasing"]
      /\ backup' = [backup EXCEPT !.lines = registry.lines]
      /\ UNCHANGED <<registry, timeline, partial, crashes>>
  BY DEF SnapshotRegistry, Goto, news
<1>2. /\ backup' \in Copies /\ backup'.evidence = backup.evidence /\ backup'.lines = registry.lines
      /\ backup'.timeline = backup.timeline /\ backup'.whole = backup.whole
  BY <1>0, <1>1 DEF Copies
<1>3. Counted'
  <2>1. /\ Within(Undated(partial.evidence, partial.timeline), crashes)
        /\ Within(Undated(backup'.evidence, backup'.timeline), crashes)
    BY <1>2 DEF BackupInv, Copied, Counted
  <2>2. \A copy \in {partial, backup'} : Within(Undated(copy.evidence, copy.timeline), crashes)
    BY <2>1
  <2> QED
    BY <1>1, <2>2 DEF Counted, Undated
<1>4. Founded'
  BY <1>1, <1>2 DEF BackupInv, Copied, Founded, SeedsThere, Torn
<1>5. Whole'
  <2>1. backup'.whole
    BY <1>1, <1>2 DEF BackupInv, Copied, Whole
  <2>2. \A q \in Procs : pc'[q] = "replacing" => pc[q] = "replacing"
    BY <1>0, <1>1
  <2> QED
    BY <1>1, <2>1, <2>2 DEF BackupInv, Copied, Whole
<1>6. Beside'
  BY <1>1, <1>2 DEF BackupInv, Copied, Founded, SeedsThere, Torn, Beside
<1> QED
  BY <1>1, <1>2, <1>3, <1>4, <1>5, <1>6 DEF BackupInv, Copied

(* A death leaves the copies as they are, and one more undated record to    *)
(* spare.                                                                   *)
LEMMA CopiedCrash ==
  ASSUME BackupInv, NEW p \in Procs, Crash(p)
  PROVE  Copied'
<1>0. pc \in [Procs -> Stages] /\ crashes \in Nat /\ registry \in Registries
  BY DEF BackupInv, EvidenceInv, SeedInv, Types, NewsTypes
<1>1. /\ pc' = [pc EXCEPT ![p] = "idle"] /\ crashes' = crashes + 1
      /\ UNCHANGED <<timeline, partial, backup>>
      /\ registry' = registry \/ registry' = [registry EXCEPT !.torn = registry.torn \cup {q \in Runs : Appending(q)}]
  BY DEF Crash, news, files
<1>2. crashes' > 0
  BY <1>0, <1>1
<1>3. Counted'
  <2>1. ASSUME NEW copy \in {partial, backup}
        PROVE  Within(Undated(copy.evidence, copy.timeline), crashes + 1)
    <3> DEFINE undated == Undated(copy.evidence, copy.timeline)
    <3>1. Within(undated, crashes)
      BY DEF BackupInv, Copied, Counted
    <3> HIDE DEF undated
    <3>2. Within(undated, crashes + 1)
      BY <1>0, <3>1, WithinMore
    <3> QED
      BY <3>2 DEF undated
  <2> QED
    BY <1>1, <2>1 DEF Counted, Undated
<1>4. Founded'
  BY <1>0, <1>1, <1>2 DEF BackupInv, Copied, Founded, SeedsThere, Torn, Registries
<1>5. Whole'
  <2>1. \A q \in Procs : pc'[q] \in {"replacing", "snapshotting"} => pc'[q] = pc[q]
    BY <1>0, <1>1
  <2> QED
    BY <1>1, <2>1 DEF BackupInv, Copied, Whole
<1>6. Beside'
  BY <1>2 DEF Beside
<1> QED
  BY <1>1, <1>3, <1>4, <1>5, <1>6 DEF BackupInv, Copied

(* Every step keeps the backup settled. *)
LEMMA BackupStep ==
  ASSUME Unlocked = {}, BackupInv, [Next]_vars PROVE BackupInv'
<1>0. EvidenceInv' /\ pc \in [Procs -> Stages]
  BY EvidenceStep DEF BackupInv, EvidenceInv, SeedInv, Types
<1> SUFFICES Copied'
  BY <1>0 DEF BackupInv
<1>1. ASSUME NEW p \in Procs,
             \/ \E h \in Hosts : Begin(p, h)
             \/ ReadEvents(p) \/ Seeded(p) \/ Acquire(p) \/ Refused(p) \/ CutOwner(p)
             \/ SignOwner(p) \/ StaysUnsigned(p) \/ Release(p) \/ ReadHost(p) \/ SaveMigration(p) \/ SetHost(p)
             \/ SetHostname(p) \/ SetCycleStart(p) \/ (\E F \in Feeds : Collect(p, F))
             \/ (\E a \in Articles : RecordEvidence(p, a)) \/ Published(p)
      PROVE  Copied'
  <2>1. UNCHANGED <<registry, timeline, partial, backup, crashes>>
    BY <1>1
       DEF Begin, ReadEvents, Seeded, Acquire, Refused, CutOwner, SignOwner, StaysUnsigned, Release,
          ReadHost, SaveMigration, SetHost, SetHostname, SetCycleStart, Collect, RecordEvidence, Published,
          news, files
  <2>2. \A q \in Procs \ {p} : pc'[q] = pc[q]
    BY <1>0, <1>1
       DEF Begin, ReadEvents, Seeded, Acquire, Refused, CutOwner, SignOwner, StaysUnsigned, Release,
          ReadHost, SaveMigration, SetHost, SetHostname, SetCycleStart, Collect, RecordEvidence, Published, Goto
  <2>3. pc[p] # "snapshotting" /\ pc'[p] \notin {"replacing", "snapshotting"}
    BY <1>0, <1>1
       DEF Begin, ReadEvents, Seeded, Acquire, Refused, CutOwner, SignOwner, StaysUnsigned, Release,
          ReadHost, SaveMigration, SetHost, SetHostname, SetCycleStart, Collect, RecordEvidence, Published, Goto,
          Critical
  <2> QED
    BY <2>1, <2>2, <2>3, CopiedRest
<1>2. ASSUME NEW p \in Procs,
             \/ (\E s \in 1..Seeds : AppendSeed(p, s)) \/ (\E a \in Articles : RecordEvent(p, a))
             \/ Crash(p)
      PROVE  Copied'
  BY <1>2, CopiedSeed, CopiedEvent, CopiedCrash
<1>3. ASSUME NEW p \in Procs,
             OpenCopy(p) \/ FillCopy(p) \/ FailCopy(p) \/ Replace(p) \/ SnapshotRegistry(p)
      PROVE  Copied'
  BY <1>3, CopiedPartial, CopiedReplace, CopiedSnapshot
<1>4. CASE UNCHANGED vars
  <2>1. UNCHANGED <<registry, timeline, partial, backup, crashes, pc>>
    BY <1>4 DEF vars, news, files
  <2> QED
    BY <2>1 DEF BackupInv, Copied, Counted, Founded, SeedsThere, Torn, Whole, Beside, Undated
<1> QED
  BY <1>1, <1>2, <1>3, <1>4 DEF Next, Advance

(* When every run takes the lock, a backup shows the database whole and     *)
(* between two runs, with the registry its runs worked under beside it.     *)
THEOREM BackupsAreSettled ==
  ASSUME Unlocked = {} PROVE Spec => []BackupSettled
<1>1. BackupInv /\ [Next]_vars => BackupInv'
  BY BackupStep
<1>2. BackupInv => BackupSettled
  BY DEF BackupInv, Copied, Counted, Within, Whole, Beside, BackupSettled
<1>3. Init => BackupInv
  BY EvidenceInit, CopiedInit DEF BackupInv
<1> QED
  BY <1>1, <1>2, <1>3, PTL DEF Spec
=============================================================================
