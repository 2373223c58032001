--------------------------- MODULE AdmissionProofs ---------------------------
(***************************************************************************)
(* Proofs about Admission, for every set of processes, tables, columns and *)
(* bounds, and for every store the processes may find.                     *)
(*                                                                         *)
(* AdmittedComplete is not inductive: a verdict is put together from reads *)
(* of several moments, so it rests on the store only growing (Grows) and   *)
(* on what each stage already knows of it (StageOK).                       *)
(***************************************************************************)
EXTENDS Admission, TLAPS

Shaped(s) ==
    /\ s.tables # {} \/ s.corrupt => s.exists
    /\ s.version # 0 => "schema_version" \in s.tables
    /\ "runs" \notin s.tables => s.columns = {}

(* What a process at each stage knows of the store. *)
StageOK(p) ==
    /\ job[p].tables \subseteq store.tables
    /\ pc[p] \in {"marker", "legacy", "columns"} \cup Migrating => ~ store.corrupt
    /\ pc[p] \in {"marker", "legacy"} => job[p].todo = Tables
    /\ pc[p] = "columns" => store.version >= Expected
    /\ pc[p] = "creating" => /\ job[p].todo \subseteq Tables /\ job[p].todo # {}
                             /\ Tables \ job[p].todo \subseteq store.tables
    /\ pc[p] \in {"created", "altering", "altered"} => store.tables = Tables
    /\ pc[p] = "altering" => /\ job[p].todo \subseteq Columns
                             /\ Columns \ job[p].todo \subseteq store.columns
    /\ pc[p] = "altered" => store.columns = Columns
    /\ pc[p] = "admitted" => Complete(store) /\ store.version >= Expected

AInv == TypeOK /\ Shaped(store) /\ \A p \in Procs : StageOK(p)

(* From one store to a later one nothing is lost. *)
Grows(s, t) ==
    /\ t.corrupt = s.corrupt /\ (s.exists => t.exists)
    /\ s.tables \subseteq t.tables /\ s.columns \subseteq t.columns
    /\ t.version >= s.version

-----------------------------------------------------------------------------
(* Types.                                                                  *)

(* Every verdict leads to one of three stages. *)
LEMMA AfterType ==
  ASSUME NEW p \in Procs, NEW verdict
  PROVE  /\ After(p, verdict) \in {"admitted", "creating", "refused"}
         /\ After(p, verdict) = "admitted" <=> verdict = "COMPATIBLE"
         /\ After(p, verdict) = "creating" => verdict \in {"FRESH", "MIGRATION_REQUIRED"}
  BY DEF After

(* The statement about types, split by variable. *)
LEMMA JobType ==
  ASSUME TypeOK, NEW p \in Procs
  PROVE  job[p] \in Job /\ Idle \in Job
  BY DEF TypeOK, Idle, Job

(* What a statement leaves of the work in hand. *)
LEMMA WorkType ==
  ASSUME NEW w \in Job, NEW rest \in SUBSET (Tables \cup Columns), NEW b
  PROVE  /\ LET v == [w EXCEPT !.todo = rest, !.wrote = @ \/ b]
            IN v \in Job /\ v.todo = rest /\ v.tables = w.tables
         /\ LET v == [w EXCEPT !.todo = rest, !.wrote = TRUE]
            IN v \in Job /\ v.todo = rest /\ v.tables = w.tables
         /\ LET v == [w EXCEPT !.verifying = TRUE, !.wrote = @ \/ b]
            IN v \in Job /\ v.tables = w.tables
<1>1. (w.wrote \/ b) \in BOOLEAN
  OBVIOUS
<1> QED
  BY <1>1 DEF Job

(* The invariant holds at first. *)
LEMMA AInit == Init => AInv
<1> SUFFICES ASSUME Init PROVE AInv
  OBVIOUS
<1> USE AdmissionConstants
<1>1. TypeOK
  BY DEF Init, TypeOK, Stages, Idle, Job
<1>2. Shaped(store)
  BY StoresShaped DEF Init, Shaped
<1>3. \A p \in Procs : StageOK(p)
  BY <1>1 DEF Init, StageOK, Idle, Migrating, TypeOK, Store
<1> QED
  BY <1>1, <1>2, <1>3 DEF AInv

-----------------------------------------------------------------------------
(* Steps.                                                                  *)

(* A process that does not move keeps what it knows of a store that only   *)
(* grows.                                                                  *)
LEMMA OthersKeep ==
  ASSUME AInv, store' \in Store, Grows(store, store'),
         NEW q \in Procs, pc'[q] = pc[q], job'[q] = job[q]
  PROVE  StageOK(q)'
<1>1. /\ store \in Store /\ store' \in Store /\ Expected \in Nat
      /\ store.version \in Nat /\ store'.version \in Nat
  BY AdmissionConstants DEF AInv, TypeOK, Store
<1>2. StageOK(q)
  BY DEF AInv
<1>3. /\ store.tables \subseteq store'.tables /\ store'.tables \subseteq Tables
      /\ store.columns \subseteq store'.columns /\ store'.columns \subseteq Columns
      /\ store'.corrupt = store.corrupt
      /\ store.version >= Expected => store'.version >= Expected
  BY <1>1 DEF Grows, Store
<1>4. /\ store.tables = Tables => store'.tables = Tables
      /\ store.columns = Columns => store'.columns = Columns
  BY <1>3
<1>5. Complete(store) => Complete(store')
  BY <1>4 DEF Complete
<1> QED
  BY <1>2, <1>3, <1>4, <1>5 DEF StageOK, Complete, Migrating

(* A process moves, over the same store. *)
LEMMA MoveKeeps ==
  ASSUME AInv, NEW p \in Procs, UNCHANGED store,
         pc' \in [Procs -> Stages], TypeOK', \A q \in Procs \ {p} : pc'[q] = pc[q] /\ job'[q] = job[q],
         StageOK(p)'
  PROVE  AInv' /\ Grows(store, store')
<1>1. store \in Store /\ store' \in Store /\ store.version \in Nat
  BY AdmissionConstants DEF AInv, TypeOK, Store
<1>2. Grows(store, store')
  BY <1>1 DEF Grows
<1>3. \A q \in Procs : StageOK(q)'
  BY <1>1, <1>2, OthersKeep
<1> QED
  BY <1>2, <1>3 DEF AInv

(* A process moves and changes the store. *)
LEMMA WriteKeeps ==
  ASSUME AInv, NEW p \in Procs, Grows(store, store'), Shaped(store'), TypeOK',
         \A q \in Procs \ {p} : pc'[q] = pc[q] /\ job'[q] = job[q],
         StageOK(p)'
  PROVE  AInv' /\ Grows(store, store')
<1>1. store' \in Store
  BY DEF TypeOK
<1>2. \A q \in Procs : StageOK(q)'
  BY <1>1, OthersKeep
<1> QED
  BY <1>2 DEF AInv

(* The reads: the process comes to know what it read, and the store does   *)
(* not change.                                                             *)
LEMMA ReadSteps ==
  ASSUME AInv, NEW p \in Procs,
         Open(p) \/ ReadTables(p) \/ ReadLegacyColumns(p) \/ ReadMarker(p) \/ ReadColumns(p)
  PROVE  AInv' /\ Grows(store, store')
<1> USE AdmissionConstants
<1>1. /\ StageOK(p) /\ TypeOK /\ Shaped(store)
      /\ store \in Store /\ store.version \in Nat /\ store.tables \subseteq Tables
      /\ Tables # {} /\ Expected \in Nat
  BY DEF AInv, TypeOK, Store
<1>2. CASE Open(p)
  <2>1. /\ pc' = [pc EXCEPT ![p] = IF store.exists THEN "inspecting" ELSE "creating"]
        /\ job' = [job EXCEPT ![p] = [Idle EXCEPT !.todo = Tables]]
        /\ UNCHANGED <<store, crashes, faults, upgrades>>
    BY <1>2 DEF Open, Goto
  <2>2. TypeOK'
    BY <1>1, <2>1 DEF TypeOK, Idle, Stages, Migrating, Job
  <2>3. StageOK(p)'
    BY <1>1, <2>1 DEF StageOK, TypeOK, Idle, Migrating, Shaped
  <2>4. \A q \in Procs \ {p} : pc'[q] = pc[q] /\ job'[q] = job[q]
    BY <1>1, <2>1 DEF TypeOK
  <2> QED
    BY <2>1, <2>2, <2>3, <2>4, MoveKeeps DEF TypeOK
<1>3. CASE ReadTables(p)
  <2>1. PICK stage : /\ pc[p] = "inspecting" /\ pc' = [pc EXCEPT ![p] = stage]
                     /\ stage \in {"marker", "legacy", "admitted", "creating", "refused"}
                     /\ stage # "refused" => ~ store.corrupt
                     /\ stage # "admitted"
    BY <1>3, AfterType DEF ReadTables, Goto, After
  <2>2. /\ job' = [job EXCEPT ![p].tables = store.tables, ![p].todo = Tables]
        /\ UNCHANGED <<store, crashes, faults, upgrades>>
    BY <1>3 DEF ReadTables
  <2>3. TypeOK' /\ job'[p].tables = store.tables /\ job'[p].todo = Tables
    BY <1>1, <2>1, <2>2 DEF TypeOK, Stages, Migrating, Job
  <2>4. StageOK(p)'
    BY <1>1, <2>1, <2>2, <2>3 DEF StageOK, TypeOK, Migrating
  <2>5. \A q \in Procs \ {p} : pc'[q] = pc[q] /\ job'[q] = job[q]
    BY <1>1, <2>1, <2>2 DEF TypeOK
  <2> QED
    BY <2>2, <2>3, <2>4, <2>5, MoveKeeps DEF TypeOK
<1>4. CASE ReadLegacyColumns(p) \/ ReadMarker(p)
  <2>1. PICK stage : /\ pc[p] \in {"legacy", "marker"} /\ pc' = [pc EXCEPT ![p] = stage]
                     /\ stage \in {"columns", "creating", "refused"}
                     /\ stage = "columns" => store.version >= Expected
    <3>1. CASE ReadLegacyColumns(p)
      BY <3>1, AfterType DEF ReadLegacyColumns, Goto
    <3>2. CASE ReadMarker(p)
      BY <3>2, <1>1, AfterType DEF ReadMarker, Goto
    <3> QED
      BY <1>4, <3>1, <3>2
  <2>2. UNCHANGED <<store, job, crashes, faults, upgrades>>
    BY <1>4 DEF ReadLegacyColumns, ReadMarker
  <2>3. TypeOK'
    BY <1>1, <2>1, <2>2 DEF TypeOK, Stages, Migrating
  <2>4. StageOK(p)'
    BY <1>1, <2>1, <2>2 DEF StageOK, TypeOK, Migrating
  <2>5. \A q \in Procs \ {p} : pc'[q] = pc[q] /\ job'[q] = job[q]
    BY <1>1, <2>1, <2>2 DEF TypeOK
  <2> QED
    BY <2>2, <2>3, <2>4, <2>5, MoveKeeps DEF TypeOK
<1>5. CASE ReadColumns(p)
  <2>1. PICK stage : /\ pc[p] = "columns" /\ pc' = [pc EXCEPT ![p] = stage]
                     /\ stage \in {"admitted", "refused"}
                     /\ stage = "admitted" =>
                            job[p].tables = Tables /\ store.columns = Columns
    BY <1>5, AfterType DEF ReadColumns, Goto, Contract
  <2>2. UNCHANGED <<store, job, crashes, faults, upgrades>>
    BY <1>5 DEF ReadColumns
  <2>3. TypeOK'
    BY <1>1, <2>1, <2>2 DEF TypeOK, Stages, Migrating
  <2>4. StageOK(p)'
    BY <1>1, <2>1, <2>2 DEF StageOK, TypeOK, Migrating, Complete
  <2>5. \A q \in Procs \ {p} : pc'[q] = pc[q] /\ job'[q] = job[q]
    BY <1>1, <2>1, <2>2 DEF TypeOK
  <2> QED
    BY <2>2, <2>3, <2>4, <2>5, MoveKeeps DEF TypeOK
<1> QED
  BY <1>2, <1>3, <1>4, <1>5

(* The statements of the migration: the store only grows. *)
LEMMA WriteSteps ==
  ASSUME AInv, NEW p \in Procs,
         \/ \E t \in Tables : CreateTable(p, t)
         \/ ListColumns(p)
         \/ \E c \in Columns : AddColumn(p, c) \/ DuplicateColumn(p, c)
         \/ StampMarker(p)
  PROVE  AInv' /\ Grows(store, store')
<1> USE AdmissionConstants
<1>1. /\ StageOK(p) /\ TypeOK /\ Shaped(store)
      /\ store \in Store /\ store.version \in Nat /\ store.version \in 0..Expected + 1
      /\ store.tables \subseteq Tables
      /\ store.columns \subseteq Columns /\ Expected \in Nat /\ Expected # 0
      /\ job[p].todo \subseteq Tables \cup Columns
  BY DEF AInv, TypeOK, Store, Job
<1>2. ASSUME NEW t \in Tables, CreateTable(p, t)
      PROVE  AInv' /\ Grows(store, store')
  <2> DEFINE born == IF t = "runs" /\ t \notin store.tables THEN Born ELSE store.columns
  <2>1. /\ pc[p] = "creating" /\ t \in job[p].todo
        /\ pc' = [pc EXCEPT ![p] = IF job[p].todo = {t} THEN "created" ELSE "creating"]
    BY <1>1, <1>2 DEF CreateTable, Goto, First, TypeOK
  <2>2. /\ store' = [store EXCEPT !.exists = TRUE, !.tables = @ \cup {t}, !.columns = born]
        /\ job' = [job EXCEPT ![p].todo = @ \ {t}, ![p].wrote = @ \/ t \notin store.tables]
        /\ UNCHANGED <<crashes, faults, upgrades>>
    BY <1>2 DEF CreateTable
  <2>3. /\ store' \in Store /\ store'.exists /\ store'.tables = store.tables \cup {t}
        /\ store'.columns = born /\ store'.version = store.version
        /\ store'.corrupt = store.corrupt
    BY <1>1, <2>2 DEF Store
  <2>4. Grows(store, store') /\ Shaped(store')
    BY <1>1, <2>3 DEF Grows, Shaped
  <2>5. TypeOK' /\ job'[p].todo = job[p].todo \ {t} /\ job'[p].tables = job[p].tables
    <3> DEFINE work == [job[p] EXCEPT !.todo = job[p].todo \ {t},
                                      !.wrote = @ \/ t \notin store.tables]
    <3>1. job' = [job EXCEPT ![p] = work]
      BY <1>1, <2>2 DEF TypeOK
    <3>2. job[p].todo \ {t} \in SUBSET (Tables \cup Columns)
      BY <1>1
    <3>3. work \in Job /\ work.todo = job[p].todo \ {t} /\ work.tables = job[p].tables
      BY <3>2, JobType, <1>1 DEF Job
    <3> HIDE DEF work
    <3>4. pc' \in [Procs -> Stages]
      BY <1>1, <2>1 DEF TypeOK, Stages, Migrating
    <3>5. job' \in [Procs -> Job] /\ job'[p] = work
      BY <1>1, <3>1, <3>3 DEF TypeOK
    <3> QED
      BY <1>1, <2>2, <2>3, <3>3, <3>4, <3>5 DEF TypeOK
  <2>6. StageOK(p)'
    BY <1>1, <2>1, <2>2, <2>3, <2>5 DEF StageOK, TypeOK, Migrating
  <2>7. \A q \in Procs \ {p} : pc'[q] = pc[q] /\ job'[q] = job[q]
    BY <1>1, <2>1, <2>2 DEF TypeOK
  <2> QED
    BY <2>4, <2>5, <2>6, <2>7, WriteKeeps
<1>3. CASE ListColumns(p)
  <2> DEFINE missing == Missing(store.columns)
  <2>1. /\ pc[p] = "created"
        /\ pc' = [pc EXCEPT ![p] = IF missing = {} THEN "altered" ELSE "altering"]
        /\ job' = [job EXCEPT ![p].todo = missing]
        /\ UNCHANGED <<store, crashes, faults, upgrades>>
    BY <1>3 DEF ListColumns, Goto
  <2>2. missing \subseteq Columns /\ Columns \ missing \subseteq store.columns
    BY DEF Missing
  <2>3. TypeOK' /\ job'[p].todo = missing /\ job'[p].tables = job[p].tables
    BY <1>1, <2>1, <2>2 DEF TypeOK, Stages, Migrating, Job
  <2>4. StageOK(p)'
    BY <1>1, <2>1, <2>2, <2>3 DEF StageOK, TypeOK, Migrating
  <2>5. \A q \in Procs \ {p} : pc'[q] = pc[q] /\ job'[q] = job[q]
    BY <1>1, <2>1 DEF TypeOK
  <2> QED
    BY <2>1, <2>3, <2>4, <2>5, MoveKeeps DEF TypeOK
<1>4. ASSUME NEW c \in Columns, AddColumn(p, c)
      PROVE  AInv' /\ Grows(store, store')
  <2>1. /\ pc[p] = "altering" /\ c \in job[p].todo
        /\ pc' = [pc EXCEPT ![p] = IF job[p].todo = {c} THEN "altered" ELSE "altering"]
        /\ store' = [store EXCEPT !.columns = @ \cup {c}]
        /\ job' = [job EXCEPT ![p].todo = @ \ {c}, ![p].wrote = TRUE]
        /\ UNCHANGED <<crashes, faults, upgrades>>
    BY <1>1, <1>4 DEF AddColumn, Goto, First, TypeOK
  <2>2. /\ store' \in Store /\ store'.exists = store.exists /\ store'.tables = store.tables
        /\ store'.columns = store.columns \cup {c} /\ store'.version = store.version
        /\ store'.corrupt = store.corrupt
    BY <1>1, <2>1 DEF Store
  <2>3. Grows(store, store') /\ Shaped(store')
    BY <1>1, <2>1, <2>2 DEF Grows, Shaped, StageOK
  <2>4. TypeOK' /\ job'[p].todo = job[p].todo \ {c} /\ job'[p].tables = job[p].tables
    <3> DEFINE work == [job[p] EXCEPT !.todo = job[p].todo \ {c}, !.wrote = TRUE]
    <3>1. job' = [job EXCEPT ![p] = work]
      BY <1>1, <2>1 DEF TypeOK
    <3>2. job[p].todo \ {c} \in SUBSET (Tables \cup Columns)
      BY <1>1
    <3>3. work \in Job /\ work.todo = job[p].todo \ {c} /\ work.tables = job[p].tables
      BY <3>2, JobType, <1>1 DEF Job
    <3> HIDE DEF work
    <3> QED
      BY <1>1, <2>1, <2>2, <3>1, <3>3 DEF TypeOK, Stages, Migrating
  <2>5. StageOK(p)'
    BY <1>1, <2>1, <2>2, <2>4 DEF StageOK, TypeOK, Migrating
  <2>6. \A q \in Procs \ {p} : pc'[q] = pc[q] /\ job'[q] = job[q]
    BY <1>1, <2>1 DEF TypeOK
  <2> QED
    BY <2>3, <2>4, <2>5, <2>6, WriteKeeps
<1>5. ASSUME NEW c \in Columns, DuplicateColumn(p, c)
      PROVE  AInv' /\ Grows(store, store')
  <2>1. /\ pc[p] = "altering" /\ pc' = [pc EXCEPT ![p] = "refused"]
        /\ UNCHANGED <<store, job, crashes, faults, upgrades>>
    BY <1>5 DEF DuplicateColumn, Goto
  <2>2. TypeOK'
    BY <1>1, <2>1 DEF TypeOK, Stages
  <2>3. StageOK(p)'
    BY <1>1, <2>1 DEF StageOK, TypeOK, Migrating
  <2>4. \A q \in Procs \ {p} : pc'[q] = pc[q] /\ job'[q] = job[q]
    BY <1>1, <2>1 DEF TypeOK
  <2> QED
    BY <2>1, <2>2, <2>3, <2>4, MoveKeeps DEF TypeOK
<1>6. CASE StampMarker(p)
  <2>1. /\ pc[p] = "altered" /\ pc' = [pc EXCEPT ![p] = "inspecting"]
        /\ store' = [store EXCEPT !.version = Stamp(@)]
        /\ job' = [job EXCEPT ![p].verifying = TRUE,
                              ![p].wrote = @ \/ Stamp(store.version) # store.version]
        /\ UNCHANGED <<crashes, faults, upgrades>>
    BY <1>6 DEF StampMarker, Goto
  <2>2. Stamp(store.version) \in 0..Expected + 1 /\ Stamp(store.version) >= store.version
    BY <1>1 DEF Stamp
  <2>3. /\ store' \in Store /\ store'.exists = store.exists /\ store'.tables = store.tables
        /\ store'.columns = store.columns /\ store'.version = Stamp(store.version)
        /\ store'.corrupt = store.corrupt
    BY <1>1, <2>1, <2>2 DEF Store
  <2>4. Grows(store, store') /\ Shaped(store')
    BY <1>1, <2>1, <2>2, <2>3 DEF Grows, Shaped, StageOK
  <2>5. TypeOK' /\ job'[p].tables = job[p].tables
    <3> DEFINE work == [job[p] EXCEPT !.verifying = TRUE,
                                      !.wrote = @ \/ Stamp(store.version) # store.version]
    <3>1. job' = [job EXCEPT ![p] = work]
      BY <1>1, <2>1 DEF TypeOK
    <3>2. work \in Job /\ work.tables = job[p].tables
      BY <1>1, JobType, WorkType
    <3> HIDE DEF work
    <3> QED
      BY <1>1, <2>1, <2>3, <3>1, <3>2 DEF TypeOK, Stages, Migrating
  <2>6. StageOK(p)'
    BY <1>1, <2>1, <2>3, <2>5 DEF StageOK, TypeOK, Migrating
  <2>7. \A q \in Procs \ {p} : pc'[q] = pc[q] /\ job'[q] = job[q]
    BY <1>1, <2>1 DEF TypeOK
  <2> QED
    BY <2>4, <2>5, <2>6, <2>7, WriteKeeps
<1> QED
  BY <1>2, <1>3, <1>4, <1>5, <1>6

(* Errors, ends and kills: the process knows less. *)
LEMMA EndSteps ==
  ASSUME AInv, NEW p \in Procs, StatementFails(p) \/ Close(p) \/ Crash(p)
  PROVE  AInv' /\ Grows(store, store')
<1>1. /\ StageOK(p) /\ TypeOK
      /\ {MaxCrashes, MaxFaults, MaxUpgrades} \subseteq Nat
  BY AdmissionConstants DEF AInv
<1>2. PICK stage \in {"idle", "refused"}, work \in {Idle, job[p]} :
        /\ pc' = [pc EXCEPT ![p] = stage] /\ job' = [job EXCEPT ![p] = work]
        /\ UNCHANGED <<store, upgrades>>
        /\ crashes' \in 0..MaxCrashes /\ faults' \in 0..MaxFaults
  <2>1. CASE StatementFails(p)
    BY <1>1, <2>1 DEF StatementFails, TypeOK
  <2>2. CASE Close(p)
    BY <1>1, <2>2 DEF Close, TypeOK
  <2>3. CASE Crash(p)
    BY <1>1, <2>3 DEF Crash, TypeOK
  <2> QED
    BY <2>1, <2>2, <2>3
<1>3. TypeOK'
  BY <1>1, <1>2, JobType DEF TypeOK, Stages
<1>4. StageOK(p)'
  BY <1>1, <1>2 DEF StageOK, TypeOK, Idle, Migrating
<1>5. \A q \in Procs \ {p} : pc'[q] = pc[q] /\ job'[q] = job[q]
  BY <1>1, <1>2 DEF TypeOK
<1> QED
  BY <1>2, <1>3, <1>4, <1>5, MoveKeeps DEF TypeOK

(* Every step keeps the invariant, and the store only grows. *)
LEMMA AStep == AInv /\ [Next]_vars => AInv' /\ Grows(store, store')
<1> SUFFICES ASSUME AInv, [Next]_vars PROVE AInv' /\ Grows(store, store')
  OBVIOUS
<1>1. ASSUME NEW p \in Procs, Advance(p)
      PROVE  AInv' /\ Grows(store, store')
  BY <1>1, ReadSteps, WriteSteps, EndSteps DEF Advance
<1>2. ASSUME NEW p \in Procs, StatementFails(p) \/ Crash(p)
      PROVE  AInv' /\ Grows(store, store')
  BY <1>2, EndSteps
<1>3. CASE Upgrade
  <2>1. /\ TypeOK /\ Shaped(store) /\ store \in Store /\ Expected \in Nat
        /\ store.version = Expected
        /\ store' = [store EXCEPT !.version = Expected + 1]
        /\ upgrades < MaxUpgrades /\ upgrades' = upgrades + 1
        /\ UNCHANGED <<pc, job, crashes, faults>>
        /\ "schema_version" \in store.tables
    BY <1>3, AdmissionConstants DEF AInv, Upgrade, TypeOK, Complete
  <2>2. /\ store' \in Store /\ Grows(store, store') /\ Shaped(store')
    BY <2>1 DEF Store, Grows, Shaped
  <2>3. TypeOK'
    BY <2>1, <2>2, AdmissionConstants DEF TypeOK
  <2>4. \A q \in Procs : StageOK(q)'
    BY <2>1, <2>2, OthersKeep
  <2> QED
    BY <2>2, <2>3, <2>4 DEF AInv
<1>4. CASE UNCHANGED vars
  <2>1. store \in Store /\ store.version \in Nat
    BY AdmissionConstants DEF AInv, TypeOK, Store
  <2>2. Grows(store, store')
    BY <1>4, <2>1 DEF vars, Grows
  <2>3. AInv'
    BY <1>4 DEF AInv, TypeOK, Shaped, StageOK, Complete, vars
  <2> QED
    BY <2>2, <2>3
<1> QED
  BY <1>1, <1>2, <1>3, <1>4 DEF Next

-----------------------------------------------------------------------------
(* Every behaviour keeps its types. *)
THEOREM TypeCorrect == Spec => []TypeOK
<1>1. Spec => []AInv
  BY AInit, AStep, PTL DEF Spec
<1>2. AInv => TypeOK
  BY DEF AInv
<1> QED
  BY <1>1, <1>2, PTL

(* Whoever is let in works on a store that has every table and column.     *)
THEOREM AdmittedWorksOnComplete == Spec => []AdmittedComplete
<1>1. Spec => []AInv
  BY AInit, AStep, PTL DEF Spec
<1>2. AInv => AdmittedComplete
  BY DEF AInv, AdmittedComplete, StageOK
<1> QED
  BY <1>1, <1>2, PTL

(* The marker of a store never goes down. *)
THEOREM MarkerIsMonotone == Spec => MarkerNeverFalls
<1>1. Spec => []AInv
  BY AInit, AStep, PTL DEF Spec
<1>2. AInv /\ [Next]_vars => [store'.version >= store.version]_store
  BY AStep DEF Grows
<1> QED
  BY <1>1, <1>2, PTL DEF Spec, MarkerNeverFalls

(* A marked store is stranded when it is damaged, or carries this version  *)
(* over an incomplete schema.                                              *)
LEMMA StrandedMeans ==
  ASSUME NEW s \in Store, Shaped(s)
  PROVE  Stranded(s) <=> s.version # 0 /\ (s.corrupt \/ (s.version = Expected /\ ~ Complete(s)))
<1>1. /\ s.version \in Nat /\ s.version <= Expected + 1 /\ Expected \in Nat
      /\ s.tables \subseteq Tables /\ s.corrupt \in BOOLEAN
  BY AdmissionConstants DEF Store
<1>2. s.version # 0 => s.tables # {} /\ "schema_version" \in s.tables
  BY DEF Shaped
<1>3. CASE s.version = 0
  BY <1>3 DEF Stranded
<1>4. CASE s.version # 0 /\ s.corrupt
  <2>1. Verdict(s) = "CORRUPT"
    BY <1>2, <1>4 DEF Verdict
  <2> QED
    BY <1>4, <2>1 DEF Stranded, Openable
<1>5. CASE s.version # 0 /\ ~ s.corrupt
  <2>1. Verdict(s) = IF s.version > Expected THEN "INCOMPATIBLE_NEWER"
                     ELSE IF s.version < Expected THEN "MIGRATION_REQUIRED"
                     ELSE Contract(s.tables, s.columns)
    BY <1>2, <1>5 DEF Verdict
  <2> QED
    BY <1>1, <1>5, <2>1 DEF Stranded, Openable, Contract, Complete
<1> QED
  BY <1>1, <1>3, <1>4, <1>5

(* Under the invariant a step strands no marked store: the marker changes only    *)
(* where the schema is whole, and the schema never shrinks.                *)
LEMMA StepStrandsNothing ==
  ASSUME AInv, [Next]_vars, Stranded(store') PROVE Stranded(store)
<1>1. /\ Grows(store, store') /\ AInv'
  BY AStep
<1>2. /\ store \in Store /\ store' \in Store /\ Shaped(store) /\ Shaped(store')
      /\ store.version \in Nat /\ Expected \in Nat \ {0}
  BY <1>1, AdmissionConstants DEF AInv, TypeOK, Store
<1>3. /\ store'.version # 0
      /\ store'.corrupt \/ (store'.version = Expected /\ ~ Complete(store'))
  BY <1>2, StrandedMeans
<1>4. ~ Complete(store') => ~ Complete(store)
  BY <1>1, <1>2 DEF Grows, Complete, Store
<1>5. CASE store'.version = store.version
  BY <1>1, <1>2, <1>3, <1>4, <1>5, StrandedMeans DEF Grows
<1>6. CASE store'.version # store.version
  <2>1. \/ \E p \in Procs : StampMarker(p)
        \/ Upgrade
    BY <1>2, <1>6 DEF Next, Advance, vars, Open, ReadTables, ReadLegacyColumns, ReadMarker,
          ReadColumns, CreateTable, ListColumns, AddColumn, DuplicateColumn, Close,
          StatementFails, Crash, Store
  <2>2. ASSUME NEW p \in Procs, StampMarker(p) PROVE FALSE
    <3>1. pc[p] = "altered" /\ store'.tables = store.tables /\ store'.columns = store.columns
          /\ store'.corrupt = store.corrupt
      BY <1>2, <2>2 DEF StampMarker, Goto, Store
    <3>2. Complete(store') /\ ~ store'.corrupt
      BY <3>1 DEF AInv, StageOK, Complete, Migrating
    <3> QED
      BY <1>3, <3>2
  <2>3. CASE Upgrade
    <3>1. store.version # 0 /\ store'.version = Expected + 1 /\ store'.corrupt = store.corrupt
      BY <1>2, <2>3 DEF Upgrade, Store
    <3> QED
      BY <1>2, <1>3, <3>1, StrandedMeans
  <2> QED
    BY <2>1, <2>2, <2>3
<1> QED
  BY <1>5, <1>6

(* No step strands a marked store. *)
THEOREM MarkedStayOpenable == Spec => MarkedNeverStranded
<1>1. Spec => []AInv
  BY AInit, AStep, PTL DEF Spec
<1>2. AInv /\ [Next]_vars => [Stranded(store') => Stranded(store)]_store
  BY StepStrandsNothing
<1> QED
  BY <1>1, <1>2, PTL DEF Spec, MarkedNeverStranded
=============================================================================
