------------------------- MODULE CollectionRunProofs -------------------------
(***************************************************************************)
(* Proofs about CollectionRun, for every set of processes (locked or not), *)
(* catalogues, materials and bounds.                                       *)
(*                                                                         *)
(* ExecutionLedger is not inductive: that the evidence of an execution is  *)
(* backed and unique rests on what an execution under way has already      *)
(* stored (StageLedger) and on no two executions sharing a uuid            *)
(* (Distinct, Begun).  None of them needs the run lock.                    *)
(***************************************************************************)
EXTENDS CollectionRun, SequenceTheorems, TLAPS

NoRow(e)       == \A i \in DOMAIN runs : runs[i].exec # e
NoFailedRow(e) == \A i \in DOMAIN runs : runs[i].exec = e => runs[i].healthy
NoTerminal(e)  == \A i \in DOMAIN terminals : terminals[i].exec # e
HasTerminal(e) == \E i \in DOMAIN terminals : terminals[i].exec = e

(* A stored row that reports what process p is executing. *)
HasRow(p, healthy) ==
    \E k \in DOMAIN runs :
        /\ runs[k].exec = job[p].exec
        /\ runs[k].healthy = healthy
        /\ runs[k].epoch = job[p].epoch
        /\ runs[k].material = job[p].material

(* Executions under way are distinct, and all that is stored was begun. *)
Distinct ==
    \A p, q \in Procs : pc[p] # "idle" /\ pc[q] # "idle" /\ p # q => job[p].exec # job[q].exec
Begun ==
    /\ \A p \in Procs : job[p].exec <= executions
    /\ \A i \in DOMAIN runs : runs[i].exec <= executions
    /\ \A i \in DOMAIN terminals : terminals[i].exec <= executions

(* What an execution has stored at each stage. *)
Early == {"begun", "resetting", "prepared", "reading", "ready", "assessed"}

StageOK(p) ==
    /\ pc[p] \in Early => NoRow(job[p].exec)
    /\ pc[p] \in Early \cup {"saved"} => NoTerminal(job[p].exec)
    /\ pc[p] \in {"saved", "evidenced", "failing"} => NoFailedRow(job[p].exec)
    /\ pc[p] = "saved" => HasRow(p, TRUE)
    /\ pc[p] = "failsaved" => HasRow(p, FALSE)
    /\ pc[p] \in {"evidenced", "failevidenced", "done"} => HasTerminal(job[p].exec)

StageLedger == \A p \in Procs : pc[p] # "idle" => StageOK(p)

Ledger == Distinct /\ Begun /\ StageLedger /\ ExecutionLedger

-----------------------------------------------------------------------------
(* Types.                                                                  *)

(* The empty catalogue is one. *)
LEMMA EmptyCatalogue == NoCatalogue \in Catalogues
  BY DEF NoCatalogue, Catalogues

(* diff_catalogues yields discoveries. *)
LEMMA DiffType ==
  ASSUME NEW previous \in Catalogues, NEW current \in Catalogues
  PROVE  Diff(previous, current) \in SUBSET Discoveries
<1>1. /\ DOMAIN previous \subseteq Items /\ DOMAIN current \subseteq Items
      /\ \A i \in DOMAIN previous : previous[i] \in Observations
      /\ \A i \in DOMAIN current : current[i] \in Observations
  BY DEF Catalogues
<1>2. Appeared(previous, current) \subseteq Discoveries
  BY <1>1 DEF Appeared, Discovery, Discoveries, Changes, Sides
<1>3. \A b, a : ClassifyChange(b, a) \in Changes
  BY DEF ClassifyChange, Changes
<1>4. Changed(previous, current) \subseteq Discoveries
  <2>1. ASSUME NEW i \in DOMAIN previous \cap DOMAIN current
        PROVE  Discovery(i, ClassifyChange(previous[i], current[i]), previous[i], current[i])
                 \in Discoveries
    BY <1>1, <1>3 DEF Discovery, Discoveries, Sides
  <2> QED
    BY <2>1 DEF Changed
<1>5. Removed(previous, current) \subseteq Discoveries
  BY <1>1 DEF Removed, Discovery, Discoveries, Changes, Sides
<1> QED
  BY <1>2, <1>4, <1>5 DEF Diff

(* The row a process stores has the type of the table. *)
LEMMA RowType ==
  ASSUME TypeOK, NEW p \in Procs, NEW healthy \in BOOLEAN,
         pc[p] \notin {"idle", "begun", "resetting"}
  PROVE  Row(p, healthy) \in RunRow
<1>1. job[p] \in Job /\ job[p].epoch \in Nat \ {0}
  BY DEF TypeOK, ProcessesOK, JobOK, Job
<1>2. job[p].exec \in Executions /\ job[p].material \in Materials /\ job[p].result \in Catalogues
      /\ job[p].previous \in Catalogues
  BY <1>1 DEF Job
<1>3. Found(p) \in SUBSET Discoveries
  BY <1>2, DiffType DEF Found
<1>4. Intents(p) \in SUBSET Discoveries
  BY <1>3 DEF Intents
<1> QED
  BY <1>1, <1>2, <1>3, <1>4, EmptyCatalogue DEF Row, RunRow

(* One field of the work in hand changes. *)
LEMMA WorkType ==
  ASSUME NEW w \in Job
  PROVE  /\ \A n \in Nat : [w EXCEPT !.epoch = n] \in Job /\ [w EXCEPT !.epoch = n].epoch = n
         /\ \A n \in Nat : [w EXCEPT !.current = n, !.epoch = n] \in Job
                             /\ [w EXCEPT !.current = n, !.epoch = n].epoch = n
         /\ \A c \in Catalogues : [w EXCEPT !.previous = c] \in Job
                             /\ [w EXCEPT !.previous = c].epoch = w.epoch
         /\ \A b \in BOOLEAN : [w EXCEPT !.known = b] \in Job
                             /\ [w EXCEPT !.known = b].epoch = w.epoch
         /\ \A c \in Catalogues : [w EXCEPT !.result = c] \in Job
                             /\ [w EXCEPT !.result = c].epoch = w.epoch
  BY DEF Job

(* A process moves to another stage with new work in hand. *)
LEMMA Moved ==
  ASSUME ProcessesOK, NEW p \in Procs, NEW stage \in Stages, NEW work \in Job \cup {Idle},
         pc' = [pc EXCEPT ![p] = stage], job' = [job EXCEPT ![p] = work], JobOK(stage, work)
  PROVE  ProcessesOK'
  BY DEF ProcessesOK

(* A process moves to another stage with the work it had. *)
LEMMA Kept ==
  ASSUME ProcessesOK, NEW p \in Procs, NEW stage \in Stages,
         pc' = [pc EXCEPT ![p] = stage], job' = job, JobOK(stage, job[p])
  PROVE  ProcessesOK'
  BY DEF ProcessesOK

(* The types hold at first. *)
LEMMA TypeInit == Init => TypeOK
  BY RunConstants DEF Init, TypeOK, ProcessesOK, JobOK, Stages

(* Every step keeps the types. *)
LEMMA TypeStep == TypeOK /\ [Next]_vars => TypeOK'
<1> SUFFICES ASSUME TypeOK, [Next]_vars PROVE TypeOK'
  OBVIOUS
<1> USE RunConstants DEF tables, bounds
<1>0. \A p \in Procs : pc[p] # "idle" =>
          job[p] \in Job /\ (pc[p] \notin {"begun", "resetting"} => job[p].epoch \in Nat \ {0})
  BY DEF TypeOK, ProcessesOK, JobOK, Job
<1>1. ASSUME NEW p \in Procs, NEW path \in Paths, NEW m \in Materials, NEW t \in Triggers,
            Begin(p, path, m, t)
      PROVE  TypeOK'
  <2> DEFINE work == Task(executions + 1, path, m, t)
  <2>1. pc' = [pc EXCEPT ![p] = "begun"] /\ job' = [job EXCEPT ![p] = work]
    BY <1>1 DEF Begin, Goto
  <2>2. work \in Job /\ JobOK("begun", work) /\ "begun" \in Stages
    BY <1>1, EmptyCatalogue DEF Begin, Goto, Task, Job, Executions, JobOK, Stages, TypeOK
  <2>3. ProcessesOK'
    BY <2>1, <2>2, Moved DEF TypeOK
  <2> QED
    BY <1>1, <1>0, <2>3 DEF Begin, Goto, TypeOK, Executions
<1>2. ASSUME NEW p \in Procs, ReadEpoch(p)
      PROVE  TypeOK'
  <2> DEFINE work == [job[p] EXCEPT !.current = Len(epochs), !.epoch = Len(epochs)]
  <2>1. PICK stage \in {"prepared", "resetting"} :
            /\ pc' = [pc EXCEPT ![p] = stage] /\ job' = [job EXCEPT ![p] = work]
            /\ stage = "prepared" => Len(epochs) # 0
    BY <1>2 DEF ReadEpoch, Reusable, Goto
  <2>a. job[p] \in Job /\ Len(epochs) \in Nat
    BY <1>0, <1>2, LenProperties DEF ReadEpoch, Goto, TypeOK
  <2>b. work \in Job /\ work.epoch = Len(epochs)
    BY <2>a, WorkType
  <2>2. work \in Job /\ JobOK(stage, work) /\ stage \in Stages
    BY <2>a, <2>b, <2>1 DEF JobOK, Stages
  <2>3. ProcessesOK'
    BY <2>1, <2>2, Moved DEF TypeOK
  <2> QED
    BY <1>2, <2>3 DEF ReadEpoch, TypeOK
<1>3. ASSUME NEW p \in Procs, InsertEpoch(p)
      PROVE  TypeOK'
  <2> DEFINE work == [job[p] EXCEPT !.epoch = Len(epochs) + 1]
  <2>1. pc' = [pc EXCEPT ![p] = "prepared"] /\ job' = [job EXCEPT ![p] = work]
    BY <1>3 DEF InsertEpoch, Goto
  <2>a. job[p] \in Job /\ (pc[p] \notin {"begun", "resetting"} => job[p].epoch \in Nat \ {0})
    BY <1>0, <1>3 DEF InsertEpoch, Goto
  <2>b. Len(epochs) + 1 \in Nat \ {0}
    BY LenProperties DEF TypeOK
  <2>c. work \in Job /\ work.epoch = Len(epochs) + 1
    BY <2>a, <2>b, WorkType
  <2>2. work \in Job /\ JobOK("prepared", work) /\ "prepared" \in Stages
    BY <1>3, <2>a, <2>b, <2>c DEF InsertEpoch, Goto, JobOK, Stages
  <2>3. ProcessesOK'
    BY <2>1, <2>2, Moved DEF TypeOK
  <2> QED
    BY <1>3, <1>0, <2>3 DEF InsertEpoch, Goto, TypeOK, EpochRow, Job
<1>4. ASSUME NEW p \in Procs, ReadCatalogue(p)
      PROVE  TypeOK'
  <2>1. PICK c \in LastHealthyCatalogue(job[p].epoch) :
            job' = [job EXCEPT ![p] = [job[p] EXCEPT !.previous = c]]
    BY <1>4 DEF ReadCatalogue
  <2>2. c \in Catalogues
    <3>1. \A i \in DOMAIN runs : runs[i].catalogue \in Catalogues
      <4>1. \A i \in 1..Len(runs) : runs[i] \in RunRow
        BY ElementOfSeq DEF TypeOK
      <4> QED
        BY <4>1, LenProperties DEF TypeOK, RunRow
    <3> QED
      BY <3>1, EmptyCatalogue DEF LastHealthyCatalogue, HealthyRows
  <2>a. job[p] \in Job /\ job[p].epoch \in Nat \ {0}
    BY <1>0, <1>4 DEF ReadCatalogue, Goto
  <2> DEFINE work == [job[p] EXCEPT !.previous = c]
  <2>b. work \in Job /\ work.epoch = job[p].epoch
    BY <2>a, <2>2, WorkType
  <2>3. work \in Job /\ JobOK("reading", work) /\ "reading" \in Stages
    BY <2>a, <2>b DEF JobOK, Stages
  <2>4. ProcessesOK'
    BY <1>4, <2>1, <2>3, Moved DEF ReadCatalogue, Goto, TypeOK
  <2> QED
    BY <1>4, <2>4 DEF ReadCatalogue, TypeOK
<1>5. ASSUME NEW p \in Procs, CheckHistory(p)
      PROVE  TypeOK'
  <2> DEFINE work == [job[p] EXCEPT !.known = (HealthyRows(job[p].epoch) # {})]
  <2>1. pc' = [pc EXCEPT ![p] = "ready"] /\ job' = [job EXCEPT ![p] = work]
    BY <1>5 DEF CheckHistory, Goto
  <2>a. job[p] \in Job /\ (pc[p] \notin {"begun", "resetting"} => job[p].epoch \in Nat \ {0})
    BY <1>0, <1>5 DEF CheckHistory, Goto
  <2>b. (HealthyRows(job[p].epoch) # {}) \in BOOLEAN
    BY LenProperties DEF TypeOK
  <2>c. work \in Job /\ work.epoch = job[p].epoch
    BY <2>a, <2>b, WorkType
  <2>2. work \in Job /\ JobOK("ready", work) /\ "ready" \in Stages
    BY <1>5, <2>a, <2>b, <2>c DEF CheckHistory, Goto, JobOK, Stages
  <2>3. ProcessesOK'
    BY <2>1, <2>2, Moved DEF TypeOK
  <2> QED
    BY <1>5, <1>0, <2>3 DEF CheckHistory, Goto, TypeOK
<1>6. ASSUME NEW p \in Procs, NEW c \in Snapshots, Collect(p, c)
      PROVE  TypeOK'
  <2> DEFINE work == [job[p] EXCEPT !.result = c]
  <2>1. PICK stage \in {"failing", "assessed"} : pc' = [pc EXCEPT ![p] = stage]
    BY <1>6 DEF Collect, Goto
  <2>2. pc[p] = "ready" /\ job' = [job EXCEPT ![p] = work]
    BY <1>6 DEF Collect, Goto
  <2>a. job[p] \in Job /\ job[p].epoch \in Nat \ {0} /\ c \in Catalogues
    BY <1>0, <2>2 DEF Catalogues
  <2>b. work \in Job /\ work.epoch = job[p].epoch
    BY <2>a, WorkType
  <2>3. work \in Job /\ JobOK(stage, work) /\ stage \in Stages
    BY <2>a, <2>b DEF JobOK, Stages
  <2>4. ProcessesOK'
    BY <2>1, <2>2, <2>3, Moved DEF TypeOK
  <2> QED
    BY <1>6, <2>4 DEF Collect, TypeOK
<1>7. ASSUME NEW p \in Procs, CollectRaises(p)
      PROVE  TypeOK'
  <2>1. pc' = [pc EXCEPT ![p] = "failing"] /\ job' = job
    BY <1>7 DEF CollectRaises, Goto
  <2>2. pc[p] # "idle" /\ pc[p] \notin {"begun", "resetting"}
    BY <1>7 DEF CollectRaises, Goto
  <2>3. JobOK("failing", job[p]) /\ "failing" \in Stages
    BY <1>0, <2>2 DEF JobOK, Stages
  <2>4. ProcessesOK'
    BY <2>1, <2>3, Kept DEF TypeOK
  <2> QED
    BY <1>7, <2>4 DEF CollectRaises, TypeOK
<1>8. ASSUME NEW p \in Procs, SaveRun(p, TRUE, "assessed", "saved")
      PROVE  TypeOK'
  <2>1. pc' = [pc EXCEPT ![p] = "saved"] /\ job' = job
    BY <1>8 DEF SaveRun, Goto
  <2>2. pc[p] # "idle" /\ pc[p] \notin {"begun", "resetting"}
    BY <1>8 DEF SaveRun, Goto
  <2>3. JobOK("saved", job[p]) /\ "saved" \in Stages
    BY <1>0, <2>2 DEF JobOK, Stages
  <2>4. ProcessesOK'
    BY <2>1, <2>3, Kept DEF TypeOK
  <2>5. Row(p, TRUE) \in RunRow
    BY <2>2, RowType
  <2>6. runs' \in Seq(RunRow)
    BY <1>8, <2>5, AppendProperties DEF SaveRun, TypeOK
  <2> QED
    BY <1>8, <2>4, <2>6 DEF SaveRun, TypeOK
<1>9. ASSUME NEW p \in Procs, RecordTerminal(p, TRUE, "saved", "evidenced")
      PROVE  TypeOK'
  <2>1. pc' = [pc EXCEPT ![p] = "evidenced"] /\ job' = job
    BY <1>9 DEF RecordTerminal, Goto
  <2>2. pc[p] # "idle" /\ pc[p] \notin {"begun", "resetting"}
    BY <1>9 DEF RecordTerminal, Goto
  <2>3. JobOK("evidenced", job[p]) /\ "evidenced" \in Stages
    BY <1>0, <2>2 DEF JobOK, Stages
  <2>4. ProcessesOK'
    BY <2>1, <2>3, Kept DEF TypeOK
  <2> DEFINE t == [exec |-> job[p].exec, epoch |-> job[p].epoch, healthy |-> TRUE,
                   material |-> job[p].material, trigger |-> job[p].trigger]
  <2>a. t \in TerminalRow
    BY <1>0, <2>2 DEF TerminalRow, Job
  <2>5. terminals' \in Seq(TerminalRow)
    BY <1>9, <2>a, AppendProperties DEF RecordTerminal, Recorded, TypeOK
  <2> QED
    BY <1>9, <2>4, <2>5 DEF RecordTerminal, TypeOK
<1>10. ASSUME NEW p \in Procs, SaveHealth(p, TRUE, "evidenced")
      PROVE  TypeOK'
  <2>1. pc' = [pc EXCEPT ![p] = "done"] /\ job' = job
    BY <1>10 DEF SaveHealth, Goto
  <2>2. pc[p] # "idle" /\ pc[p] \notin {"begun", "resetting"}
    BY <1>10 DEF SaveHealth, Goto
  <2>3. JobOK("done", job[p]) /\ "done" \in Stages
    BY <1>0, <2>2 DEF JobOK, Stages
  <2>4. ProcessesOK'
    BY <2>1, <2>3, Kept DEF TypeOK
  <2> QED
    BY <1>10, <1>0, <2>2, <2>4 DEF SaveHealth, Upsert, Executions, Job, TypeOK
<1>11. ASSUME NEW p \in Procs, SaveRun(p, FALSE, "failing", "failsaved")
      PROVE  TypeOK'
  <2>1. pc' = [pc EXCEPT ![p] = "failsaved"] /\ job' = job
    BY <1>11 DEF SaveRun, Goto
  <2>2. pc[p] # "idle" /\ pc[p] \notin {"begun", "resetting"}
    BY <1>11 DEF SaveRun, Goto
  <2>3. JobOK("failsaved", job[p]) /\ "failsaved" \in Stages
    BY <1>0, <2>2 DEF JobOK, Stages
  <2>4. ProcessesOK'
    BY <2>1, <2>3, Kept DEF TypeOK
  <2>5. Row(p, FALSE) \in RunRow
    BY <2>2, RowType
  <2>6. runs' \in Seq(RunRow)
    BY <1>11, <2>5, AppendProperties DEF SaveRun, TypeOK
  <2> QED
    BY <1>11, <2>4, <2>6 DEF SaveRun, TypeOK
<1>12. ASSUME NEW p \in Procs, RecordTerminal(p, FALSE, "failsaved", "failevidenced")
      PROVE  TypeOK'
  <2>1. pc' = [pc EXCEPT ![p] = "failevidenced"] /\ job' = job
    BY <1>12 DEF RecordTerminal, Goto
  <2>2. pc[p] # "idle" /\ pc[p] \notin {"begun", "resetting"}
    BY <1>12 DEF RecordTerminal, Goto
  <2>3. JobOK("failevidenced", job[p]) /\ "failevidenced" \in Stages
    BY <1>0, <2>2 DEF JobOK, Stages
  <2>4. ProcessesOK'
    BY <2>1, <2>3, Kept DEF TypeOK
  <2> DEFINE t == [exec |-> job[p].exec, epoch |-> job[p].epoch, healthy |-> FALSE,
                   material |-> job[p].material, trigger |-> job[p].trigger]
  <2>a. t \in TerminalRow
    BY <1>0, <2>2 DEF TerminalRow, Job
  <2>5. terminals' \in Seq(TerminalRow)
    BY <1>12, <2>a, AppendProperties DEF RecordTerminal, Recorded, TypeOK
  <2> QED
    BY <1>12, <2>4, <2>5 DEF RecordTerminal, TypeOK
<1>13. ASSUME NEW p \in Procs, SaveHealth(p, FALSE, "failevidenced")
      PROVE  TypeOK'
  <2>1. pc' = [pc EXCEPT ![p] = "done"] /\ job' = job
    BY <1>13 DEF SaveHealth, Goto
  <2>2. pc[p] # "idle" /\ pc[p] \notin {"begun", "resetting"}
    BY <1>13 DEF SaveHealth, Goto
  <2>3. JobOK("done", job[p]) /\ "done" \in Stages
    BY <1>0, <2>2 DEF JobOK, Stages
  <2>4. ProcessesOK'
    BY <2>1, <2>3, Kept DEF TypeOK
  <2> QED
    BY <1>13, <1>0, <2>2, <2>4 DEF SaveHealth, Upsert, Executions, Job, TypeOK
<1>14. ASSUME NEW p \in Procs, StoreRaises(p)
      PROVE  TypeOK'
  <2>1. pc' = [pc EXCEPT ![p] = "failing"] /\ job' = job
    BY <1>14 DEF StoreRaises, Goto
  <2>2. pc[p] # "idle" /\ pc[p] \notin {"begun", "resetting"}
    BY <1>14 DEF StoreRaises, Goto
  <2>3. JobOK("failing", job[p]) /\ "failing" \in Stages
    BY <1>0, <2>2 DEF JobOK, Stages
  <2>4. ProcessesOK'
    BY <2>1, <2>3, Kept DEF TypeOK
  <2> QED
    BY <1>14, <2>4 DEF StoreRaises, TypeOK
<1>15. ASSUME NEW p \in Procs, Finish(p)
      PROVE  TypeOK'
  <2>1. pc' = [pc EXCEPT ![p] = "idle"] /\ job' = [job EXCEPT ![p] = Idle]
    BY <1>15 DEF Finish, Goto
  <2>2. ProcessesOK'
    BY <2>1, Moved DEF TypeOK, JobOK, Stages
  <2> QED
    BY <1>15, <1>0, <2>2 DEF Finish, Goto, Release, Job, TypeOK
<1>16. ASSUME NEW p \in Procs, Crash(p)
      PROVE  TypeOK'
  <2>1. pc' = [pc EXCEPT ![p] = "idle"] /\ job' = [job EXCEPT ![p] = Idle]
    BY <1>16 DEF Crash, Goto
  <2>2. ProcessesOK'
    BY <2>1, Moved DEF TypeOK, JobOK, Stages
  <2> QED
    BY <1>16, <1>0, <2>2 DEF Crash, Goto, Release, Job, TypeOK
<1>17. CASE UNCHANGED vars
  BY <1>17 DEF TypeOK, ProcessesOK, vars
<1> QED
  BY <1>1, <1>2, <1>3, <1>4, <1>5, <1>6, <1>7, <1>8, <1>9, <1>10, <1>11, <1>12, <1>13, <1>14,
     <1>15, <1>16, <1>17 DEF Next, Advance, Succeed, Fail

(* Every variable keeps its type, whatever the bounds and the catalogues. *)
THEOREM TypeCorrect == Spec => []TypeOK
  BY TypeInit, TypeStep, PTL DEF Spec

-----------------------------------------------------------------------------
(* The ledger.  A step either moves a process on without touching the run  *)
(* rows and terminals, or begins, stores a row, stores evidence, or ends.  *)

Others(p) == \A q \in Procs \ {p} : pc'[q] = pc[q] /\ job'[q] = job[q]

Internal(p) ==
    /\ pc[p] # "idle" /\ pc'[p] # "idle"
    /\ job'[p].exec = job[p].exec
    /\ Others(p)
    /\ UNCHANGED <<runs, terminals, executions, lost>>
    /\ \/ pc[p] \in Early /\ pc'[p] \in Early \cup {"failing"}
       \/ pc[p] \in {"saved", "evidenced"} /\ pc'[p] = "failing"
       \/ pc[p] \in {"evidenced", "failevidenced"} /\ pc'[p] = "done"

(* Filling a field of the work in hand keeps its uuid. *)
LEMMA WorkKeeps ==
  ASSUME NEW w \in Job, NEW v
  PROVE  /\ \A n : [w EXCEPT !.epoch = n].exec = w.exec
         /\ \A n : [w EXCEPT !.current = n, !.epoch = n].exec = w.exec
         /\ [w EXCEPT !.previous = v].exec = w.exec
         /\ [w EXCEPT !.known = v].exec = w.exec
         /\ [w EXCEPT !.result = v].exec = w.exec
  BY DEF Job

(* The steps that store nothing the ledger speaks of. *)
LEMMA InternalSteps ==
  ASSUME TypeOK, NEW p \in Procs,
         \/ ReadEpoch(p) \/ InsertEpoch(p) \/ ReadCatalogue(p) \/ CheckHistory(p)
         \/ \E c \in Snapshots : Collect(p, c)
         \/ CollectRaises(p) \/ StoreRaises(p)
         \/ SaveHealth(p, TRUE, "evidenced") \/ SaveHealth(p, FALSE, "failevidenced")
  PROVE  Internal(p)
<1> USE DEF Goto, tables, bounds, Internal, Others, Early
<1>0. pc \in [Procs -> Stages] /\ job \in [Procs -> Job \cup {Idle}]
      /\ (pc[p] # "idle" => job[p] \in Job)
  BY DEF TypeOK, ProcessesOK, JobOK
<1>1. CASE ReadEpoch(p)
  <2>1. job[p] \in Job /\ job'[p] = [job[p] EXCEPT !.current = Len(epochs), !.epoch = Len(epochs)]
    BY <1>0, <1>1 DEF ReadEpoch
  <2>2. job'[p].exec = job[p].exec
    BY <2>1, WorkKeeps
  <2> QED
    BY <1>0, <1>1, <2>2 DEF ReadEpoch
<1>2. CASE InsertEpoch(p)
  <2>1. job[p] \in Job /\ job'[p] = [job[p] EXCEPT !.epoch = Len(epochs) + 1]
    BY <1>0, <1>2 DEF InsertEpoch
  <2>2. job'[p].exec = job[p].exec
    BY <2>1, WorkKeeps
  <2> QED
    BY <1>0, <1>2, <2>2 DEF InsertEpoch
<1>3. CASE ReadCatalogue(p)
  <2>1. PICK c \in LastHealthyCatalogue(job[p].epoch) :
            job' = [job EXCEPT ![p] = [job[p] EXCEPT !.previous = c]]
    BY <1>3 DEF ReadCatalogue
  <2>2. job[p] \in Job /\ job'[p] = [job[p] EXCEPT !.previous = c]
    BY <1>0, <1>3, <2>1 DEF ReadCatalogue
  <2>3. job'[p].exec = job[p].exec
    BY <2>2, WorkKeeps
  <2> QED
    BY <1>0, <1>3, <2>1, <2>3 DEF ReadCatalogue
<1>4. CASE CheckHistory(p)
  <2>1. job[p] \in Job
        /\ job'[p] = [job[p] EXCEPT !.known = (HealthyRows(job[p].epoch) # {})]
    BY <1>0, <1>4 DEF CheckHistory
  <2>2. job'[p].exec = job[p].exec
    BY <2>1, WorkKeeps
  <2> QED
    BY <1>0, <1>4, <2>2 DEF CheckHistory
<1>5. ASSUME NEW c \in Snapshots, Collect(p, c) PROVE Internal(p)
  <2>1. job[p] \in Job /\ job'[p] = [job[p] EXCEPT !.result = c]
    BY <1>0, <1>5 DEF Collect
  <2>2. job'[p].exec = job[p].exec
    BY <2>1, WorkKeeps
  <2> QED
    BY <1>0, <1>5, <2>2 DEF Collect
<1>6. CASE CollectRaises(p)
  BY <1>0, <1>6 DEF CollectRaises
<1>7. CASE StoreRaises(p)
  BY <1>0, <1>7 DEF StoreRaises
<1>8. CASE SaveHealth(p, TRUE, "evidenced") \/ SaveHealth(p, FALSE, "failevidenced")
  BY <1>0, <1>8 DEF SaveHealth
<1> QED
  BY <1>1, <1>2, <1>3, <1>4, <1>5, <1>6, <1>7, <1>8

(* A row is added at the end, and the others stay where they are. *)
LEMMA Grown ==
  ASSUME NEW S, NEW s \in Seq(S), NEW x \in S
  PROVE  LET n == Len(s) + 1 IN
         /\ DOMAIN Append(s, x) = DOMAIN s \cup {n}
         /\ n \notin DOMAIN s
         /\ \A i \in DOMAIN s : i \in Nat /\ i < n /\ Append(s, x)[i] = s[i]
         /\ n \in Nat
         /\ Append(s, x)[n] = x
<1>1. Len(s) \in Nat /\ DOMAIN s = 1..Len(s)
  BY LenProperties
<1>2. /\ Append(s, x) \in Seq(S) /\ Len(Append(s, x)) = Len(s) + 1
      /\ \A i \in 1..Len(s) : Append(s, x)[i] = s[i]
      /\ Append(s, x)[Len(s) + 1] = x
  BY AppendProperties
<1>3. DOMAIN Append(s, x) = 1..(Len(s) + 1)
  BY <1>2, LenProperties
<1> QED
  BY <1>1, <1>2, <1>3

(* A step that stores nothing keeps the ledger. *)
LEMMA InternalLedger ==
  ASSUME TypeOK, Ledger, NEW p \in Procs, Internal(p)
  PROVE  Ledger'
<1> USE DEF Ledger
<1>1. /\ \A q \in Procs : job'[q].exec = job[q].exec /\ (pc'[q] = "idle" <=> pc[q] = "idle")
      /\ runs' = runs /\ terminals' = terminals /\ executions' = executions /\ lost' = lost
  BY DEF Internal, Others
<1>2. Distinct'
  BY <1>1 DEF Distinct
<1>3. Begun'
  BY <1>1 DEF Begun
<1>4. StageLedger'
  <2> SUFFICES ASSUME NEW q \in Procs, pc'[q] # "idle" PROVE StageOK(q)'
    BY DEF StageLedger
  <2>0. StageOK(q) /\ job'[q].exec = job[q].exec
    BY <1>1 DEF StageLedger
  <2>1. CASE q = p
    BY <2>0, <2>1, <1>1 DEF Internal, StageOK, Early, NoRow, NoFailedRow, NoTerminal, HasTerminal
  <2>2. CASE q # p
    <3>1. pc'[q] = pc[q] /\ job'[q] = job[q]
      BY <2>2 DEF Internal, Others
    <3> QED
      BY <3>1, <2>0, <1>1 DEF StageOK, NoRow, NoFailedRow, NoTerminal, HasTerminal, HasRow
  <2> QED
    BY <2>1, <2>2
<1>5. ExecutionLedger'
  BY <1>1 DEF ExecutionLedger, TerminalUnique, TerminalBacked, SecondRowFailed, EndedReported,
     RowsOf, Ended
<1> QED
  BY <1>2, <1>3, <1>4, <1>5

(* save_run stores the row of the process. *)
LEMMA RowAdded ==
  ASSUME TypeOK, NEW p \in Procs, NEW healthy \in BOOLEAN, NEW from, NEW to,
         from \notin {"idle", "begun", "resetting"}, SaveRun(p, healthy, from, to)
  PROVE  \E n \in Nat :
         /\ DOMAIN runs' = DOMAIN runs \cup {n}
         /\ n \notin DOMAIN runs
         /\ \A i \in DOMAIN runs : i \in Nat /\ i < n /\ runs'[i] = runs[i]
         /\ runs'[n].exec = job[p].exec /\ runs'[n].healthy = healthy
         /\ runs'[n].epoch = job[p].epoch /\ runs'[n].material = job[p].material
<1>1. runs \in Seq(RunRow) /\ runs' = Append(runs, Row(p, healthy)) /\ Row(p, healthy) \in RunRow
  BY RowType DEF SaveRun, Goto, TypeOK
<1> DEFINE n == Len(runs) + 1
<1>2. /\ DOMAIN runs' = DOMAIN runs \cup {n} /\ n \notin DOMAIN runs /\ n \in Nat
      /\ \A i \in DOMAIN runs : i \in Nat /\ i < n /\ runs'[i] = runs[i]
      /\ runs'[n] = Row(p, healthy)
  BY <1>1, Grown
<1>3. /\ Row(p, healthy).exec = job[p].exec /\ Row(p, healthy).healthy = healthy
      /\ Row(p, healthy).epoch = job[p].epoch /\ Row(p, healthy).material = job[p].material
  BY DEF Row
<1> HIDE DEF n
<1> QED
  BY <1>2, <1>3

(* Storing a row, in either branch, keeps the ledger. *)
LEMMA RowLedger ==
  ASSUME TypeOK, Ledger, NEW p \in Procs,
         \/ SaveRun(p, TRUE, "assessed", "saved")
         \/ SaveRun(p, FALSE, "failing", "failsaved")
  PROVE  Ledger'
<1> USE DEF Ledger
<1>0. PICK healthy \in BOOLEAN, from \in {"assessed", "failing"}, to \in {"saved", "failsaved"} :
        /\ SaveRun(p, healthy, from, to)
        /\ from = "assessed" <=> healthy
        /\ to = "saved" <=> healthy
  <2>1. CASE SaveRun(p, TRUE, "assessed", "saved")
    BY <2>1
  <2>2. CASE SaveRun(p, FALSE, "failing", "failsaved")
    BY <2>2
  <2> QED
    BY <2>1, <2>2
<1>1. PICK n \in Nat :
        /\ DOMAIN runs' = DOMAIN runs \cup {n}
        /\ n \notin DOMAIN runs
        /\ \A i \in DOMAIN runs : i \in Nat /\ i < n /\ runs'[i] = runs[i]
        /\ runs'[n].exec = job[p].exec /\ runs'[n].healthy = healthy
        /\ runs'[n].epoch = job[p].epoch /\ runs'[n].material = job[p].material
  BY <1>0, RowAdded
<1>2. /\ job' = job /\ terminals' = terminals /\ executions' = executions /\ lost' = lost
      /\ pc[p] = from /\ pc'[p] = to /\ \A q \in Procs \ {p} : pc'[q] = pc[q]
  BY <1>0 DEF SaveRun, Goto, TypeOK, ProcessesOK, bounds
<1>3. StageOK(p)
  BY <1>2 DEF StageLedger
<1>4. NoFailedRow(job[p].exec) /\ (healthy => NoRow(job[p].exec) /\ NoTerminal(job[p].exec))
  BY <1>0, <1>2, <1>3 DEF StageOK, Early, NoRow, NoFailedRow
<1>5. Distinct'
  BY <1>2 DEF Distinct
<1>6. Begun'
  BY <1>1, <1>2 DEF Begun
<1>7. StageLedger'
  <2> SUFFICES ASSUME NEW q \in Procs, pc'[q] # "idle" PROVE StageOK(q)'
    BY DEF StageLedger
  <2>1. CASE q = p
    <3>1. healthy => pc'[p] = "saved" /\ NoTerminal(job[p].exec)' /\ NoFailedRow(job[p].exec)'
      BY <1>0, <1>1, <1>2, <1>4 DEF NoTerminal, NoFailedRow, NoRow
    <3>2. HasRow(p, healthy)'
      BY <1>1, <1>2 DEF HasRow
    <3>3. ~ healthy => pc'[p] = "failsaved"
      BY <1>0, <1>2
    <3> QED
      BY <2>1, <3>1, <3>2, <3>3, <1>2 DEF StageOK, Early
  <2>2. CASE q # p
    <3>1. pc'[q] = pc[q] /\ StageOK(q) /\ job[q].exec # job[p].exec
      BY <2>2, <1>0, <1>2 DEF StageLedger, Distinct
    <3>2. NoRow(job[q].exec) => NoRow(job[q].exec)'
      BY <3>1, <1>1, <1>2 DEF NoRow
    <3>3. NoFailedRow(job[q].exec) => NoFailedRow(job[q].exec)'
      BY <3>1, <1>1, <1>2 DEF NoFailedRow
    <3>4. \A h \in BOOLEAN : HasRow(q, h) => HasRow(q, h)'
      BY <1>1, <1>2 DEF HasRow
    <3>5. /\ NoTerminal(job[q].exec)' <=> NoTerminal(job[q].exec)
          /\ HasTerminal(job[q].exec)' <=> HasTerminal(job[q].exec)
      BY <1>2 DEF NoTerminal, HasTerminal
    <3> QED
      BY <3>1, <3>2, <3>3, <3>4, <3>5, <1>2 DEF StageOK
  <2> QED
    BY <2>1, <2>2
<1>8. ExecutionLedger'
  <2>1. TerminalUnique'
    BY <1>2 DEF ExecutionLedger, TerminalUnique
  <2>2. TerminalBacked'
    BY <1>1, <1>2 DEF ExecutionLedger, TerminalBacked, RowsOf
  <2>3. SecondRowFailed'
    BY <1>1, <1>4 DEF ExecutionLedger, SecondRowFailed, NoRow, NoFailedRow
  <2>4. EndedReported'
    BY <1>2 DEF ExecutionLedger, EndedReported, Ended
  <2> QED
    BY <2>1, <2>2, <2>3, <2>4 DEF ExecutionLedger
<1> QED
  BY <1>5, <1>6, <1>7, <1>8

(* INSERT OR IGNORE: the evidence is added once, and only where none was. *)
LEMMA EvidenceAdded ==
  ASSUME TypeOK, NEW p \in Procs, NEW healthy \in BOOLEAN, NEW from, NEW to,
         from \notin {"idle", "begun", "resetting"}, RecordTerminal(p, healthy, from, to)
  PROVE  \/ HasTerminal(job[p].exec) /\ terminals' = terminals
         \/ /\ NoTerminal(job[p].exec)
            /\ \E n \in Nat :
               /\ DOMAIN terminals' = DOMAIN terminals \cup {n}
               /\ n \notin DOMAIN terminals
               /\ \A i \in DOMAIN terminals : terminals'[i] = terminals[i]
               /\ terminals'[n].exec = job[p].exec /\ terminals'[n].healthy = healthy
               /\ terminals'[n].epoch = job[p].epoch
               /\ terminals'[n].material = job[p].material
<1> DEFINE t == [exec |-> job[p].exec, epoch |-> job[p].epoch, healthy |-> healthy,
                 material |-> job[p].material, trigger |-> job[p].trigger]
<1>1. t \in TerminalRow /\ terminals \in Seq(TerminalRow) /\ terminals' = Recorded(t)
  BY DEF RecordTerminal, Goto, TypeOK, ProcessesOK, JobOK, Job, TerminalRow
<1>2. /\ t.exec = job[p].exec /\ t.healthy = healthy
      /\ t.epoch = job[p].epoch /\ t.material = job[p].material
  OBVIOUS
<1> HIDE DEF t
<1>3. CASE HasTerminal(job[p].exec)
  BY <1>1, <1>2, <1>3 DEF HasTerminal, Recorded
<1>4. CASE ~ HasTerminal(job[p].exec)
  <2>1. NoTerminal(job[p].exec) /\ terminals' = Append(terminals, t)
    BY <1>1, <1>2, <1>4 DEF HasTerminal, NoTerminal, Recorded
  <2> DEFINE n == Len(terminals) + 1
  <2>2. /\ DOMAIN terminals' = DOMAIN terminals \cup {n} /\ n \notin DOMAIN terminals /\ n \in Nat
        /\ \A i \in DOMAIN terminals : terminals'[i] = terminals[i]
        /\ terminals'[n] = t
    BY <1>1, <2>1, Grown
  <2> HIDE DEF n
  <2> QED
    BY <2>1, <2>2, <1>2
<1> QED
  BY <1>3, <1>4

(* Storing evidence, in either branch, keeps the ledger. *)
LEMMA EvidenceLedger ==
  ASSUME TypeOK, Ledger, NEW p \in Procs,
         \/ RecordTerminal(p, TRUE, "saved", "evidenced")
         \/ RecordTerminal(p, FALSE, "failsaved", "failevidenced")
  PROVE  Ledger'
<1> USE DEF Ledger
<1>0. PICK healthy \in BOOLEAN, from \in {"saved", "failsaved"},
          to \in {"evidenced", "failevidenced"} :
        /\ RecordTerminal(p, healthy, from, to)
        /\ from = "saved" <=> healthy
        /\ to = "evidenced" <=> healthy
  <2>1. CASE RecordTerminal(p, TRUE, "saved", "evidenced")
    BY <2>1
  <2>2. CASE RecordTerminal(p, FALSE, "failsaved", "failevidenced")
    BY <2>2
  <2> QED
    BY <2>1, <2>2
<1>1. /\ job' = job /\ runs' = runs /\ executions' = executions /\ lost' = lost
      /\ pc[p] = from /\ pc'[p] = to /\ \A q \in Procs \ {p} : pc'[q] = pc[q]
  BY <1>0 DEF RecordTerminal, Goto, TypeOK, ProcessesOK, bounds
<1>2. HasRow(p, healthy) /\ (healthy => NoFailedRow(job[p].exec))
  BY <1>0, <1>1 DEF StageLedger, StageOK
<1>3. Distinct'
  BY <1>1 DEF Distinct
<1>4. \A q \in Procs : \A h \in BOOLEAN :
        /\ NoRow(job[q].exec)' <=> NoRow(job[q].exec)
        /\ NoFailedRow(job[q].exec)' <=> NoFailedRow(job[q].exec)
        /\ HasRow(q, h)' <=> HasRow(q, h)
  BY <1>1 DEF NoRow, NoFailedRow, HasRow
<1>5. CASE HasTerminal(job[p].exec) /\ terminals' = terminals
  <2>1. Begun'
    BY <1>1, <1>5 DEF Begun
  <2>2. StageLedger'
    <3> SUFFICES ASSUME NEW q \in Procs, pc'[q] # "idle" PROVE StageOK(q)'
      BY DEF StageLedger
    <3>1. /\ NoTerminal(job[q].exec)' <=> NoTerminal(job[q].exec)
          /\ HasTerminal(job[q].exec)' <=> HasTerminal(job[q].exec)
      BY <1>1, <1>5 DEF NoTerminal, HasTerminal
    <3>2. CASE q = p
      BY <3>1, <3>2, <1>0, <1>1, <1>2, <1>4, <1>5 DEF StageOK, Early
    <3>3. CASE q # p
      BY <3>1, <3>3, <1>1, <1>4 DEF StageLedger, StageOK
    <3> QED
      BY <3>2, <3>3
  <2>3. ExecutionLedger'
    BY <1>1, <1>5 DEF ExecutionLedger, TerminalUnique, TerminalBacked, SecondRowFailed,
       EndedReported, RowsOf, Ended
  <2> QED
    BY <2>1, <2>2, <2>3, <1>3
<1>6. ASSUME NoTerminal(job[p].exec), NEW n \in Nat,
            DOMAIN terminals' = DOMAIN terminals \cup {n},
            n \notin DOMAIN terminals,
            \A i \in DOMAIN terminals : terminals'[i] = terminals[i],
            terminals'[n].exec = job[p].exec, terminals'[n].healthy = healthy,
            terminals'[n].epoch = job[p].epoch, terminals'[n].material = job[p].material
      PROVE  Ledger'
  <2>1. Begun'
    BY <1>1, <1>6 DEF Begun
  <2>2. StageLedger'
    <3> SUFFICES ASSUME NEW q \in Procs, pc'[q] # "idle" PROVE StageOK(q)'
      BY DEF StageLedger
    <3>1. CASE q = p
      <4>1. HasTerminal(job[p].exec)'
        BY <1>1, <1>6 DEF HasTerminal
      <4> QED
        BY <3>1, <4>1, <1>0, <1>1, <1>2, <1>4 DEF StageOK, Early
    <3>2. CASE q # p
      <4>1. pc'[q] = pc[q] /\ StageOK(q) /\ job[q].exec # job[p].exec
        BY <3>2, <1>0, <1>1 DEF StageLedger, Distinct
      <4>2. NoTerminal(job[q].exec) => NoTerminal(job[q].exec)'
        BY <4>1, <1>1, <1>6 DEF NoTerminal
      <4>3. HasTerminal(job[q].exec) => HasTerminal(job[q].exec)'
        BY <1>1, <1>6 DEF HasTerminal
      <4> QED
        BY <4>1, <4>2, <4>3, <1>4 DEF StageOK
    <3> QED
      BY <3>1, <3>2
  <2>3. TerminalUnique'
    BY <1>6 DEF ExecutionLedger, TerminalUnique, NoTerminal
  <2>4. TerminalBacked'
    BY <1>1, <1>2, <1>6 DEF ExecutionLedger, TerminalBacked, RowsOf, HasRow
  <2>5. SecondRowFailed'
    BY <1>1 DEF ExecutionLedger, SecondRowFailed
  <2>6. EndedReported'
    BY <1>1, <1>6 DEF ExecutionLedger, EndedReported, Ended
  <2> QED
    BY <2>1, <2>2, <2>3, <2>4, <2>5, <2>6, <1>3 DEF ExecutionLedger
<1> QED
  BY <1>0, <1>5, <1>6, EvidenceAdded

(* A new execution takes a uuid no table holds. *)
LEMMA BeginLedger ==
  ASSUME TypeOK, Ledger, NEW p \in Procs, NEW path \in Paths, NEW m \in Materials,
         NEW t \in Triggers, Begin(p, path, m, t)
  PROVE  Ledger'
<1> USE DEF Ledger
<1>1. /\ pc[p] = "idle" /\ job[p].exec = 0 /\ pc'[p] = "begun" /\ job'[p].exec = executions + 1
      /\ \A q \in Procs \ {p} : pc'[q] = pc[q] /\ job'[q] = job[q]
      /\ runs' = runs /\ terminals' = terminals /\ lost' = lost
      /\ executions \in Nat /\ executions' = executions + 1
  BY RunConstants DEF Begin, Goto, TypeOK, ProcessesOK, JobOK, Task, Idle, tables
<1>a. /\ \A q \in Procs : job[q].exec \in Nat
      /\ \A i \in DOMAIN runs : runs[i].exec \in Nat
      /\ \A i \in DOMAIN terminals : terminals[i].exec \in Nat
  <2>1. \A q \in Procs : job[q].exec \in Nat
    BY RunConstants DEF TypeOK, ProcessesOK, Job, Idle, Task, Executions
  <2>2. \A i \in DOMAIN runs : runs[i] \in RunRow
    BY ElementOfSeq, LenProperties DEF TypeOK
  <2>3. \A i \in DOMAIN terminals : terminals[i] \in TerminalRow
    BY ElementOfSeq, LenProperties DEF TypeOK
  <2> QED
    BY <2>1, <2>2, <2>3, RunConstants DEF RunRow, TerminalRow, Executions
<1>2. Distinct'
  BY <1>1, <1>a DEF Distinct, Begun
<1>3. Begun'
  BY <1>1, <1>a DEF Begun
<1>4. StageLedger'
  <2> SUFFICES ASSUME NEW q \in Procs, pc'[q] # "idle" PROVE StageOK(q)'
    BY DEF StageLedger
  <2>1. CASE q = p
    BY <2>1, <1>1, <1>a DEF Begun, StageOK, NoRow, NoTerminal, Early
  <2>2. CASE q # p
    <3>1. pc'[q] = pc[q] /\ job'[q] = job[q] /\ StageOK(q)
      BY <2>2, <1>1 DEF StageLedger
    <3> QED
      BY <3>1, <1>1 DEF StageOK, NoRow, NoFailedRow, NoTerminal, HasTerminal, HasRow
  <2> QED
    BY <2>1, <2>2
<1>5. ExecutionLedger'
  <2>1. \A e \in Executions : Ended(e)' => Ended(e)
    BY <1>1, RunConstants DEF Ended, Executions
  <2>2. EndedReported'
    BY <2>1, <1>1 DEF ExecutionLedger, EndedReported
  <2> QED
    BY <2>2, <1>1 DEF ExecutionLedger, TerminalUnique, TerminalBacked, SecondRowFailed, RowsOf
<1> QED
  BY <1>2, <1>3, <1>4, <1>5

(* An execution ends with its evidence stored, or is lost. *)
LEMMA EndLedger ==
  ASSUME TypeOK, Ledger, NEW p \in Procs, Finish(p) \/ Crash(p)
  PROVE  Ledger'
<1> USE DEF Ledger
<1>1. /\ pc[p] # "idle" /\ pc'[p] = "idle" /\ job'[p].exec = 0
      /\ \A q \in Procs \ {p} : pc'[q] = pc[q] /\ job'[q] = job[q]
      /\ runs' = runs /\ terminals' = terminals /\ executions' = executions
      /\ executions \in Nat
      /\ lost \subseteq lost' /\ (HasTerminal(job[p].exec) \/ job[p].exec \in lost')
  <2>1. pc[p] # "idle" /\ pc' = [pc EXCEPT ![p] = "idle"] /\ job' = [job EXCEPT ![p] = Idle]
    BY DEF Finish, Crash, Goto
  <2>2. /\ runs' = runs /\ terminals' = terminals /\ executions' = executions
        /\ lost \subseteq lost' /\ (pc[p] = "done" \/ job[p].exec \in lost')
    BY DEF Finish, Crash, Goto, tables, bounds
  <2>3. pc \in [Procs -> Stages] /\ job \in [Procs -> Job \cup {Idle}] /\ executions \in Nat
    BY RunConstants DEF TypeOK, ProcessesOK
  <2>4. pc[p] = "done" => HasTerminal(job[p].exec)
    BY DEF StageLedger, StageOK
  <2>5. Idle.exec = 0
    BY DEF Idle, Task
  <2> QED
    BY <2>1, <2>2, <2>3, <2>4, <2>5
<1>2. Distinct'
  BY <1>1 DEF Distinct
<1>3. Begun'
  BY <1>1 DEF Begun
<1>4. StageLedger'
  <2> SUFFICES ASSUME NEW q \in Procs, pc'[q] # "idle" PROVE StageOK(q)'
    BY DEF StageLedger
  <2>1. pc'[q] = pc[q] /\ job'[q] = job[q] /\ StageOK(q)
    BY <1>1 DEF StageLedger
  <2> QED
    BY <2>1, <1>1 DEF StageOK, NoRow, NoFailedRow, NoTerminal, HasTerminal, HasRow
<1>5. EndedReported'
  <2> SUFFICES ASSUME NEW e \in Executions, Ended(e)', e \notin lost'
               PROVE  HasTerminal(e)
    BY <1>1 DEF EndedReported, HasTerminal
  <2>1. CASE e = job[p].exec
    BY <1>1, <2>1
  <2>2. CASE e # job[p].exec
    <3>1. Ended(e) /\ e \notin lost
      BY <1>1, <2>2 DEF Ended
    <3> QED
      BY <3>1 DEF ExecutionLedger, EndedReported, HasTerminal
  <2> QED
    BY <2>1, <2>2
<1> QED
  BY <1>1, <1>2, <1>3, <1>4, <1>5
     DEF ExecutionLedger, TerminalUnique, TerminalBacked, SecondRowFailed, RowsOf

(* Nothing is stored and nobody runs at first. *)
LEMMA LedgerInit == Init => Ledger
<1> SUFFICES ASSUME Init PROVE Ledger
  OBVIOUS
<1>1. DOMAIN runs = {} /\ DOMAIN terminals = {}
  BY DEF Init
<1>2. executions = 0 /\ \A p \in Procs : pc[p] = "idle" /\ job[p].exec = 0
  BY DEF Init, Idle, Task
<1> QED
  BY <1>1, <1>2 DEF Ledger, Distinct, Begun, StageLedger, ExecutionLedger, TerminalUnique,
     TerminalBacked, SecondRowFailed, EndedReported, Ended

(* Every step keeps the ledger. *)
LEMMA LedgerStep == TypeOK /\ Ledger /\ [Next]_vars => Ledger'
<1> SUFFICES ASSUME TypeOK, Ledger, [Next]_vars PROVE Ledger'
  OBVIOUS
<1>1. CASE UNCHANGED vars
  BY <1>1 DEF Ledger, Distinct, Begun, StageLedger, StageOK, NoRow, NoFailedRow, NoTerminal,
     HasTerminal, HasRow, ExecutionLedger, TerminalUnique, TerminalBacked, SecondRowFailed,
     EndedReported, Ended, RowsOf, vars, tables, bounds
<1>2. CASE Next
  <2>1. PICK p \in Procs :
          \/ \E path \in Paths, m \in Materials, t \in Triggers : Begin(p, path, m, t)
          \/ Advance(p) \/ StoreRaises(p) \/ Crash(p)
    BY <1>2 DEF Next
  <2>2. CASE \E path \in Paths, m \in Materials, t \in Triggers : Begin(p, path, m, t)
    BY <2>2, BeginLedger
  <2>3. CASE Finish(p) \/ Crash(p)
    BY <2>3, EndLedger
  <2>4. CASE SaveRun(p, TRUE, "assessed", "saved") \/ SaveRun(p, FALSE, "failing", "failsaved")
    BY <2>4, RowLedger
  <2>5. CASE \/ RecordTerminal(p, TRUE, "saved", "evidenced")
             \/ RecordTerminal(p, FALSE, "failsaved", "failevidenced")
    BY <2>5, EvidenceLedger
  <2>6. CASE Internal(p)
    BY <2>6, InternalLedger
  <2> QED
    BY <2>1, <2>2, <2>3, <2>4, <2>5, <2>6, InternalSteps DEF Advance, Succeed, Fail
<1> QED
  BY <1>1, <1>2

(* The evidence of every execution is unique, backed by a run row and left *)
(* by every execution that ends alive, with or without the run lock.       *)
THEOREM LedgerKept == Spec => []ExecutionLedger
<1>1. Ledger => ExecutionLedger
  BY DEF Ledger
<1> QED
  BY <1>1, TypeInit, TypeStep, LedgerInit, LedgerStep, PTL DEF Spec

(* The gate opens only on a healthy run of trusted material under the      *)
(* newest epoch.                                                           *)
THEOREM GateHolds == Spec => []GateEarned
<1>1. ExecutionLedger => GateEarned
  BY DEF ExecutionLedger, TerminalBacked, GateEarned, Qualified, Credible, ActiveTerminals, IsNewest
<1> QED
  BY <1>1, LedgerKept, PTL
=============================================================================
