------------------------ MODULE CatalogueWatchProofs ------------------------
(***************************************************************************)
(* What the run lock adds: proofs about CollectionRun when every process   *)
(* takes the lock (Unlocked = {}), for every set of processes, catalogues, *)
(* materials and bounds.  They end in the refinement of CatalogueWatch.    *)
(*                                                                         *)
(* Under the lock one execution is under way at a time, so what it read    *)
(* of the epochs and of the last healthy catalogue is still true when it   *)
(* stores its row.                                                         *)
(***************************************************************************)
EXTENDS CollectionRunProofs, FiniteSetTheorems

-----------------------------------------------------------------------------
(* diff_catalogues tells exactly how one catalogue came from another,       *)
(* whatever the two catalogues are.                                         *)
THEOREM DiffTells ==
  ASSUME NEW a \in Catalogues, NEW b \in Catalogues
  PROVE  Tells(Diff(a, b), a, b)
<1> DEFINE New(i)  == Discovery(i, IF b[i].class = "news" THEN "NEWS_ITEM_APPEARED"
                                                          ELSE "NEW_DEVICE", Nothing, b[i])
           Diffs(i) == Discovery(i, ClassifyChange(a[i], b[i]), a[i], b[i])
           Gone(i) == Discovery(i, IF a[i].listing THEN "SOURCE_LISTING_REMOVED"
                                                   ELSE "PRODUCT_REMOVED", a[i], Nothing)
           found   == Diff(a, b)
           gone    == {d.item : d \in {x \in found : x.after = Nothing}}
           touched == {d.item : d \in {x \in found : x.after # Nothing}}
<1>1. /\ \A i \in DOMAIN a : a[i] # Nothing
      /\ \A i \in DOMAIN b : b[i] # Nothing
  BY RunConstants DEF Catalogues
<1>2. \A d : d \in found <=>
        \/ \E i \in DOMAIN b \ DOMAIN a : d = New(i)
        \/ \E i \in DOMAIN a \cap DOMAIN b : a[i] # b[i] /\ d = Diffs(i)
        \/ \E i \in DOMAIN a \ DOMAIN b : a[i].class # "news" /\ d = Gone(i)
  BY DEF Diff, Appeared, Changed, Removed
<1>3. \A i : /\ New(i).item = i /\ New(i).before = Nothing /\ New(i).after = b[i]
             /\ Diffs(i).item = i /\ Diffs(i).before = a[i] /\ Diffs(i).after = b[i]
             /\ Gone(i).item = i /\ Gone(i).before = a[i] /\ Gone(i).after = Nothing
  BY DEF Discovery
<1> HIDE DEF New, Diffs, Gone, found
<1>4. \A d, x \in found : d.item = x.item => d = x
  BY <1>2, <1>3
<1>5. \A d \in found : d.before # d.after
  BY <1>1, <1>2, <1>3
<1>6. gone = {i \in DOMAIN a \ DOMAIN b : a[i].class # "news"}
  BY <1>1, <1>2, <1>3
<1>7. touched = (DOMAIN b \ DOMAIN a) \cup {i \in DOMAIN a \cap DOMAIN b : a[i] # b[i]}
  BY <1>1, <1>2, <1>3
<1> DEFINE reader == [i \in (DOMAIN a \ gone) \cup touched |->
                        IF i \in touched THEN (CHOOSE d \in found : d.item = i).after ELSE a[i]]
<1>8. Patch(a, found) = reader
  BY DEF Patch
<1>9. ASSUME NEW i \in touched PROVE (CHOOSE d \in found : d.item = i).after = b[i]
  <2>1. PICK d \in found : d.item = i /\ d.after # Nothing
    BY <1>9
  <2>2. (CHOOSE x \in found : x.item = i) \in found /\ (CHOOSE x \in found : x.item = i).item = i
    BY <2>1
  <2>3. (CHOOSE x \in found : x.item = i) = d
    BY <1>4, <2>1, <2>2
  <2>4. d.after = b[i]
    BY <1>2, <1>3, <2>1
  <2> QED
    BY <2>3, <2>4
<1> HIDE DEF gone, touched
<1>10. DOMAIN reader = (DOMAIN a \ gone) \cup touched
  OBVIOUS
<1>11. \A i \in DOMAIN b : i \in DOMAIN reader /\ reader[i] = b[i]
  <2> SUFFICES ASSUME NEW i \in DOMAIN b PROVE i \in DOMAIN reader /\ reader[i] = b[i]
    OBVIOUS
  <2>1. CASE i \in touched
    BY <1>9, <1>10, <2>1
  <2>2. CASE i \notin touched
    <3>1. i \in DOMAIN a /\ a[i] = b[i] /\ i \notin gone
      BY <1>6, <1>7, <2>2
    <3> QED
      BY <1>10, <2>2, <3>1
  <2> QED
    BY <2>1, <2>2
<1>12. \A i \in DOMAIN reader \ DOMAIN b : reader[i].class = "news"
  <2> SUFFICES ASSUME NEW i \in DOMAIN reader \ DOMAIN b PROVE reader[i].class = "news"
    OBVIOUS
  <2>1. i \notin touched /\ i \in DOMAIN a /\ i \notin gone
    BY <1>7, <1>10
  <2>2. reader[i] = a[i]
    BY <1>10, <2>1
  <2> QED
    BY <1>6, <2>1, <2>2
<1> HIDE DEF reader
<1> QED
  BY <1>4, <1>5, <1>8, <1>11, <1>12 DEF Tells, found

-----------------------------------------------------------------------------
(* The invariant of locked runs.                                           *)

(* Whoever is executing holds the lock. *)
LockHeld == \A p \in Procs : pc[p] # "idle" <=> lock = p

(* The newest execution under way, and the epoch it chose. *)
EpochChosen(p) ==
  /\ job[p].exec = executions
  /\ pc[p] \in {"begun", "resetting"} => Len(epochs) < executions
  /\ pc[p] = "resetting" =>
       job[p].current = Len(epochs) /\ ~ Reusable(Len(epochs), job[p].material)
  /\ pc[p] \notin {"begun", "resetting"} => job[p].epoch = Len(epochs)

(* What it read of the epoch's history is true until it stores its row. *)
CatalogueRead(p) ==
  /\ pc[p] \in {"reading", "ready", "assessed"} =>
       job[p].previous \in LastHealthyCatalogue(job[p].epoch)
  /\ pc[p] \in {"ready", "assessed"} => job[p].known = (HealthyRows(job[p].epoch) # {})
  /\ pc[p] = "assessed" =>
       /\ job[p].result \in Snapshots
       /\ ~ Collapsed(Cardinality(DOMAIN job[p].result), job[p].known,
                      Cardinality(DOMAIN job[p].previous), ZeroIsFailure)

(* The newest row is its own once it has one, and collector_health shows   *)
(* that row in the end.                                                    *)
HealthSeen(p) ==
  /\ pc[p] \in {"saved", "evidenced"} => runs[Len(runs)].healthy = TRUE
  /\ pc[p] \in {"failsaved", "failevidenced"} => runs[Len(runs)].healthy = FALSE
  /\ pc[p] = "done" =>
       health = [exec |-> job[p].exec, healthy |-> runs[Len(runs)].healthy]

Standing(p) == EpochChosen(p) /\ CatalogueRead(p) /\ HealthSeen(p)

(* The rows follow the epochs, and a healthy one holds a whole snapshot. *)
RowsInOrder ==
  /\ Len(epochs) <= executions
  /\ \A i \in DOMAIN runs : runs[i].epoch <= Len(epochs)
  /\ \A i, j \in DOMAIN runs : i < j => runs[i].epoch <= runs[j].epoch
  /\ \A i \in DOMAIN runs : runs[i].healthy => runs[i].catalogue \in Snapshots
  /\ HealthyNow # {} => \E i \in HealthyNow : IsNewest(i, HealthyNow)

Tabled == RowsInOrder /\ ResetsOnlyOnChange /\ HistoryTells

Locked ==
  /\ LockHeld
  /\ \A p \in Procs : pc[p] # "idle" => Standing(p)
  /\ Tabled
  /\ HealthMirrorsLastRun

(* Under the lock one execution is under way at a time. *)
LEMMA Alone ==
  ASSUME LockHeld, NEW p \in Procs, pc[p] # "idle"
  PROVE  lock = p /\ \A q \in Procs \ {p} : pc[q] = "idle"
  BY DEF LockHeld

(* The fields of the work in hand after one of them changes. *)
LEMMA WorkFields ==
  ASSUME NEW w \in Job, NEW v, NEW n
  PROVE  /\ [w EXCEPT !.epoch = n].epoch = n
         /\ [w EXCEPT !.current = n, !.epoch = n].current = n
         /\ [w EXCEPT !.current = n, !.epoch = n].epoch = n
         /\ [w EXCEPT !.current = n, !.epoch = n].material = w.material
         /\ [w EXCEPT !.previous = v].epoch = w.epoch
         /\ [w EXCEPT !.previous = v].previous = v
         /\ [w EXCEPT !.known = v].epoch = w.epoch
         /\ [w EXCEPT !.known = v].previous = w.previous
         /\ [w EXCEPT !.known = v].known = v
         /\ [w EXCEPT !.result = v].epoch = w.epoch
         /\ [w EXCEPT !.result = v].previous = w.previous
         /\ [w EXCEPT !.result = v].known = w.known
         /\ [w EXCEPT !.result = v].result = v
  BY DEF Job

(* The lengths and the rows are what their types say. *)
LEMMA TableTypes ==
  ASSUME TypeOK
  PROVE  /\ Len(epochs) \in Nat /\ DOMAIN epochs = 1..Len(epochs)
         /\ Len(runs) \in Nat /\ DOMAIN runs = 1..Len(runs)
         /\ \A i \in DOMAIN runs : runs[i] \in RunRow /\ runs[i].epoch \in Nat \ {0}
         /\ executions \in Nat
  <1>1. /\ Len(epochs) \in Nat /\ DOMAIN epochs = 1..Len(epochs)
        /\ Len(runs) \in Nat /\ DOMAIN runs = 1..Len(runs)
    BY LenProperties DEF TypeOK
  <1>2. \A i \in 1..Len(runs) : runs[i] \in RunRow
    BY ElementOfSeq DEF TypeOK
  <1>3. \A i \in DOMAIN runs : runs[i].epoch \in Nat \ {0}
    BY <1>1, <1>2 DEF RunRow
  <1> QED
    BY <1>1, <1>2, <1>3, RunConstants DEF TypeOK

(* A step of an execution that leaves the tables alone moves it on and     *)
(* keeps what it stands on.                                                *)
LEMMA QuietStanding ==
  ASSUME TypeOK, LockHeld, NEW p \in Procs, Standing(p),
         \/ ReadEpoch(p) \/ ReadCatalogue(p) \/ CheckHistory(p)
         \/ \E c \in Snapshots : Collect(p, c)
         \/ CollectRaises(p) \/ StoreRaises(p)
         \/ RecordTerminal(p, TRUE, "saved", "evidenced")
         \/ RecordTerminal(p, FALSE, "failsaved", "failevidenced")
  PROVE  /\ pc[p] # "idle" /\ pc'[p] # "idle" /\ Others(p)
         /\ UNCHANGED <<runs, epochs, executions, health, lock>>
         /\ Standing(p)'
<1> USE DEF Goto, tables, bounds
<1>0. pc \in [Procs -> Stages] /\ job \in [Procs -> Job \cup {Idle}]
      /\ (pc[p] # "idle" => job[p] \in Job)
  BY DEF TypeOK, ProcessesOK, JobOK
<1>1. /\ pc[p] # "idle" /\ pc'[p] # "idle" /\ Others(p)
      /\ UNCHANGED <<runs, epochs, executions, health, lock>>
  BY <1>0 DEF ReadEpoch, ReadCatalogue, CheckHistory, Collect, CollectRaises, StoreRaises,
     RecordTerminal, Others
<1>2. job[p] \in Job
  BY <1>0, <1>1
<1>3. \A e : HealthyRows(e)' = HealthyRows(e) /\ LastHealthyCatalogue(e)' = LastHealthyCatalogue(e)
  BY <1>1 DEF HealthyRows, LastHealthyCatalogue
<1>4. \A e, m : Reusable(e, m)' <=> Reusable(e, m)
  BY <1>1 DEF Reusable
<1>5. CASE ReadEpoch(p)
  <2> DEFINE work == [job[p] EXCEPT !.current = Len(epochs), !.epoch = Len(epochs)]
  <2>1. pc[p] = "begun" /\ job'[p] = work
    BY <1>0, <1>5 DEF ReadEpoch
  <2>2. /\ work.exec = job[p].exec /\ work.current = Len(epochs)
        /\ work.epoch = Len(epochs) /\ work.material = job[p].material
    BY <1>2, WorkKeeps, WorkFields
  <2> HIDE DEF work
  <2>3. \/ Reusable(Len(epochs), job[p].material) /\ pc'[p] = "prepared"
        \/ ~ Reusable(Len(epochs), job[p].material) /\ pc'[p] = "resetting"
    BY <1>0, <1>5 DEF ReadEpoch
  <2>4. EpochChosen(p)'
    BY <1>1, <1>4, <2>1, <2>2, <2>3 DEF Standing, EpochChosen
  <2> QED
    BY <1>1, <2>3, <2>4 DEF Standing, CatalogueRead, HealthSeen
<1>6. CASE ReadCatalogue(p)
  <2>1. PICK c \in LastHealthyCatalogue(job[p].epoch) :
            job' = [job EXCEPT ![p] = [job[p] EXCEPT !.previous = c]]
    BY <1>6 DEF ReadCatalogue
  <2>2. pc[p] = "prepared" /\ pc'[p] = "reading"
    BY <1>0, <1>6 DEF ReadCatalogue
  <2>3. job'[p] = [job[p] EXCEPT !.previous = c]
    BY <1>0, <2>1
  <2>4. job'[p].exec = job[p].exec /\ job'[p].epoch = job[p].epoch /\ job'[p].previous = c
    BY <1>2, <2>3, WorkKeeps, WorkFields
  <2> QED
    BY <1>1, <1>3, <2>1, <2>2, <2>4 DEF Standing, EpochChosen, CatalogueRead, HealthSeen
<1>7. CASE CheckHistory(p)
  <2> DEFINE b == HealthyRows(job[p].epoch) # {}
  <2>1. pc[p] = "reading" /\ pc'[p] = "ready" /\ job'[p] = [job[p] EXCEPT !.known = b]
    BY <1>0, <1>7 DEF CheckHistory
  <2> HIDE DEF b
  <2>2. /\ job'[p].exec = job[p].exec /\ job'[p].epoch = job[p].epoch
        /\ job'[p].previous = job[p].previous /\ job'[p].known = b
    BY <1>2, <2>1, WorkKeeps, WorkFields
  <2> QED
    BY <1>1, <1>3, <2>1, <2>2 DEF Standing, EpochChosen, CatalogueRead, HealthSeen, b
<1>8. ASSUME NEW c \in Snapshots, Collect(p, c) PROVE Standing(p)'
  <2>1. pc[p] = "ready" /\ job'[p] = [job[p] EXCEPT !.result = c]
    BY <1>0, <1>8 DEF Collect
  <2>2. /\ job'[p].exec = job[p].exec /\ job'[p].epoch = job[p].epoch
        /\ job'[p].previous = job[p].previous /\ job'[p].known = job[p].known
        /\ job'[p].result = c
    BY <1>2, <2>1, WorkKeeps, WorkFields
  <2>3. \/ pc'[p] = "failing"
        \/ /\ pc'[p] = "assessed"
           /\ ~ Collapsed(Cardinality(DOMAIN c), job[p].known,
                          Cardinality(DOMAIN job[p].previous), ZeroIsFailure)
    BY <1>0, <1>8 DEF Collect
  <2> QED
    BY <1>1, <1>3, <2>1, <2>2, <2>3 DEF Standing, EpochChosen, CatalogueRead, HealthSeen
<1>9. CASE CollectRaises(p) \/ StoreRaises(p)
  BY <1>0, <1>1, <1>9
     DEF CollectRaises, StoreRaises, Standing, EpochChosen, CatalogueRead, HealthSeen
<1>10. CASE \/ RecordTerminal(p, TRUE, "saved", "evidenced")
            \/ RecordTerminal(p, FALSE, "failsaved", "failevidenced")
  BY <1>0, <1>1, <1>10
     DEF RecordTerminal, Standing, EpochChosen, CatalogueRead, HealthSeen
<1> QED
  BY <1>1, <1>5, <1>6, <1>7, <1>8, <1>9, <1>10

(* A step by the one execution under way keeps the invariant if it keeps    *)
(* what that execution stands on and the tables in order.                  *)
LEMMA StepOfOne ==
  ASSUME TypeOK, Locked, NEW p \in Procs, pc[p] # "idle", pc'[p] # "idle", Others(p),
         lock' = lock, Standing(p)', Tabled'
  PROVE  Locked'
<1>1. lock = p /\ \A q \in Procs \ {p} : pc[q] = "idle"
  BY Alone DEF Locked
<1>2. \A q \in Procs \ {p} : pc'[q] = "idle"
  BY <1>1 DEF Others
<1>3. LockHeld'
  BY <1>1, <1>2 DEF LockHeld
<1>4. HealthMirrorsLastRun'
  BY DEF HealthMirrorsLastRun
<1> QED
  BY <1>2, <1>3, <1>4 DEF Locked

(* Steps that leave the tables alone leave them in order. *)
LEMMA TabledFrame ==
  ASSUME Tabled, UNCHANGED <<runs, epochs, executions>>
  PROVE  Tabled'
  BY DEF Tabled, RowsInOrder, ResetsOnlyOnChange, HistoryTells, HealthyNow

(* A new epoch names the one before it and differs from it. *)
LEMMA InsertEpochLocked ==
  ASSUME TypeOK, Locked, NEW p \in Procs, InsertEpoch(p)
  PROVE  Locked'
<1> USE DEF Goto, tables, bounds
<1>0. /\ pc \in [Procs -> Stages] /\ job \in [Procs -> Job \cup {Idle}]
      /\ pc[p] = "resetting" /\ job[p] \in Job /\ pc'[p] = "prepared" /\ Others(p)
      /\ UNCHANGED <<runs, executions, health, lock>>
  BY DEF InsertEpoch, TypeOK, ProcessesOK, JobOK, Others
<1>1. /\ Len(epochs) < executions /\ job[p].current = Len(epochs) /\ job[p].exec = executions
      /\ ~ Reusable(Len(epochs), job[p].material)
  BY <1>0 DEF Locked, Standing, EpochChosen
<1> DEFINE row == [material |-> job[p].material, exec |-> job[p].exec,
                   previous |-> job[p].current]
           n   == Len(epochs) + 1
<1>2. row \in EpochRow /\ epochs' = Append(epochs, row) /\ epochs \in Seq(EpochRow)
  BY <1>0 DEF InsertEpoch, TypeOK, EpochRow, Job
<1>3. /\ Len(epochs') = n
      /\ \A i \in DOMAIN epochs : epochs'[i] = epochs[i]
      /\ epochs'[n] = row
      /\ DOMAIN epochs' = DOMAIN epochs \cup {n}
  BY <1>2, Grown, AppendProperties
<1>4. /\ Len(epochs) \in Nat /\ DOMAIN epochs = 1..Len(epochs)
      /\ executions \in Nat
      /\ \A i \in DOMAIN runs : runs[i].epoch \in Nat
  BY TableTypes
<1>5. job'[p].exec = job[p].exec /\ job'[p].epoch = n
  <2>1. job'[p] = [job[p] EXCEPT !.epoch = Len(epochs) + 1]
    BY <1>0 DEF InsertEpoch
  <2> QED
    BY <1>0, <2>1, WorkKeeps, WorkFields
<1>6. row.previous = n - 1 /\ (n > 1 => row.material # epochs[n - 1].material)
  BY <1>1, <1>4 DEF Reusable
<1> HIDE DEF row
<1>7. Standing(p)'
  BY <1>0, <1>1, <1>3, <1>5 DEF Standing, EpochChosen, CatalogueRead, HealthSeen
<1>8. RowsInOrder'
  <2>1. Len(epochs') <= executions
    BY <1>1, <1>3, <1>4
  <2>2. \A i \in DOMAIN runs : runs[i].epoch <= Len(epochs')
    BY <1>3, <1>4 DEF Locked, Tabled, RowsInOrder
  <2> QED
    BY <1>0, <2>1, <2>2 DEF Locked, Tabled, RowsInOrder, HealthyNow
<1>9. ResetsOnlyOnChange'
  <2> SUFFICES ASSUME NEW i \in DOMAIN epochs'
               PROVE  /\ epochs'[i].previous = i - 1
                      /\ i > 1 => epochs'[i].material # epochs'[i - 1].material
    BY DEF ResetsOnlyOnChange
  <2>1. CASE i = n
    <3>1. n > 1 => epochs'[n - 1] = epochs[n - 1]
      BY <1>3, <1>4
    <3> QED
      BY <1>3, <1>6, <2>1, <3>1
  <2>2. CASE i # n
    <3>1. i \in DOMAIN epochs /\ (i > 1 => i - 1 \in DOMAIN epochs)
      BY <1>3, <1>4, <2>2
    <3> QED
      BY <1>3, <3>1 DEF Locked, Tabled, ResetsOnlyOnChange
  <2> QED
    BY <2>1, <2>2
<1>10. HistoryTells'
  BY <1>0 DEF Locked, Tabled, HistoryTells, HealthyNow
<1> QED
  BY <1>0, <1>7, <1>8, <1>9, <1>10, StepOfOne DEF Locked, Tabled

(* save_run adds the row of the process after all others. *)
LEMMA RowStored ==
  ASSUME TypeOK, NEW p \in Procs, NEW healthy \in BOOLEAN, NEW from, NEW to,
         from \notin {"idle", "begun", "resetting"}, SaveRun(p, healthy, from, to)
  PROVE  LET n == Len(runs) + 1 IN
         /\ Len(runs') = n /\ n \in Nat
         /\ DOMAIN runs' = DOMAIN runs \cup {n} /\ n \notin DOMAIN runs
         /\ \A i \in DOMAIN runs : i \in Nat /\ i < n /\ runs'[i] = runs[i]
         /\ runs'[n] = Row(p, healthy)
<1>1. runs \in Seq(RunRow) /\ runs' = Append(runs, Row(p, healthy)) /\ Row(p, healthy) \in RunRow
  BY RowType DEF SaveRun, Goto, TypeOK
<1>2. Len(runs') = Len(runs) + 1
  BY <1>1, AppendProperties
<1> QED
  BY <1>1, <1>2, Grown

(* A healthy row under the lock: what it announces was computed from the   *)
(* newest healthy row of its epoch, if there is one.                       *)
LEMMA FoundTells ==
  ASSUME TypeOK, NEW p \in Procs, pc[p] = "assessed", CatalogueRead(p)
  PROVE  /\ HealthyRows(job[p].epoch) = {} => Found(p) = {}
         /\ HealthyRows(job[p].epoch) # {} =>
              \E j \in HealthyRows(job[p].epoch) :
                /\ IsNewest(j, HealthyRows(job[p].epoch))
                /\ job[p].previous = runs[j].catalogue
                /\ Tells(Found(p), runs[j].catalogue, job[p].result)
<1>1. /\ job[p] \in Job /\ job[p].previous \in Catalogues /\ job[p].result \in Catalogues
      /\ job[p].known = (HealthyRows(job[p].epoch) # {})
  BY DEF TypeOK, ProcessesOK, JobOK, Job, CatalogueRead
<1>2. CASE HealthyRows(job[p].epoch) = {}
  BY <1>1, <1>2 DEF Found
<1>3. CASE HealthyRows(job[p].epoch) # {}
  <2>1. PICK j \in HealthyRows(job[p].epoch) :
          IsNewest(j, HealthyRows(job[p].epoch)) /\ job[p].previous = runs[j].catalogue
    BY <1>3 DEF CatalogueRead, LastHealthyCatalogue
  <2>2. Found(p) = Diff(job[p].previous, job[p].result)
    BY <1>1, <1>3 DEF Found
  <2>3. Tells(Found(p), job[p].previous, job[p].result)
    BY <1>1, <2>2, DiffTells
  <2> QED
    BY <1>3, <2>1, <2>3
<1> QED
  BY <1>2, <1>3

(* A set of numbers has one newest member. *)
LEMMA NewestUnique ==
  ASSUME NEW S \in SUBSET Nat, NEW i, NEW j, IsNewest(i, S), IsNewest(j, S)
  PROVE  i = j
  <1>1. i \in Nat /\ j \in Nat /\ i <= j /\ j <= i
    BY DEF IsNewest
  <1> QED
    BY <1>1

(* Storing the row of an execution, healthy or failed, keeps the invariant. *)
LEMMA SaveRunLocked ==
  ASSUME TypeOK, Locked, NEW p \in Procs,
         SaveRun(p, TRUE, "assessed", "saved") \/ SaveRun(p, FALSE, "failing", "failsaved")
  PROVE  Locked'
<1> USE DEF Goto, tables, bounds
<1> DEFINE n == Len(runs) + 1
<1>0. PICK healthy \in BOOLEAN, from \in {"assessed", "failing"}, to \in {"saved", "failsaved"} :
        /\ SaveRun(p, healthy, from, to)
        /\ from = "assessed" <=> healthy
        /\ to = "saved" <=> healthy
  <2>1. CASE SaveRun(p, TRUE, "assessed", "saved")
    BY <2>1
  <2>2. CASE SaveRun(p, FALSE, "failing", "failsaved")
    BY <2>2
  <2> QED
    BY <2>1, <2>2
<1>1. /\ Len(runs') = n /\ n \in Nat
      /\ DOMAIN runs' = DOMAIN runs \cup {n} /\ n \notin DOMAIN runs
      /\ \A i \in DOMAIN runs : i \in Nat /\ i < n /\ runs'[i] = runs[i]
      /\ runs'[n] = Row(p, healthy)
  BY <1>0, RowStored
<1>2. /\ pc[p] = from /\ pc'[p] = to /\ Others(p) /\ job' = job
      /\ UNCHANGED <<epochs, executions, health, lock>>
  BY <1>0 DEF SaveRun, TypeOK, ProcessesOK, Others
<1>3. /\ Standing(p) /\ job[p].epoch = Len(epochs) /\ Len(epochs) \in Nat
      /\ \A i \in DOMAIN runs : runs[i].epoch \in Nat
  BY <1>0, <1>2, TableTypes DEF Locked, Standing, EpochChosen
<1>4. /\ Row(p, healthy).epoch = job[p].epoch /\ Row(p, healthy).healthy = healthy
      /\ healthy => /\ Row(p, healthy).catalogue = job[p].result
                    /\ Row(p, healthy).found = Found(p)
  BY DEF Row
<1>5. Standing(p)'
  BY <1>0, <1>1, <1>2, <1>3, <1>4 DEF Standing, EpochChosen, CatalogueRead, HealthSeen
<1>6. HealthyNow' = IF healthy THEN HealthyNow \cup {n} ELSE HealthyNow
  BY <1>1, <1>4 DEF HealthyNow
<1> HIDE DEF n
<1>7. RowsInOrder'
  <2>1. \A i \in DOMAIN runs' : runs'[i].epoch <= Len(epochs')
    BY <1>1, <1>2, <1>3, <1>4 DEF Locked, Tabled, RowsInOrder
  <2>2. \A i, j \in DOMAIN runs' : i < j => runs'[i].epoch <= runs'[j].epoch
    BY <1>1, <1>3, <1>4 DEF Locked, Tabled, RowsInOrder
  <2>3. \A i \in DOMAIN runs' : runs'[i].healthy => runs'[i].catalogue \in Snapshots
    BY <1>0, <1>1, <1>2, <1>3, <1>4 DEF Locked, Tabled, RowsInOrder, Standing, CatalogueRead
  <2>4. HealthyNow' # {} => \E i \in HealthyNow' : IsNewest(i, HealthyNow')
    <3>1. CASE healthy
      <4>1. \A i \in HealthyNow' : i <= n
        BY <1>1, <1>6 DEF HealthyNow
      <4> QED
        BY <1>6, <3>1, <4>1 DEF IsNewest
    <3>2. CASE ~ healthy
      BY <1>6, <3>2 DEF Locked, Tabled, RowsInOrder
    <3> QED
      BY <3>1, <3>2
  <2>5. Len(epochs') <= executions'
    BY <1>2 DEF Locked, Tabled, RowsInOrder
  <2> QED
    BY <2>1, <2>2, <2>3, <2>4, <2>5 DEF RowsInOrder
<1>8. HistoryTells'
  <2> SUFFICES ASSUME NEW i \in DOMAIN runs', runs'[i].healthy
               PROVE  LET before == {j \in HealthyNow' : runs'[j].epoch = runs'[i].epoch /\ j < i}
                      IN  /\ before = {} => runs'[i].found = {}
                          /\ \A j \in before : IsNewest(j, before) =>
                               Tells(runs'[i].found, runs'[j].catalogue, runs'[i].catalogue)
    BY DEF HistoryTells
  <2> DEFINE before == {j \in HealthyNow' : runs'[j].epoch = runs'[i].epoch /\ j < i}
  <2>1. CASE i # n
    <3>1. i \in DOMAIN runs /\ runs'[i] = runs[i] /\ i < n
      BY <1>1, <2>1
    <3>2. before = {j \in HealthyNow : runs[j].epoch = runs[i].epoch /\ j < i}
      BY <1>1, <1>6, <3>1 DEF HealthyNow
    <3>3. before \subseteq DOMAIN runs /\ \A j \in before : runs'[j] = runs[j]
      BY <1>1, <3>2 DEF HealthyNow
    <3>4. /\ before = {} => runs[i].found = {}
          /\ \A j \in before : IsNewest(j, before) =>
               Tells(runs[i].found, runs[j].catalogue, runs[i].catalogue)
      BY <3>1, <3>2 DEF Locked, Tabled, HistoryTells
    <3> QED
      BY <3>1, <3>3, <3>4
  <2>2. CASE i = n
    <3>1. healthy /\ pc[p] = "assessed"
      BY <1>0, <1>1, <1>2, <1>4, <2>2
    <3>2. before = HealthyRows(job[p].epoch)
      <4>1. runs'[i].epoch = job[p].epoch /\ \A j \in DOMAIN runs : j < i /\ j # i
        BY <1>1, <1>4, <2>2
      <4>2. \A j : j \in HealthyNow' <=> j \in HealthyNow \/ j = i
        BY <1>6, <2>2, <3>1
      <4>3. \A j \in HealthyNow : j \in DOMAIN runs /\ runs'[j].epoch = runs[j].epoch /\ j < i
        BY <1>1, <4>1 DEF HealthyNow
      <4>4. ~ (i < i)
        BY <1>1, <2>2
      <4>5. before = {j \in HealthyNow : runs[j].epoch = job[p].epoch}
        BY <4>1, <4>2, <4>3, <4>4
      <4> QED
        BY <4>5 DEF HealthyNow, HealthyRows
    <3>3. before \subseteq DOMAIN runs /\ before \subseteq Nat
      BY <1>1, <3>2 DEF HealthyRows
    <3>4. /\ before = {} => Found(p) = {}
          /\ before # {} => \E j \in before :
               IsNewest(j, before) /\ Tells(Found(p), runs[j].catalogue, job[p].result)
      BY <1>3, <3>1, <3>2, FoundTells DEF Standing
    <3>5. \A j \in before : IsNewest(j, before) =>
            Tells(Found(p), runs[j].catalogue, job[p].result)
      BY <3>3, <3>4, NewestUnique
    <3> QED
      BY <1>1, <1>4, <2>2, <3>1, <3>3, <3>4, <3>5
  <2> QED
    BY <2>1, <2>2
<1>9. ResetsOnlyOnChange'
  BY <1>2 DEF Locked, Tabled, ResetsOnlyOnChange
<1> QED
  BY <1>0, <1>2, <1>5, <1>7, <1>8, <1>9, StepOfOne DEF Tabled

(* save_health shows the newest row. *)
LEMMA SaveHealthLocked ==
  ASSUME TypeOK, Locked, NEW p \in Procs,
         SaveHealth(p, TRUE, "evidenced") \/ SaveHealth(p, FALSE, "failevidenced")
  PROVE  Locked'
<1> USE DEF Goto, tables, bounds
<1>0. PICK healthy \in BOOLEAN, from \in {"evidenced", "failevidenced"} :
        SaveHealth(p, healthy, from) /\ (from = "evidenced" <=> healthy)
  <2>1. CASE SaveHealth(p, TRUE, "evidenced")
    BY <2>1
  <2>2. CASE SaveHealth(p, FALSE, "failevidenced")
    BY <2>2
  <2> QED
    BY <2>1, <2>2
<1>1. /\ pc[p] = from /\ pc'[p] = "done" /\ Others(p) /\ job' = job
      /\ health' = [exec |-> job[p].exec, healthy |-> healthy]
      /\ UNCHANGED <<runs, epochs, executions, lock>>
  BY <1>0 DEF SaveHealth, Upsert, TypeOK, ProcessesOK, Others
<1>2. Standing(p) /\ runs[Len(runs)].healthy = healthy
  BY <1>0, <1>1 DEF Locked, Standing, HealthSeen
<1>3. Standing(p)'
  BY <1>1, <1>2 DEF Standing, EpochChosen, CatalogueRead, HealthSeen
<1>4. Tabled'
  BY <1>1, TabledFrame DEF Locked
<1> QED
  BY <1>1, <1>3, <1>4, StepOfOne

(* An execution begins only when nobody holds the lock: nobody is under    *)
(* way.                                                                    *)
LEMMA BeginLocked ==
  ASSUME Unlocked = {}, TypeOK, Locked, NEW p \in Procs, NEW path \in Paths, NEW m \in Materials,
         NEW t \in Triggers, Begin(p, path, m, t)
  PROVE  Locked'
<1> USE DEF Goto, tables, bounds
<1>1. /\ pc[p] = "idle" /\ pc'[p] = "begun" /\ Others(p) /\ lock = Nobody /\ lock' = p
      /\ job'[p] = Task(executions + 1, path, m, t)
      /\ executions' = executions + 1 /\ UNCHANGED <<runs, epochs, health>>
  BY DEF Begin, LockFree, TypeOK, ProcessesOK, Others
<1>2. \A q \in Procs : pc[q] = "idle"
  BY <1>1, RunConstants DEF Locked, LockHeld
<1>3. \A q \in Procs \ {p} : pc'[q] = "idle"
  BY <1>1, <1>2 DEF Others
<1>4. LockHeld'
  BY <1>1, <1>3 DEF LockHeld
<1>5. /\ Len(epochs) \in Nat /\ executions \in Nat /\ Len(epochs) <= executions
  BY TableTypes DEF Locked, Tabled, RowsInOrder
<1>6. job'[p].exec = executions'
  BY <1>1 DEF Task
<1>7. Standing(p)'
  BY <1>1, <1>5, <1>6 DEF Standing, EpochChosen, CatalogueRead, HealthSeen
<1>8. Tabled'
  <2>1. Len(epochs') <= executions'
    BY <1>1, <1>5
  <2> QED
    BY <1>1, <2>1
       DEF Locked, Tabled, RowsInOrder, ResetsOnlyOnChange, HistoryTells, HealthyNow
<1>9. HealthMirrorsLastRun'
  BY <1>1 DEF HealthMirrorsLastRun
<1> QED
  BY <1>3, <1>4, <1>7, <1>8, <1>9 DEF Locked

(* An execution that ends alive leaves collector_health on its row; one    *)
(* whose process dies is lost.                                             *)
LEMMA EndLocked ==
  ASSUME TypeOK, Locked, NEW p \in Procs, Finish(p) \/ Crash(p)
  PROVE  Locked'
<1> USE DEF Goto, tables, bounds
<1>1. /\ pc[p] # "idle" /\ pc'[p] = "idle" /\ Others(p)
      /\ UNCHANGED <<runs, epochs, health, executions>>
      /\ pc[p] = "done" \/ job[p].exec \in lost'
      /\ lock' = IF lock = p THEN Nobody ELSE lock
  BY DEF Finish, Crash, Release, TypeOK, ProcessesOK, Others
<1>2. lock = p /\ \A q \in Procs \ {p} : pc[q] = "idle"
  BY <1>1, Alone DEF Locked
<1>3. \A q \in Procs : pc'[q] = "idle"
  BY <1>1, <1>2 DEF Others
<1>4. LockHeld'
  BY <1>1, <1>2, <1>3, RunConstants DEF LockHeld
<1>5. Standing(p) /\ job[p].exec = executions
  BY <1>1 DEF Locked, Standing, EpochChosen
<1>6. HealthMirrorsLastRun'
  BY <1>1, <1>5 DEF HealthMirrorsLastRun, Standing, HealthSeen
<1>7. Tabled'
  BY <1>1, TabledFrame DEF Locked
<1> QED
  BY <1>3, <1>4, <1>6, <1>7 DEF Locked

(* Nobody runs and nothing is stored at first. *)
LEMMA LockedInit == Init => Locked
<1> SUFFICES ASSUME Init PROVE Locked
  OBVIOUS
<1>1. /\ DOMAIN runs = {} /\ DOMAIN epochs = {} /\ Len(epochs) = 0 /\ executions = 0
      /\ lock = Nobody /\ \A p \in Procs : pc[p] = "idle"
  BY DEF Init
<1>2. HealthyNow = {}
  BY <1>1 DEF HealthyNow
<1>3. LockHeld
  BY <1>1, RunConstants DEF LockHeld
<1>4. Tabled
  BY <1>1, <1>2 DEF Tabled, RowsInOrder, ResetsOnlyOnChange, HistoryTells
<1> QED
  BY <1>1, <1>3, <1>4 DEF Locked, HealthMirrorsLastRun

(* Every step keeps the invariant when every process takes the lock. *)
LEMMA LockedStep ==
  ASSUME Unlocked = {}
  PROVE  TypeOK /\ Locked /\ [Next]_vars => Locked'
<1> SUFFICES ASSUME TypeOK, Locked, [Next]_vars PROVE Locked'
  OBVIOUS
<1>1. CASE UNCHANGED vars
  <2>1. UNCHANGED <<runs, epochs, health, lock, pc, job, executions, lost>>
    BY <1>1 DEF vars, tables, bounds
  <2>2. \A p \in Procs : Standing(p) => Standing(p)'
    BY <2>1 DEF Standing, EpochChosen, CatalogueRead, HealthSeen, Reusable, HealthyRows,
       LastHealthyCatalogue
  <2>3. Tabled'
    BY <2>1, TabledFrame DEF Locked
  <2>4. LockHeld' /\ HealthMirrorsLastRun'
    BY <2>1 DEF Locked, LockHeld, HealthMirrorsLastRun
  <2> QED
    BY <2>1, <2>2, <2>3, <2>4 DEF Locked
<1>2. CASE Next
  <2>1. PICK p \in Procs :
          \/ \E path \in Paths, m \in Materials, t \in Triggers : Begin(p, path, m, t)
          \/ Advance(p) \/ StoreRaises(p) \/ Crash(p)
    BY <1>2 DEF Next
  <2>2. CASE \E path \in Paths, m \in Materials, t \in Triggers : Begin(p, path, m, t)
    BY <2>2, BeginLocked
  <2>3. CASE Finish(p) \/ Crash(p)
    BY <2>3, EndLocked
  <2>4. CASE SaveRun(p, TRUE, "assessed", "saved") \/ SaveRun(p, FALSE, "failing", "failsaved")
    BY <2>4, SaveRunLocked
  <2>5. CASE SaveHealth(p, TRUE, "evidenced") \/ SaveHealth(p, FALSE, "failevidenced")
    BY <2>5, SaveHealthLocked
  <2>6. CASE InsertEpoch(p)
    BY <2>6, InsertEpochLocked
  <2>7. CASE \/ ReadEpoch(p) \/ ReadCatalogue(p) \/ CheckHistory(p)
             \/ \E c \in Snapshots : Collect(p, c)
             \/ CollectRaises(p) \/ StoreRaises(p)
             \/ RecordTerminal(p, TRUE, "saved", "evidenced")
             \/ RecordTerminal(p, FALSE, "failsaved", "failevidenced")
    <3>1. pc[p] # "idle"
      BY <2>7 DEF ReadEpoch, ReadCatalogue, CheckHistory, Collect, CollectRaises, StoreRaises,
         RecordTerminal, Goto
    <3>2. Standing(p) /\ LockHeld
      BY <3>1 DEF Locked
    <3>3. /\ pc'[p] # "idle" /\ Others(p)
          /\ UNCHANGED <<runs, epochs, executions, health, lock>>
          /\ Standing(p)'
      BY <2>7, <3>2, QuietStanding
    <3>4. Tabled'
      BY <3>3, TabledFrame DEF Locked
    <3> QED
      BY <3>1, <3>3, <3>4, StepOfOne
  <2> QED
    BY <2>1, <2>2, <2>3, <2>4, <2>5, <2>6, <2>7 DEF Advance, Succeed, Fail
<1> QED
  BY <1>1, <1>2

-----------------------------------------------------------------------------
(* What the run lock buys.                                                 *)

(* The invariant of locked runs holds of every behaviour. *)
LEMMA LockedKept ==
  ASSUME Unlocked = {} PROVE Spec => [](TypeOK /\ Ledger /\ Locked)
<1>1. TypeOK /\ Locked /\ [Next]_vars => Locked'
  BY LockedStep
<1> QED
  BY <1>1, TypeInit, TypeStep, LedgerInit, LedgerStep, LockedInit, PTL DEF Spec

(* When every run takes the lock, an epoch begins only when the material   *)
(* changed, and names the one it replaces.                                 *)
THEOREM EpochsAreResets ==
  ASSUME Unlocked = {} PROVE Spec => []ResetsOnlyOnChange
<1>1. Locked => ResetsOnlyOnChange
  BY DEF Locked, Tabled
<1> QED
  BY <1>1, LockedKept, PTL

(* When every run takes the lock, the discoveries of each healthy run tell *)
(* how its catalogue came from the last healthy one of its epoch, whatever *)
(* failed, crashed or was rejected in between.                             *)
THEOREM DiscoveriesTellHistory ==
  ASSUME Unlocked = {} PROVE Spec => []HistoryTells
<1>1. Locked => HistoryTells
  BY DEF Locked, Tabled
<1> QED
  BY <1>1, LockedKept, PTL

(* When every run takes the lock, collector_health shows the newest run    *)
(* once nothing runs and it has ended alive.                               *)
THEOREM HealthShowsLastRun ==
  ASSUME Unlocked = {} PROVE Spec => []HealthMirrorsLastRun
<1>1. Locked => HealthMirrorsLastRun
  BY DEF Locked
<1> QED
  BY <1>1, LockedKept, PTL

-----------------------------------------------------------------------------
(* The refinement of CatalogueWatch.  Only a healthy row changes what a     *)
(* watcher holds; every other step is a stutter.                           *)

(* The watcher's reading of what the discoveries tell is the runner's. *)
LEMMA SameTelling ==
  ASSUME NEW f, NEW a, NEW b
  PROVE  Watch!Tells(f, a, b) <=> Tells(f, a, b)
  BY DEF Watch!Tells, Watch!Patch, Tells, Patch

(* And it counts as the runner counts. *)
LEMMA SameCount ==
  ASSUME NEW S
  PROVE  Watch!Cardinality(S) = Cardinality(S)
  BY DEF Watch!Cardinality, Cardinality

(* While the run rows stand, the watcher sees nothing. *)
LEMMA WatchFrame ==
  ASSUME UNCHANGED runs
  PROVE  UNCHANGED <<Held, HeldIn, Announced>>
<1>1. HealthyNow' = HealthyNow
  BY DEF HealthyNow
<1>2. LastHealthy' = LastHealthy
  BY <1>1 DEF LastHealthy, IsNewest
<1>3. \A e : RowsOf(e)' = RowsOf(e)
  BY DEF RowsOf
<1> QED
  BY <1>1, <1>2, <1>3 DEF Held, HeldIn, Announced

(* The last healthy row is the newest of all healthy rows. *)
LEMMA LastIsNewest ==
  ASSUME TypeOK, RowsInOrder, HealthyNow # {}
  PROVE  /\ LastHealthy \in HealthyNow /\ IsNewest(LastHealthy, HealthyNow)
         /\ LastHealthy \in DOMAIN runs
         /\ Held = runs[LastHealthy].catalogue /\ HeldIn = runs[LastHealthy].epoch
         /\ Held \in Snapshots
<1>1. LastHealthy \in HealthyNow /\ IsNewest(LastHealthy, HealthyNow)
  BY DEF LastHealthy, RowsInOrder
<1> QED
  BY <1>1 DEF Held, HeldIn, HealthyNow, RowsInOrder

(* A failed row announces nothing and is not what a watcher holds. *)
LEMMA FailedRowUnseen ==
  ASSUME TypeOK, RowsInOrder, NEW p \in Procs, SaveRun(p, FALSE, "failing", "failsaved")
  PROVE  UNCHANGED <<Held, HeldIn, Announced>>
<1> DEFINE n == Len(runs) + 1
<1>0. Row(p, FALSE).healthy = FALSE /\ Row(p, FALSE).found = {}
  BY DEF Row
<1>1. /\ DOMAIN runs' = DOMAIN runs \cup {n} /\ n \notin DOMAIN runs
      /\ \A i \in DOMAIN runs : runs'[i] = runs[i]
      /\ runs'[n] = Row(p, FALSE)
  BY RowStored
<1> HIDE DEF n
<1>2. HealthyNow' = HealthyNow
  BY <1>0, <1>1 DEF HealthyNow
<1>3. LastHealthy' = LastHealthy
  BY <1>2 DEF LastHealthy, IsNewest
<1>4. HealthyNow # {} => runs'[LastHealthy] = runs[LastHealthy]
  BY <1>1, LastIsNewest
<1>5. UNCHANGED <<Held, HeldIn>>
  BY <1>2, <1>3, <1>4 DEF Held, HeldIn
<1>6. \A e : UNION {runs'[i].found : i \in RowsOf(e)'} = UNION {runs[i].found : i \in RowsOf(e)}
  <2> SUFFICES ASSUME NEW e
               PROVE  UNION {runs'[i].found : i \in RowsOf(e)'}
                        = UNION {runs[i].found : i \in RowsOf(e)}
    OBVIOUS
  <2>1. /\ \A i \in RowsOf(e) : i \in RowsOf(e)' /\ runs'[i].found = runs[i].found
        /\ \A i \in RowsOf(e)' : i \in RowsOf(e) \/ runs'[i].found = {}
    BY <1>0, <1>1 DEF RowsOf
  <2> QED
    BY <2>1
<1> QED
  BY <1>5, <1>6 DEF Announced

(* A healthy row is what a watcher holds from then on. *)
LEMMA HealthyRowSeen ==
  ASSUME TypeOK, Ledger, RowsInOrder, NEW p \in Procs, SaveRun(p, TRUE, "assessed", "saved")
  PROVE  /\ Held' = job[p].result /\ HeldIn' = job[p].epoch
         /\ job[p].exec \in Executions
         /\ Announced[job[p].exec] = {} /\ Announced'[job[p].exec] = Found(p)
         /\ \A e \in Executions \ {job[p].exec} : Announced'[e] = Announced[e]
<1> DEFINE n == Len(runs) + 1
<1>0. /\ Row(p, TRUE).healthy = TRUE /\ Row(p, TRUE).found = Found(p)
      /\ Row(p, TRUE).exec = job[p].exec /\ Row(p, TRUE).epoch = job[p].epoch
      /\ Row(p, TRUE).catalogue = job[p].result
  BY DEF Row
<1>1. /\ DOMAIN runs' = DOMAIN runs \cup {n} /\ n \notin DOMAIN runs /\ n \in Nat
      /\ \A i \in DOMAIN runs : i \in Nat /\ i < n /\ runs'[i] = runs[i]
      /\ runs'[n] = Row(p, TRUE)
  BY RowStored
<1> HIDE DEF n
<1>2. pc[p] = "assessed" /\ job[p].exec \in Executions /\ UNCHANGED job
  BY DEF SaveRun, Goto, TypeOK, ProcessesOK, JobOK, Job
<1>3. \A i \in DOMAIN runs : runs[i].exec # job[p].exec
  BY <1>2 DEF Ledger, StageLedger, StageOK, Early, NoRow
<1>4. /\ HealthyNow' = HealthyNow \cup {n}
      /\ \A i \in HealthyNow : i \in Nat /\ i < n
  BY <1>0, <1>1 DEF HealthyNow
<1>5. LastHealthy' = n
  <2>1. IsNewest(n, HealthyNow') /\ HealthyNow' \in SUBSET Nat
    BY <1>1, <1>4 DEF IsNewest
  <2>2. \A i : IsNewest(i, HealthyNow') => i = n
    BY <2>1, NewestUnique
  <2>3. LastHealthy' = CHOOSE i \in HealthyNow' : IsNewest(i, HealthyNow')
    BY DEF LastHealthy, IsNewest
  <2> QED
    BY <1>4, <2>1, <2>2, <2>3
<1>6. Held' = job[p].result /\ HeldIn' = job[p].epoch
  BY <1>0, <1>1, <1>4, <1>5 DEF Held, HeldIn
<1>7. RowsOf(job[p].exec) = {} /\ RowsOf(job[p].exec)' = {n}
  BY <1>0, <1>1, <1>2, <1>3 DEF RowsOf
<1>8. /\ Announced[job[p].exec] = UNION {runs[i].found : i \in RowsOf(job[p].exec)}
      /\ Announced'[job[p].exec] = UNION {runs'[i].found : i \in RowsOf(job[p].exec)'}
  <2>1. \A e \in Executions : /\ Announced[e] = UNION {runs[i].found : i \in RowsOf(e)}
                              /\ Announced'[e] = UNION {runs'[i].found : i \in RowsOf(e)'}
    BY DEF Announced
  <2> QED
    BY <1>2, <2>1
<1>9. Announced[job[p].exec] = {} /\ Announced'[job[p].exec] = Found(p)
  <2>1. UNION {runs[i].found : i \in RowsOf(job[p].exec)} = {}
    BY <1>7
  <2>2. UNION {runs'[i].found : i \in RowsOf(job[p].exec)'} = Found(p)
    BY <1>0, <1>1, <1>7
  <2> QED
    BY <1>8, <2>1, <2>2
<1>10. ASSUME NEW e \in Executions \ {job[p].exec} PROVE Announced'[e] = Announced[e]
  <2>1. RowsOf(e)' = RowsOf(e) /\ \A i \in RowsOf(e) : runs'[i] = runs[i]
    BY <1>0, <1>1 DEF RowsOf
  <2>2. UNION {runs'[i].found : i \in RowsOf(e)'} = UNION {runs[i].found : i \in RowsOf(e)}
    BY <2>1
  <2> QED
    BY <2>2 DEF Announced
<1> QED
  BY <1>2, <1>6, <1>9, <1>10

(* A healthy row stored under the lock is learnt or observed. *)
LEMMA HealthyRowWatched ==
  ASSUME TypeOK, Ledger, Locked, NEW p \in Procs, SaveRun(p, TRUE, "assessed", "saved")
  PROVE  Watch!Next
<1> DEFINE c == job[p].result
           e == job[p].epoch
<1>1. /\ pc[p] = "assessed" /\ job[p] \in Job /\ c \in Snapshots
      /\ EpochChosen(p) /\ CatalogueRead(p) /\ RowsInOrder
  BY DEF SaveRun, Goto, TypeOK, ProcessesOK, JobOK, Locked, Standing, Tabled, CatalogueRead
<1>2. /\ e = Len(epochs) /\ e \in Nat \ {0} /\ e <= executions
      /\ \A i \in DOMAIN runs : i \in Nat /\ runs[i].epoch \in Nat /\ runs[i].epoch <= e
  <2>1. e = Len(epochs) /\ e \in Nat \ {0}
    BY <1>1 DEF EpochChosen, TypeOK, ProcessesOK, JobOK, Job
  <2> QED
    BY <1>1, <2>1, TableTypes DEF RowsInOrder
<1>3. e \in Executions
  BY <1>2, RunConstants DEF TypeOK, Executions
<1>4. /\ Held' = c /\ HeldIn' = e /\ job[p].exec \in Executions
      /\ Announced[job[p].exec] = {} /\ Announced'[job[p].exec] = Found(p)
      /\ \A r \in Executions \ {job[p].exec} : Announced'[r] = Announced[r]
  BY <1>1, HealthyRowSeen
<1>5. IsFiniteSet(DOMAIN c) /\ Cardinality(DOMAIN c) \in Nat
  BY <1>1, RunConstants, FS_CardinalityType
<1>6. /\ job[p].known = (HealthyRows(e) # {})
      /\ ~ (Cardinality(DOMAIN c) = 0 /\ ZeroIsFailure)
      /\ ~ (/\ job[p].known /\ Cardinality(DOMAIN job[p].previous) # 0
            /\ 2 * Cardinality(DOMAIN c) < Cardinality(DOMAIN job[p].previous))
  BY <1>1 DEF CatalogueRead, Collapsed
<1>7. DOMAIN c = {} => ~ ZeroIsFailure
  BY <1>6, FS_EmptySet
<1> HIDE DEF c, e
<1>8. CASE HealthyRows(e) = {}
  <2>1. e > HeldIn
    <3>1. CASE HealthyNow = {}
      BY <1>2, <3>1 DEF HeldIn
    <3>2. CASE HealthyNow # {}
      <4>1. /\ LastHealthy \in HealthyNow /\ LastHealthy \in DOMAIN runs
            /\ HeldIn = runs[LastHealthy].epoch
        BY <1>1, <3>2, LastIsNewest
      <4>2. runs[LastHealthy].epoch # e
        BY <1>8, <4>1 DEF HealthyNow, HealthyRows
      <4> QED
        BY <1>2, <4>1, <4>2
    <3> QED
      BY <3>1, <3>2
  <2>2. Found(p) = {}
    BY <1>6, <1>8 DEF Found
  <2>3. Announced' = Announced
    BY <1>4, <2>2 DEF Announced
  <2>4. Watch!Learn(c, e)
    BY <1>4, <1>7, <2>1, <2>3 DEF Watch!Learn
  <2> QED
    BY <1>1, <1>3, <2>4 DEF Watch!Next, c
<1>9. CASE HealthyRows(e) # {}
  <2>1. PICK j \in HealthyRows(e) :
          /\ IsNewest(j, HealthyRows(e)) /\ job[p].previous = runs[j].catalogue
          /\ Tells(Found(p), runs[j].catalogue, c)
    BY <1>1, <1>9, FoundTells DEF c, e
  <2>2. j \in HealthyNow /\ j \in DOMAIN runs /\ runs[j].epoch = e
    BY <2>1 DEF HealthyRows, HealthyNow
  <2>3. /\ LastHealthy \in HealthyNow /\ IsNewest(LastHealthy, HealthyNow)
        /\ LastHealthy \in DOMAIN runs
        /\ Held = runs[LastHealthy].catalogue /\ HeldIn = runs[LastHealthy].epoch
        /\ Held \in Snapshots
    BY <1>1, <2>2, LastIsNewest
  <2>4. j = LastHealthy
    <3>1. j <= LastHealthy
      BY <2>2, <2>3 DEF IsNewest
    <3>2. j < LastHealthy => runs[LastHealthy].epoch = e
      BY <1>1, <1>2, <2>2, <2>3 DEF RowsInOrder
    <3>3. j < LastHealthy => LastHealthy <= j
      BY <2>1, <2>3, <3>2 DEF HealthyRows, HealthyNow, IsNewest
    <3> QED
      BY <1>2, <2>2, <2>3, <3>1, <3>3
  <2>5. Held # Nothing
    BY <2>3, RunConstants
  <2>6. IsFiniteSet(DOMAIN Held) /\ Cardinality(DOMAIN Held) \in Nat
    BY <2>3, RunConstants, FS_CardinalityType
  <2>7. 2 * Cardinality(DOMAIN c) >= Cardinality(DOMAIN Held)
    <3> DEFINE held  == Cardinality(DOMAIN Held)
               count == Cardinality(DOMAIN c)
    <3>1. job[p].previous = Held /\ job[p].known
      BY <1>6, <1>9, <2>1, <2>3, <2>4
    <3>2. held = 0 \/ ~ (2 * count < held)
      BY <1>6, <3>1
    <3>3. held \in Nat /\ count \in Nat
      BY <1>5, <2>6
    <3> HIDE DEF held, count
    <3>4. 2 * count >= held
      BY <3>2, <3>3
    <3> QED
      BY <3>4 DEF held, count
  <2>8. Watch!Tells(Announced'[job[p].exec], Held, c)
    BY <1>4, <2>1, <2>3, <2>4, SameTelling
  <2>9. HeldIn' = HeldIn
    BY <1>4, <2>2, <2>3, <2>4
  <2>10. Watch!Observe(c, job[p].exec)
    BY <1>4, <1>7, <2>5, <2>7, <2>8, <2>9, SameCount DEF Watch!Observe
  <2> QED
    BY <1>1, <1>4, <2>10 DEF Watch!Next, c
<1> QED
  BY <1>8, <1>9

(* Every step of locked runs is a step of the watcher or a stutter. *)
LEMMA WatchStep ==
  ASSUME TypeOK, Ledger, Locked, [Next]_vars
  PROVE  [Watch!Next]_(Watch!vars)
<1>1. Watch!vars = <<Held, HeldIn, Announced>>
  BY DEF Watch!vars
<1>2. CASE UNCHANGED runs
  BY <1>1, <1>2, WatchFrame DEF Watch!vars
<1>3. CASE ~ UNCHANGED runs
  <2>1. PICK p \in Procs :
          SaveRun(p, TRUE, "assessed", "saved") \/ SaveRun(p, FALSE, "failing", "failsaved")
    BY <1>3 DEF Next, vars, tables, bounds, Begin, Advance, ReadEpoch, InsertEpoch, ReadCatalogue,
       CheckHistory, Collect, CollectRaises, Succeed, Fail, RecordTerminal, SaveHealth,
       StoreRaises, Finish, Crash
  <2>2. CASE SaveRun(p, TRUE, "assessed", "saved")
    BY <2>2, HealthyRowWatched
  <2>3. CASE SaveRun(p, FALSE, "failing", "failsaved")
    BY <2>3, FailedRowUnseen DEF Watch!vars, Locked, Tabled
  <2> QED
    BY <2>1, <2>2, <2>3
<1> QED
  BY <1>2, <1>3

(* Nothing is held and nothing announced at first. *)
LEMMA WatchInit == Init => Watch!Init
<1> SUFFICES ASSUME Init PROVE Watch!Init
  OBVIOUS
<1>1. DOMAIN runs = {}
  BY DEF Init
<1>2. HealthyNow = {} /\ \A e : RowsOf(e) = {}
  BY <1>1 DEF HealthyNow, RowsOf
<1>3. Held = Nothing /\ HeldIn = 0
  BY <1>2 DEF Held, HeldIn
<1>4. \A e : UNION {runs[i].found : i \in RowsOf(e)} = {}
  BY <1>2
<1>5. Announced = [e \in Executions |-> {}]
  BY <1>4 DEF Announced
<1> QED
  BY <1>3, <1>5 DEF Watch!Init

(* Locked collection runs implement the catalogue watch: a catalogue is    *)
(* learnt in silence when an epoch begins and replaced only by one that    *)
(* has not collapsed, with every difference announced once.                *)
THEOREM LockedRunsWatch ==
  ASSUME Unlocked = {} PROVE Spec => ImplementsWatch
<1>1. TypeOK /\ Ledger /\ Locked /\ [Next]_vars => [Watch!Next]_(Watch!vars)
  BY WatchStep
<1> QED
  BY <1>1, WatchInit, LockedKept, PTL DEF Spec, ImplementsWatch, Watch!Spec
=============================================================================
