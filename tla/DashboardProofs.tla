--------------------------- MODULE DashboardProofs ---------------------------
(***************************************************************************)
(* Proofs about Dashboard, for every set of dashboards, requests, threads, *)
(* commands, decisions and bounds.                                         *)
(*                                                                         *)
(* Three inductive invariants that do not need each other: AnswerInv (what *)
(* a request that decides has in hand), ArchiveInv (what a dashboard that  *)
(* starts has made of the archive), ControllerInv (which thread is behind  *)
(* what a controller says, and who holds the run lock).                    *)
(***************************************************************************)
EXTENDS Dashboard, FiniteSetTheorems, TLAPS

Outcomes == {"already_running", "success", "degraded", "failed"}
Jobs == [id : Ids \cup {0}, decision : Decisions \cup {None},
         outcome : Outcomes \cup {None}, seen : SUBSET Ids]

Types == DOMAIN pc = Collectors /\ pc = [p \in Collectors |-> pc[p]] /\ job \in [Collectors -> Jobs]

Deciding == {"finding", "deciding", "conflicting"}

AnswerInv ==
    /\ Types
    /\ decided \in [Ids -> Decisions \cup {None}]
    /\ \A p \in Collectors :
        /\ pc[p] \in Deciding => job[p].id \in Ids /\ job[p].decision \in Decisions
        /\ pc[p] = "conflicting" => decided[job[p].id] # None
    /\ \A a \in answers : a.id \in Ids
    /\ AnswersStand

Schemas == {"absent", "empty", "table", "indexed"}

ArchiveInv ==
    /\ schema \in Schemas
    /\ DOMAIN server = Dashboards /\ server = [s \in Dashboards |-> server[s]]
    /\ \A s \in Dashboards :
        /\ server[s] = "creating" => schema # "absent"
        /\ server[s] = "indexing" => schema \in {"table", "indexed"}
    /\ ArchivesOpen

Busy == {"queued", "running"}

Shapes ==
    /\ Types
    /\ of \in [Collectors -> Dashboards \cup {Nobody}]
    /\ DOMAIN controller = Dashboards /\ controller = [s \in Dashboards |-> controller[s]]
    /\ DOMAIN server = Dashboards /\ server = [s \in Dashboards |-> server[s]]

CollectorsOK ==
    \A p \in Collectors :
        /\ pc[p] = "collecting" => holder = p
        /\ pc[p] = "reporting" => job[p].outcome \in Outcomes
        /\ pc[p] = "idle" => of[p] = Nobody
        /\ pc[p] = "queued" => p \in Threads

ThreadsOK ==
    \A p \in Threads :
        /\ pc[p] \in {"idle", "queued", "locking", "collecting", "reporting"}
        /\ of[p] = Nobody <=> pc[p] = "idle"
        /\ of[p] # Nobody => /\ server[of[p]] # "down"
                             /\ controller[of[p]] = IF pc[p] = "queued" THEN "queued" ELSE "running"

OneEach == \A p, q \in Threads : of[p] # Nobody /\ of[p] = of[q] => p = q

BusyHasThread == \A s \in Dashboards : controller[s] \in Busy => \E p \in Threads : of[p] = s

ControllerInv == Shapes /\ CollectorsOK /\ ThreadsOK /\ OneEach /\ BusyHasThread

-----------------------------------------------------------------------------
(* Work in hand.                                                           *)

(* What a step leaves of it. *)
LEMMA JobType ==
  ASSUME NEW w \in Jobs
  PROVE  /\ NoJob \in Jobs
         /\ \A d \in Ids, v \in Decisions :
                LET n == [NoJob EXCEPT !.id = d, !.decision = v]
                IN n \in Jobs /\ n.id = d /\ n.decision = v
         /\ \A S \in SUBSET Ids : LET n == [w EXCEPT !.seen = S]
                IN n \in Jobs /\ n.id = w.id /\ n.decision = w.decision /\ n.outcome = w.outcome
         /\ \A o \in Outcomes : LET n == [w EXCEPT !.outcome = o]
                IN n \in Jobs /\ n.id = w.id /\ n.decision = w.decision /\ n.outcome = o
  BY DEF Jobs, NoJob

-----------------------------------------------------------------------------
(* Answers.                                                                *)

(* Nothing is decided at first. *)
LEMMA AnswerInit == Init => AnswerInv
<1> SUFFICES ASSUME Init PROVE AnswerInv
  OBVIOUS
<1>1. NoJob \in Jobs
  BY DEF NoJob, Jobs
<1>2. Types
  BY <1>1 DEF Init, Types
<1>3. \A p \in Collectors : pc[p] = "idle"
  BY DEF Init
<1>4. decided \in [Ids -> Decisions \cup {None}] /\ answers = {}
  BY DEF Init
<1> QED
  BY <1>2, <1>3, <1>4 DEF AnswerInv, AnswersStand, Deciding

(* A step that decides and answers nothing. *)
LEMMA AnswerRest ==
  ASSUME AnswerInv, Types', UNCHANGED <<decided, answers>>,
         \A p \in Collectors : pc'[p] \in Deciding =>
             /\ job'[p].id \in Ids /\ job'[p].decision \in Decisions
             /\ pc'[p] = "conflicting" => decided[job'[p].id] # None
  PROVE  AnswerInv'
  BY DEF AnswerInv, AnswersStand, Deciding

(* A process goes on to another stage with work in hand. *)
LEMMA AnswerGoes ==
  ASSUME AnswerInv, UNCHANGED <<decided, answers>>, NEW p \in Collectors, NEW stage, NEW work \in Jobs,
         pc' = [pc EXCEPT ![p] = stage], job' = [job EXCEPT ![p] = work],
         stage \in Deciding => work.id \in Ids /\ work.decision \in Decisions,
         stage = "conflicting" => decided[work.id] # None
  PROVE  AnswerInv'
<1>1. Types'
  BY DEF AnswerInv, Types
<1>2. \A q \in Collectors : pc'[q] \in Deciding =>
             /\ job'[q].id \in Ids /\ job'[q].decision \in Decisions
             /\ pc'[q] = "conflicting" => decided[job'[q].id] # None
  BY DEF AnswerInv, Types, Deciding
<1> QED
  BY <1>1, <1>2, AnswerRest

(* The requests that decide. *)
LEMMA DecisionSteps ==
  ASSUME AnswerInv, NEW p \in Collectors,
         FindDiscovery(p) \/ Decide(p) \/ AlreadyDecided(p) \/ DecisionFor(p)
  PROVE  AnswerInv'
<1> DEFINE d == job[p].id
<1>0. /\ Types /\ decided \in [Ids -> Decisions \cup {None}] /\ job[p] \in Jobs /\ NoJob \in Jobs
      /\ None \notin Decisions
  BY JobType, DashboardConstants DEF AnswerInv, Types
<1>1. CASE FindDiscovery(p) /\ Goto(p, "finding", "deciding") /\ UNCHANGED <<of, job, answers>>
  <2>1. /\ pc[p] = "finding" /\ pc' = [pc EXCEPT ![p] = "deciding"]
        /\ UNCHANGED <<decided, answers, job>>
    BY <1>1 DEF FindDiscovery, Goto, archive
  <2>2. job' = [job EXCEPT ![p] = job[p]]
    BY <1>0, <2>1 DEF Types
  <2> QED
    BY <1>0, <2>1, <2>2, AnswerGoes DEF AnswerInv, Deciding
<1>2. ASSUME NEW status \in {200, 404, 409}, NEW v \in Decisions \cup {None},
             pc[p] \in Deciding, Answer(p, status, v), Done(p),
             decided' \in [Ids -> Decisions \cup {None}],
             \A e \in Ids : decided[e] # None => decided'[e] = decided[e],
             status \in {200, 409} => v # None /\ decided'[d] = v,
             status = 404 => v = None
      PROVE  AnswerInv'
  <2>1. answers' = answers \cup {[id |-> d, status |-> status, decision |-> v]} /\ d \in Ids
    BY <1>2 DEF Answer, AnswerInv
  <2>2. /\ pc' = [pc EXCEPT ![p] = "idle"] /\ job' = [job EXCEPT ![p] = NoJob]
    BY <1>2 DEF Done
  <2>3. Types'
    BY <1>0, <2>2 DEF Types
  <2>4. \A q \in Collectors : pc'[q] \in Deciding =>
             /\ job'[q].id \in Ids /\ job'[q].decision \in Decisions
             /\ pc'[q] = "conflicting" => decided'[job'[q].id] # None
    BY <1>0, <1>2, <2>2 DEF AnswerInv, Types, Deciding
  <2>5. \A a \in answers' : a.id \in Ids
    BY <2>1 DEF AnswerInv
  <2>6. AnswersStand'
    <3> SUFFICES ASSUME NEW a \in answers'
                 PROVE  /\ a.status \in {200, 409} => a.decision # None /\ decided'[a.id] = a.decision
                        /\ a.status = 404 => a.decision = None
      BY DEF AnswersStand
    <3>1. CASE a \in answers
      BY <1>2, <3>1 DEF AnswerInv, AnswersStand
    <3>2. CASE a = [id |-> d, status |-> status, decision |-> v]
      BY <1>2, <3>2
    <3> QED
      BY <2>1, <3>1, <3>2
  <2> QED
    BY <1>2, <2>3, <2>4, <2>5, <2>6 DEF AnswerInv, Deciding
<1>3. CASE FindDiscovery(p) /\ Answer(p, 404, None) /\ Done(p)
  BY <1>0, <1>3, <1>2 DEF FindDiscovery, archive, Deciding
<1>4. CASE Decide(p)
  <2>1. /\ pc[p] = "deciding" /\ decided[d] = None
        /\ decided' = [decided EXCEPT ![d] = job[p].decision]
        /\ Answer(p, 200, job[p].decision) /\ Done(p)
    BY <1>4 DEF Decide, MayInsert
  <2>2. d \in Ids /\ job[p].decision \in Decisions
    BY <2>1 DEF AnswerInv, Deciding
  <2> QED
    BY <1>0, <1>2, <2>1, <2>2 DEF Deciding
<1>5. CASE AlreadyDecided(p)
  <2>1. /\ pc[p] = "deciding" /\ pc' = [pc EXCEPT ![p] = "conflicting"] /\ decided[d] # None
        /\ UNCHANGED <<decided, answers, job>>
    BY <1>5 DEF AlreadyDecided, Goto, MayInsert, archive, shown
  <2>2. job' = [job EXCEPT ![p] = job[p]]
    BY <1>0, <2>1 DEF Types
  <2> QED
    BY <1>0, <2>1, <2>2, AnswerGoes DEF AnswerInv, Deciding
<1>6. CASE DecisionFor(p)
  <2>1. /\ pc[p] = "conflicting" /\ Answer(p, 409, decided[d]) /\ Done(p) /\ UNCHANGED decided
    BY <1>6 DEF DecisionFor, archive
  <2>2. d \in Ids /\ decided[d] # None
    BY <2>1 DEF AnswerInv, Deciding
  <2> QED
    BY <1>0, <1>2, <2>1, <2>2 DEF Deciding
<1>7. CASE FindDiscovery(p)
  BY <1>1, <1>3, <1>7 DEF FindDiscovery
<1> QED
  BY <1>4, <1>5, <1>6, <1>7

(* Every step keeps the answers' invariant. *)
LEMMA AnswerStep == AnswerInv /\ [Next]_vars => AnswerInv'
<1> SUFFICES ASSUME AnswerInv, [Next]_vars PROVE AnswerInv'
  OBVIOUS
<1> USE DEF archive, procs, shown, bounds
<1>0. /\ Types /\ job \in [Collectors -> Jobs] /\ NoJob \in Jobs /\ pc = [p \in Collectors |-> pc[p]]
  BY JobType DEF AnswerInv, Types, NoJob, Jobs
<1>1. ASSUME NEW s \in Dashboards, Serve(s) PROVE AnswerInv'
  BY <1>1
     DEF Serve, Launch, OpenArchive, CreateTable, CreateIndexes, AnswerInv, Types,
         AnswersStand
<1>2. ASSUME NEW s \in Dashboards, Close(s) PROVE AnswerInv'
  <2>1. /\ pc' = [p \in Collectors |-> IF p \in Dead(s) THEN "idle" ELSE pc[p]]
        /\ job' = [p \in Collectors |-> IF p \in Dead(s) THEN NoJob ELSE job[p]]
        /\ UNCHANGED <<decided, answers>>
    BY <1>2 DEF Close
  <2>2. Types'
    BY <1>0, <2>1 DEF Types
  <2> QED
    BY <1>0, <2>1, <2>2, AnswerRest DEF AnswerInv, Deciding
<1>3. ASSUME NEW p \in Collectors, NEW s \in Dashboards, AskQueue(p, s) \/ AskRun(p, s)
      PROVE  AnswerInv'
  <2>1. PICK stage \in {"queueing", "locking"} :
          /\ pc' = [pc EXCEPT ![p] = stage] /\ job' = [job EXCEPT ![p] = NoJob]
          /\ UNCHANGED <<decided, answers>>
    BY <1>3 DEF AskQueue, AskRun, Ask, Goto
  <2> QED
    BY <1>0, <2>1, AnswerGoes DEF Deciding
<1>4. ASSUME NEW p \in Collectors, NEW s \in Dashboards, NEW d \in Ids, NEW v \in Decisions,
             AskDecision(p, s, d, v)
      PROVE  AnswerInv'
  <2> DEFINE work == [NoJob EXCEPT !.id = d, !.decision = v]
  <2>1. /\ pc' = [pc EXCEPT ![p] = "finding"] /\ job' = [job EXCEPT ![p] = work]
        /\ UNCHANGED <<decided, answers>>
    BY <1>4 DEF AskDecision, Ask, Goto
  <2>2. work \in Jobs /\ work.id = d /\ work.decision = v
    BY <1>0, JobType
  <2> HIDE DEF work
  <2> QED
    BY <1>0, <2>1, <2>2, AnswerGoes DEF Deciding
<1>5. ASSUME NEW p \in Collectors, ReadDecided(p) PROVE AnswerInv'
  <2> DEFINE work == [job[p] EXCEPT !.seen = Settled]
  <2>1. /\ pc' = [pc EXCEPT ![p] = "listing"] /\ job' = [job EXCEPT ![p] = work]
        /\ UNCHANGED <<decided, answers>>
    BY <1>0, <1>5 DEF ReadDecided, Goto
  <2>2. work \in Jobs
    BY <1>0, JobType DEF Settled
  <2> HIDE DEF work
  <2> QED
    BY <1>0, <2>1, <2>2, AnswerGoes DEF Deciding
<1>6. ASSUME NEW p \in Collectors, ShowQueue(p) \/ Report(p) PROVE AnswerInv'
  <2>1. /\ pc' = [pc EXCEPT ![p] = "idle"] /\ job' = [job EXCEPT ![p] = NoJob]
        /\ UNCHANGED <<decided, answers>>
    BY <1>6 DEF ShowQueue, Report, Done
  <2> QED
    BY <1>0, <2>1, AnswerGoes DEF Deciding
<1>7. ASSUME NEW p \in Collectors, Refused(p) \/ \E o \in {"success", "degraded", "failed"} : Release(p, o)
      PROVE  AnswerInv'
  <2>1. PICK o \in Outcomes : /\ pc' = [pc EXCEPT ![p] = "reporting"]
                             /\ job' = [job EXCEPT ![p].outcome = o] /\ UNCHANGED <<decided, answers>>
    BY <1>7 DEF Refused, Release, Goto, Outcomes
  <2> DEFINE work == [job[p] EXCEPT !.outcome = o]
  <2>2. work \in Jobs /\ job' = [job EXCEPT ![p] = work]
    BY <1>0, <2>1, JobType
  <2> HIDE DEF work
  <2> QED
    BY <1>0, <2>1, <2>2, AnswerGoes DEF Deciding
<1>8. ASSUME NEW p \in Collectors,
             \/ Command(p) \/ RunThread(p) \/ Acquire(p) \/ \E s \in Dashboards : Start(s, p)
      PROVE  AnswerInv'
  <2>1. PICK stage \in {"queued", "locking", "collecting"} :
          pc' = [pc EXCEPT ![p] = stage] /\ UNCHANGED <<decided, answers, job>>
    BY <1>8 DEF Command, RunThread, Acquire, Start, Goto
  <2>2. job' = [job EXCEPT ![p] = job[p]]
    BY <1>0, <2>1
  <2> QED
    BY <1>0, <2>1, <2>2, AnswerGoes DEF Deciding
<1>9. ASSUME NEW p \in Collectors, Discover(p) PROVE AnswerInv'
  BY <1>9 DEF Discover, AnswerInv, Types, AnswersStand
<1>10. CASE UNCHANGED vars
  BY <1>10 DEF vars, AnswerInv, Types, AnswersStand
<1> QED
  BY <1>1, <1>2, <1>3, <1>4, <1>5, <1>6, <1>7, <1>8, <1>9, <1>10, DecisionSteps
     DEF Next, Request, Handle, Collection, Collectors

(* A discovery gets one decision, for good, and every answer told it. *)
THEOREM AnswersAlwaysStand == Spec => []AnswersStand
<1>1. AnswerInv => AnswersStand
  BY DEF AnswerInv
<1> QED
  BY <1>1, AnswerInit, AnswerStep, PTL DEF Spec

-----------------------------------------------------------------------------
(* The archive.                                                            *)

(* There is none at first, or none is up. *)
LEMMA ArchiveInit == Init => ArchiveInv
  BY DEF Init, ArchiveInv, Schemas, ArchivesOpen

(* Every step keeps the archive's invariant. *)
LEMMA ArchiveStep == ArchiveInv /\ [Next]_vars => ArchiveInv'
<1> SUFFICES ASSUME ArchiveInv, [Next]_vars PROVE ArchiveInv'
  OBVIOUS
<1>1. ASSUME NEW s \in Dashboards, Launch(s) \/ OpenArchive(s) \/ CreateTable(s) \/ CreateIndexes(s)
      PROVE  ArchiveInv'
  BY <1>1
     DEF Launch, OpenArchive, CreateTable, CreateIndexes, Stage, Fresh, Inspected,
         Compatible,
        archive, ArchiveInv, ArchivesOpen, Schemas
<1>2. ASSUME NEW s \in Dashboards, Close(s) PROVE ArchiveInv'
  BY <1>2 DEF Close, archive, ArchiveInv, ArchivesOpen, Schemas
<1>3. CASE UNCHANGED <<server, schema>>
  BY <1>3 DEF ArchiveInv, ArchivesOpen
<1> QED
  BY <1>1, <1>2, <1>3 DEF Next, Serve, Request, Handle, Collection, vars, archive, shown,
        AskQueue, AskRun, AskDecision, Ask, ReadDecided, ShowQueue, FindDiscovery, Decide,
        AlreadyDecided, DecisionFor, Command, Start, RunThread, Acquire, Refused, Discover,
        Release, Report

(* Every dashboard that starts comes up, on a whole archive. *)
THEOREM ArchivesAlwaysOpen == Spec => []ArchivesOpen
<1>1. ArchiveInv => ArchivesOpen
  BY DEF ArchiveInv
<1> QED
  BY <1>1, ArchiveInit, ArchiveStep, PTL DEF Spec

-----------------------------------------------------------------------------
(* The controllers.                                                        *)

(* No thread lives at first. *)
LEMMA ControllerInit == Init => ControllerInv
<1> SUFFICES ASSUME Init PROVE ControllerInv
  OBVIOUS
<1>1. NoJob \in Jobs
  BY DEF NoJob, Jobs
<1>2. Types
  BY <1>1 DEF Init, Types
<1> QED
  BY <1>2
     DEF Init, ControllerInv, Shapes, CollectorsOK, ThreadsOK, OneEach, BusyHasThread,
         Busy, Collectors

(* A process that is not a controller's thread goes on. *)
LEMMA OutsiderGoes ==
  ASSUME ControllerInv, NEW p \in Collectors \ Threads, NEW stage, NEW work \in Jobs,
         NEW s \in Dashboards \cup {Nobody},
         pc' = [pc EXCEPT ![p] = stage], job' = [job EXCEPT ![p] = work],
         of' = [of EXCEPT ![p] = s], UNCHANGED <<controller, server>>,
         stage = "collecting" => holder' = p,
         \A q \in Collectors \ {p} : pc[q] = "collecting" => holder' = holder,
         stage = "reporting" => work.outcome \in Outcomes,
         stage = "idle" => s = Nobody, stage # "queued"
  PROVE  ControllerInv'
<1>1. Types'
  BY DEF ControllerInv, Shapes, CollectorsOK, ThreadsOK, OneEach, BusyHasThread, Types
<1>2. /\ \A q \in Collectors \ {p} : pc'[q] = pc[q] /\ job'[q] = job[q] /\ of'[q] = of[q]
      /\ pc'[p] = stage /\ job'[p] = work /\ of'[p] = s
  BY DEF ControllerInv, Shapes, CollectorsOK, ThreadsOK, OneEach, BusyHasThread, Types
<1> QED
  BY <1>1, <1>2
     DEF ControllerInv, Shapes, CollectorsOK, ThreadsOK, OneEach, BusyHasThread,
         Collectors

(* A controller's thread goes on while its controller says so. *)
LEMMA ThreadGoes ==
  ASSUME ControllerInv, NEW p \in Threads, NEW stage \in {"queued", "locking", "collecting", "reporting"},
         NEW work \in Jobs, pc[p] # "idle",
         pc' = [pc EXCEPT ![p] = stage], job' = [job EXCEPT ![p] = work], UNCHANGED <<of, server>>,
         controller' = [controller EXCEPT ![of[p]] = IF stage = "queued" THEN "queued" ELSE "running"],
         stage = "collecting" => holder' = p,
         \A q \in Collectors \ {p} : pc[q] = "collecting" => holder' = holder,
         stage = "reporting" => work.outcome \in Outcomes
  PROVE  ControllerInv'
<1>1. Types'
  BY DEF ControllerInv, Shapes, CollectorsOK, ThreadsOK, OneEach, BusyHasThread, Types, Collectors
<1>2. /\ \A q \in Collectors \ {p} : pc'[q] = pc[q] /\ job'[q] = job[q]
      /\ pc'[p] = stage /\ job'[p] = work /\ of'[p] = of[p] /\ p \in Collectors
  BY DEF ControllerInv, Shapes, CollectorsOK, ThreadsOK, OneEach, BusyHasThread, Types, Collectors
<1>3. of[p] \in Dashboards /\ of[p] # Nobody
  BY <1>2, DashboardConstants
     DEF ControllerInv, Shapes, CollectorsOK, ThreadsOK, OneEach, BusyHasThread
<1>4. /\ controller'[of[p]] = IF stage = "queued" THEN "queued" ELSE "running"
      /\ \A t \in Dashboards \ {of[p]} : controller'[t] = controller[t]
      /\ DOMAIN controller' = Dashboards /\ controller' = [t \in Dashboards |-> controller'[t]]
  BY <1>3 DEF ControllerInv, Shapes, CollectorsOK, ThreadsOK, OneEach, BusyHasThread
<1>5. \A q \in Collectors :
        /\ pc'[q] = "collecting" => holder' = q
        /\ pc'[q] = "reporting" => job'[q].outcome \in Outcomes
        /\ pc'[q] = "idle" => of'[q] = Nobody
        /\ pc'[q] = "queued" => q \in Threads
  BY <1>2 DEF ControllerInv, Shapes, CollectorsOK, ThreadsOK, OneEach, BusyHasThread
<1>6. \A q \in Threads :
        /\ pc'[q] \in {"idle", "queued", "locking", "collecting", "reporting"}
        /\ of'[q] = Nobody <=> pc'[q] = "idle"
  BY <1>2, <1>3
     DEF ControllerInv, Shapes, CollectorsOK, ThreadsOK, OneEach, BusyHasThread,
         Collectors
<1>7. \A q \in Threads : of'[q] # Nobody =>
        controller'[of'[q]] = IF pc'[q] = "queued" THEN "queued" ELSE "running"
  <2> SUFFICES ASSUME NEW q \in Threads, of[q] # Nobody
               PROVE  controller'[of[q]] = IF pc'[q] = "queued" THEN "queued" ELSE "running"
    OBVIOUS
  <2>1. CASE q = p
    BY <1>2, <1>4, <2>1
  <2>2. CASE q # p
    <3>1. of[q] # of[p] /\ of[q] \in Dashboards /\ pc'[q] = pc[q]
      BY <1>2, <1>3, <2>2
         DEF ControllerInv, Shapes, CollectorsOK, ThreadsOK, OneEach, BusyHasThread,
             Collectors
    <3> QED
      BY <1>4, <3>1
         DEF ControllerInv, Shapes, CollectorsOK, ThreadsOK, OneEach, BusyHasThread
  <2> QED
    BY <2>1, <2>2
<1>8. \A t \in Dashboards : controller'[t] \in Busy => \E q \in Threads : of'[q] = t
  BY <1>3, <1>4 DEF ControllerInv, Shapes, CollectorsOK, ThreadsOK, OneEach, BusyHasThread
<1> QED
  BY <1>1, <1>4, <1>5, <1>6, <1>7, <1>8
     DEF ControllerInv, Shapes, CollectorsOK, ThreadsOK, OneEach, BusyHasThread

(* A dashboard's steps. *)
LEMMA ServerSteps ==
  ASSUME ControllerInv, NEW s \in Dashboards, Serve(s) \/ Close(s)
  PROVE  ControllerInv'
<1> USE DashboardConstants DEF archive, procs, shown, bounds
<1>1. CASE Launch(s)
  <2> DEFINE stage == IF Fresh THEN "opening" ELSE Inspected
  <2>1. /\ server[s] = "down" /\ server' = [server EXCEPT ![s] = stage]
        /\ controller' = [controller EXCEPT ![s] = "idle"]
        /\ UNCHANGED <<of, pc, job, holder>>
    BY <1>1 DEF Launch, Stage
  <2>2. stage # "down"
    BY DEF Inspected
  <2> HIDE DEF stage
  <2>3. \A q \in Threads : of[q] # s
    BY <2>1 DEF ControllerInv, ThreadsOK
  <2>4. \A t \in Dashboards : IF t = s THEN controller'[t] = "idle" /\ server'[t] # "down"
                              ELSE controller'[t] = controller[t] /\ server'[t] = server[t]
    BY <2>1, <2>2 DEF ControllerInv, Shapes
  <2>5. Shapes'
    BY <2>1 DEF ControllerInv, Shapes, Types
  <2>6. CollectorsOK' /\ OneEach'
    BY <2>1 DEF ControllerInv, CollectorsOK, OneEach
  <2>7. ThreadsOK'
    BY <2>1, <2>3, <2>4 DEF ControllerInv, Shapes, ThreadsOK, Collectors
  <2>8. BusyHasThread'
    BY <2>1, <2>4 DEF ControllerInv, BusyHasThread, Busy
  <2> QED
    BY <2>5, <2>6, <2>7, <2>8 DEF ControllerInv
<1>2. CASE OpenArchive(s) \/ CreateTable(s) \/ CreateIndexes(s)
  <2>1. /\ \E stage \in {"creating", "indexing", "up", "refused"} : server' = [server EXCEPT ![s] = stage]
        /\ UNCHANGED <<of, pc, job, holder, controller>>
    BY <1>2 DEF OpenArchive, CreateTable, CreateIndexes, Stage, Inspected
  <2>2. Types'
    BY <2>1
       DEF ControllerInv, Shapes, CollectorsOK, ThreadsOK, OneEach, BusyHasThread, Types
  <2> QED
    BY <2>1, <2>2
       DEF ControllerInv, Shapes, CollectorsOK, ThreadsOK, OneEach, BusyHasThread,
           Collectors
<1>3. CASE Close(s)
  <2>1. /\ server' = [server EXCEPT ![s] = "down"]
        /\ controller' = [controller EXCEPT ![s] = "idle"]
        /\ pc' = [p \in Collectors |-> IF p \in Dead(s) THEN "idle" ELSE pc[p]]
        /\ job' = [p \in Collectors |-> IF p \in Dead(s) THEN NoJob ELSE job[p]]
        /\ of' = [p \in Collectors |-> IF p \in Dead(s) THEN Nobody ELSE of[p]]
        /\ holder' = IF holder \in Dead(s) THEN Nobody ELSE holder
    BY <1>3 DEF Close
  <2>2. \A p \in Collectors : p \in Dead(s) <=> of[p] = s
    BY DEF Dead
  <2>3. NoJob \in Jobs
    BY DEF NoJob, Jobs
  <2>4. Types'
    BY <2>1, <2>3
       DEF ControllerInv, Shapes, CollectorsOK, ThreadsOK, OneEach, BusyHasThread, Types
  <2>5. of' \in [Collectors -> Dashboards \cup {Nobody}]
    BY <2>1 DEF ControllerInv, Shapes, CollectorsOK, ThreadsOK, OneEach, BusyHasThread
  <2>6. \A p \in Collectors :
          \/ of[p] = s /\ pc'[p] = "idle" /\ of'[p] = Nobody
          \/ of[p] # s /\ pc'[p] = pc[p] /\ of'[p] = of[p] /\ job'[p] = job[p]
                       /\ (holder = p => holder' = p)
    BY <2>1, <2>2
  <2>7. \A t \in Dashboards : IF t = s THEN controller'[t] = "idle" /\ server'[t] = "down"
                              ELSE controller'[t] = controller[t] /\ server'[t] = server[t]
    BY <2>1 DEF ControllerInv, Shapes, CollectorsOK, ThreadsOK, OneEach, BusyHasThread
  <2>8. \A p \in Collectors :
        /\ pc'[p] = "collecting" => holder' = p
        /\ pc'[p] = "reporting" => job'[p].outcome \in Outcomes
        /\ pc'[p] = "idle" => of'[p] = Nobody
        /\ pc'[p] = "queued" => p \in Threads
    BY <2>6 DEF ControllerInv, Shapes, CollectorsOK, ThreadsOK, OneEach, BusyHasThread
  <2>9. \A p \in Threads :
        /\ pc'[p] \in {"idle", "queued", "locking", "collecting", "reporting"}
        /\ of'[p] = Nobody <=> pc'[p] = "idle"
        /\ of'[p] # Nobody => /\ server'[of'[p]] # "down"
                              /\ controller'[of'[p]] = IF pc'[p] = "queued" THEN "queued" ELSE "running"
    BY <2>5, <2>6, <2>7
       DEF ControllerInv, Shapes, CollectorsOK, ThreadsOK, OneEach, BusyHasThread,
           Collectors
  <2>10. \A p, q \in Threads : of'[p] # Nobody /\ of'[p] = of'[q] => p = q
    BY <2>6
       DEF ControllerInv, Shapes, CollectorsOK, ThreadsOK, OneEach, BusyHasThread,
           Collectors
  <2>11. \A t \in Dashboards : controller'[t] \in Busy => \E p \in Threads : of'[p] = t
    BY <2>6, <2>7
       DEF ControllerInv, Shapes, CollectorsOK, ThreadsOK, OneEach, BusyHasThread,
           Collectors, Busy
  <2>12. /\ DOMAIN controller' = Dashboards /\ controller' = [t \in Dashboards |-> controller'[t]]
         /\ DOMAIN server' = Dashboards /\ server' = [t \in Dashboards |-> server'[t]]
    BY <2>1 DEF ControllerInv, Shapes, CollectorsOK, ThreadsOK, OneEach, BusyHasThread
  <2> QED
    BY <2>4, <2>5, <2>8, <2>9, <2>10, <2>11, <2>12
       DEF ControllerInv, Shapes, CollectorsOK, ThreadsOK, OneEach, BusyHasThread
<1> QED
  BY <1>1, <1>2, <1>3 DEF Serve

(* The steps that handle a request. *)
LEMMA RequestSteps ==
  ASSUME ControllerInv, NEW p \in Requests, Request(p) \/ Handle(p)
  PROVE  ControllerInv'
<1> USE DashboardConstants DEF archive, procs, shown, bounds
<1>0. /\ p \in Collectors \ Threads /\ job[p] \in Jobs /\ NoJob \in Jobs
      /\ of[p] \in Dashboards \cup {Nobody}
      /\ pc = [q \in Collectors |-> pc[q]] /\ of = [of EXCEPT ![p] = of[p]]
      /\ job = [job EXCEPT ![p] = job[p]]
  BY DEF ControllerInv, Shapes, CollectorsOK, ThreadsOK, OneEach, BusyHasThread, Types, Collectors, NoJob, Jobs
<1>1. ASSUME NEW s \in Dashboards, NEW stage \in {"queueing", "locking", "finding"}, NEW work \in Jobs,
             Ask(p, s, stage, work)
      PROVE  ControllerInv'
  <2>1. /\ pc' = [pc EXCEPT ![p] = stage] /\ job' = [job EXCEPT ![p] = work]
        /\ of' = [of EXCEPT ![p] = s] /\ UNCHANGED <<controller, server, holder>>
    BY <1>1 DEF Ask, Goto
  <2> QED
    BY <1>0, <2>1, OutsiderGoes
<1>2. CASE Request(p)
  BY <1>0, <1>1, <1>2, JobType DEF Request, AskQueue, AskRun, AskDecision
<1>3. CASE ReadDecided(p)
  <2> DEFINE work == [job[p] EXCEPT !.seen = Settled]
  <2>1. /\ pc' = [pc EXCEPT ![p] = "listing"] /\ job' = [job EXCEPT ![p] = work]
        /\ UNCHANGED <<of, controller, server, holder>>
    BY <1>0, <1>3 DEF ReadDecided, Goto
  <2>2. work \in Jobs
    BY <1>0, JobType DEF Settled
  <2> HIDE DEF work
  <2> QED
    BY <1>0, <2>1, <2>2, OutsiderGoes
<1>4. ASSUME Done(p), UNCHANGED <<controller, server, holder>>
      PROVE  ControllerInv'
  BY <1>0, <1>4, OutsiderGoes DEF Done
<1>5. ASSUME NEW stage \in {"deciding", "conflicting"}, pc' = [pc EXCEPT ![p] = stage],
             UNCHANGED <<of, job, controller, server, holder>>
      PROVE  ControllerInv'
  BY <1>0, <1>5, OutsiderGoes
<1>6. CASE FindDiscovery(p) \/ Decide(p) \/ AlreadyDecided(p) \/ DecisionFor(p) \/ ShowQueue(p)
  BY <1>4, <1>5, <1>6
     DEF FindDiscovery, Decide, AlreadyDecided, DecisionFor, ShowQueue, Goto
<1> QED
  BY <1>2, <1>3, <1>6 DEF Handle

(* Collections begin, work under the lock and end. *)
LEMMA CollectionSteps ==
  ASSUME ControllerInv, NEW p \in Collectors,
         Collection(p) \/ (p \in Commands /\ Command(p))
  PROVE  ControllerInv'
<1> USE DashboardConstants DEF archive, procs, shown, bounds
<1>0. /\ job[p] \in Jobs /\ NoJob \in Jobs
      /\ of[p] \in Dashboards \cup {Nobody}
      /\ pc = [q \in Collectors |-> pc[q]] /\ of = [of EXCEPT ![p] = of[p]]
      /\ job = [job EXCEPT ![p] = job[p]] /\ job \in [Collectors -> Jobs]
  BY DEF ControllerInv, Shapes, CollectorsOK, ThreadsOK, OneEach, BusyHasThread, Types, Collectors, NoJob, Jobs
<1>1. ASSUME NEW stage \in {"locking", "collecting", "reporting"}, NEW work \in Jobs,
             pc[p] \in {"queued", "locking", "collecting"},
             pc' = [pc EXCEPT ![p] = stage], job' = [job EXCEPT ![p] = work],
             UNCHANGED <<of, server>>,
             controller' = IF pc[p] = "queued" THEN [controller EXCEPT ![of[p]] = "running"] ELSE controller,
             stage = "collecting" => holder' = p,
             \A q \in Collectors \ {p} : pc[q] = "collecting" => holder' = holder,
             stage = "reporting" => work.outcome \in Outcomes
      PROVE  ControllerInv'
  <2>1. CASE p \in Threads
    <3>1. of[p] \in Dashboards /\ (pc[p] # "queued" => controller[of[p]] = "running")
      BY <1>0, <1>1, <2>1 DEF ControllerInv, ThreadsOK
    <3>2. controller = [controller EXCEPT ![of[p]] = controller[of[p]]]
      BY <3>1 DEF ControllerInv, Shapes
    <3>3. controller' = [controller EXCEPT ![of[p]] = "running"]
      BY <1>1, <3>1, <3>2
    <3> QED
      BY <1>0, <1>1, <2>1, <3>3, ThreadGoes
  <2>2. CASE p \notin Threads
    <3>1. UNCHANGED controller
      BY <1>1, <2>2
         DEF ControllerInv, Shapes, CollectorsOK, ThreadsOK, OneEach, BusyHasThread
    <3> QED
      BY <1>0, <1>1, <2>2, <3>1, OutsiderGoes
  <2> QED
    BY <2>1, <2>2
<1>2. CASE RunThread(p)
  BY <1>0, <1>1, <1>2 DEF RunThread, Goto
<1>3. CASE Acquire(p)
  <2>1. \A q \in Collectors : pc[q] # "collecting"
    BY <1>3
       DEF Acquire, ControllerInv, Shapes, CollectorsOK, ThreadsOK, OneEach,
           BusyHasThread
  <2> QED
    BY <1>0, <1>1, <1>3, <2>1 DEF Acquire, Goto
<1>4. ASSUME NEW o \in Outcomes, job' = [job EXCEPT ![p].outcome = o],
             pc[p] \in {"locking", "collecting"}, pc' = [pc EXCEPT ![p] = "reporting"],
             UNCHANGED <<of, server, controller>>, holder' = holder \/ pc[p] = "collecting"
      PROVE  ControllerInv'
  <2> DEFINE work == [job[p] EXCEPT !.outcome = o]
  <2>1. work \in Jobs /\ work.outcome = o
    BY <1>0, JobType
  <2>3. job' = [job EXCEPT ![p] = work]
    BY <1>0, <1>4
  <2> HIDE DEF work
  <2>2. \A q \in Collectors \ {p} : pc[q] = "collecting" => holder' = holder
    BY <1>4 DEF ControllerInv, Shapes, CollectorsOK, ThreadsOK, OneEach, BusyHasThread
  <2> QED
    BY <1>1, <1>4, <2>1, <2>2, <2>3
<1>5. CASE Refused(p) \/ \E o \in {"success", "degraded", "failed"} : Release(p, o)
  BY <1>4, <1>5 DEF Refused, Release, Goto, Outcomes
<1>6. CASE Report(p)
  <2>1. /\ pc[p] = "reporting" /\ Done(p) /\ UNCHANGED <<server, holder>>
        /\ controller' = IF p \in Threads THEN [controller EXCEPT ![of[p]] = Outcome(p)] ELSE controller
    BY <1>6 DEF Report
  <2>2. CASE p \notin Threads
    BY <1>0, <2>1, <2>2, OutsiderGoes DEF Done
  <2>3. CASE p \in Threads
    <3>1. /\ of[p] \in Dashboards /\ Outcome(p) \in Outcomes /\ Outcome(p) \notin Busy
      BY <1>0, <2>1, <2>3
         DEF ControllerInv, Shapes, CollectorsOK, ThreadsOK, OneEach, BusyHasThread,
             Outcome, Outcomes, Busy
    <3>2. Types'
      BY <1>0, <2>1
         DEF ControllerInv, Shapes, CollectorsOK, ThreadsOK, OneEach, BusyHasThread,
             Types, Done
    <3>3. /\ \A q \in Collectors \ {p} : pc'[q] = pc[q] /\ job'[q] = job[q] /\ of'[q] = of[q]
          /\ pc'[p] = "idle" /\ of'[p] = Nobody /\ of' \in [Collectors -> Dashboards \cup {Nobody}]
      BY <1>0, <2>1
         DEF ControllerInv, Shapes, CollectorsOK, ThreadsOK, OneEach, BusyHasThread,
             Types, Done
    <3>4. /\ controller'[of[p]] \notin Busy
          /\ \A t \in Dashboards \ {of[p]} : controller'[t] = controller[t]
          /\ DOMAIN controller' = Dashboards /\ controller' = [t \in Dashboards |-> controller'[t]]
      BY <2>1, <2>3, <3>1
         DEF ControllerInv, Shapes, CollectorsOK, ThreadsOK, OneEach, BusyHasThread
    <3>5. \A q \in Threads \ {p} : of[q] # Nobody => of[q] # of[p] /\ of[q] \in Dashboards
      BY <2>3
         DEF ControllerInv, Shapes, CollectorsOK, ThreadsOK, OneEach, BusyHasThread,
             Collectors
    <3>6. Shapes'
      BY <2>1, <3>2, <3>3, <3>4 DEF ControllerInv, Shapes
    <3>7. CollectorsOK'
      BY <2>1, <3>3 DEF ControllerInv, CollectorsOK
    <3>8. ThreadsOK'
      BY <2>1, <3>3, <3>4, <3>5 DEF ControllerInv, ThreadsOK, Collectors
    <3>9. OneEach' /\ BusyHasThread'
      BY <2>3, <3>1, <3>3, <3>4, <3>5 DEF ControllerInv, OneEach, BusyHasThread, Collectors
    <3> QED
      BY <3>6, <3>7, <3>8, <3>9 DEF ControllerInv
  <2> QED
    BY <2>2, <2>3
<1>7. CASE p \in Commands /\ Command(p)
  BY <1>0, <1>7, OutsiderGoes DEF Command, Goto
<1> QED
  BY <1>2, <1>3, <1>5, <1>6, <1>7 DEF Collection

(* A controller starts a thread. *)
LEMMA StartSteps ==
  ASSUME ControllerInv, NEW s \in Dashboards, NEW p \in Threads, Start(s, p)
  PROVE  ControllerInv'
<1> USE DashboardConstants DEF archive, procs, shown, bounds
<1>1. /\ server[s] = "up" /\ controller[s] \notin Busy /\ pc[p] = "idle"
      /\ controller' = [controller EXCEPT ![s] = "queued"]
      /\ pc' = [pc EXCEPT ![p] = "queued"] /\ of' = [of EXCEPT ![p] = s]
      /\ UNCHANGED <<server, job, holder>>
  BY DEF Start, MayStart, Goto, Busy
<1>2. Types' /\ p \in Collectors
  BY <1>1
     DEF ControllerInv, Shapes, CollectorsOK, ThreadsOK, OneEach, BusyHasThread, Types,
         Collectors
<1>3. /\ \A q \in Collectors \ {p} : pc'[q] = pc[q] /\ of'[q] = of[q]
      /\ pc'[p] = "queued" /\ of'[p] = s /\ of' \in [Collectors -> Dashboards \cup {Nobody}]
  BY <1>1, <1>2
     DEF ControllerInv, Shapes, CollectorsOK, ThreadsOK, OneEach, BusyHasThread, Types
<1>4. \A q \in Threads : of[q] # s
  BY <1>1 DEF ControllerInv, Shapes, CollectorsOK, ThreadsOK, OneEach, BusyHasThread, Busy
<1>5. /\ controller'[s] = "queued"
      /\ \A t \in Dashboards \ {s} : controller'[t] = controller[t]
      /\ DOMAIN controller' = Dashboards /\ controller' = [t \in Dashboards |-> controller'[t]]
  BY <1>1 DEF ControllerInv, Shapes, CollectorsOK, ThreadsOK, OneEach, BusyHasThread
<1>6. Shapes'
  BY <1>1, <1>2, <1>3, <1>5 DEF ControllerInv, Shapes
<1>7. CollectorsOK'
  BY <1>1, <1>3 DEF ControllerInv, CollectorsOK
<1>8. ThreadsOK'
  <2> SUFFICES ASSUME NEW q \in Threads, of'[q] # Nobody, q # p
               PROVE  controller'[of'[q]] = controller[of[q]]
    BY <1>1, <1>3, <1>5 DEF ControllerInv, ThreadsOK, Collectors
  <2>1. of'[q] = of[q] /\ of[q] \in Dashboards \ {s}
    BY <1>3, <1>4 DEF ControllerInv, Shapes, Collectors
  <2> QED
    BY <1>5, <2>1
<1>9. OneEach'
  BY <1>3, <1>4 DEF ControllerInv, OneEach, Collectors
<1>10. BusyHasThread'
  <2> SUFFICES ASSUME NEW t \in Dashboards \ {s}, controller[t] \in Busy
               PROVE  \E q \in Threads : of'[q] = t
    BY <1>3, <1>5 DEF BusyHasThread, Busy
  <2>1. PICK q \in Threads : of[q] = t
    BY DEF ControllerInv, BusyHasThread
  <2>2. q # p
    BY <1>1, <1>2, <2>1 DEF ControllerInv, CollectorsOK
  <2> QED
    BY <1>3, <2>1, <2>2 DEF Collectors
<1> QED
  BY <1>6, <1>7, <1>8, <1>9, <1>10 DEF ControllerInv

(* What reads only the controllers and their threads changes with them.    *)
LEMMA ControllersStay ==
  ASSUME ControllerInv, UNCHANGED <<server, holder, controller, of, pc, job>>
  PROVE  ControllerInv'
<1>1. Shapes'
  BY DEF ControllerInv, Shapes, Types
<1>2. CollectorsOK'
  BY DEF ControllerInv, CollectorsOK
<1>3. ThreadsOK'
  BY DEF ControllerInv, ThreadsOK
<1>4. OneEach'
  BY DEF ControllerInv, OneEach
<1>5. BusyHasThread'
  BY DEF ControllerInv, BusyHasThread
<1> QED
  BY <1>1, <1>2, <1>3, <1>4, <1>5 DEF ControllerInv

(* Every step keeps the controllers' invariant. *)
LEMMA ControllerStep == ControllerInv /\ [Next]_vars => ControllerInv'
<1> SUFFICES ASSUME ControllerInv, [Next]_vars PROVE ControllerInv'
  OBVIOUS
<1>1. ASSUME NEW p \in Collectors, Discover(p) PROVE ControllerInv'
  BY <1>1, ControllersStay DEF Discover, procs
<1>2. CASE UNCHANGED vars
  BY <1>2, ControllersStay DEF vars, procs
<1> QED
  BY <1>1, <1>2, ServerSteps, RequestSteps, CollectionSteps, StartSteps DEF Next, Collectors

(* A controller says queued or running exactly while one thread of it      *)
(* lives, and nobody collects without the lock.                            *)
THEOREM ControllersTell == Spec => []ControllerTells
<1>1. ASSUME ControllerInv PROVE ControllerTells
  <2> SUFFICES ASSUME NEW s \in Dashboards
               PROVE  LET mine == {p \in Threads : of[p] = s} IN
                      /\ Cardinality(mine) = IF controller[s] \in {"queued", "running"} THEN 1 ELSE 0
                      /\ \A p \in mine : pc[p] = "collecting" => holder = p /\ controller[s] = "running"
    BY DEF ControllerTells
  <2> DEFINE mine == {p \in Threads : of[p] = s}
  <2>1. \A p \in mine : /\ controller[s] \in Busy
                        /\ pc[p] = "collecting" => holder = p /\ controller[s] = "running"
    BY <1>1, DashboardConstants
       DEF ControllerInv, Shapes, CollectorsOK, ThreadsOK, OneEach, BusyHasThread, Busy,
           Collectors
  <2>2. CASE controller[s] \in Busy
    <3>1. PICK p \in Threads : of[p] = s
      BY <1>1, <2>2
         DEF ControllerInv, Shapes, CollectorsOK, ThreadsOK, OneEach, BusyHasThread
    <3>2. mine = {p}
      BY <1>1, <3>1, DashboardConstants
         DEF ControllerInv, Shapes, CollectorsOK, ThreadsOK, OneEach, BusyHasThread
    <3> QED
      BY <2>1, <2>2, <3>2, FS_Singleton DEF Busy
  <2>3. CASE controller[s] \notin Busy
    <3>1. mine = {}
      BY <2>1, <2>3
    <3> QED
      BY <2>1, <2>3, <3>1, FS_EmptySet DEF Busy
  <2> QED
    BY <2>2, <2>3
<1> QED
  BY <1>1, ControllerInit, ControllerStep, PTL DEF Spec
=============================================================================
