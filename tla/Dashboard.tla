----------------------------- MODULE Dashboard ------------------------------
(***************************************************************************)
(* The local dashboards (dashboard.py) over one database: the requests     *)
(* their handler threads serve, the collections they start                 *)
(* (local_collection.py), and the archive of QC decisions (qc_archive.py), *)
(* a second SQLite file.  Several dashboards and a `run` of the command    *)
(* line may share the database; one run lock keeps their collections       *)
(* apart.                                                                  *)
(*                                                                         *)
(* A request is a handler thread of ThreadingHTTPServer; every SELECT,     *)
(* INSERT, lock operation and change of the controller's state is a step.  *)
(* What a collection does is CollectionRun's; here it commits discoveries, *)
(* numbered as they are committed and never deleted.                       *)
(***************************************************************************)
EXTENDS Naturals, FiniteSets

CONSTANTS
    Dashboards,     \* processes that call serve
    Operators,      \* those launched with local_operator
    Requests,       \* handler threads
    Threads,        \* threads of the collection controllers
    Commands,       \* processes that call `run`
    Decisions,      \* QC_DECISIONS
    Limit,          \* newest discoveries _active_queue looks at (200)
    None, Nobody,
    MaxFound, MaxRequests, MaxCrashes    \* bounds of the model

Collectors == Requests \cup Threads \cup Commands
Ids == 1..MaxFound

ASSUME DashboardConstants ==
    /\ Requests \cap Threads = {} /\ (Requests \cup Threads) \cap Commands = {}
    /\ Operators \subseteq Dashboards
    /\ Nobody \notin Collectors /\ Nobody \notin Dashboards /\ None \notin Decisions
    /\ {Limit, MaxFound, MaxRequests, MaxCrashes} \subseteq Nat

VARIABLES
    server,     \* each dashboard: "down", a stage of its start, "up" or "refused"
    schema,     \* qc-archive file: "absent", "empty", its "table", "indexed"
    decided,    \* qc_decisions
    found,      \* the number of rows of discoveries
    holder,     \* who holds the run lock
    controller, \* _state["state"] of each dashboard's controller
    of,         \* the dashboard a request or thread belongs to
    pc, job,
    answers,    \* the answers to decisions that were given
    page,       \* the last queue that was shown, and how many rows there were
    asked, crashes

archive == <<schema, decided>>
procs   == <<of, pc, job>>
shown   == <<answers, page>>
bounds  == <<asked, crashes>>
vars    == <<server, archive, found, holder, controller, procs, shown, bounds>>

NoJob == [id |-> 0, decision |-> None, outcome |-> None, seen |-> {}]

Init ==
    /\ server = [s \in Dashboards |-> "down"]
    /\ schema = "absent" /\ decided = [d \in Ids |-> None]
    /\ found = 0
    /\ holder = Nobody
    /\ controller = [s \in Dashboards |-> "idle"]
    /\ of = [p \in Collectors |-> Nobody]
    /\ pc = [p \in Collectors |-> "idle"]
    /\ job = [p \in Collectors |-> NoJob]
    /\ answers = {} /\ page = [items |-> {}, rows |-> 0]
    /\ asked = 0 /\ crashes = 0

Goto(p, from, to) == pc[p] = from /\ pc' = [pc EXCEPT ![p] = to]

-----------------------------------------------------------------------------
(* serve and QCArchive.migrate: look, create, and look again.              *)

FreshOnlyAbsent == schema = "absent"
Fresh == schema \in {"absent", "empty"}
Compatible == schema \in {"table", "indexed"}
Inspected == IF Compatible THEN "up" ELSE "refused"

Stage(s, from, to) == server[s] = from /\ server' = [server EXCEPT ![s] = to]

Launch(s) ==
    /\ Stage(s, "down", IF Fresh THEN "opening" ELSE Inspected)
    /\ controller' = [controller EXCEPT ![s] = "idle"]
    /\ UNCHANGED <<archive, found, holder, procs, shown, bounds>>

(* sqlite3.connect makes the file, executescript its table and indexes. *)
OpenArchive(s) ==
    /\ Stage(s, "opening", "creating")
    /\ schema' = IF schema = "absent" THEN "empty" ELSE schema
    /\ UNCHANGED <<decided, found, holder, controller, procs, shown, bounds>>

CreateTable(s) ==
    /\ Stage(s, "creating", "indexing")
    /\ schema' = IF schema = "empty" THEN "table" ELSE schema
    /\ UNCHANGED <<decided, found, holder, controller, procs, shown, bounds>>

CreateIndexes(s) ==
    /\ Stage(s, "indexing", Inspected)
    /\ schema' = IF schema = "table" THEN "indexed" ELSE schema
    /\ UNCHANGED <<decided, found, holder, controller, procs, shown, bounds>>

-----------------------------------------------------------------------------
(* Requests.  A POST needs a local operator.                               *)

Ask(p, s, stage, request) ==
    /\ asked < MaxRequests
    /\ server[s] = "up"
    /\ Goto(p, "idle", stage)
    /\ of' = [of EXCEPT ![p] = s]
    /\ job' = [job EXCEPT ![p] = request]
    /\ asked' = asked + 1
    /\ UNCHANGED <<server, archive, found, holder, controller, shown, crashes>>

AskQueue(p, s) == Ask(p, s, "queueing", NoJob)

AskRun(p, s) == s \in Operators /\ Ask(p, s, "locking", NoJob)

AskDecision(p, s, d, v) ==
    /\ s \in Operators
    /\ Ask(p, s, "finding", [NoJob EXCEPT !.id = d, !.decision = v])

Done(p) ==
    /\ pc' = [pc EXCEPT ![p] = "idle"]
    /\ job' = [job EXCEPT ![p] = NoJob]
    /\ of' = [of EXCEPT ![p] = Nobody]

(* _active_queue: the decided ids first, then the newest rows. *)
Settled == {d \in Ids : decided[d] # None}
Newest(n) == {d \in 1..n : n < d + Limit}

ReadDecided(p) ==
    /\ Goto(p, "queueing", "listing")
    /\ job' = [job EXCEPT ![p].seen = Settled]
    /\ UNCHANGED <<server, archive, found, holder, controller, of, shown, bounds>>

Queue(p) == Newest(found) \ job[p].seen

ShowQueue(p) ==
    /\ pc[p] = "listing"
    /\ page' = [items |-> Queue(p), rows |-> found]
    /\ Done(p)
    /\ UNCHANGED <<server, archive, found, holder, controller, answers, bounds>>

-----------------------------------------------------------------------------
(* A decision: find the row, insert, and read the other's when the unique  *)
(* constraint refuses.                                                     *)

Answer(p, status, decision) ==
    answers' = answers \cup {[id |-> job[p].id, status |-> status, decision |-> decision]}

FindDiscovery(p) ==
    /\ pc[p] = "finding"
    /\ \/ /\ job[p].id <= found
          /\ Goto(p, "finding", "deciding")
          /\ UNCHANGED <<of, job, answers>>
       \/ /\ job[p].id > found
          /\ Answer(p, 404, None)
          /\ Done(p)
    /\ UNCHANGED <<server, archive, found, holder, controller, page, bounds>>

MayReplace(d) == TRUE
MayInsert(d) == decided[d] = None

Decide(p) ==
    /\ pc[p] = "deciding"
    /\ MayInsert(job[p].id)
    /\ decided' = [decided EXCEPT ![job[p].id] = job[p].decision]
    /\ Answer(p, 200, job[p].decision)
    /\ Done(p)
    /\ UNCHANGED <<server, schema, found, holder, controller, page, bounds>>

AlreadyDecided(p) ==
    /\ Goto(p, "deciding", "conflicting")
    /\ ~ MayInsert(job[p].id)
    /\ UNCHANGED <<server, archive, found, holder, controller, of, job, shown, bounds>>

DecisionFor(p) ==
    /\ pc[p] = "conflicting"
    /\ Answer(p, 409, decided[job[p].id])
    /\ Done(p)
    /\ UNCHANGED <<server, archive, found, holder, controller, page, bounds>>

-----------------------------------------------------------------------------
(* Collections: a request's run_finalized, a controller's thread, or the   *)
(* command line, each under the run lock.                                  *)

Command(p) ==
    /\ asked < MaxRequests
    /\ Goto(p, "idle", "locking")
    /\ asked' = asked + 1
    /\ UNCHANGED <<server, archive, found, holder, controller, of, job, shown, crashes>>

StartsAlways(s) == TRUE
MayStart(s) == controller[s] \notin {"queued", "running"}

(* LocalCollectionController.start, under its guard; then the thread. *)
Start(s, p) ==
    /\ asked < MaxRequests
    /\ server[s] = "up"
    /\ MayStart(s)
    /\ controller' = [controller EXCEPT ![s] = "queued"]
    /\ Goto(p, "idle", "queued")
    /\ of' = [of EXCEPT ![p] = s]
    /\ asked' = asked + 1
    /\ UNCHANGED <<server, archive, found, holder, job, shown, crashes>>

RunThread(p) ==
    /\ Goto(p, "queued", "locking")
    /\ controller' = [controller EXCEPT ![of[p]] = "running"]
    /\ UNCHANGED <<server, archive, found, holder, of, job, shown, bounds>>

Acquire(p) ==
    /\ holder = Nobody
    /\ holder' = p
    /\ Goto(p, "locking", "collecting")
    /\ UNCHANGED <<server, archive, found, controller, of, job, shown, bounds>>

Refused(p) ==
    /\ holder # Nobody
    /\ Goto(p, "locking", "reporting")
    /\ job' = [job EXCEPT ![p].outcome = "already_running"]
    /\ UNCHANGED <<server, archive, found, holder, controller, of, shown, bounds>>

Discover(p) ==
    /\ pc[p] = "collecting"
    /\ found < MaxFound
    /\ found' = found + 1
    /\ UNCHANGED <<server, archive, holder, controller, procs, shown, bounds>>

(* The last collector ended, or the store was refused, or anything raised. *)
Release(p, outcome) ==
    /\ Goto(p, "collecting", "reporting")
    /\ holder' = Nobody
    /\ job' = [job EXCEPT ![p].outcome = outcome]
    /\ UNCHANGED <<server, archive, found, controller, of, shown, bounds>>

(* What the controller says, or the response to the request. *)
OutcomeUnlessRefused(p) ==
    IF job[p].outcome = "already_running" THEN controller[of[p]] ELSE job[p].outcome
Outcome(p) == job[p].outcome

Report(p) ==
    /\ pc[p] = "reporting"
    /\ controller' = IF p \in Threads THEN [controller EXCEPT ![of[p]] = Outcome(p)]
                     ELSE controller
    /\ Done(p)
    /\ UNCHANGED <<server, archive, found, holder, shown, bounds>>

-----------------------------------------------------------------------------
(* A dashboard is closed or killed with all its threads.                   *)
Dead(s) == {p \in Collectors : of[p] = s}

Close(s) ==
    /\ crashes < MaxCrashes
    /\ server[s] # "down"
    /\ server' = [server EXCEPT ![s] = "down"]
    /\ controller' = [controller EXCEPT ![s] = "idle"]
    /\ pc' = [p \in Collectors |-> IF p \in Dead(s) THEN "idle" ELSE pc[p]]
    /\ job' = [p \in Collectors |-> IF p \in Dead(s) THEN NoJob ELSE job[p]]
    /\ of' = [p \in Collectors |-> IF p \in Dead(s) THEN Nobody ELSE of[p]]
    /\ holder' = IF holder \in Dead(s) THEN Nobody ELSE holder
    /\ crashes' = crashes + 1
    /\ UNCHANGED <<archive, found, shown, asked>>

Serve(s) ==
    \/ Launch(s)
    \/ OpenArchive(s)
    \/ CreateTable(s)
    \/ CreateIndexes(s)

Request(p) ==
    \E s \in Dashboards :
        \/ AskQueue(p, s)
        \/ AskRun(p, s)
        \/ \E d \in Ids, v \in Decisions : AskDecision(p, s, d, v)

Handle(p) ==
    \/ ReadDecided(p)
    \/ ShowQueue(p)
    \/ FindDiscovery(p)
    \/ Decide(p)
    \/ AlreadyDecided(p)
    \/ DecisionFor(p)

Collection(p) ==
    \/ RunThread(p)
    \/ Acquire(p)
    \/ Refused(p)
    \/ \E o \in {"success", "degraded", "failed"} : Release(p, o)
    \/ Report(p)

Next ==
    \/ \E s \in Dashboards : Serve(s) \/ Close(s)
    \/ \E p \in Requests : Request(p) \/ Handle(p)
    \/ \E s \in Dashboards, p \in Threads : Start(s, p)
    \/ \E p \in Commands : Command(p)
    \/ \E p \in Collectors : Collection(p) \/ Discover(p)

Spec == Init /\ [][Next]_vars

(* A thread that was started goes on until it ends. *)
FairSpec == Spec /\ \A p \in Collectors : WF_vars(Collection(p))

-----------------------------------------------------------------------------
(* A discovery gets one decision, for good: who was told 200 decided it,   *)
(* nobody else did, and who was told 409 was told what stands, however the *)
(* two requests interleave and whether dashboards restart in between       *)
(* (the unique constraint of qc_decisions; the 409 of do_POST).            *)
AnswersStand ==
    \A a \in answers :
        /\ a.status \in {200, 409} => a.decision # None /\ decided[a.id] = a.decision
        /\ a.status = 404 => a.decision = None

(* Dashboards that start together on no archive, or on one a killed start  *)
(* left empty or without indexes, all come up (QCArchive.migrate).         *)
ArchivesOpen ==
    \A s \in Dashboards :
        /\ server[s] # "refused"
        /\ server[s] = "up" => schema \in {"table", "indexed"}

(* A controller says queued or running exactly while one thread of it      *)
(* lives, and nobody collects without the lock (start, _run).              *)
ControllerTells ==
    \A s \in Dashboards :
        LET mine == {p \in Threads : of[p] = s} IN
        /\ Cardinality(mine) = IF controller[s] \in {"queued", "running"} THEN 1 ELSE 0
        /\ \A p \in mine : pc[p] = "collecting" => holder = p /\ controller[s] = "running"

(* A collection that was started is reported, whoever holds the lock       *)
(* (every except branch of _run sets a final state).                       *)
CollectionsSettle ==
    \A s \in Dashboards : controller[s] = "queued" ~> controller[s] \notin {"queued", "running"}

(* What _active_queue says of its page: the discoveries without a decision, *)
(* nothing excluded but the decided ones.                                  *)
QueueHoldsUndecided == (1..page.rows) \ Settled \subseteq page.items
=============================================================================
