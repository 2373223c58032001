------------------------------- MODULE Outbox -------------------------------
(***************************************************************************)
(* The notification outbox of notifications/discord.py over the            *)
(* `notifications` table of core/store.py: discoveries queue a row in the  *)
(* transaction that stores them, drains post the queued rows to the        *)
(* webhook under the database's delivery grant, `test-notify` sends one    *)
(* marked message of its own, and an operator requeues failed rows and     *)
(* moves the activation cutoff.  Every database transaction, every POST    *)
(* and every lock operation is a step, so processes interleave between     *)
(* them and a process may die between any two.                             *)
(*                                                                         *)
(* Times are naturals.  A row with discoveredAt = NoTime is the marked     *)
(* test message (its discovered_at column is NULL); every other row is a   *)
(* discovery's.  notBefore = 0 stands for NULL: the clock starts at 0.     *)
(***************************************************************************)
EXTENDS Integers, FiniteSets

CONSTANTS
    Rows,               \* row ids, handed out in increasing order
    Drainers,           \* processes that call drain(): runs and `deliver`
    Testers,            \* processes that run `test-notify`
    MaxAttempts,        \* MAX_ATTEMPTS
    MaxRetryAfter,      \* MAX_RETRY_AFTER_SECONDS
    DefaultRetryAfter,  \* DEFAULT_RETRY_AFTER_SECONDS
    RetryHeaders,       \* the Retry-After headers a 429 may carry
    Aims,               \* where test sends go: the channel, a --webhook elsewhere
    NoHeader,           \* the header is absent, negative or junk
    NotANumber,         \* the header is "nan", which float() accepts
    NoTime, NoCutoff, Unreadable, Nobody,
    MaxClock, MaxCrashes, MaxRequeues, MaxCutoffs   \* bounds of the model

Procs  == Drainers \cup Testers
Times  == 0..MaxClock
Policy == Times \cup {NoCutoff, Unreadable}

ASSUME OutboxConstants ==
    /\ Rows \subseteq Nat
    /\ Drainers \cap Testers = {}
    /\ Nobody \notin Procs
    /\ MaxAttempts \in Nat \ {0}
    /\ MaxRetryAfter \in Nat
    /\ DefaultRetryAfter \in 0..MaxRetryAfter
    /\ RetryHeaders \subseteq Nat \cup {NoHeader, NotANumber}
    /\ {NoHeader, NotANumber} \cap Nat = {}
    /\ NoHeader # NotANumber
    /\ Aims \subseteq {"channel", "elsewhere"}
    /\ {NoTime, NoCutoff, Unreadable} \cap Nat = {}
    /\ NoCutoff # Unreadable
    /\ {MaxClock, MaxCrashes, MaxRequeues, MaxCutoffs} \subseteq Nat

VARIABLES
    status, discoveredAt, attempts, notBefore,  \* the notifications table
    policy,     \* the delivery_policy row of the activation cutoff
    grant,      \* who holds the .delivery.lock
    clock,      \* wall time
    pc, batch, answer,      \* a process: where it is, rows to go, POST result
    replay, cutoff, seen,   \* a drain: include_held, policy read, row snapshot
    aim,                    \* a test send: where it goes
    copies,     \* messages of a row that reached the channel
    unrecorded, \* of those, the ones no process will ever record as sent
    private,    \* test rows whose sender named an endpoint of its own
    overtaken,  \* the cutoff moved while the present drain held the grant
    crashes, requeues, cutoffs   \* how often each bounded event happened

table    == <<status, discoveredAt, attempts, notBefore>>
process  == <<pc, batch, answer, replay, cutoff, seen, aim>>
observed == <<copies, unrecorded, private, overtaken>>
counters == <<crashes, requeues, cutoffs>>
vars     == <<table, policy, grant, clock, process, observed, counters>>

Statuses == {"absent", "pending", "held", "sent", "failed"}
View     == [attempts : Nat, notBefore : Nat]
Blank    == [r \in Rows |-> [attempts |-> 0, notBefore |-> 0]]

IsDiscovery(r) == status[r] # "absent" /\ discoveredAt[r] # NoTime
IsTest(r)      == status[r] # "absent" /\ discoveredAt[r] = NoTime

TypeOK ==
    /\ status \in [Rows -> Statuses]
    /\ discoveredAt \in [Rows -> Times \cup {NoTime}]
    /\ attempts \in [Rows -> Nat]
    /\ notBefore \in [Rows -> Nat]
    /\ policy \in Policy
    /\ grant \in Procs \cup {Nobody}
    /\ clock \in Times
    /\ pc \in [Procs -> {"idle", "granted", "draining", "answered", "raised",
                         "queued", "posting", "tested"}]
    /\ batch \in [Procs -> SUBSET Rows]
    /\ answer \in [Procs -> {"none", "ok", "error"}]
    /\ replay \in [Procs -> BOOLEAN]
    /\ cutoff \in [Procs -> Policy]
    /\ seen \in [Procs -> [Rows -> View]]
    /\ aim \in [Procs -> {"channel", "elsewhere"}]
    /\ copies \in [Rows -> Nat]
    /\ unrecorded \in [Rows -> Nat]
    /\ private \subseteq Rows
    /\ overtaken \in BOOLEAN
    /\ crashes \in 0..MaxCrashes
    /\ requeues \in 0..MaxRequeues
    /\ cutoffs \in 0..MaxCutoffs

(* The store starts with an empty outbox, and with no cutoff or with one   *)
(* that another build or a hand edit left unreadable.                      *)
Init ==
    /\ status = [r \in Rows |-> "absent"]
    /\ discoveredAt = [r \in Rows |-> NoTime]
    /\ attempts = [r \in Rows |-> 0]
    /\ notBefore = [r \in Rows |-> 0]
    /\ policy \in {NoCutoff, Unreadable}
    /\ grant = Nobody
    /\ clock = 0
    /\ pc = [p \in Procs |-> "idle"]
    /\ batch = [p \in Procs |-> {}]
    /\ answer = [p \in Procs |-> "none"]
    /\ replay = [p \in Procs |-> FALSE]
    /\ cutoff = [p \in Procs |-> NoCutoff]
    /\ seen = [p \in Procs |-> Blank]
    /\ aim = [p \in Procs |-> "channel"]
    /\ copies = [r \in Rows |-> 0]
    /\ unrecorded = [r \in Rows |-> 0]
    /\ private = {}
    /\ overtaken = FALSE
    /\ crashes = 0 /\ requeues = 0 /\ cutoffs = 0

-----------------------------------------------------------------------------
(* The decisions the code takes.  Each variant beside a decision is the    *)
(* same line with a plausible slip; no action uses it.                     *)

(* delivery_policy.load_policy and decide: fail closed on a cutoff that    *)
(* cannot be read and on a row whose event time is unknown.                *)
DecideFailOpen(when, p) ==
    IF p \notin Times \/ when = NoTime \/ when >= p THEN "send" ELSE "hold"

Decide(when, p) ==
    IF p = Unreadable THEN "hold"
    ELSE IF p = NoCutoff \/ (when # NoTime /\ when >= p) THEN "send" ELSE "hold"

(* _parse_retry_after with the default of _post_webhook. *)
RetryAfterUnclamped(h) == IF h = NoHeader THEN DefaultRetryAfter ELSE h

RetryAfter(h) ==
    IF h = NoHeader THEN DefaultRetryAfter
    ELSE IF h <= MaxRetryAfter THEN h ELSE MaxRetryAfter

(* Whether one more failed attempt is the last.  n is the attempts column  *)
(* of the row as it was selected.                                          *)
ExhaustedLate(n) == n >= MaxAttempts

Exhausted(n) == n + 1 >= MaxAttempts

(* The statuses a drain selects. *)
SelectedAlways(held) == {"pending", "held"}
SelectedSentToo(held) == IF held THEN {"pending", "held", "sent"} ELSE {"pending"}

Selected(held) == IF held THEN {"pending", "held"} ELSE {"pending"}

(* The statuses --requeue-failed puts back in the queue. *)
RequeuedUnsent == {"failed", "held", "pending"}
RequeuedAny    == {"failed", "sent"}

Requeued == {"failed"}

(* Whether the file lock can be taken. *)
GrantIgnored == TRUE

GrantFree == grant = Nobody

IsOldest(r, S) == r \in S /\ \A q \in S : r <= q

(* SQLite hands out row ids in increasing order. *)
NextId(r) == status[r] = "absent" /\ \A q \in Rows : q < r => status[q] # "absent"

MarkCountsDown(r, s, n) ==
    /\ status' = [status EXCEPT ![r] = s]
    /\ attempts' = [attempts EXCEPT ![r] = @ - n]

MarkUncounted(r, s, n) ==
    /\ status' = [status EXCEPT ![r] = s]
    /\ attempts' = [attempts EXCEPT ![r] = IF s = "pending" THEN @ ELSE @ + n]

(* store.mark_notification: status and, unless the row is being held, one  *)
(* more attempt, in one transaction.                                       *)
Mark(r, s, n) ==
    /\ status' = [status EXCEPT ![r] = s]
    /\ attempts' = [attempts EXCEPT ![r] = @ + n]

(* The file lock goes with the process that holds it, however it ends. *)
Release(p) == grant' = IF grant = p THEN Nobody ELSE grant

(* A process that is done, or dead, keeps nothing. *)
Forget(p) ==
    /\ batch' = [batch EXCEPT ![p] = {}]
    /\ answer' = [answer EXCEPT ![p] = "none"]
    /\ replay' = [replay EXCEPT ![p] = FALSE]
    /\ cutoff' = [cutoff EXCEPT ![p] = NoCutoff]
    /\ seen' = [seen EXCEPT ![p] = Blank]
    /\ aim' = [aim EXCEPT ![p] = "channel"]

(* One POST of row r by p.  An error answer says nothing about arrival: a  *)
(* timeout or a 5xx may follow a message the channel already shows.        *)
PostAnswered(p, r) ==
    \/ /\ answer' = [answer EXCEPT ![p] = "ok"]
       /\ copies' = [copies EXCEPT ![r] = IF aim[p] = "channel" THEN @ + 1 ELSE @]
       /\ UNCHANGED unrecorded
    \/ /\ answer' = [answer EXCEPT ![p] = "error"]
       /\ UNCHANGED <<copies, unrecorded>>
    \/ /\ answer' = [answer EXCEPT ![p] = "error"]
       /\ aim[p] = "channel"
       /\ copies' = [copies EXCEPT ![r] = @ + 1]
       /\ unrecorded' = [unrecorded EXCEPT ![r] = @ + 1]

-----------------------------------------------------------------------------
(* save_run commits a discovery and its pending row together.  The event   *)
(* time was taken earlier in the run.                                      *)
Enqueue(r) ==
    /\ NextId(r)
    /\ status' = [status EXCEPT ![r] = "pending"]
    /\ \E t \in 0..clock : discoveredAt' = [discoveredAt EXCEPT ![r] = t]
    /\ UNCHANGED <<attempts, notBefore, policy, grant, clock, process, observed, counters>>

Tick ==
    /\ clock < MaxClock
    /\ clock' = clock + 1
    /\ UNCHANGED <<table, policy, grant, process, observed, counters>>

(* drain() takes the grant and reads the activation policy.  A busy grant  *)
(* or a missing webhook changes nothing.                                   *)
Acquire(p, held) ==
    /\ pc[p] \in {"idle", "raised"}
    /\ GrantFree
    /\ grant' = p
    /\ pc' = [pc EXCEPT ![p] = "granted"]
    /\ replay' = [replay EXCEPT ![p] = held]
    /\ cutoff' = [cutoff EXCEPT ![p] = policy]
    /\ overtaken' = FALSE
    /\ UNCHANGED <<table, policy, clock, batch, answer, seen, aim,
                   copies, unrecorded, private, counters>>

(* _selected_rows: the rows as they are now, read once for the whole drain. *)
SelectRows(p) ==
    /\ pc[p] = "granted"
    /\ pc' = [pc EXCEPT ![p] = "draining"]
    /\ batch' = [batch EXCEPT ![p] = {r \in Rows : status[r] \in Selected(replay[p])}]
    /\ seen' = [seen EXCEPT ![p] =
                  [r \in Rows |-> [attempts |-> attempts[r], notBefore |-> notBefore[r]]]]
    /\ UNCHANGED <<table, policy, grant, clock, answer, replay, cutoff, aim,
                   observed, counters>>

(* The row p is at in the loop of drain(), in id order. *)
AtRow(p, r) == pc[p] = "draining" /\ IsOldest(r, batch[p])

EligibleAlways(p, r) == TRUE

EligibleNow(p, r) == clock >= seen[p][r].notBefore

MaySend(p, r) == replay[p] \/ Decide(discoveredAt[r], cutoff[p]) = "send"

(* A retry floor is still in force: the row stays as it is. *)
SkipDeferred(p, r) ==
    /\ AtRow(p, r)
    /\ ~EligibleNow(p, r)
    /\ batch' = [batch EXCEPT ![p] = @ \ {r}]
    /\ UNCHANGED <<table, policy, grant, clock, pc, answer, replay, cutoff, seen, aim,
                   observed, counters>>

(* The activation policy keeps the row: held, no attempt counted. *)
Hold(p, r) ==
    /\ AtRow(p, r)
    /\ EligibleNow(p, r)
    /\ ~MaySend(p, r)
    /\ Mark(r, "held", 0)
    /\ batch' = [batch EXCEPT ![p] = @ \ {r}]
    /\ UNCHANGED <<discoveredAt, notBefore, policy, grant, clock, pc, answer, replay,
                   cutoff, seen, aim, observed, counters>>

Post(p, r) ==
    /\ AtRow(p, r)
    /\ EligibleNow(p, r)
    /\ MaySend(p, r)
    /\ PostAnswered(p, r)
    /\ pc' = [pc EXCEPT ![p] = "answered"]
    /\ UNCHANGED <<table, policy, grant, clock, batch, replay, cutoff, seen, aim,
                   private, overtaken, counters>>

(* A 429: the floor is stored at once and the drain stops; the attempts are  *)
(* left alone, so that nothing in the code ends a series of 429s.  (MaxClock *)
(* bounds the floors too; a header of 0 can still come at the last tick.)    *)
PostRateLimited(p, r) ==
    /\ AtRow(p, r)
    /\ EligibleNow(p, r)
    /\ MaySend(p, r)
    /\ \E h \in RetryHeaders \ {NotANumber} :
         /\ clock + RetryAfter(h) <= MaxClock
         /\ notBefore' = [notBefore EXCEPT ![r] = clock + RetryAfter(h)]
    /\ pc' = [pc EXCEPT ![p] = "idle"]
    /\ Forget(p)
    /\ Release(p)
    /\ UNCHANGED <<status, discoveredAt, attempts, policy, clock, observed, counters>>

(* A 429 whose Retry-After is "nan" passes the clamp, and timedelta(seconds= *)
(* nan) raises out of drain(): the grant is released and nothing is stored.  *)
PostRateLimitedNaN(p, r) ==
    /\ AtRow(p, r)
    /\ EligibleNow(p, r)
    /\ MaySend(p, r)
    /\ NotANumber \in RetryHeaders
    /\ pc' = [pc EXCEPT ![p] = "raised"]
    /\ Forget(p)
    /\ Release(p)
    /\ UNCHANGED <<table, policy, clock, observed, counters>>

RecordOutcome(p, r) ==
    /\ pc[p] = "answered"
    /\ IsOldest(r, batch[p])
    /\ \/ answer[p] = "ok" /\ Mark(r, "sent", 1)
       \/ /\ answer[p] = "error"
          /\ Mark(r, IF Exhausted(seen[p][r].attempts) THEN "failed" ELSE "pending", 1)
    /\ batch' = [batch EXCEPT ![p] = @ \ {r}]
    /\ pc' = [pc EXCEPT ![p] = "draining"]
    /\ answer' = [answer EXCEPT ![p] = "none"]
    /\ UNCHANGED <<discoveredAt, notBefore, policy, grant, clock, replay, cutoff, seen, aim,
                   observed, counters>>

Finish(p) ==
    /\ pc[p] = "draining"
    /\ batch[p] = {}
    /\ pc' = [pc EXCEPT ![p] = "idle"]
    /\ Forget(p)
    /\ Release(p)
    /\ UNCHANGED <<table, policy, clock, observed, counters>>

-----------------------------------------------------------------------------
(* enqueue_test commits a pending row first, then tries to deliver it.     *)
PutTest(p, r, a) ==
    /\ pc[p] = "idle"
    /\ NextId(r)
    /\ status' = [status EXCEPT ![r] = "pending"]
    /\ batch' = [batch EXCEPT ![p] = {r}]
    /\ aim' = [aim EXCEPT ![p] = a]
    /\ private' = IF a = "elsewhere" THEN private \cup {r} ELSE private
    /\ pc' = [pc EXCEPT ![p] = "queued"]
    /\ UNCHANGED <<discoveredAt, attempts, notBefore, policy, grant, clock, answer, replay,
                   cutoff, seen, copies, unrecorded, overtaken, counters>>

(* No webhook: the row is marked failed, without the grant. *)
TestUnconfigured(p, r) ==
    /\ pc[p] = "queued"
    /\ aim[p] = "channel"
    /\ IsOldest(r, batch[p])
    /\ Mark(r, "failed", 1)
    /\ pc' = [pc EXCEPT ![p] = "idle"]
    /\ Forget(p)
    /\ UNCHANGED <<discoveredAt, notBefore, policy, grant, clock, observed, counters>>

(* The grant is taken: the row stays pending for a later drain. *)
TestBusy(p) ==
    /\ pc[p] = "queued"
    /\ ~GrantFree
    /\ pc' = [pc EXCEPT ![p] = "idle"]
    /\ Forget(p)
    /\ UNCHANGED <<table, policy, grant, clock, observed, counters>>

TestAcquire(p) ==
    /\ pc[p] = "queued"
    /\ GrantFree
    /\ grant' = p
    /\ pc' = [pc EXCEPT ![p] = "posting"]
    /\ overtaken' = FALSE
    /\ UNCHANGED <<table, policy, clock, batch, answer, replay, cutoff, seen, aim,
                   copies, unrecorded, private, counters>>

(* The message goes out whatever happened to the row, and the grant is     *)
(* given back before the outcome is stored.                                *)
TestPost(p, r) ==
    /\ pc[p] = "posting"
    /\ IsOldest(r, batch[p])
    /\ PostAnswered(p, r)
    /\ pc' = [pc EXCEPT ![p] = "tested"]
    /\ Release(p)
    /\ UNCHANGED <<table, policy, clock, batch, replay, cutoff, seen, aim,
                   private, overtaken, counters>>

TestRecord(p, r) ==
    /\ pc[p] = "tested"
    /\ IsOldest(r, batch[p])
    /\ Mark(r, IF answer[p] = "ok" THEN "sent" ELSE "failed", 1)
    /\ pc' = [pc EXCEPT ![p] = "idle"]
    /\ Forget(p)
    /\ UNCHANGED <<discoveredAt, notBefore, policy, grant, clock, observed, counters>>

-----------------------------------------------------------------------------
(* The channel accepted r from p, and p has not stored it yet. *)
Unsaved(p, r) == answer[p] = "ok" /\ aim[p] = "channel" /\ IsOldest(r, batch[p])

(* A kill, a reboot, or a database error raised by a mark: the process is  *)
(* gone and a success it had not stored is never stored.                   *)
Crash(p) ==
    /\ pc[p] \notin {"idle", "raised"}
    /\ crashes < MaxCrashes
    /\ crashes' = crashes + 1
    /\ pc' = [pc EXCEPT ![p] = "idle"]
    /\ unrecorded' = [r \in Rows |-> IF Unsaved(p, r) THEN unrecorded[r] + 1
                                                     ELSE unrecorded[r]]
    /\ Forget(p)
    /\ Release(p)
    /\ UNCHANGED <<table, policy, clock, copies, private, overtaken, requeues, cutoffs>>

(* deliver --requeue-failed: one UPDATE, without the grant. *)
RequeueFailed ==
    /\ requeues < MaxRequeues
    /\ requeues' = requeues + 1
    /\ LET back == {r \in Rows : status[r] \in Requeued} IN
         /\ back # {}
         /\ status' = [r \in Rows |-> IF r \in back THEN "pending" ELSE status[r]]
         /\ attempts' = [r \in Rows |-> IF r \in back THEN 0 ELSE attempts[r]]
         /\ notBefore' = [r \in Rows |-> IF r \in back THEN 0 ELSE notBefore[r]]
    /\ UNCHANGED <<discoveredAt, policy, grant, clock, process, observed, crashes, cutoffs>>

(* delivery-activation --set: one upsert, without the grant. *)
SetCutoff(c) ==
    /\ cutoffs < MaxCutoffs
    /\ cutoffs' = cutoffs + 1
    /\ policy' = c
    /\ overtaken' = (grant # Nobody)
    /\ UNCHANGED <<table, grant, clock, process, copies, unrecorded, private,
                   crashes, requeues>>

DrainStep(p) ==
    \/ SelectRows(p)
    \/ \E r \in Rows : SkipDeferred(p, r) \/ Hold(p, r) \/ Post(p, r)
                       \/ PostRateLimited(p, r) \/ PostRateLimitedNaN(p, r)
                       \/ RecordOutcome(p, r)
    \/ Finish(p)

TestStep(p) ==
    \/ TestBusy(p)
    \/ TestAcquire(p)
    \/ \E r \in Rows : TestUnconfigured(p, r) \/ TestPost(p, r) \/ TestRecord(p, r)

Next ==
    \/ \E r \in Rows : Enqueue(r)
    \/ Tick
    \/ \E p \in Drainers, held \in BOOLEAN : Acquire(p, held)
    \/ \E p \in Drainers : DrainStep(p)
    \/ \E p \in Testers, r \in Rows, a \in Aims : PutTest(p, r, a)
    \/ \E p \in Testers : TestStep(p)
    \/ \E p \in Procs : Crash(p)
    \/ RequeueFailed
    \/ \E c \in Times : SetCutoff(c)

Spec == Init /\ [][Next]_vars

(* Every process that has begun goes on, time passes, and the scheduled    *)
(* runs keep draining: each try gives up when the grant is taken, but the  *)
(* schedule finds it free again and again.                                 *)
Fairness ==
    /\ WF_vars(Tick)
    /\ \A p \in Drainers : WF_vars(DrainStep(p)) /\ SF_vars(Acquire(p, FALSE))
    /\ \A p \in Testers : WF_vars(TestStep(p))

FairSpec == Spec /\ Fairness

-----------------------------------------------------------------------------
(* The delivery grant excludes: whoever is between taking it and giving it *)
(* back is its holder, so no two senders are ever in that section at once  *)
(* (discord.py _hold_lock, drain, enqueue_test).                           *)
InGrant(p) == pc[p] \in {"granted", "draining", "answered", "posting"}

GrantExclusion == \A p \in Procs : InGrant(p) <=> grant = p

(* Where a process is decides what it may carry: only a drain past its     *)
(* selection has rows, only an answered POST an answer, and a test send    *)
(* touches its own marked row.  With GrantExclusion this is the part of    *)
(* the inductive invariant that is about control.                          *)
ProcessShape ==
    /\ \A p \in Drainers :
         /\ pc[p] \in {"idle", "granted", "draining", "answered", "raised"}
         /\ aim[p] = "channel"
         /\ pc[p] \in {"idle", "granted", "raised"} => batch[p] = {}
         /\ pc[p] = "answered" <=> answer[p] # "none"
         /\ \A r \in batch[p] : status[r] # "absent"
    /\ \A p \in Testers :
         /\ pc[p] \in {"idle", "queued", "posting", "tested"}
         /\ pc[p] = "idle" => batch[p] = {}
         /\ pc[p] = "tested" <=> answer[p] # "none"
         /\ \A r \in batch[p] : IsTest(r)
    /\ \A r \in Rows : status[r] = "absent" =>
         /\ discoveredAt[r] = NoTime
         /\ attempts[r] = 0
         /\ copies[r] = 0
         /\ unrecorded[r] = 0

(* What a drain read when it selected its rows is still true of every      *)
(* discovery it has not reached, although requeues, test sends and cutoff  *)
(* changes do not take the grant (drain's use of `row` long after          *)
(* _selected_rows).                                                        *)
SnapshotFresh ==
    \A p \in Drainers : \A r \in batch[p] :
        IsDiscovery(r) =>
            /\ status[r] \in Selected(replay[p])
            /\ attempts[r] = seen[p][r].attempts
            /\ notBefore[r] = seen[p][r].notBefore

(* The channel shows a discovery once, plus once for each arrival whose    *)
(* acknowledgement was lost (crash before the mark, error answer after     *)
(* arrival): the module docstring's "exactly the ambiguous window".        *)
Awaited(r) == \E p \in Drainers : Unsaved(p, r)

DuplicatesExplained ==
    \A r \in Rows : IsDiscovery(r) =>
        copies[r] = unrecorded[r] + (IF status[r] = "sent" \/ Awaited(r) THEN 1 ELSE 0)

(* A discovery is retried while it has attempts left and is failed exactly *)
(* when they are used up; holding, deferring and crashing cost none.       *)
RetryBudget ==
    \A r \in Rows : IsDiscovery(r) =>
        /\ attempts[r] <= MaxAttempts
        /\ status[r] \in {"pending", "held"} => attempts[r] < MaxAttempts
        /\ status[r] = "failed" => attempts[r] = MaxAttempts

(* No 429 parks a row for longer than the ceiling, whatever its header. *)
RetryFloorBounded == \A r \in Rows : notBefore[r] <= clock + MaxRetryAfter

(* A discovery recorded as sent stays so, in every later step of any       *)
(* process.                                                                *)
SentKept == \A r \in Rows : IsDiscovery(r) /\ status[r] = "sent" => status'[r] = "sent"

SentIsFinal == [][SentKept]_vars

(* A held discovery leaves `held` only through a drain with include_held.  *)
HeldKept ==
    \A r \in Rows : IsDiscovery(r) /\ status[r] = "held" /\ status'[r] # "held" =>
        \E p \in Drainers : replay[p] /\ grant = p

HeldUntilReplayed == [][HeldKept]_vars

(* The channel gets no copy of a discovery inside its retry floor. *)
FloorKept ==
    \A r \in Rows : IsDiscovery(r) /\ copies'[r] > copies[r] => clock >= notBefore[r]

FloorRespected == [][FloorKept]_vars

(* A discovery older than the installed cutoff, and any discovery under an *)
(* unreadable one, reaches the channel only through a replay or through a  *)
(* drain that was already under way when the cutoff moved.                 *)
CutoffKept ==
    \A r \in Rows :
        (/\ IsDiscovery(r)
         /\ copies'[r] > copies[r]
         /\ \/ policy = Unreadable
            \/ policy \in Times /\ discoveredAt[r] < policy)
        => overtaken \/ \E p \in Drainers : replay[p] /\ grant = p

CutoffRespected == [][CutoffKept]_vars

(* No row waits for ever, if Discord stops answering 429 one day: each      *)
(* queued one is then sent, held or failed (drain works in id order, skips *)
(* floors and stops at a 429).  Without that the head of the queue, and    *)
(* all rows behind it, may stay pending for good: a 429 uses up no attempt.*)
RateLimit == \E p \in Drainers, r \in Rows : PostRateLimited(p, r) \/ PostRateLimitedNaN(p, r)
LimitsEnd == <>[][~ RateLimit]_vars

QueueSettles ==
    LimitsEnd => \A r \in Rows : (status[r] = "pending") ~> (status[r] # "pending")

QueueSettlesAnyway == \A r \in Rows : (status[r] = "pending") ~> (status[r] # "pending")

(* The contract of DeliveryContract, for the discoveries' rows: a row that *)
(* is not a discovery's does not exist for it.                             *)
Phase == [r \in Rows |-> IF IsDiscovery(r) THEN status[r] ELSE "absent"]
Shown == [r \in Rows |-> IF IsDiscovery(r) THEN copies[r] ELSE 0]
Lost  == [r \in Rows |-> IF IsDiscovery(r) THEN unrecorded[r] ELSE 0]
Open  == {r \in Rows : IsDiscovery(r) /\ Awaited(r)}

Contract == INSTANCE DeliveryContract WITH
    Items <- Rows, phase <- Phase, shown <- Shown, lost <- Lost, open <- Open

ImplementsContract == Contract!Spec

-----------------------------------------------------------------------------
(* What the documentation says of every row, the marked test message       *)
(* included.                                                               *)

(* discord.py:16-20: two overlapping senders cannot both post one row. *)
NeverBothPost == \A r \in Rows : copies[r] <= unrecorded[r] + 1

(* cli.py:135-138: a test aimed elsewhere does not reach the configured    *)
(* channel without approval.                                               *)
PrivateStaysOut == \A r \in private : copies[r] = 0

(* discord.py:449-451: drain never raises. *)
DrainNeverRaises == \A p \in Drainers : pc[p] # "raised"
=============================================================================
