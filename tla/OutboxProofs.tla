---------------------------- MODULE OutboxProofs ----------------------------
(***************************************************************************)
(* Theorems about Outbox, for every number of rows, processes, attempts    *)
(* and faults: the grant, what a drain read, copies and attempts; then     *)
(* retry floors and the activation cutoff; and that the outbox implements  *)
(* DeliveryContract.                                                       *)
(***************************************************************************)
EXTENDS Outbox, TLAPS

(* A clamped Retry-After is a whole number of ticks. *)
LEMMA RetryAfterType ==
  ASSUME NEW h \in RetryHeaders \ {NotANumber}
  PROVE  RetryAfter(h) \in 0..MaxRetryAfter
  BY OutboxConstants DEF RetryAfter

(* A process that forgets is left with well-typed nothing. *)
LEMMA ForgetType ==
  ASSUME TypeOK, NEW p \in Procs, Forget(p)
  PROVE  /\ batch' \in [Procs -> SUBSET Rows]
         /\ answer' \in [Procs -> {"none", "ok", "error"}]
         /\ replay' \in [Procs -> BOOLEAN]
         /\ cutoff' \in [Procs -> Policy]
         /\ seen' \in [Procs -> [Rows -> View]]
         /\ aim' \in [Procs -> {"channel", "elsewhere"}]
  <1>1. Blank \in [Rows -> View] /\ NoCutoff \in Policy
    BY DEF Blank, View, Policy
  <1> QED
    BY <1>1 DEF TypeOK, Forget

(* Marking a row keeps the types of the two columns it writes. *)
LEMMA MarkType ==
  ASSUME TypeOK, NEW r \in Rows, NEW s \in Statuses, NEW n \in {0, 1}, Mark(r, s, n)
  PROVE  status' \in [Rows -> Statuses] /\ attempts' \in [Rows -> Nat]
  BY DEF TypeOK, Mark

(* A POST keeps the types of its answer and of the counts of copies. *)
LEMMA PostType ==
  ASSUME TypeOK, NEW p \in Procs, NEW r \in Rows, PostAnswered(p, r)
  PROVE  /\ answer' \in [Procs -> {"none", "ok", "error"}]
         /\ copies' \in [Rows -> Nat]
         /\ unrecorded' \in [Rows -> Nat]
  <1>1. copies \in [Rows -> Nat] /\ unrecorded \in [Rows -> Nat]
        /\ answer \in [Procs -> {"none", "ok", "error"}]
    BY DEF TypeOK
  <1>2. CASE answer' = [answer EXCEPT ![p] = "ok"] /\ UNCHANGED unrecorded
             /\ copies' = [copies EXCEPT ![r] = IF aim[p] = "channel" THEN @ + 1 ELSE @]
    <2>1. CASE aim[p] = "channel"
      BY <1>1, <1>2, <2>1
    <2>2. CASE aim[p] # "channel"
      BY <1>1, <1>2, <2>2
    <2> QED
      BY <2>1, <2>2
  <1> QED
    BY <1>1, <1>2 DEF PostAnswered

(* Releasing leaves the grant with a process or with nobody. *)
LEMMA ReleaseType ==
  ASSUME TypeOK, NEW p \in Procs, Release(p)
  PROVE  grant' \in Procs \cup {Nobody}
  BY DEF TypeOK, Release

(* The initial states are well typed. *)
LEMMA TypeInit == Init => TypeOK
  <1>1. 0 \in Times /\ 0 \in 0..MaxCrashes /\ 0 \in 0..MaxRequeues /\ 0 \in 0..MaxCutoffs
    BY OutboxConstants DEF Times
  <1>2. Blank \in [Rows -> View]
    BY DEF Blank, View
  <1> SUFFICES ASSUME Init PROVE TypeOK
    OBVIOUS
  <1>3. /\ status \in [Rows -> Statuses]
        /\ discoveredAt \in [Rows -> Times \cup {NoTime}]
        /\ attempts \in [Rows -> Nat] /\ notBefore \in [Rows -> Nat]
        /\ copies \in [Rows -> Nat] /\ unrecorded \in [Rows -> Nat]
    BY DEF Init, Statuses
  <1>4. /\ pc \in [Procs -> {"idle", "granted", "draining", "answered", "raised",
                              "queued", "posting", "tested"}]
        /\ batch \in [Procs -> SUBSET Rows]
        /\ answer \in [Procs -> {"none", "ok", "error"}]
        /\ replay \in [Procs -> BOOLEAN]
        /\ aim \in [Procs -> {"channel", "elsewhere"}]
    BY DEF Init
  <1>5. /\ cutoff \in [Procs -> Policy]
        /\ seen \in [Procs -> [Rows -> View]]
    BY <1>2 DEF Init, Policy
  <1> QED
    BY <1>1, <1>3, <1>4, <1>5 DEF Init, TypeOK, Policy

(* Every step keeps every type. *)
LEMMA TypeStep == TypeOK /\ [Next]_vars => TypeOK'
<1> SUFFICES ASSUME TypeOK, [Next]_vars PROVE TypeOK'
  OBVIOUS
<1> USE DEF table, process, observed, counters, Procs, Statuses
<1>1. ASSUME NEW r \in Rows, Enqueue(r) PROVE TypeOK'
  BY <1>1, OutboxConstants DEF TypeOK, Enqueue, Times
<1>2. CASE Tick
  BY <1>2, OutboxConstants DEF TypeOK, Tick, Times
<1>3. ASSUME NEW p \in Drainers, NEW held \in BOOLEAN, Acquire(p, held) PROVE TypeOK'
  BY <1>3 DEF TypeOK, Acquire
<1>4. ASSUME NEW p \in Drainers, SelectRows(p) PROVE TypeOK'
  <2>1. [r \in Rows |-> [attempts |-> attempts[r], notBefore |-> notBefore[r]]]
          \in [Rows -> View]
    BY DEF TypeOK, View
  <2> QED
    BY <1>4, <2>1 DEF TypeOK, SelectRows
<1>5. ASSUME NEW p \in Drainers, NEW r \in Rows, SkipDeferred(p, r) PROVE TypeOK'
  BY <1>5 DEF TypeOK, SkipDeferred
<1>6. ASSUME NEW p \in Drainers, NEW r \in Rows, Hold(p, r) PROVE TypeOK'
  BY <1>6, MarkType DEF TypeOK, Hold
<1>7. ASSUME NEW p \in Drainers, NEW r \in Rows, Post(p, r) PROVE TypeOK'
  BY <1>7, PostType DEF TypeOK, Post
<1>8. ASSUME NEW p \in Drainers, NEW r \in Rows, PostRateLimited(p, r) PROVE TypeOK'
  <2>1. PICK h \in RetryHeaders \ {NotANumber} :
          notBefore' = [notBefore EXCEPT ![r] = clock + RetryAfter(h)]
    BY <1>8 DEF PostRateLimited
  <2>2. clock + RetryAfter(h) \in Nat
    BY RetryAfterType, OutboxConstants DEF TypeOK, Times
  <2>3. notBefore' \in [Rows -> Nat]
    BY <2>1, <2>2 DEF TypeOK
  <2> QED
    BY <1>8, <2>3, ForgetType, ReleaseType DEF TypeOK, PostRateLimited
<1>9. ASSUME NEW p \in Drainers, NEW r \in Rows, PostRateLimitedNaN(p, r) PROVE TypeOK'
  BY <1>9, ForgetType, ReleaseType DEF TypeOK, PostRateLimitedNaN
<1>10. ASSUME NEW p \in Drainers, NEW r \in Rows, RecordOutcome(p, r) PROVE TypeOK'
  <2>1. status' \in [Rows -> Statuses] /\ attempts' \in [Rows -> Nat]
    BY <1>10, MarkType DEF RecordOutcome
  <2> QED
    BY <1>10, <2>1 DEF TypeOK, RecordOutcome
<1>11. ASSUME NEW p \in Drainers, Finish(p) PROVE TypeOK'
  BY <1>11, ForgetType, ReleaseType DEF TypeOK, Finish
<1>12. ASSUME NEW p \in Testers, NEW r \in Rows, NEW a \in Aims, PutTest(p, r, a) PROVE TypeOK'
  BY <1>12, OutboxConstants DEF TypeOK, PutTest
<1>13. ASSUME NEW p \in Testers, NEW r \in Rows, TestUnconfigured(p, r) PROVE TypeOK'
  BY <1>13, MarkType, ForgetType DEF TypeOK, TestUnconfigured
<1>14. ASSUME NEW p \in Testers, TestBusy(p) PROVE TypeOK'
  BY <1>14, ForgetType DEF TypeOK, TestBusy
<1>15. ASSUME NEW p \in Testers, TestAcquire(p) PROVE TypeOK'
  BY <1>15 DEF TypeOK, TestAcquire
<1>16. ASSUME NEW p \in Testers, NEW r \in Rows, TestPost(p, r) PROVE TypeOK'
  BY <1>16, PostType, ReleaseType DEF TypeOK, TestPost
<1>17. ASSUME NEW p \in Testers, NEW r \in Rows, TestRecord(p, r) PROVE TypeOK'
  <2>1. status' \in [Rows -> Statuses] /\ attempts' \in [Rows -> Nat]
    BY <1>17, MarkType DEF TestRecord
  <2> QED
    BY <1>17, <2>1, ForgetType DEF TypeOK, TestRecord
<1>18. ASSUME NEW p \in Procs, Crash(p) PROVE TypeOK'
  <2>1. unrecorded' \in [Rows -> Nat]
    BY <1>18 DEF TypeOK, Crash
  <2> QED
    BY <1>18, <2>1, ForgetType, ReleaseType, OutboxConstants DEF TypeOK, Crash
<1>19. CASE RequeueFailed
  BY <1>19, OutboxConstants DEF TypeOK, RequeueFailed
<1>20. ASSUME NEW c \in Times, SetCutoff(c) PROVE TypeOK'
  BY <1>20, OutboxConstants DEF TypeOK, SetCutoff, Policy
<1>21. CASE UNCHANGED vars
  BY <1>21 DEF TypeOK, vars
<1> HIDE DEF table, process, observed, counters, Procs, Statuses
<1> QED
  BY <1>1, <1>2, <1>3, <1>4, <1>5, <1>6, <1>7, <1>8, <1>9, <1>10, <1>11, <1>12, <1>13,
     <1>14, <1>15, <1>16, <1>17, <1>18, <1>19, <1>20, <1>21
     DEF Next, DrainStep, TestStep

(* Every variable keeps its type in every behaviour of the outbox. *)
THEOREM TypeCorrect == Spec => []TypeOK
  BY TypeInit, TypeStep, PTL DEF Spec

-----------------------------------------------------------------------------
(* Every step keeps the grant exclusive: taking it needs it free, and only   *)
(* its holder gives it back.                                                 *)
LEMMA GrantStep == TypeOK /\ ProcessShape /\ GrantExclusion /\ [Next]_vars => GrantExclusion'
<1> SUFFICES ASSUME TypeOK /\ ProcessShape /\ GrantExclusion, [Next]_vars PROVE GrantExclusion'
  OBVIOUS
<1> USE OutboxConstants
     DEF TypeOK, GrantExclusion, InGrant, ProcessShape, table, process, observed,
         counters, Procs
<1>1. ASSUME NEW r \in Rows, Enqueue(r) PROVE GrantExclusion'
  BY <1>1 DEF Enqueue, NextId
<1>2. CASE Tick
  BY <1>2 DEF Tick
<1>3. ASSUME NEW p \in Drainers, NEW held \in BOOLEAN, Acquire(p, held) PROVE GrantExclusion'
  BY <1>3 DEF Acquire, GrantFree
<1>4. ASSUME NEW p \in Drainers, SelectRows(p) PROVE GrantExclusion'
  BY <1>4 DEF SelectRows, Selected
<1>5. ASSUME NEW p \in Drainers, NEW r \in Rows, SkipDeferred(p, r) PROVE GrantExclusion'
  BY <1>5 DEF SkipDeferred, AtRow
<1>6. ASSUME NEW p \in Drainers, NEW r \in Rows, Hold(p, r) PROVE GrantExclusion'
  BY <1>6 DEF Hold, AtRow, Mark, IsOldest
<1>7. ASSUME NEW p \in Drainers, NEW r \in Rows, Post(p, r) PROVE GrantExclusion'
  BY <1>7 DEF Post, AtRow, PostAnswered, IsOldest
<1>8. ASSUME NEW p \in Drainers, NEW r \in Rows, PostRateLimited(p, r) PROVE GrantExclusion'
  BY <1>8 DEF PostRateLimited, AtRow, Forget, Release
<1>9. ASSUME NEW p \in Drainers, NEW r \in Rows, PostRateLimitedNaN(p, r) PROVE GrantExclusion'
  BY <1>9 DEF PostRateLimitedNaN, AtRow, Forget, Release
<1>10. ASSUME NEW p \in Drainers, NEW r \in Rows, RecordOutcome(p, r) PROVE GrantExclusion'
  BY <1>10 DEF RecordOutcome, Mark, IsOldest
<1>11. ASSUME NEW p \in Drainers, Finish(p) PROVE GrantExclusion'
  BY <1>11 DEF Finish, Forget, Release
<1>12. ASSUME NEW p \in Testers, NEW r \in Rows, NEW a \in Aims, PutTest(p, r, a) PROVE GrantExclusion'
  BY <1>12 DEF PutTest, NextId
<1>13. ASSUME NEW p \in Testers, NEW r \in Rows, TestUnconfigured(p, r) PROVE GrantExclusion'
  BY <1>13 DEF TestUnconfigured, Forget, Mark, IsOldest
<1>14. ASSUME NEW p \in Testers, TestBusy(p) PROVE GrantExclusion'
  BY <1>14 DEF TestBusy, Forget
<1>15. ASSUME NEW p \in Testers, TestAcquire(p) PROVE GrantExclusion'
  BY <1>15 DEF TestAcquire, GrantFree
<1>16. ASSUME NEW p \in Testers, NEW r \in Rows, TestPost(p, r) PROVE GrantExclusion'
  BY <1>16 DEF TestPost, PostAnswered, Release, IsOldest
<1>17. ASSUME NEW p \in Testers, NEW r \in Rows, TestRecord(p, r) PROVE GrantExclusion'
  BY <1>17 DEF TestRecord, Forget, Mark, IsOldest
<1>18. ASSUME NEW p \in Procs, Crash(p) PROVE GrantExclusion'
  BY <1>18 DEF Crash, Forget, Release, Unsaved, IsOldest
<1>19. CASE RequeueFailed
  BY <1>19 DEF RequeueFailed, Requeued
<1>20. ASSUME NEW c \in Times, SetCutoff(c) PROVE GrantExclusion'
  BY <1>20 DEF SetCutoff
<1>21. CASE UNCHANGED vars
  BY <1>21 DEF vars
<1> HIDE DEF TypeOK, GrantExclusion, InGrant, ProcessShape, table, process, observed, counters,
             Procs
<1> QED
  BY <1>1, <1>2, <1>3, <1>4, <1>5, <1>6, <1>7, <1>8, <1>9, <1>10, <1>11, <1>12, <1>13, <1>14, <1>15, <1>16, <1>17, <1>18, <1>19, <1>20, <1>21
     DEF Next, DrainStep, TestStep

(* Every step leaves each process with only what its place in the code       *)
(* allows.                                                                   *)
LEMMA ShapeStep == TypeOK /\ ProcessShape /\ [Next]_vars => ProcessShape'
<1> SUFFICES ASSUME TypeOK /\ ProcessShape, [Next]_vars PROVE ProcessShape'
  OBVIOUS
<1> USE OutboxConstants
     DEF TypeOK, ProcessShape, IsTest, table, process, observed, counters, Procs
<1>1. ASSUME NEW r \in Rows, Enqueue(r) PROVE ProcessShape'
  BY <1>1 DEF Enqueue, NextId
<1>2. CASE Tick
  BY <1>2 DEF Tick
<1>3. ASSUME NEW p \in Drainers, NEW held \in BOOLEAN, Acquire(p, held) PROVE ProcessShape'
  BY <1>3 DEF Acquire, GrantFree
<1>4. ASSUME NEW p \in Drainers, SelectRows(p) PROVE ProcessShape'
  <2>1. /\ pc[p] = "granted" /\ answer[p] = "none"
        /\ pc' = [pc EXCEPT ![p] = "draining"]
        /\ UNCHANGED <<table, aim, answer, copies, unrecorded>>
    BY <1>4 DEF SelectRows
  <2>2. \A q \in Procs : q # p => batch'[q] = batch[q]
    BY <1>4 DEF SelectRows
  <2>3. \A r \in batch'[p] : status[r] # "absent"
    BY <1>4 DEF SelectRows, Selected
  <2>4. p \notin Testers
    BY <1>4
  <2>5. ASSUME NEW q \in Drainers
        PROVE  /\ pc'[q] \in {"idle", "granted", "draining", "answered", "raised"}
               /\ aim'[q] = "channel"
               /\ pc'[q] \in {"idle", "granted", "raised"} => batch'[q] = {}
               /\ pc'[q] = "answered" <=> answer'[q] # "none"
               /\ \A r \in batch'[q] : status'[r] # "absent"
    <3>1. CASE q = p
      BY <2>1, <2>3, <2>5, <3>1
    <3>2. CASE q # p
      BY <2>1, <2>2, <2>5, <3>2
    <3> QED
      BY <3>1, <3>2
  <2>6. ASSUME NEW q \in Testers
        PROVE  /\ pc'[q] \in {"idle", "queued", "posting", "tested"}
               /\ pc'[q] = "idle" => batch'[q] = {}
               /\ pc'[q] = "tested" <=> answer'[q] # "none"
               /\ \A r \in batch'[q] : IsTest(r)'
    <3>1. pc'[q] = pc[q] /\ batch'[q] = batch[q] /\ answer'[q] = answer[q]
      BY <2>1, <2>2, <2>4, <2>6
    <3> QED
      BY <2>1, <2>6, <3>1
  <2>7. \A r \in Rows : status'[r] = "absent" =>
          discoveredAt'[r] = NoTime /\ attempts'[r] = 0 /\ copies'[r] = 0 /\ unrecorded'[r] = 0
    BY <2>1
  <2> QED
    BY <2>5, <2>6, <2>7
<1>5. ASSUME NEW p \in Drainers, NEW r \in Rows, SkipDeferred(p, r) PROVE ProcessShape'
  BY <1>5 DEF SkipDeferred, AtRow
<1>6. ASSUME NEW p \in Drainers, NEW r \in Rows, Hold(p, r) PROVE ProcessShape'
  BY <1>6 DEF Hold, AtRow, Mark, IsOldest
<1>7. ASSUME NEW p \in Drainers, NEW r \in Rows, Post(p, r) PROVE ProcessShape'
  BY <1>7 DEF Post, AtRow, PostAnswered, IsOldest
<1>8. ASSUME NEW p \in Drainers, NEW r \in Rows, PostRateLimited(p, r) PROVE ProcessShape'
  BY <1>8 DEF PostRateLimited, AtRow, Forget, Release
<1>9. ASSUME NEW p \in Drainers, NEW r \in Rows, PostRateLimitedNaN(p, r) PROVE ProcessShape'
  BY <1>9 DEF PostRateLimitedNaN, AtRow, Forget, Release
<1>10. ASSUME NEW p \in Drainers, NEW r \in Rows, RecordOutcome(p, r) PROVE ProcessShape'
  BY <1>10 DEF RecordOutcome, Mark, IsOldest
<1>11. ASSUME NEW p \in Drainers, Finish(p) PROVE ProcessShape'
  BY <1>11 DEF Finish, Forget, Release
<1>12. ASSUME NEW p \in Testers, NEW r \in Rows, NEW a \in Aims, PutTest(p, r, a) PROVE ProcessShape'
  BY <1>12 DEF PutTest, NextId
<1>13. ASSUME NEW p \in Testers, NEW r \in Rows, TestUnconfigured(p, r) PROVE ProcessShape'
  BY <1>13 DEF TestUnconfigured, Forget, Mark, IsOldest
<1>14. ASSUME NEW p \in Testers, TestBusy(p) PROVE ProcessShape'
  BY <1>14 DEF TestBusy, Forget
<1>15. ASSUME NEW p \in Testers, TestAcquire(p) PROVE ProcessShape'
  BY <1>15 DEF TestAcquire, GrantFree
<1>16. ASSUME NEW p \in Testers, NEW r \in Rows, TestPost(p, r) PROVE ProcessShape'
  BY <1>16 DEF TestPost, PostAnswered, Release, IsOldest
<1>17. ASSUME NEW p \in Testers, NEW r \in Rows, TestRecord(p, r) PROVE ProcessShape'
  BY <1>17 DEF TestRecord, Forget, Mark, IsOldest
<1>18. ASSUME NEW p \in Procs, Crash(p) PROVE ProcessShape'
  BY <1>18 DEF Crash, Forget, Release, Unsaved, IsOldest
<1>19. CASE RequeueFailed
  BY <1>19 DEF RequeueFailed, Requeued
<1>20. ASSUME NEW c \in Times, SetCutoff(c) PROVE ProcessShape'
  BY <1>20 DEF SetCutoff
<1>21. CASE UNCHANGED vars
  BY <1>21 DEF vars
<1> HIDE DEF TypeOK, ProcessShape, IsTest, table, process, observed, counters, Procs
<1> QED
  BY <1>1, <1>2, <1>3, <1>4, <1>5, <1>6, <1>7, <1>8, <1>9, <1>10, <1>11, <1>12, <1>13, <1>14, <1>15, <1>16, <1>17, <1>18, <1>19, <1>20, <1>21
     DEF Next, DrainStep, TestStep

(* A drain that has rows left holds the grant, so it is the only one. *)
LEMMA OnlyHolderHasRows ==
  ASSUME ProcessShape, GrantExclusion, NEW q \in Drainers, batch[q] # {}
  PROVE  grant = q
  BY DEF ProcessShape, GrantExclusion, InGrant, Procs

(* Row ids are numbers, so a set of rows has at most one oldest. *)
LEMMA OldestUnique ==
  ASSUME NEW S \in SUBSET Rows, NEW r, NEW s, IsOldest(r, S), IsOldest(s, S)
  PROVE  r = s
  <1>1. r \in Nat /\ s \in Nat /\ r <= s /\ s <= r
    BY OutboxConstants DEF IsOldest
  <1> QED
    BY <1>1

(* An attempt that exhausts a budget not yet used up uses it up exactly. *)
LEMMA LastAttempt ==
  ASSUME NEW n \in Nat, n < MaxAttempts, Exhausted(n)
  PROVE  n + 1 = MaxAttempts
  BY OutboxConstants DEF Exhausted

(* A discovery in a batch is still queued. *)
LEMMA BatchQueued ==
  ASSUME SnapshotFresh, NEW p \in Drainers, NEW r \in batch[p], IsDiscovery(r)
  PROVE  status[r] \in {"pending", "held"}
  BY DEF SnapshotFresh, Selected

(* Every step keeps the snapshots fresh: only the holder of the grant moves   *)
(* a queued discovery, and it drops the row from its batch as it does.       *)
LEMMA SnapshotStep == TypeOK /\ ProcessShape /\ GrantExclusion /\ SnapshotFresh /\ [Next]_vars => SnapshotFresh'
<1> SUFFICES ASSUME TypeOK /\ ProcessShape /\ GrantExclusion /\ SnapshotFresh, [Next]_vars PROVE SnapshotFresh'
  OBVIOUS
<1> USE OutboxConstants, OnlyHolderHasRows
     DEF TypeOK, ProcessShape, SnapshotFresh, IsDiscovery, IsTest, Selected, table,
         process, observed, counters, Procs
<1>1. ASSUME NEW r \in Rows, Enqueue(r) PROVE SnapshotFresh'
  <2> SUFFICES ASSUME NEW q \in Drainers, NEW s \in batch'[q], IsDiscovery(s)'
               PROVE  /\ status'[s] \in Selected(replay'[q])
                      /\ attempts'[s] = seen'[q][s].attempts
                      /\ notBefore'[s] = seen'[q][s].notBefore
    BY DEF SnapshotFresh, Selected
  <2>1. s \in batch[q] /\ s \in Rows
    BY <1>1 DEF Enqueue, NextId
  <2>2. replay'[q] = replay[q] /\ seen'[q] = seen[q]
    BY <1>1, <2>1 DEF Enqueue, NextId
  <2>3. status'[s] = status[s] /\ attempts'[s] = attempts[s] /\ notBefore'[s] = notBefore[s]
    BY <1>1, <2>1 DEF Enqueue, NextId
  <2> QED
    BY <1>1, <2>1, <2>2, <2>3 DEF Enqueue, NextId
<1>2. CASE Tick
  BY <1>2 DEF Tick
<1>3. ASSUME NEW p \in Drainers, NEW held \in BOOLEAN, Acquire(p, held) PROVE SnapshotFresh'
  BY <1>3 DEF Acquire, GrantFree
<1>4. ASSUME NEW p \in Drainers, SelectRows(p) PROVE SnapshotFresh'
  BY <1>4 DEF SelectRows, Selected
<1>5. ASSUME NEW p \in Drainers, NEW r \in Rows, SkipDeferred(p, r) PROVE SnapshotFresh'
  <2> SUFFICES ASSUME NEW q \in Drainers, NEW s \in batch'[q], IsDiscovery(s)'
               PROVE  /\ status'[s] \in Selected(replay'[q])
                      /\ attempts'[s] = seen'[q][s].attempts
                      /\ notBefore'[s] = seen'[q][s].notBefore
    BY DEF SnapshotFresh, Selected
  <2>1. s \in batch[q] /\ s \in Rows
    BY <1>5 DEF SkipDeferred
  <2>2. replay'[q] = replay[q] /\ seen'[q] = seen[q]
    BY <1>5, <2>1 DEF SkipDeferred
  <2>3. status'[s] = status[s] /\ attempts'[s] = attempts[s] /\ notBefore'[s] = notBefore[s]
    BY <1>5, <2>1 DEF SkipDeferred
  <2>4. IsDiscovery(s)
    BY <1>5 DEF SkipDeferred
  <2>5. /\ status[s] \in Selected(replay[q])
        /\ attempts[s] = seen[q][s].attempts
        /\ notBefore[s] = seen[q][s].notBefore
    BY <2>1, <2>4
  <2> HIDE DEF Selected
  <2> QED
    BY <2>2, <2>3, <2>5
<1>6. ASSUME NEW p \in Drainers, NEW r \in Rows, Hold(p, r) PROVE SnapshotFresh'
  BY <1>6 DEF Hold, AtRow, Mark, IsOldest
<1>7. ASSUME NEW p \in Drainers, NEW r \in Rows, Post(p, r) PROVE SnapshotFresh'
  BY <1>7 DEF Post, AtRow, PostAnswered, IsOldest
<1>8. ASSUME NEW p \in Drainers, NEW r \in Rows, PostRateLimited(p, r) PROVE SnapshotFresh'
  <2>1. r \in batch[p] /\ batch'[p] = {}
    BY <1>8 DEF PostRateLimited, AtRow, IsOldest, Forget
  <2>2. \A q \in Drainers : q # p => batch'[q] = {}
    BY <1>8, <2>1, OnlyHolderHasRows DEF PostRateLimited, Forget
  <2> QED
    BY <2>1, <2>2 DEF SnapshotFresh
<1>9. ASSUME NEW p \in Drainers, NEW r \in Rows, PostRateLimitedNaN(p, r) PROVE SnapshotFresh'
  BY <1>9 DEF PostRateLimitedNaN, AtRow, Forget, Release
<1>10. ASSUME NEW p \in Drainers, NEW r \in Rows, RecordOutcome(p, r) PROVE SnapshotFresh'
  BY <1>10 DEF RecordOutcome, Mark, IsOldest
<1>11. ASSUME NEW p \in Drainers, Finish(p) PROVE SnapshotFresh'
  BY <1>11 DEF Finish, Forget, Release
<1>12. ASSUME NEW p \in Testers, NEW r \in Rows, NEW a \in Aims, PutTest(p, r, a) PROVE SnapshotFresh'
  BY <1>12 DEF PutTest, NextId
<1>13. ASSUME NEW p \in Testers, NEW r \in Rows, TestUnconfigured(p, r) PROVE SnapshotFresh'
  BY <1>13 DEF TestUnconfigured, Forget, Mark, IsOldest
<1>14. ASSUME NEW p \in Testers, TestBusy(p) PROVE SnapshotFresh'
  <2> SUFFICES ASSUME NEW q \in Drainers, NEW s \in batch'[q], IsDiscovery(s)'
               PROVE  /\ status'[s] \in Selected(replay'[q])
                      /\ attempts'[s] = seen'[q][s].attempts
                      /\ notBefore'[s] = seen'[q][s].notBefore
    BY DEF SnapshotFresh, Selected
  <2>1. s \in batch[q] /\ s \in Rows
    BY <1>14 DEF TestBusy, Forget
  <2>2. replay'[q] = replay[q] /\ seen'[q] = seen[q]
    BY <1>14, <2>1 DEF TestBusy, Forget
  <2>3. status'[s] = status[s] /\ attempts'[s] = attempts[s] /\ notBefore'[s] = notBefore[s]
    BY <1>14, <2>1 DEF TestBusy, Forget
  <2> QED
    BY <1>14, <2>1, <2>2, <2>3 DEF TestBusy, Forget
<1>15. ASSUME NEW p \in Testers, TestAcquire(p) PROVE SnapshotFresh'
  BY <1>15 DEF TestAcquire, GrantFree
<1>16. ASSUME NEW p \in Testers, NEW r \in Rows, TestPost(p, r) PROVE SnapshotFresh'
  BY <1>16 DEF TestPost, PostAnswered, Release, IsOldest
<1>17. ASSUME NEW p \in Testers, NEW r \in Rows, TestRecord(p, r) PROVE SnapshotFresh'
  BY <1>17 DEF TestRecord, Forget, Mark, IsOldest
<1>18. ASSUME NEW p \in Procs, Crash(p) PROVE SnapshotFresh'
  BY <1>18 DEF Crash, Forget, Release, Unsaved, IsOldest
<1>19. CASE RequeueFailed
  BY <1>19 DEF RequeueFailed, Requeued
<1>20. ASSUME NEW c \in Times, SetCutoff(c) PROVE SnapshotFresh'
  BY <1>20 DEF SetCutoff
<1>21. CASE UNCHANGED vars
  BY <1>21 DEF vars
<1> HIDE DEF TypeOK, ProcessShape, SnapshotFresh, IsDiscovery, IsTest, Selected, table,
             process, observed, counters, Procs
<1> QED
  BY <1>1, <1>2, <1>3, <1>4, <1>5, <1>6, <1>7, <1>8, <1>9, <1>10, <1>11, <1>12, <1>13, <1>14,
     <1>15, <1>16, <1>17, <1>18, <1>19, <1>20, <1>21
     DEF Next, DrainStep, TestStep

(* Every step keeps the attempts account of each discovery. *)
LEMMA BudgetStep == TypeOK /\ ProcessShape /\ SnapshotFresh /\ RetryBudget /\ [Next]_vars => RetryBudget'
<1> SUFFICES ASSUME TypeOK /\ ProcessShape /\ SnapshotFresh /\ RetryBudget, [Next]_vars PROVE RetryBudget'
  OBVIOUS
<1> USE OutboxConstants
     DEF TypeOK, ProcessShape, SnapshotFresh, RetryBudget, IsDiscovery, IsTest,
         Selected, table, process, observed, counters, Procs
<1>1. ASSUME NEW r \in Rows, Enqueue(r) PROVE RetryBudget'
  BY <1>1 DEF Enqueue, NextId
<1>2. CASE Tick
  BY <1>2 DEF Tick
<1>3. ASSUME NEW p \in Drainers, NEW held \in BOOLEAN, Acquire(p, held) PROVE RetryBudget'
  BY <1>3 DEF Acquire, GrantFree
<1>4. ASSUME NEW p \in Drainers, SelectRows(p) PROVE RetryBudget'
  BY <1>4 DEF SelectRows, Selected
<1>5. ASSUME NEW p \in Drainers, NEW r \in Rows, SkipDeferred(p, r) PROVE RetryBudget'
  BY <1>5 DEF SkipDeferred, AtRow
<1>6. ASSUME NEW p \in Drainers, NEW r \in Rows, Hold(p, r) PROVE RetryBudget'
  BY <1>6 DEF Hold, AtRow, Mark, IsOldest
<1>7. ASSUME NEW p \in Drainers, NEW r \in Rows, Post(p, r) PROVE RetryBudget'
  BY <1>7 DEF Post, AtRow, PostAnswered, IsOldest
<1>8. ASSUME NEW p \in Drainers, NEW r \in Rows, PostRateLimited(p, r) PROVE RetryBudget'
  BY <1>8 DEF PostRateLimited, AtRow, Forget, Release
<1>9. ASSUME NEW p \in Drainers, NEW r \in Rows, PostRateLimitedNaN(p, r) PROVE RetryBudget'
  BY <1>9 DEF PostRateLimitedNaN, AtRow, Forget, Release
<1>10. ASSUME NEW p \in Drainers, NEW r \in Rows, RecordOutcome(p, r) PROVE RetryBudget'
  <2> SUFFICES ASSUME NEW s \in Rows, IsDiscovery(s)'
               PROVE  /\ attempts'[s] <= MaxAttempts
                      /\ status'[s] \in {"pending", "held"} => attempts'[s] < MaxAttempts
                      /\ status'[s] = "failed" => attempts'[s] = MaxAttempts
    BY DEF RetryBudget
  <2>1. r \in batch[p] /\ status[r] # "absent"
    BY <1>10 DEF RecordOutcome, IsOldest
  <2>2. IsDiscovery(s) /\ attempts[s] \in Nat
    BY <1>10, <2>1 DEF RecordOutcome, Mark
  <2>3. CASE s # r
    BY <1>10, <2>2, <2>3 DEF RecordOutcome, Mark
  <2>4. CASE s = r
    <3> status[r] \in {"pending", "held"} /\ attempts[r] = seen[p][r].attempts
      BY <2>1, <2>2, <2>4
    <3>1. attempts[r] = seen[p][r].attempts /\ attempts[r] < MaxAttempts
      BY <2>2, <2>4 DEF RetryBudget
    <3>2. attempts'[r] = attempts[r] + 1
      BY <1>10 DEF RecordOutcome, Mark
    <3>3. CASE answer[p] = "ok"
      <4>1. status'[r] = "sent"
        BY <1>10, <3>3 DEF RecordOutcome, Mark
      <4> QED
        BY <2>2, <2>4, <3>1, <3>2, <4>1
    <3>4. CASE answer[p] = "error" /\ Exhausted(attempts[r])
      <4>1. status'[r] = "failed"
        BY <1>10, <3>1, <3>4 DEF RecordOutcome, Mark
      <4>2. attempts[r] + 1 = MaxAttempts
        BY <2>2, <2>4, <3>1, <3>4, LastAttempt
      <4> QED
        BY <2>2, <2>4, <3>2, <4>1, <4>2
    <3>5. CASE answer[p] = "error" /\ ~Exhausted(attempts[r])
      <4>1. status'[r] = "pending"
        BY <1>10, <3>1, <3>5 DEF RecordOutcome, Mark
      <4> QED
        BY <2>2, <2>4, <3>1, <3>2, <3>5, <4>1 DEF Exhausted
    <3> QED
      BY <1>10, <3>3, <3>4, <3>5 DEF RecordOutcome
  <2> QED
    BY <2>3, <2>4
<1>11. ASSUME NEW p \in Drainers, Finish(p) PROVE RetryBudget'
  BY <1>11 DEF Finish, Forget, Release
<1>12. ASSUME NEW p \in Testers, NEW r \in Rows, NEW a \in Aims, PutTest(p, r, a) PROVE RetryBudget'
  BY <1>12 DEF PutTest, NextId
<1>13. ASSUME NEW p \in Testers, NEW r \in Rows, TestUnconfigured(p, r) PROVE RetryBudget'
  BY <1>13 DEF TestUnconfigured, Forget, Mark, IsOldest
<1>14. ASSUME NEW p \in Testers, TestBusy(p) PROVE RetryBudget'
  BY <1>14 DEF TestBusy, Forget
<1>15. ASSUME NEW p \in Testers, TestAcquire(p) PROVE RetryBudget'
  BY <1>15 DEF TestAcquire, GrantFree
<1>16. ASSUME NEW p \in Testers, NEW r \in Rows, TestPost(p, r) PROVE RetryBudget'
  BY <1>16 DEF TestPost, PostAnswered, Release, IsOldest
<1>17. ASSUME NEW p \in Testers, NEW r \in Rows, TestRecord(p, r) PROVE RetryBudget'
  BY <1>17 DEF TestRecord, Forget, Mark, IsOldest
<1>18. ASSUME NEW p \in Procs, Crash(p) PROVE RetryBudget'
  BY <1>18 DEF Crash, Forget, Release, Unsaved, IsOldest
<1>19. CASE RequeueFailed
  <2> SUFFICES ASSUME NEW s \in Rows, IsDiscovery(s)'
               PROVE  /\ attempts'[s] <= MaxAttempts
                      /\ status'[s] \in {"pending", "held"} => attempts'[s] < MaxAttempts
                      /\ status'[s] = "failed" => attempts'[s] = MaxAttempts
    BY DEF RetryBudget
  <2>1. CASE status[s] = "failed"
    <3>1. status'[s] = "pending" /\ attempts'[s] = 0
      BY <1>19, <2>1 DEF RequeueFailed, Requeued
    <3> QED
      BY <3>1
  <2>2. CASE status[s] # "failed"
    <3>1. status'[s] = status[s] /\ attempts'[s] = attempts[s]
      BY <1>19, <2>2 DEF RequeueFailed, Requeued
    <3>2. IsDiscovery(s)
      BY <1>19, <3>1 DEF RequeueFailed
    <3> QED
      BY <3>1, <3>2
  <2> QED
    BY <2>1, <2>2
<1>20. ASSUME NEW c \in Times, SetCutoff(c) PROVE RetryBudget'
  BY <1>20 DEF SetCutoff
<1>21. CASE UNCHANGED vars
  BY <1>21 DEF vars
<1> HIDE DEF TypeOK, ProcessShape, SnapshotFresh, RetryBudget, IsDiscovery, IsTest, Selected,
             table, process, observed, counters, Procs
<1> QED
  BY <1>1, <1>2, <1>3, <1>4, <1>5, <1>6, <1>7, <1>8, <1>9, <1>10, <1>11, <1>12, <1>13, <1>14,
     <1>15, <1>16, <1>17, <1>18, <1>19, <1>20, <1>21
     DEF Next, DrainStep, TestStep

(* Every step keeps the account of the copies of each discovery. *)
LEMMA DuplicateStep == TypeOK /\ ProcessShape /\ GrantExclusion /\ SnapshotFresh /\ DuplicatesExplained /\ [Next]_vars => DuplicatesExplained'
<1> SUFFICES ASSUME TypeOK /\ ProcessShape /\ GrantExclusion /\ SnapshotFresh /\ DuplicatesExplained, [Next]_vars
             PROVE  DuplicatesExplained'
  OBVIOUS
<1> USE OutboxConstants, OnlyHolderHasRows
     DEF TypeOK, ProcessShape, SnapshotFresh, DuplicatesExplained, Awaited, Unsaved,
         IsDiscovery, IsTest, Selected, table, process, observed, counters, Procs
<1>1. ASSUME NEW r \in Rows, Enqueue(r) PROVE DuplicatesExplained'
  BY <1>1 DEF Enqueue, NextId, IsOldest
<1>2. CASE Tick
  BY <1>2 DEF Tick
<1>3. ASSUME NEW p \in Drainers, NEW held \in BOOLEAN, Acquire(p, held) PROVE DuplicatesExplained'
  BY <1>3 DEF Acquire, GrantFree
<1>4. ASSUME NEW p \in Drainers, SelectRows(p) PROVE DuplicatesExplained'
  BY <1>4 DEF SelectRows, Selected
<1>5. ASSUME NEW p \in Drainers, NEW r \in Rows, SkipDeferred(p, r) PROVE DuplicatesExplained'
  <2>1. /\ answer[p] = "none"
        /\ UNCHANGED <<table, aim, answer, copies, unrecorded>>
    BY <1>5 DEF SkipDeferred, AtRow
  <2>2. \A q \in Procs : q # p => batch'[q] = batch[q]
    BY <1>5 DEF SkipDeferred
  <2>3. \A s \in Rows : Awaited(s)' <=> Awaited(s)
    BY <1>5, <2>1, <2>2
  <2> QED
    BY <2>1, <2>3
<1>6. ASSUME NEW p \in Drainers, NEW r \in Rows, Hold(p, r) PROVE DuplicatesExplained'
  <2> SUFFICES ASSUME NEW s \in Rows, IsDiscovery(s)'
               PROVE  copies'[s] = unrecorded'[s]
                        + (IF status'[s] = "sent" \/ Awaited(s)' THEN 1 ELSE 0)
    BY DEF DuplicatesExplained
  <2>1. answer[p] = "none" /\ r \in batch[p] /\ status[r] # "absent"
    BY <1>6 DEF Hold, AtRow, IsOldest
  <2>2. IsDiscovery(s)
    BY <1>6, <2>1 DEF Hold, Mark
  <2>3. Awaited(s)' <=> Awaited(s)
    BY <1>6, <2>1 DEF Hold
  <2>4. status'[s] = "sent" <=> status[s] = "sent"
    <3>1. CASE s = r
      <4>1. status[r] \in {"pending", "held"}
        BY <2>1, <2>2, <3>1, BatchQueued
      <4>2. status'[r] = "held"
        BY <1>6 DEF Hold, Mark
      <4> QED
        BY <3>1, <4>1, <4>2
    <3>2. CASE s # r
      BY <1>6, <3>2 DEF Hold, Mark
    <3> QED
      BY <3>1, <3>2
  <2> QED
    BY <1>6, <2>2, <2>3, <2>4 DEF Hold
<1>7. ASSUME NEW p \in Drainers, NEW r \in Rows, Post(p, r) PROVE DuplicatesExplained'
  <2> SUFFICES ASSUME NEW s \in Rows, IsDiscovery(s)'
               PROVE  copies'[s] = unrecorded'[s]
                        + (IF status'[s] = "sent" \/ Awaited(s)' THEN 1 ELSE 0)
    BY DEF DuplicatesExplained
  <2>1. answer[p] = "none" /\ r \in batch[p] /\ status[r] # "absent" /\ aim[p] = "channel"
    BY <1>7 DEF Post, AtRow, IsOldest
  <2>2. IsDiscovery(s)
    BY <1>7 DEF Post
  <2>3. ~Awaited(r)
    BY <2>1, OnlyHolderHasRows DEF IsOldest
  <2>4. CASE s # r
    <3>1. ~Unsaved(p, s)'
      <4>1. ~IsOldest(s, batch[p])
        BY <1>7, <2>4, OldestUnique DEF Post, AtRow
      <4> QED
        BY <1>7, <4>1 DEF Post
    <3>2. ~Unsaved(p, s)
      BY <2>1
    <3>3. \A q \in Drainers : q # p => (Unsaved(q, s)' <=> Unsaved(q, s))
      BY <1>7 DEF Post, PostAnswered
    <3>4. Awaited(s)' <=> Awaited(s)
      BY <3>1, <3>2, <3>3 DEF Awaited
    <3>5. copies'[s] = copies[s] /\ unrecorded'[s] = unrecorded[s] /\ status'[s] = status[s]
      BY <1>7, <2>4 DEF Post, PostAnswered
    <3> QED
      BY <2>2, <3>4, <3>5
  <2>5. CASE s = r
    <3>1. status[r] # "sent" /\ copies[r] = unrecorded[r] /\ status' = status
      <4>1. status[r] \in {"pending", "held"}
        BY <2>1, <2>2, <2>5, BatchQueued
      <4>2. copies[r] = unrecorded[r] + 0
        BY <2>2, <2>3, <2>5, <4>1 DEF DuplicatesExplained
      <4>3. status' = status
        BY <1>7 DEF Post
      <4> QED
        BY <4>1, <4>2, <4>3
    <3>2. Awaited(r)' <=> answer'[p] = "ok"
      <4>1. Unsaved(p, r)' <=> answer'[p] = "ok"
        BY <1>7, <2>1 DEF Post, AtRow
      <4>2. \A q \in Drainers : q # p => ~Unsaved(q, r)'
        <5>1. \A q \in Drainers : q # p => batch'[q] = {}
          BY <1>7, <2>1, OnlyHolderHasRows DEF Post
        <5> QED
          BY <5>1 DEF IsOldest
      <4> QED
        BY <4>1, <4>2 DEF Awaited
    <3>3. copies[r] \in Nat /\ unrecorded[r] \in Nat
      OBVIOUS
    <3>4. CASE answer' = [answer EXCEPT ![p] = "ok"] /\ UNCHANGED unrecorded
               /\ copies' = [copies EXCEPT ![r] = IF aim[p] = "channel" THEN @ + 1 ELSE @]
      BY <2>1, <2>5, <3>1, <3>2, <3>3, <3>4
    <3>5. CASE answer' = [answer EXCEPT ![p] = "error"] /\ UNCHANGED <<copies, unrecorded>>
      BY <2>1, <2>5, <3>1, <3>2, <3>3, <3>5
    <3>6. CASE /\ answer' = [answer EXCEPT ![p] = "error"]
               /\ copies' = [copies EXCEPT ![r] = @ + 1]
               /\ unrecorded' = [unrecorded EXCEPT ![r] = @ + 1]
      BY <2>1, <2>5, <3>1, <3>2, <3>3, <3>6
    <3> QED
      BY <1>7, <3>4, <3>5, <3>6 DEF Post, PostAnswered
  <2> QED
    BY <2>4, <2>5
<1>8. ASSUME NEW p \in Drainers, NEW r \in Rows, PostRateLimited(p, r) PROVE DuplicatesExplained'
  BY <1>8 DEF PostRateLimited, AtRow, Forget, Release
<1>9. ASSUME NEW p \in Drainers, NEW r \in Rows, PostRateLimitedNaN(p, r) PROVE DuplicatesExplained'
  BY <1>9 DEF PostRateLimitedNaN, AtRow, Forget, Release
<1>10. ASSUME NEW p \in Drainers, NEW r \in Rows, RecordOutcome(p, r) PROVE DuplicatesExplained'
  BY <1>10 DEF RecordOutcome, Mark, IsOldest
<1>11. ASSUME NEW p \in Drainers, Finish(p) PROVE DuplicatesExplained'
  BY <1>11 DEF Finish, Forget, Release, IsOldest
<1>12. ASSUME NEW p \in Testers, NEW r \in Rows, NEW a \in Aims, PutTest(p, r, a) PROVE DuplicatesExplained'
  BY <1>12 DEF PutTest, NextId, IsOldest
<1>13. ASSUME NEW p \in Testers, NEW r \in Rows, TestUnconfigured(p, r) PROVE DuplicatesExplained'
  BY <1>13 DEF TestUnconfigured, Forget, Mark, IsOldest
<1>14. ASSUME NEW p \in Testers, TestBusy(p) PROVE DuplicatesExplained'
  BY <1>14 DEF TestBusy, Forget
<1>15. ASSUME NEW p \in Testers, TestAcquire(p) PROVE DuplicatesExplained'
  BY <1>15 DEF TestAcquire, GrantFree
<1>16. ASSUME NEW p \in Testers, NEW r \in Rows, TestPost(p, r) PROVE DuplicatesExplained'
  <2> SUFFICES ASSUME NEW s \in Rows, IsDiscovery(s)'
               PROVE  copies'[s] = unrecorded'[s]
                        + (IF status'[s] = "sent" \/ Awaited(s)' THEN 1 ELSE 0)
    BY DEF DuplicatesExplained
  <2>a. r \in batch[p]
    BY <1>16 DEF TestPost, IsOldest
  <2>b. /\ status[r] # "absent" /\ discoveredAt[r] = NoTime
        /\ discoveredAt' = discoveredAt /\ status' = status
    BY <1>16, <2>a DEF TestPost
  <2>1. IsTest(r) /\ IsDiscovery(s) /\ s # r /\ status' = status
    BY <2>b
  <2>2. p \notin Drainers
    BY OutboxConstants
  <2>3. Awaited(s)' <=> Awaited(s)
    BY <1>16, <2>2 DEF TestPost, PostAnswered
  <2>4. copies'[s] = copies[s] /\ unrecorded'[s] = unrecorded[s]
    BY <1>16, <2>1 DEF TestPost, PostAnswered
  <2>5. copies[s] = unrecorded[s] + (IF status[s] = "sent" \/ Awaited(s) THEN 1 ELSE 0)
    BY <2>1 DEF DuplicatesExplained
  <2> QED
    BY <2>1, <2>3, <2>4, <2>5
<1>17. ASSUME NEW p \in Testers, NEW r \in Rows, TestRecord(p, r) PROVE DuplicatesExplained'
  <2> SUFFICES ASSUME NEW s \in Rows, IsDiscovery(s)'
               PROVE  copies'[s] = unrecorded'[s]
                        + (IF status'[s] = "sent" \/ Awaited(s)' THEN 1 ELSE 0)
    BY DEF DuplicatesExplained
  <2>a. r \in batch[p]
    BY <1>17 DEF TestRecord, IsOldest
  <2>b. status[r] # "absent" /\ discoveredAt[r] = NoTime /\ discoveredAt' = discoveredAt
    BY <1>17, <2>a DEF TestRecord
  <2>c. s # r
    BY <2>b
  <2>d. status'[s] = status[s]
    BY <1>17, <2>c DEF TestRecord, Mark
  <2>1. IsTest(r) /\ IsDiscovery(s) /\ s # r
    BY <2>b, <2>c, <2>d
  <2>2. p \notin Drainers
    BY OutboxConstants
  <2>3. Awaited(s)' <=> Awaited(s)
    BY <1>17, <2>2 DEF TestRecord, Forget
  <2>4. status'[s] = status[s]
    BY <1>17, <2>1 DEF TestRecord, Mark
  <2>5. copies'[s] = copies[s] /\ unrecorded'[s] = unrecorded[s]
    BY <1>17 DEF TestRecord
  <2>6. copies[s] = unrecorded[s] + (IF status[s] = "sent" \/ Awaited(s) THEN 1 ELSE 0)
    BY <2>1 DEF DuplicatesExplained
  <2> QED
    BY <2>3, <2>4, <2>5, <2>6
<1>18. ASSUME NEW p \in Procs, Crash(p) PROVE DuplicatesExplained'
  <2> SUFFICES ASSUME NEW s \in Rows, IsDiscovery(s)'
               PROVE  copies'[s] = unrecorded'[s]
                        + (IF status'[s] = "sent" \/ Awaited(s)' THEN 1 ELSE 0)
    BY DEF DuplicatesExplained
  <2>1. IsDiscovery(s) /\ status'[s] = status[s] /\ copies'[s] = copies[s]
    BY <1>18 DEF Crash
  <2>2. copies[s] = unrecorded[s] + (IF status[s] = "sent" \/ Awaited(s) THEN 1 ELSE 0)
    BY <2>1 DEF DuplicatesExplained
  <2>3. ~ Unsaved(p, s)'
    BY <1>18 DEF Crash, Forget
  <2>4. \A q \in Procs : q # p => (Unsaved(q, s)' <=> Unsaved(q, s))
    BY <1>18 DEF Crash, Forget
  <2>5. CASE Unsaved(p, s)
    <3>1. s \in batch[p]
      BY <2>5 DEF IsOldest
    <3>2. p \in Drainers
      BY <2>1, <3>1
    <3>3. status[s] # "sent"
      BY <2>1, <3>1, <3>2
    <3>4. grant = p
      BY <3>1, <3>2
    <3>5. \A q \in Drainers : q # p => ~ Unsaved(q, s)
      BY <3>4 DEF IsOldest
    <3>6. Awaited(s) /\ ~ Awaited(s)'
      BY <2>3, <2>4, <2>5, <3>2, <3>5
    <3>7. unrecorded'[s] = unrecorded[s] + 1
      BY <1>18, <2>5 DEF Crash
    <3> QED
      BY <2>1, <2>2, <3>3, <3>6, <3>7
  <2>6. CASE ~ Unsaved(p, s)
    <3>1. Awaited(s)' <=> Awaited(s)
      BY <2>3, <2>4, <2>6
    <3>2. unrecorded'[s] = unrecorded[s]
      BY <1>18, <2>6 DEF Crash
    <3> QED
      BY <2>1, <2>2, <3>1, <3>2
  <2> QED
    BY <2>5, <2>6
<1>19. CASE RequeueFailed
  BY <1>19 DEF RequeueFailed, Requeued
<1>20. ASSUME NEW c \in Times, SetCutoff(c) PROVE DuplicatesExplained'
  BY <1>20 DEF SetCutoff
<1>21. CASE UNCHANGED vars
  BY <1>21 DEF vars
<1> HIDE DEF TypeOK, ProcessShape, SnapshotFresh, DuplicatesExplained, Awaited, Unsaved,
             IsDiscovery, IsTest, Selected, table, process, observed, counters, Procs
<1> QED
  BY <1>1, <1>2, <1>3, <1>4, <1>5, <1>6, <1>7, <1>8, <1>9, <1>10, <1>11, <1>12, <1>13, <1>14,
     <1>15, <1>16, <1>17, <1>18, <1>19, <1>20, <1>21
     DEF Next, DrainStep, TestStep

(* The inductive invariant: types, control, the freshness of what a drain   *)
(* read, and the two accounts (attempts and copies) that rest on it.        *)
IInv ==
  /\ TypeOK
  /\ ProcessShape
  /\ GrantExclusion
  /\ SnapshotFresh
  /\ RetryBudget
  /\ DuplicatesExplained

(* The inductive invariant holds initially. *)
LEMMA IInvInit == Init => IInv
<1> SUFFICES ASSUME Init PROVE IInv
  OBVIOUS
<1>1. TypeOK
  BY TypeInit
<1>2. ProcessShape
  BY OutboxConstants DEF Init, ProcessShape, Procs
<1>3. GrantExclusion
  BY OutboxConstants DEF Init, GrantExclusion, InGrant
<1>4. SnapshotFresh
  BY DEF Init, SnapshotFresh, Procs
<1>5. RetryBudget /\ DuplicatesExplained
  BY DEF Init, RetryBudget, DuplicatesExplained, IsDiscovery
<1> QED
  BY <1>1, <1>2, <1>3, <1>4, <1>5 DEF IInv

(* The inductive invariant is inductive. *)
LEMMA IInvStep == IInv /\ [Next]_vars => IInv'
  BY TypeStep, ShapeStep, GrantStep, SnapshotStep, BudgetStep, DuplicateStep DEF IInv

(* The inductive invariant holds in every behaviour. *)
THEOREM IInvHolds == Spec => []IInv
  BY IInvInit, IInvStep, PTL DEF Spec

(* No two senders are ever between taking and giving back the grant, for    *)
(* any number of drains and test sends.                                     *)
THEOREM GrantExcludes == Spec => []GrantExclusion
<1>1. IInv => GrantExclusion
  BY DEF IInv
<1> QED
  BY <1>1, IInvHolds, PTL

(* A drain never acts on a discovery that changed under it.                 *)
THEOREM SnapshotsStayFresh == Spec => []SnapshotFresh
<1>1. IInv => SnapshotFresh
  BY DEF IInv
<1> QED
  BY <1>1, IInvHolds, PTL

(* The channel shows a discovery once plus once per lost acknowledgement,   *)
(* for any number of drains, replays, crashes and requeues.                 *)
THEOREM DuplicatesAreExplained == Spec => []DuplicatesExplained
<1>1. IInv => DuplicatesExplained
  BY DEF IInv
<1> QED
  BY <1>1, IInvHolds, PTL

(* A discovery is failed exactly when its MaxAttempts attempts are used up. *)
THEOREM RetryBudgetIsKept == Spec => []RetryBudget
<1>1. IInv => RetryBudget
  BY DEF IInv
<1> QED
  BY <1>1, IInvHolds, PTL

-----------------------------------------------------------------------------
(* What a step may never do to a discovery. *)
(* No step takes a sent discovery back. *)
LEMMA SentKeptStep == IInv /\ [Next]_vars => SentKept
<1> SUFFICES ASSUME IInv, [Next]_vars PROVE SentKept
  OBVIOUS
<1> USE OutboxConstants, BatchQueued
     DEF IInv, TypeOK, ProcessShape, SentKept, IsDiscovery, IsTest, table, process,
         observed, counters, Procs
<1>1. ASSUME NEW r \in Rows, Enqueue(r) PROVE SentKept
  BY <1>1 DEF Enqueue, NextId
<1>2. CASE Tick
  BY <1>2 DEF Tick
<1>3. ASSUME NEW p \in Drainers, NEW held \in BOOLEAN, Acquire(p, held) PROVE SentKept
  BY <1>3 DEF Acquire, GrantFree
<1>4. ASSUME NEW p \in Drainers, SelectRows(p) PROVE SentKept
  BY <1>4 DEF SelectRows, Selected
<1>5. ASSUME NEW p \in Drainers, NEW r \in Rows, SkipDeferred(p, r) PROVE SentKept
  BY <1>5 DEF SkipDeferred, AtRow
<1>6. ASSUME NEW p \in Drainers, NEW r \in Rows, Hold(p, r) PROVE SentKept
  BY <1>6 DEF Hold, AtRow, Mark, IsOldest
<1>7. ASSUME NEW p \in Drainers, NEW r \in Rows, Post(p, r) PROVE SentKept
  BY <1>7 DEF Post, AtRow, PostAnswered, IsOldest
<1>8. ASSUME NEW p \in Drainers, NEW r \in Rows, PostRateLimited(p, r) PROVE SentKept
  BY <1>8 DEF PostRateLimited, AtRow, Forget, Release
<1>9. ASSUME NEW p \in Drainers, NEW r \in Rows, PostRateLimitedNaN(p, r) PROVE SentKept
  BY <1>9 DEF PostRateLimitedNaN, AtRow, Forget, Release
<1>10. ASSUME NEW p \in Drainers, NEW r \in Rows, RecordOutcome(p, r) PROVE SentKept
  BY <1>10 DEF RecordOutcome, Mark, IsOldest
<1>11. ASSUME NEW p \in Drainers, Finish(p) PROVE SentKept
  BY <1>11 DEF Finish, Forget, Release
<1>12. ASSUME NEW p \in Testers, NEW r \in Rows, NEW a \in Aims, PutTest(p, r, a) PROVE SentKept
  BY <1>12 DEF PutTest, NextId
<1>13. ASSUME NEW p \in Testers, NEW r \in Rows, TestUnconfigured(p, r) PROVE SentKept
  BY <1>13 DEF TestUnconfigured, Forget, Mark, IsOldest
<1>14. ASSUME NEW p \in Testers, TestBusy(p) PROVE SentKept
  BY <1>14 DEF TestBusy, Forget
<1>15. ASSUME NEW p \in Testers, TestAcquire(p) PROVE SentKept
  BY <1>15 DEF TestAcquire, GrantFree
<1>16. ASSUME NEW p \in Testers, NEW r \in Rows, TestPost(p, r) PROVE SentKept
  BY <1>16 DEF TestPost, PostAnswered, Release, IsOldest
<1>17. ASSUME NEW p \in Testers, NEW r \in Rows, TestRecord(p, r) PROVE SentKept
  BY <1>17 DEF TestRecord, Forget, Mark, IsOldest
<1>18. ASSUME NEW p \in Procs, Crash(p) PROVE SentKept
  BY <1>18 DEF Crash, Forget, Release, Unsaved, IsOldest
<1>19. CASE RequeueFailed
  BY <1>19 DEF RequeueFailed, Requeued
<1>20. ASSUME NEW c \in Times, SetCutoff(c) PROVE SentKept
  BY <1>20 DEF SetCutoff
<1>21. CASE UNCHANGED vars
  BY <1>21 DEF vars
<1> HIDE DEF IInv, TypeOK, ProcessShape, SentKept, IsDiscovery, IsTest, table, process,
             observed, counters, Procs
<1> QED
  BY <1>1, <1>2, <1>3, <1>4, <1>5, <1>6, <1>7, <1>8, <1>9, <1>10, <1>11, <1>12, <1>13, <1>14,
     <1>15, <1>16, <1>17, <1>18, <1>19, <1>20, <1>21
     DEF Next, DrainStep, TestStep

(* A discovery recorded as sent is recorded as sent for good. *)
THEOREM SentForGood == Spec => SentIsFinal
<1>1. IInv /\ [Next]_vars => [SentKept]_vars
  BY SentKeptStep
<1> QED
  BY <1>1, IInvHolds, PTL DEF Spec, SentIsFinal

(* No step but a replay's moves a held discovery. *)
LEMMA HeldKeptStep == IInv /\ [Next]_vars => HeldKept
<1> SUFFICES ASSUME IInv, [Next]_vars PROVE HeldKept
  OBVIOUS
<1> USE OutboxConstants
     DEF IInv, TypeOK, ProcessShape, GrantExclusion, InGrant, SnapshotFresh,
         Selected, HeldKept, IsDiscovery, IsTest, table, process, observed, counters,
         Procs
<1>1. ASSUME NEW r \in Rows, Enqueue(r) PROVE HeldKept
  BY <1>1 DEF Enqueue, NextId
<1>2. CASE Tick
  BY <1>2 DEF Tick
<1>3. ASSUME NEW p \in Drainers, NEW held \in BOOLEAN, Acquire(p, held) PROVE HeldKept
  BY <1>3 DEF Acquire, GrantFree
<1>4. ASSUME NEW p \in Drainers, SelectRows(p) PROVE HeldKept
  BY <1>4 DEF SelectRows, Selected
<1>5. ASSUME NEW p \in Drainers, NEW r \in Rows, SkipDeferred(p, r) PROVE HeldKept
  BY <1>5 DEF SkipDeferred, AtRow
<1>6. ASSUME NEW p \in Drainers, NEW r \in Rows, Hold(p, r) PROVE HeldKept
  BY <1>6 DEF Hold, AtRow, Mark, IsOldest
<1>7. ASSUME NEW p \in Drainers, NEW r \in Rows, Post(p, r) PROVE HeldKept
  BY <1>7 DEF Post, AtRow, PostAnswered, IsOldest
<1>8. ASSUME NEW p \in Drainers, NEW r \in Rows, PostRateLimited(p, r) PROVE HeldKept
  BY <1>8 DEF PostRateLimited, AtRow, Forget, Release
<1>9. ASSUME NEW p \in Drainers, NEW r \in Rows, PostRateLimitedNaN(p, r) PROVE HeldKept
  BY <1>9 DEF PostRateLimitedNaN, AtRow, Forget, Release
<1>10. ASSUME NEW p \in Drainers, NEW r \in Rows, RecordOutcome(p, r) PROVE HeldKept
  BY <1>10 DEF RecordOutcome, Mark, IsOldest
<1>11. ASSUME NEW p \in Drainers, Finish(p) PROVE HeldKept
  BY <1>11 DEF Finish, Forget, Release
<1>12. ASSUME NEW p \in Testers, NEW r \in Rows, NEW a \in Aims, PutTest(p, r, a) PROVE HeldKept
  BY <1>12 DEF PutTest, NextId
<1>13. ASSUME NEW p \in Testers, NEW r \in Rows, TestUnconfigured(p, r) PROVE HeldKept
  BY <1>13 DEF TestUnconfigured, Forget, Mark, IsOldest
<1>14. ASSUME NEW p \in Testers, TestBusy(p) PROVE HeldKept
  BY <1>14 DEF TestBusy, Forget
<1>15. ASSUME NEW p \in Testers, TestAcquire(p) PROVE HeldKept
  BY <1>15 DEF TestAcquire, GrantFree
<1>16. ASSUME NEW p \in Testers, NEW r \in Rows, TestPost(p, r) PROVE HeldKept
  BY <1>16 DEF TestPost, PostAnswered, Release, IsOldest
<1>17. ASSUME NEW p \in Testers, NEW r \in Rows, TestRecord(p, r) PROVE HeldKept
  BY <1>17 DEF TestRecord, Forget, Mark, IsOldest
<1>18. ASSUME NEW p \in Procs, Crash(p) PROVE HeldKept
  BY <1>18 DEF Crash, Forget, Release, Unsaved, IsOldest
<1>19. CASE RequeueFailed
  BY <1>19 DEF RequeueFailed, Requeued
<1>20. ASSUME NEW c \in Times, SetCutoff(c) PROVE HeldKept
  BY <1>20 DEF SetCutoff
<1>21. CASE UNCHANGED vars
  BY <1>21 DEF vars
<1> HIDE DEF IInv, TypeOK, ProcessShape, GrantExclusion, InGrant, SnapshotFresh, Selected,
             HeldKept, IsDiscovery, IsTest, table, process, observed, counters, Procs
<1> QED
  BY <1>1, <1>2, <1>3, <1>4, <1>5, <1>6, <1>7, <1>8, <1>9, <1>10, <1>11, <1>12, <1>13, <1>14,
     <1>15, <1>16, <1>17, <1>18, <1>19, <1>20, <1>21
     DEF Next, DrainStep, TestStep

(* Held history leaves `held` only in a drain with include_held. *)
THEOREM HeldForReplay == Spec => HeldUntilReplayed
<1>1. IInv /\ [Next]_vars => [HeldKept]_vars
  BY HeldKeptStep
<1> QED
  BY <1>1, IInvHolds, PTL DEF Spec, HeldUntilReplayed

-----------------------------------------------------------------------------
(* Every step keeps the floors bounded: only a 429 raises one, to the      *)
(* clamped Retry-After from now, and the clock never goes back.            *)
LEMMA FloorStep == TypeOK /\ RetryFloorBounded /\ [Next]_vars => RetryFloorBounded'
<1> SUFFICES ASSUME TypeOK, RetryFloorBounded, [Next]_vars PROVE RetryFloorBounded'
  OBVIOUS
<1> USE DEF table, process, observed, counters
<1>1. /\ clock \in Nat /\ MaxRetryAfter \in Nat
      /\ \A r \in Rows : notBefore[r] \in Nat /\ notBefore[r] <= clock + MaxRetryAfter
  BY OutboxConstants DEF TypeOK, RetryFloorBounded, Times
<1>2. ASSUME UNCHANGED <<notBefore, clock>> PROVE RetryFloorBounded'
  BY <1>1, <1>2 DEF RetryFloorBounded
<1>3. CASE Tick
  BY <1>1, <1>3 DEF Tick, RetryFloorBounded
<1>4. ASSUME NEW p \in Drainers, NEW r \in Rows, PostRateLimited(p, r)
      PROVE  RetryFloorBounded'
  <2>1. PICK h \in RetryHeaders \ {NotANumber} :
          notBefore' = [notBefore EXCEPT ![r] = clock + RetryAfter(h)]
    BY <1>4 DEF PostRateLimited
  <2>2. RetryAfter(h) \in Nat /\ RetryAfter(h) <= MaxRetryAfter
    BY RetryAfterType, OutboxConstants
  <2>3. clock' = clock
    BY <1>4 DEF PostRateLimited
  <2> QED
    BY <1>1, <2>1, <2>2, <2>3 DEF RetryFloorBounded, TypeOK
<1>5. CASE RequeueFailed
  BY <1>1, <1>5 DEF RequeueFailed, RetryFloorBounded
<1>6. ASSUME NEW p \in Drainers, NEW r \in Rows,
             \/ SkipDeferred(p, r) \/ Hold(p, r) \/ Post(p, r)
             \/ PostRateLimitedNaN(p, r) \/ RecordOutcome(p, r)
      PROVE  UNCHANGED <<notBefore, clock>>
  BY <1>6 DEF SkipDeferred, Hold, Post, PostRateLimitedNaN, RecordOutcome
<1>7. ASSUME NEW p \in Testers, NEW r \in Rows,
             TestUnconfigured(p, r) \/ TestPost(p, r) \/ TestRecord(p, r)
      PROVE  UNCHANGED <<notBefore, clock>>
  BY <1>7 DEF TestUnconfigured, TestPost, TestRecord
<1>8. ASSUME NEW p \in Procs,
             \/ SelectRows(p) \/ Finish(p) \/ TestBusy(p) \/ TestAcquire(p) \/ Crash(p)
             \/ \E held \in BOOLEAN : Acquire(p, held)
             \/ \E r \in Rows, a \in Aims : PutTest(p, r, a)
      PROVE  UNCHANGED <<notBefore, clock>>
  BY <1>8 DEF SelectRows, Finish, TestBusy, TestAcquire, Crash, Acquire, PutTest
<1>9. ASSUME \/ \E r \in Rows : Enqueue(r)
             \/ \E c \in Times : SetCutoff(c)
             \/ UNCHANGED vars
      PROVE  UNCHANGED <<notBefore, clock>>
  BY <1>9 DEF Enqueue, SetCutoff, vars
<1> QED
  BY <1>2, <1>3, <1>4, <1>5, <1>6, <1>7, <1>8, <1>9 DEF Next, DrainStep, TestStep, Procs

(* No 429 parks a row beyond the ceiling, whatever its header says and     *)
(* however many drains, requeues and crashes come between.                 *)
THEOREM FloorsAreBounded == Spec => []RetryFloorBounded
<1>1. Init => RetryFloorBounded
  BY OutboxConstants DEF Init, RetryFloorBounded
<1> QED
  BY <1>1, FloorStep, TypeCorrect, PTL DEF Spec

-----------------------------------------------------------------------------
(* Only a drain's POST adds a copy of a discovery: a test send posts its   *)
(* own row, and nothing else posts.                                        *)
LEMMA ArrivalByDrain ==
  ASSUME IInv, [Next]_vars, NEW r \in Rows, IsDiscovery(r), copies'[r] > copies[r]
  PROVE  \E p \in Drainers : Post(p, r)
<1> USE DEF table, process, observed, counters
<1>1. copies \in [Rows -> Nat]
  BY DEF IInv, TypeOK
<1>2. copies' # copies
  BY <1>1
<1>3. ASSUME NEW p \in Drainers, NEW s \in Rows, Post(p, s) PROVE Post(p, r)
  <2>1. CASE s = r
    BY <1>3, <2>1
  <2>2. CASE s # r
    BY <1>1, <1>3, <2>2 DEF Post, PostAnswered
  <2> QED
    BY <2>1, <2>2
<1>4. ASSUME NEW p \in Testers, NEW s \in Rows, TestPost(p, s) PROVE FALSE
  <2>1. s \in batch[p]
    BY <1>4 DEF TestPost, IsOldest
  <2>2. s # r
    BY <2>1 DEF IInv, ProcessShape, IsTest, IsDiscovery
  <2> QED
    BY <1>1, <1>4, <2>2 DEF TestPost, PostAnswered
<1>5. ASSUME NEW p \in Drainers, NEW s \in Rows,
             \/ SkipDeferred(p, s) \/ Hold(p, s) \/ PostRateLimited(p, s)
             \/ PostRateLimitedNaN(p, s) \/ RecordOutcome(p, s)
      PROVE  FALSE
  BY <1>2, <1>5 DEF SkipDeferred, Hold, PostRateLimited, PostRateLimitedNaN, RecordOutcome
<1>6. ASSUME NEW p \in Testers, NEW s \in Rows, TestUnconfigured(p, s) \/ TestRecord(p, s)
      PROVE  FALSE
  BY <1>2, <1>6 DEF TestUnconfigured, TestRecord
<1>7. ASSUME NEW p \in Procs,
             \/ SelectRows(p) \/ Finish(p) \/ TestBusy(p) \/ TestAcquire(p) \/ Crash(p)
             \/ \E held \in BOOLEAN : Acquire(p, held)
             \/ \E s \in Rows, a \in Aims : PutTest(p, s, a)
      PROVE  FALSE
  BY <1>2, <1>7 DEF SelectRows, Finish, TestBusy, TestAcquire, Crash, Acquire, PutTest
<1>8. ASSUME \/ \E s \in Rows : Enqueue(s)
             \/ Tick \/ RequeueFailed
             \/ \E c \in Times : SetCutoff(c)
             \/ UNCHANGED vars
      PROVE  FALSE
  BY <1>2, <1>8 DEF Enqueue, Tick, RequeueFailed, SetCutoff, vars
<1> QED
  BY <1>3, <1>4, <1>5, <1>6, <1>7, <1>8 DEF Next, DrainStep, TestStep, Procs

(* The floor a drain compared with the clock is the row's floor still. *)
LEMMA FloorKeptStep == IInv /\ [Next]_vars => FloorKept
<1> SUFFICES ASSUME IInv, [Next]_vars, NEW r \in Rows, IsDiscovery(r), copies'[r] > copies[r]
             PROVE  clock >= notBefore[r]
  BY DEF FloorKept
<1>1. PICK p \in Drainers : Post(p, r)
  BY ArrivalByDrain
<1>2. r \in batch[p] /\ clock >= seen[p][r].notBefore
  BY <1>1 DEF Post, AtRow, IsOldest, EligibleNow
<1>3. notBefore[r] = seen[p][r].notBefore
  BY <1>2 DEF IInv, SnapshotFresh
<1> QED
  BY <1>2, <1>3

(* A discovery gets no copy inside its retry floor, although the drain     *)
(* compares the clock with the floor it read when it selected the row.     *)
THEOREM FloorsAreRespected == Spec => FloorRespected
<1>1. IInv /\ [Next]_vars => [FloorKept]_vars
  BY FloorKeptStep
<1> QED
  BY <1>1, IInvHolds, PTL DEF Spec, FloorRespected

-----------------------------------------------------------------------------
(* A drain under way has read the cutoff that is installed, unless it      *)
(* moved while the drain held the grant.                                   *)
PolicySeen ==
  \A p \in Drainers :
    pc[p] \in {"granted", "draining", "answered"} => overtaken \/ cutoff[p] = policy

(* Every step keeps it so: a drain reads the policy as it takes the grant, *)
(* and a move of the cutoff marks the drain that holds it.                 *)
LEMMA PolicyStep == IInv /\ PolicySeen /\ [Next]_vars => PolicySeen'
<1> SUFFICES ASSUME IInv, PolicySeen, [Next]_vars, NEW q \in Drainers,
                    pc'[q] \in {"granted", "draining", "answered"}, ~overtaken'
             PROVE  cutoff'[q] = policy'
  BY DEF PolicySeen
<1> USE DEF table, process, observed, counters
<1>1. /\ pc \in [Procs -> {"idle", "granted", "draining", "answered", "raised",
                           "queued", "posting", "tested"}]
      /\ cutoff \in [Procs -> Policy]
      /\ q \in Procs /\ q \notin Testers /\ Nobody \notin Procs
      /\ pc[q] \in {"granted", "draining", "answered"} =>
           grant = q /\ (overtaken \/ cutoff[q] = policy)
  BY OutboxConstants DEF IInv, TypeOK, GrantExclusion, InGrant, PolicySeen, Procs
<1>2. ASSUME pc[q] \in {"granted", "draining", "answered"},
             UNCHANGED <<policy, overtaken>>, cutoff'[q] = cutoff[q]
      PROVE  cutoff'[q] = policy'
  BY <1>1, <1>2
<1>3. ASSUME NEW p \in Drainers, NEW held \in BOOLEAN, Acquire(p, held)
      PROVE  cutoff'[q] = policy'
  BY <1>1, <1>3 DEF Acquire, GrantFree, Procs
<1>4. ASSUME NEW p \in Testers, TestAcquire(p) PROVE FALSE
  BY <1>1, <1>4 DEF TestAcquire, GrantFree
<1>5. ASSUME NEW c \in Times, SetCutoff(c) PROVE FALSE
  BY <1>1, <1>5 DEF SetCutoff
<1>6. ASSUME NEW p \in Drainers, NEW r \in Rows,
             \/ SkipDeferred(p, r) \/ Hold(p, r) \/ Post(p, r)
             \/ PostRateLimited(p, r) \/ PostRateLimitedNaN(p, r) \/ RecordOutcome(p, r)
      PROVE  cutoff'[q] = policy'
  BY <1>1, <1>2, <1>6
     DEF SkipDeferred, Hold, Post, PostRateLimited, PostRateLimitedNaN, RecordOutcome,
         AtRow, Forget
<1>7. ASSUME NEW p \in Procs,
             SelectRows(p) \/ Finish(p) \/ Crash(p)
      PROVE  cutoff'[q] = policy'
  BY <1>1, <1>2, <1>7 DEF SelectRows, Finish, Crash, Forget
<1>8. ASSUME NEW p \in Testers, NEW r \in Rows,
             \/ TestUnconfigured(p, r) \/ TestPost(p, r) \/ TestRecord(p, r) \/ TestBusy(p)
             \/ \E a \in Aims : PutTest(p, r, a)
      PROVE  cutoff'[q] = policy'
  BY <1>1, <1>2, <1>8 DEF TestUnconfigured, TestPost, TestRecord, TestBusy, PutTest, Forget
<1>9. ASSUME NEW p \in Testers, TestBusy(p) PROVE cutoff'[q] = policy'
  BY <1>1, <1>2, <1>9 DEF TestBusy, Forget
<1>10. ASSUME \/ \E r \in Rows : Enqueue(r)
              \/ Tick \/ RequeueFailed
              \/ UNCHANGED vars
       PROVE  cutoff'[q] = policy'
  BY <1>1, <1>2, <1>10 DEF Enqueue, Tick, RequeueFailed, vars
<1> QED
  BY <1>3, <1>4, <1>5, <1>6, <1>7, <1>8, <1>9, <1>10 DEF Next, DrainStep, TestStep, Procs

(* An arrival the installed cutoff rules out is a replay's, or that of a   *)
(* drain the cutoff overtook.                                              *)
LEMMA CutoffKeptStep == IInv /\ PolicySeen /\ [Next]_vars => CutoffKept
<1> SUFFICES ASSUME IInv, PolicySeen, [Next]_vars,
                    NEW r \in Rows, IsDiscovery(r), copies'[r] > copies[r],
                    policy = Unreadable \/ (policy \in Times /\ discoveredAt[r] < policy),
                    ~overtaken
             PROVE  \E p \in Drainers : replay[p] /\ grant = p
  BY DEF CutoffKept
<1>1. PICK p \in Drainers : Post(p, r)
  BY ArrivalByDrain
<1>2. pc[p] = "draining" /\ MaySend(p, r)
  BY <1>1 DEF Post, AtRow
<1>3. grant = p /\ cutoff[p] = policy
  BY <1>2 DEF IInv, GrantExclusion, InGrant, PolicySeen, Procs
<1>4. Decide(discoveredAt[r], policy) = "hold"
  <2>1. discoveredAt[r] \in Times /\ discoveredAt[r] # NoTime
    BY DEF IInv, TypeOK, IsDiscovery
  <2>2. CASE policy = Unreadable
    BY <2>2 DEF Decide
  <2>3. CASE policy \in Times /\ discoveredAt[r] < policy
    <3>1. policy # Unreadable /\ policy # NoCutoff
      BY <2>3, OutboxConstants DEF Times
    <3>2. ~(discoveredAt[r] >= policy)
      BY <2>1, <2>3, OutboxConstants DEF Times
    <3> QED
      BY <2>1, <3>1, <3>2 DEF Decide
  <2> QED
    BY <2>2, <2>3
<1> QED
  BY <1>2, <1>3, <1>4 DEF MaySend

(* A discovery before the installed cutoff reaches the channel only in a   *)
(* replay, or in a drain under way when the cutoff moved.                  *)
THEOREM CutoffsAreRespected == Spec => CutoffRespected
<1>1. Init => PolicySeen
  BY DEF Init, PolicySeen, Procs
<1>2. Spec => []PolicySeen
  BY <1>1, PolicyStep, IInvHolds, PTL DEF Spec
<1>3. IInv /\ PolicySeen /\ [Next]_vars => [CutoffKept]_vars
  BY CutoffKeptStep
<1> QED
  BY <1>2, <1>3, IInvHolds, PTL DEF Spec, CutoffRespected
-----------------------------------------------------------------------------
(* The contract sees of a row what it shows of a discovery; a step keeps   *)
(* the row when it leaves that as it was.                                  *)
Kept(s) ==
  /\ IsDiscovery(s)' <=> IsDiscovery(s)
  /\ IsDiscovery(s) => /\ status'[s] = status[s]
                       /\ copies'[s] = copies[s]
                       /\ unrecorded'[s] = unrecorded[s]
                       /\ Awaited(s)' <=> Awaited(s)

(* A kept row looks the same to the contract. *)
LEMMA KeptView ==
  ASSUME NEW s \in Rows, Kept(s)
  PROVE  /\ Phase'[s] = Phase[s] /\ Shown'[s] = Shown[s] /\ Lost'[s] = Lost[s]
         /\ s \in Open' <=> s \in Open
  BY DEF Kept, Phase, Shown, Lost, Open

(* A step that keeps every row is a stutter of the contract. *)
LEMMA AllKept ==
  ASSUME \A s \in Rows : Kept(s)
  PROVE  UNCHANGED Contract!vars
  <1>1. Phase' = Phase
    BY KeptView DEF Phase
  <1>2. Shown' = Shown
    BY KeptView DEF Shown
  <1>3. Lost' = Lost
    BY KeptView DEF Lost
  <1>4. Open' = Open
    BY KeptView DEF Open
  <1> QED
    BY <1>1, <1>2, <1>3, <1>4 DEF Contract!vars

(* A step that keeps every row but r changes the contract's state at r.    *)
LEMMA OthersKept ==
  ASSUME NEW r \in Rows, \A s \in Rows \ {r} : Kept(s)
  PROVE  /\ Phase' = [Phase EXCEPT ![r] = Phase'[r]]
         /\ Shown' = [Shown EXCEPT ![r] = Shown'[r]]
         /\ Lost' = [Lost EXCEPT ![r] = Lost'[r]]
         /\ Open' = IF r \in Open' THEN Open \cup {r} ELSE Open \ {r}
  <1>1. \A s \in Rows \ {r} : /\ Phase'[s] = Phase[s] /\ Shown'[s] = Shown[s]
                              /\ Lost'[s] = Lost[s] /\ (s \in Open' <=> s \in Open)
    BY KeptView
  <1>2. Phase' = [Phase EXCEPT ![r] = Phase'[r]]
    BY <1>1 DEF Phase
  <1>3. Shown' = [Shown EXCEPT ![r] = Shown'[r]]
    BY <1>1 DEF Shown
  <1>4. Lost' = [Lost EXCEPT ![r] = Lost'[r]]
    BY <1>1 DEF Lost
  <1>5. Open \subseteq Rows /\ Open' \subseteq Rows
    BY DEF Open
  <1>6. Open' = IF r \in Open' THEN Open \cup {r} ELSE Open \ {r}
    BY <1>1, <1>5
  <1> QED
    BY <1>2, <1>3, <1>4, <1>6

(* A row in the batch of a drain that has no success to store is awaited   *)
(* by nobody: that drain holds the grant, so no other has rows.            *)
LEMMA NotAwaited ==
  ASSUME IInv, NEW p \in Drainers, NEW r \in batch[p], answer[p] # "ok"
  PROVE  ~Awaited(r)
  <1> SUFFICES ASSUME NEW q \in Drainers, Unsaved(q, r) PROVE FALSE
    BY DEF Awaited
  <1>1. r \in batch[q] /\ answer[q] = "ok"
    BY DEF Unsaved, IsOldest
  <1>2. grant = q /\ grant = p
    BY <1>1, OnlyHolderHasRows DEF IInv
  <1> QED
    BY <1>1, <1>2

(* A step of p changes who is awaited only by what p itself has to store.  *)
LEMMA AwaitedFrame ==
  ASSUME NEW p, NEW s, ~Unsaved(p, s), ~Unsaved(p, s)',
         \A q \in Drainers \ {p} : UNCHANGED <<answer[q], batch[q], aim[q]>>
  PROVE  Awaited(s)' <=> Awaited(s)
  BY DEF Awaited, Unsaved

(* Test sends are no part of the contract: they touch marked rows only.    *)
LEMMA TestsKept ==
  ASSUME IInv, NEW p \in Testers,
         TestStep(p) \/ \E r \in Rows, a \in Aims : PutTest(p, r, a)
  PROVE  \A s \in Rows : Kept(s)
<1> SUFFICES ASSUME NEW s \in Rows PROVE Kept(s)
  OBVIOUS
<1> USE DEF TestStep, table, process, observed, counters
<1>1. /\ status \in [Rows -> Statuses] /\ copies \in [Rows -> Nat] /\ unrecorded \in [Rows -> Nat]
      /\ discoveredAt \in [Rows -> Times \cup {NoTime}] /\ p \in Procs
      /\ answer \in [Procs -> {"none", "ok", "error"}] /\ batch \in [Procs -> SUBSET Rows]
      /\ aim \in [Procs -> {"channel", "elsewhere"}]
      /\ p \notin Drainers /\ Drainers \subseteq Procs
      /\ \A x \in batch[p] : IsTest(x)
      /\ \A x \in Rows : status[x] = "absent" => discoveredAt[x] = NoTime
  BY OutboxConstants DEF IInv, TypeOK, ProcessShape, Procs
<1>2. Awaited(s)' <=> Awaited(s)
  <2>1. \A q \in Drainers : UNCHANGED <<answer[q], batch[q], aim[q]>>
    BY <1>1 DEF TestUnconfigured, TestPost, TestRecord, TestBusy, TestAcquire, PutTest,
                PostAnswered, Forget
  <2> QED
    BY <2>1 DEF Awaited, Unsaved
<1>3. discoveredAt' = discoveredAt
  BY DEF TestUnconfigured, TestPost, TestRecord, TestBusy, TestAcquire, PutTest
<1>4. ASSUME IsDiscovery(s)
      PROVE  status'[s] = status[s] /\ copies'[s] = copies[s] /\ unrecorded'[s] = unrecorded[s]
  <2>1. CASE s \in batch[p]
    BY <1>1, <1>4, <2>1 DEF IsTest, IsDiscovery
  <2>2. CASE s \notin batch[p] /\ ~NextId(s)
    BY <1>1, <2>2 DEF TestUnconfigured, TestPost, TestRecord, TestBusy, TestAcquire, PutTest,
                      Mark, PostAnswered, IsOldest
  <2>3. CASE NextId(s)
    BY <1>4, <2>3 DEF IsDiscovery, NextId
  <2> QED
    BY <2>1, <2>2, <2>3
<1>5. ASSUME ~IsDiscovery(s) PROVE ~IsDiscovery(s)'
  <2>1. discoveredAt[s] = NoTime
    BY <1>1, <1>5 DEF IsDiscovery
  <2> QED
    BY <1>3, <2>1 DEF IsDiscovery
<1>6. ASSUME IsDiscovery(s) PROVE IsDiscovery(s)'
  BY <1>3, <1>4, <1>6 DEF IsDiscovery
<1> QED
  BY <1>2, <1>4, <1>5, <1>6 DEF Kept

(* Steps of a drain that store no outcome and post nothing show nothing:   *)
(* the drain has no answer to store before them, and none after.           *)
LEMMA QuietDrainKept ==
  ASSUME IInv, NEW p \in Drainers,
         \/ SelectRows(p) \/ Finish(p) \/ \E held \in BOOLEAN : Acquire(p, held)
         \/ \E r \in Rows : \/ SkipDeferred(p, r) \/ PostRateLimited(p, r)
                          \/ PostRateLimitedNaN(p, r)
  PROVE  \A s \in Rows : Kept(s)
<1> USE DEF table, process, observed, counters
<1>1. /\ answer \in [Procs -> {"none", "ok", "error"}] /\ p \in Procs /\ Drainers \subseteq Procs
      /\ batch \in [Procs -> SUBSET Rows] /\ aim \in [Procs -> {"channel", "elsewhere"}]
      /\ pc[p] = "answered" <=> answer[p] # "none"
  BY DEF IInv, TypeOK, ProcessShape, Procs
<1>2. answer[p] = "none" /\ answer'[p] = "none"
  BY <1>1 DEF SelectRows, Finish, Acquire, SkipDeferred, PostRateLimited, PostRateLimitedNaN,
              AtRow, Forget
<1>3. \A q \in Drainers \ {p} : UNCHANGED <<answer[q], batch[q], aim[q]>>
  BY <1>1 DEF SelectRows, Finish, Acquire, SkipDeferred, PostRateLimited, PostRateLimitedNaN,
              Forget
<1>4. UNCHANGED <<status, discoveredAt, copies, unrecorded>>
  BY DEF SelectRows, Finish, Acquire, SkipDeferred, PostRateLimited, PostRateLimitedNaN
<1>5. \A s \in Rows : Awaited(s)' <=> Awaited(s)
  BY <1>2, <1>3, AwaitedFrame DEF Unsaved
<1> QED
  BY <1>4, <1>5 DEF Kept, IsDiscovery

(* What the drain at row r of its batch leaves alone: the other rows. *)
LEMMA DrainOthersKept ==
  ASSUME IInv, NEW p \in Drainers, NEW r \in Rows,
         Hold(p, r) \/ Post(p, r) \/ RecordOutcome(p, r)
  PROVE  \A s \in Rows \ {r} : Kept(s)
<1> SUFFICES ASSUME NEW s \in Rows \ {r} PROVE Kept(s)
  OBVIOUS
<1> USE DEF table, process, observed, counters
<1>1. /\ answer \in [Procs -> {"none", "ok", "error"}] /\ p \in Procs /\ Drainers \subseteq Procs
      /\ batch \in [Procs -> SUBSET Rows] /\ aim \in [Procs -> {"channel", "elsewhere"}]
      /\ status \in [Rows -> Statuses] /\ copies \in [Rows -> Nat] /\ unrecorded \in [Rows -> Nat]
      /\ pc[p] = "answered" <=> answer[p] # "none"
  BY DEF IInv, TypeOK, ProcessShape, Procs
<1>2. IsOldest(r, batch[p]) /\ batch[p] \subseteq Rows
  BY <1>1 DEF Hold, Post, RecordOutcome, AtRow
<1>3. ~IsOldest(s, batch[p])
  BY <1>2, OldestUnique
<1>4. ~Unsaved(p, s)'
  <2>1. CASE Post(p, r)
    BY <1>3, <2>1 DEF Post, Unsaved
  <2>2. CASE Hold(p, r) \/ RecordOutcome(p, r)
    BY <1>1, <2>2 DEF Hold, RecordOutcome, AtRow, Unsaved
  <2> QED
    BY <2>1, <2>2
<1>5. \A q \in Drainers \ {p} : UNCHANGED <<answer[q], batch[q], aim[q]>>
  BY <1>1 DEF Hold, Post, RecordOutcome, PostAnswered
<1>6. Awaited(s)' <=> Awaited(s)
  BY <1>3, <1>4, <1>5, AwaitedFrame DEF Unsaved
<1>7. /\ discoveredAt' = discoveredAt /\ status'[s] = status[s]
      /\ copies'[s] = copies[s] /\ unrecorded'[s] = unrecorded[s]
  BY <1>1 DEF Hold, Post, RecordOutcome, Mark, PostAnswered
<1> QED
  BY <1>6, <1>7 DEF Kept, IsDiscovery

(* A discovery a drain is at, with no success to store, is queued for the  *)
(* contract.                                                               *)
LEMMA QueuedAtRow ==
  ASSUME IInv, NEW p \in Drainers, NEW r \in batch[p], IsDiscovery(r), answer[p] # "ok"
  PROVE  r \in Rows /\ Contract!Queued(r)
  <1>1. r \in Rows
    BY DEF IInv, TypeOK, Procs
  <1>2. Phase[r] \in {"pending", "held"}
    BY <1>1, BatchQueued DEF IInv, Phase
  <1>3. r \notin Open
    BY NotAwaited DEF Open
  <1> QED
    BY <1>1, <1>2, <1>3 DEF Contract!Queued

(* Queueing a discovery announces it. *)
LEMMA EnqueueMaps ==
  ASSUME IInv, NEW r \in Rows, Enqueue(r)
  PROVE  Contract!Announce(r)
<1> USE DEF table, process, observed, counters
<1>1. /\ status \in [Rows -> Statuses] /\ discoveredAt \in [Rows -> Times \cup {NoTime}]
      /\ status[r] = "absent" /\ copies[r] = 0 /\ unrecorded[r] = 0
      /\ \A q \in Drainers : \A x \in batch[q] : status[x] # "absent"
  BY DEF IInv, TypeOK, ProcessShape, Enqueue, NextId
<1>2. \A s \in Rows : Awaited(s)' <=> Awaited(s)
  BY DEF Enqueue, Awaited, Unsaved
<1>3. \A s \in Rows \ {r} : Kept(s)
  BY <1>1, <1>2 DEF Enqueue, Kept, IsDiscovery
<1>4. ~Awaited(r)
  BY <1>1 DEF Awaited, Unsaved, IsOldest
<1>5. status'[r] = "pending" /\ discoveredAt'[r] # NoTime
  <2>1. PICK t \in 0..clock : discoveredAt' = [discoveredAt EXCEPT ![r] = t]
    BY DEF Enqueue
  <2>2. discoveredAt'[r] = t /\ t \in Nat
    BY <1>1, <2>1 DEF IInv, TypeOK, Times
  <2> QED
    BY <1>1, <2>2, OutboxConstants DEF Enqueue
<1>6. /\ Phase[r] = "absent" /\ Shown[r] = 0 /\ Lost[r] = 0 /\ r \notin Open
      /\ Phase'[r] = "pending" /\ Shown'[r] = 0 /\ Lost'[r] = 0 /\ r \notin Open'
  <2>1. ~IsDiscovery(r) /\ IsDiscovery(r)'
    BY <1>1, <1>5 DEF IsDiscovery
  <2>2. copies'[r] = 0 /\ unrecorded'[r] = 0
    BY <1>1 DEF Enqueue
  <2>3. ~Awaited(r)'
    BY <1>2, <1>4
  <2> QED
    BY <1>5, <2>1, <2>2, <2>3 DEF Phase, Shown, Lost, Open
<1>7. UNCHANGED <<Shown, Lost, Open>> /\ Phase' = [Phase EXCEPT ![r] = "pending"]
  <2>1. /\ Phase' = [Phase EXCEPT ![r] = Phase'[r]]
        /\ Shown' = [Shown EXCEPT ![r] = Shown'[r]]
        /\ Lost' = [Lost EXCEPT ![r] = Lost'[r]]
        /\ Open' = Open \ {r}
    BY <1>3, <1>6, OthersKept
  <2>2. Open' = Open
    BY <1>6, <2>1
  <2>3. Shown'[r] = Shown[r] /\ Lost'[r] = Lost[r]
    BY <1>6
  <2>4. Shown' = Shown /\ Lost' = Lost
    BY <2>1, <2>3 DEF Shown, Lost
  <2>5. Phase' = [Phase EXCEPT ![r] = "pending"]
    BY <1>6, <2>1
  <2> QED
    BY <2>2, <2>4, <2>5
<1> QED
  BY <1>6, <1>7 DEF Contract!Announce

(* Holding a row, or storing a failed attempt, declines a discovery. *)
LEMMA DeclineMaps ==
  ASSUME IInv, NEW p \in Drainers, NEW r \in Rows, IsDiscovery(r),
         Hold(p, r) \/ (RecordOutcome(p, r) /\ answer[p] = "error")
  PROVE  Contract!Decline(r)
<1> USE DEF table, process, observed, counters
<1>1. /\ status \in [Rows -> Statuses] /\ p \in Procs
      /\ answer \in [Procs -> {"none", "ok", "error"}]
      /\ pc[p] = "answered" <=> answer[p] # "none"
  BY DEF IInv, TypeOK, ProcessShape, Procs
<1>2. r \in batch[p] /\ answer[p] # "ok" /\ answer'[p] = "none"
  BY <1>1 DEF Hold, RecordOutcome, AtRow, IsOldest
<1>3. Contract!Queued(r)
  BY <1>2, QueuedAtRow
<1>4. \A q \in Drainers \ {p} : UNCHANGED <<answer[q], batch[q], aim[q]>>
  BY <1>1 DEF Hold, RecordOutcome, IInv, TypeOK, Procs
<1>5. ~Awaited(r) /\ ~Awaited(r)'
  BY <1>2, <1>4, NotAwaited, AwaitedFrame DEF Unsaved
<1>6. /\ discoveredAt' = discoveredAt /\ copies' = copies /\ unrecorded' = unrecorded
      /\ status'[r] \in {"pending", "held", "failed"}
  BY <1>1 DEF Hold, RecordOutcome, Mark
<1>7. IsDiscovery(r)'
  BY <1>6 DEF IsDiscovery
<1>8. /\ Phase'[r] \in {"pending", "held", "failed"}
      /\ Shown'[r] = Shown[r] /\ Lost'[r] = Lost[r] /\ r \notin Open /\ r \notin Open'
  BY <1>5, <1>6, <1>7 DEF Phase, Shown, Lost, Open
<1>9. /\ Phase' = [Phase EXCEPT ![r] = Phase'[r]] /\ Shown' = [Shown EXCEPT ![r] = Shown'[r]]
      /\ Lost' = [Lost EXCEPT ![r] = Lost'[r]] /\ Open' = Open \ {r}
  BY <1>8, DrainOthersKept, OthersKept
<1>10. UNCHANGED <<Shown, Lost, Open>>
  BY <1>8, <1>9 DEF Shown, Lost
<1> QED
  BY <1>3, <1>8, <1>9, <1>10 DEF Contract!Decline

(* Storing a success acknowledges the arrival. *)
LEMMA AcknowledgeMaps ==
  ASSUME IInv, NEW p \in Drainers, NEW r \in Rows, IsDiscovery(r),
         RecordOutcome(p, r), answer[p] = "ok"
  PROVE  Contract!Acknowledge(r)
<1> USE DEF table, process, observed, counters
<1>1. /\ status \in [Rows -> Statuses] /\ p \in Procs /\ aim[p] = "channel"
      /\ answer \in [Procs -> {"none", "ok", "error"}] /\ batch \in [Procs -> SUBSET Rows]
  BY DEF IInv, TypeOK, ProcessShape, Procs
<1>2. IsOldest(r, batch[p]) /\ r \in batch[p] /\ answer'[p] = "none"
  BY <1>1 DEF RecordOutcome, IsOldest
<1>3. Awaited(r)
  BY <1>1, <1>2 DEF Awaited, Unsaved
<1>4. ~Awaited(r)'
  <2>1. \A q \in Drainers \ {p} : batch[q] = {} /\ batch'[q] = batch[q]
    BY <1>1, <1>2, OnlyHolderHasRows DEF IInv, RecordOutcome, Procs
  <2> QED
    BY <1>2, <2>1 DEF Awaited, Unsaved, IsOldest
<1>5. /\ discoveredAt' = discoveredAt /\ copies' = copies /\ unrecorded' = unrecorded
      /\ status'[r] = "sent"
  BY <1>1 DEF RecordOutcome, Mark
<1>6. IsDiscovery(r)'
  BY <1>5 DEF IsDiscovery
<1>7. /\ Phase'[r] = "sent" /\ Shown'[r] = Shown[r] /\ Lost'[r] = Lost[r]
      /\ r \in Open /\ r \notin Open'
  BY <1>3, <1>4, <1>5, <1>6 DEF Phase, Shown, Lost, Open
<1>8. /\ Phase' = [Phase EXCEPT ![r] = Phase'[r]] /\ Shown' = [Shown EXCEPT ![r] = Shown'[r]]
      /\ Lost' = [Lost EXCEPT ![r] = Lost'[r]] /\ Open' = Open \ {r}
  BY <1>7, DrainOthersKept, OthersKept
<1>9. UNCHANGED <<Shown, Lost>>
  BY <1>7, <1>8 DEF Shown, Lost
<1> QED
  BY <1>7, <1>8, <1>9 DEF Contract!Acknowledge

(* A POST of a discovery arrives and is answered, arrives unacknowledged,  *)
(* or does not arrive.                                                     *)
LEMMA PostMaps ==
  ASSUME IInv, NEW p \in Drainers, NEW r \in Rows, IsDiscovery(r), Post(p, r)
  PROVE  \/ Contract!Arrive(r) \/ Contract!ArriveUnacknowledged(r)
         \/ UNCHANGED Contract!vars
<1> USE DEF table, process, observed, counters
<1>1. /\ copies \in [Rows -> Nat] /\ unrecorded \in [Rows -> Nat] /\ p \in Procs
      /\ answer \in [Procs -> {"none", "ok", "error"}] /\ aim[p] = "channel"
      /\ pc[p] = "answered" <=> answer[p] # "none"
  BY DEF IInv, TypeOK, ProcessShape, Procs
<1>2. IsOldest(r, batch[p]) /\ r \in batch[p] /\ answer[p] = "none" /\ batch' = batch /\ aim' = aim
  BY <1>1 DEF Post, AtRow, IsOldest
<1>3. Contract!Queued(r) /\ ~Awaited(r)
  BY <1>2, QueuedAtRow, NotAwaited
<1>4. /\ \A q \in Drainers \ {p} : UNCHANGED <<answer[q], batch[q], aim[q]>>
      /\ \A q \in Drainers \ {p} : batch[q] = {}
  BY <1>1, <1>2, OnlyHolderHasRows DEF IInv, Post, PostAnswered, Procs
<1>5. Awaited(r)' <=> answer'[p] = "ok"
  BY <1>1, <1>2, <1>4 DEF Awaited, Unsaved, IsOldest
<1>6. IsDiscovery(r)' /\ status' = status
  BY DEF Post, IsDiscovery
<1>7. /\ Phase'[r] = Phase[r] /\ r \notin Open /\ (r \in Open' <=> answer'[p] = "ok")
      /\ Shown[r] = copies[r] /\ Shown'[r] = copies'[r]
      /\ Lost[r] = unrecorded[r] /\ Lost'[r] = unrecorded'[r]
  BY <1>3, <1>5, <1>6 DEF Phase, Shown, Lost, Open
<1>8. /\ Phase' = [Phase EXCEPT ![r] = Phase'[r]] /\ Shown' = [Shown EXCEPT ![r] = Shown'[r]]
      /\ Lost' = [Lost EXCEPT ![r] = Lost'[r]]
      /\ Open' = IF r \in Open' THEN Open \cup {r} ELSE Open \ {r}
  BY DrainOthersKept, OthersKept
<1>9. Phase' = Phase
  BY <1>7, <1>8 DEF Phase
<1>10. CASE /\ answer' = [answer EXCEPT ![p] = "ok"] /\ unrecorded' = unrecorded
            /\ copies' = [copies EXCEPT ![r] = IF aim[p] = "channel" THEN @ + 1 ELSE @]
  <2>1. answer'[p] = "ok" /\ copies'[r] = copies[r] + 1
    BY <1>1, <1>10
  <2>2. Shown' = [Shown EXCEPT ![r] = @ + 1]
    BY <1>7, <1>8, <2>1
  <2>3. Lost' = Lost
    BY <1>7, <1>8, <1>10 DEF Lost
  <2>4. Open' = Open \cup {r}
    BY <1>7, <1>8, <2>1
  <2> QED
    BY <1>3, <1>9, <2>2, <2>3, <2>4 DEF Contract!Arrive
<1>11. CASE answer' = [answer EXCEPT ![p] = "error"] /\ UNCHANGED <<copies, unrecorded>>
  <2>1. answer'[p] # "ok"
    BY <1>1, <1>11
  <2>2. Shown' = Shown /\ Lost' = Lost
    BY <1>7, <1>8, <1>11 DEF Shown, Lost
  <2>3. Open' = Open
    BY <1>7, <1>8, <2>1
  <2> QED
    BY <1>9, <2>2, <2>3 DEF Contract!vars
<1>12. CASE /\ answer' = [answer EXCEPT ![p] = "error"]
            /\ copies' = [copies EXCEPT ![r] = @ + 1]
            /\ unrecorded' = [unrecorded EXCEPT ![r] = @ + 1]
  <2>1. answer'[p] # "ok" /\ copies'[r] = copies[r] + 1 /\ unrecorded'[r] = unrecorded[r] + 1
    BY <1>1, <1>12
  <2>2. Shown' = [Shown EXCEPT ![r] = @ + 1] /\ Lost' = [Lost EXCEPT ![r] = @ + 1]
    BY <1>7, <1>8, <2>1
  <2>3. Open' = Open
    BY <1>7, <1>8, <2>1
  <2> QED
    BY <1>3, <1>9, <2>2, <2>3 DEF Contract!ArriveUnacknowledged
<1> QED
  BY <1>10, <1>11, <1>12 DEF Post, PostAnswered

(* A process that dies with a success to store loses the acknowledgement;  *)
(* any other death shows nothing.                                          *)
LEMMA CrashMaps ==
  ASSUME IInv, NEW p \in Procs, Crash(p)
  PROVE  (\E r \in Rows : Contract!Lose(r)) \/ UNCHANGED Contract!vars
<1> USE DEF table, process, observed, counters
<1>1. /\ answer \in [Procs -> {"none", "ok", "error"}] /\ unrecorded \in [Rows -> Nat]
      /\ Drainers \subseteq Procs
      /\ answer'[p] = "none"
      /\ UNCHANGED <<status, discoveredAt, copies>>
      /\ \A s \in Rows : unrecorded'[s] = IF Unsaved(p, s) THEN unrecorded[s] + 1
                                                           ELSE unrecorded[s]
  BY DEF IInv, TypeOK, Procs, Crash, Forget
<1>2. \A q \in Drainers \ {p} : UNCHANGED <<answer[q], batch[q], aim[q]>>
  BY DEF Crash, Forget, IInv, TypeOK, Procs
<1>3. ASSUME NEW s \in Rows, ~(Unsaved(p, s) /\ IsDiscovery(s)) PROVE Kept(s)
  <2>1. IsDiscovery(s)' <=> IsDiscovery(s)
    BY <1>1 DEF IsDiscovery
  <2>2. ASSUME IsDiscovery(s) PROVE Awaited(s)' <=> Awaited(s)
    BY <1>1, <1>2, <1>3, <2>2, AwaitedFrame DEF Unsaved
  <2> QED
    BY <1>1, <1>3, <2>1, <2>2 DEF Kept
<1>4. CASE \A s \in Rows : ~(Unsaved(p, s) /\ IsDiscovery(s))
  BY <1>3, <1>4, AllKept
<1>5. CASE \E s \in Rows : Unsaved(p, s) /\ IsDiscovery(s)
  <2>1. PICK r \in Rows : Unsaved(p, r) /\ IsDiscovery(r)
    BY <1>5
  <2>2. IsOldest(r, batch[p]) /\ batch[p] \subseteq Rows
    BY <2>1 DEF Unsaved, IInv, TypeOK
  <2>3. \A s \in Rows \ {r} : Kept(s)
    BY <1>3, <2>2, OldestUnique DEF Unsaved
  <2>4. p \in Drainers
    BY <2>1, <2>2 DEF IInv, ProcessShape, IsTest, IsDiscovery, IsOldest, Procs
  <2>5. Awaited(r)
    BY <2>1, <2>4 DEF Awaited
  <2>6. ~Awaited(r)'
    <3>1. \A q \in Drainers \ {p} : batch[q] = {}
      BY <2>2, <2>4, OnlyHolderHasRows DEF IInv, IsOldest
    <3> QED
      BY <1>1, <1>2, <3>1 DEF Awaited, Unsaved, IsOldest
  <2>7. IsDiscovery(r)'
    BY <1>1, <2>1 DEF IsDiscovery
  <2>8. unrecorded'[r] = unrecorded[r] + 1
    BY <1>1, <2>1
  <2>9. /\ Phase'[r] = Phase[r] /\ Shown'[r] = Shown[r] /\ Lost'[r] = Lost[r] + 1
        /\ r \in Open /\ r \notin Open'
    BY <1>1, <2>1, <2>5, <2>6, <2>7, <2>8 DEF Phase, Shown, Lost, Open
  <2>10. /\ Phase' = [Phase EXCEPT ![r] = Phase'[r]] /\ Shown' = [Shown EXCEPT ![r] = Shown'[r]]
         /\ Lost' = [Lost EXCEPT ![r] = Lost'[r]] /\ Open' = Open \ {r}
    BY <2>3, <2>9, OthersKept
  <2>11. Phase' = Phase /\ Shown' = Shown
    BY <2>9, <2>10 DEF Phase, Shown
  <2>12. Lost' = [Lost EXCEPT ![r] = @ + 1]
    BY <2>9, <2>10
  <2> QED
    BY <2>9, <2>10, <2>11, <2>12 DEF Contract!Lose
<1> QED
  BY <1>4, <1>5

(* Requeueing puts every discovery that was given up back, and no other. *)
LEMMA RequeueMaps ==
  ASSUME IInv, RequeueFailed
  PROVE  Contract!PutBack
<1> USE DEF table, process, observed, counters
<1>1. /\ UNCHANGED <<discoveredAt, copies, unrecorded, answer, batch, aim>>
      /\ \A r \in Rows : status'[r] = IF status[r] = "failed" THEN "pending" ELSE status[r]
  BY DEF RequeueFailed, Requeued
<1>2. \A r \in Rows : IsDiscovery(r)' <=> IsDiscovery(r)
  BY <1>1 DEF IsDiscovery
<1>3. \A r \in Rows : Awaited(r)' <=> Awaited(r)
  BY <1>1 DEF Awaited, Unsaved
<1>4. Shown' = Shown /\ Lost' = Lost
  BY <1>1, <1>2 DEF Shown, Lost
<1>5. Open' = Open
  BY <1>2, <1>3 DEF Open
<1>6. \A r \in Rows : Phase'[r] = IF Phase[r] = "failed" THEN "pending" ELSE Phase[r]
  BY <1>1, <1>2 DEF Phase
<1>7. Phase' = [r \in Rows |-> IF Phase[r] = "failed" THEN "pending" ELSE Phase[r]]
  BY <1>6 DEF Phase
<1> QED
  BY <1>4, <1>5, <1>7 DEF Contract!PutBack

(* Every step of the outbox is a step of the contract, or shows nothing. *)
LEMMA ContractStep == IInv /\ [Next]_vars => [Contract!Next]_(Contract!vars)
<1> SUFFICES ASSUME IInv, [Next]_vars PROVE Contract!Next \/ UNCHANGED Contract!vars
  OBVIOUS
<1> USE DEF table, process, observed, counters
<1>1. ASSUME NEW r \in Rows, Enqueue(r) PROVE Contract!Next
  BY <1>1, EnqueueMaps DEF Contract!Next
<1>2. ASSUME NEW p \in Drainers, NEW r \in Rows, Hold(p, r)
      PROVE  Contract!Next \/ UNCHANGED Contract!vars
  <2>1. CASE IsDiscovery(r)
    BY <1>2, <2>1, DeclineMaps DEF Contract!Next
  <2>2. CASE ~IsDiscovery(r)
    <3>1. Kept(r)
      <4>1. status[r] # "absent"
        BY <1>2 DEF Hold, AtRow, IsOldest, IInv, ProcessShape
      <4> QED
        BY <1>2, <2>2, <4>1 DEF Hold, Kept, IsDiscovery
    <3> QED
      BY <1>2, <3>1, DrainOthersKept, AllKept
  <2> QED
    BY <2>1, <2>2
<1>3. ASSUME NEW p \in Drainers, NEW r \in Rows, Post(p, r)
      PROVE  Contract!Next \/ UNCHANGED Contract!vars
  <2>1. CASE IsDiscovery(r)
    BY <1>3, <2>1, PostMaps DEF Contract!Next
  <2>2. CASE ~IsDiscovery(r)
    <3>1. Kept(r)
      BY <1>3, <2>2 DEF Post, Kept, IsDiscovery
    <3> QED
      BY <1>3, <3>1, DrainOthersKept, AllKept
  <2> QED
    BY <2>1, <2>2
<1>4. ASSUME NEW p \in Drainers, NEW r \in Rows, RecordOutcome(p, r)
      PROVE  Contract!Next \/ UNCHANGED Contract!vars
  <2>1. CASE IsDiscovery(r)
    BY <1>4, <2>1, DeclineMaps, AcknowledgeMaps DEF Contract!Next, RecordOutcome
  <2>2. CASE ~IsDiscovery(r)
    <3>1. Kept(r)
      <4>1. status[r] # "absent"
        BY <1>4 DEF RecordOutcome, IsOldest, IInv, ProcessShape
      <4> QED
        BY <1>4, <2>2, <4>1 DEF RecordOutcome, Kept, IsDiscovery
    <3> QED
      BY <1>4, <3>1, DrainOthersKept, AllKept
  <2> QED
    BY <2>1, <2>2
<1>5. ASSUME NEW p \in Drainers,
             \/ SelectRows(p) \/ Finish(p) \/ \E held \in BOOLEAN : Acquire(p, held)
             \/ \E r \in Rows : \/ SkipDeferred(p, r) \/ PostRateLimited(p, r)
                              \/ PostRateLimitedNaN(p, r)
      PROVE  UNCHANGED Contract!vars
  BY <1>5, QuietDrainKept, AllKept
<1>6. ASSUME NEW p \in Testers,
             TestStep(p) \/ \E r \in Rows, a \in Aims : PutTest(p, r, a)
      PROVE  UNCHANGED Contract!vars
  BY <1>6, TestsKept, AllKept
<1>7. ASSUME NEW p \in Procs, Crash(p) PROVE Contract!Next \/ UNCHANGED Contract!vars
  BY <1>7, CrashMaps DEF Contract!Next
<1>8. CASE RequeueFailed
  BY <1>8, RequeueMaps DEF Contract!Next
<1>9. ASSUME \/ Tick \/ \E c \in Times : SetCutoff(c)
             \/ UNCHANGED vars
      PROVE  UNCHANGED Contract!vars
  <2>1. UNCHANGED <<status, discoveredAt, copies, unrecorded, answer, batch, aim>>
    BY <1>9 DEF Tick, SetCutoff, vars
  <2>2. \A s \in Rows : Kept(s)
    BY <2>1 DEF Kept, IsDiscovery, Awaited, Unsaved
  <2> QED
    BY <2>2, AllKept
<1> QED
  BY <1>1, <1>2, <1>3, <1>4, <1>5, <1>6, <1>7, <1>8, <1>9 DEF Next, DrainStep

(* The outbox, with its processes, locks, crashes, requeues and test       *)
(* sends, does to its discoveries only what the contract allows.           *)
THEOREM OutboxImplementsContract == Spec => ImplementsContract
<1>1. Init => Contract!Init
  BY OutboxConstants DEF Init, Contract!Init, Phase, Shown, Lost, Open, IsDiscovery
<1>2. IInv /\ [Next]_vars => [Contract!Next]_(Contract!vars)
  BY ContractStep
<1> QED
  BY <1>1, <1>2, IInvHolds, PTL DEF Spec, ImplementsContract, Contract!Spec
=============================================================================
