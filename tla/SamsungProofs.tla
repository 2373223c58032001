---------------------------- MODULE SamsungProofs ----------------------------
(***************************************************************************)
(* Proofs about SamsungReconciliation, for every set of processes (locked  *)
(* or not), listings, catalogues, support sites and bounds.                *)
(*                                                                         *)
(* EventsAccount and FirstSightKept are facts of one transaction: what     *)
(* they need besides the types is that a process under way has a time      *)
(* (Timed), 0 being kept for what has not happened yet.                    *)
(***************************************************************************)
EXTENDS SamsungReconciliation, SequenceTheorems, TLAPS

Timed == \A p \in Procs : pc[p] # "idle" => job[p].now # 0

Listed(p) == {r.listing : r \in Considered(p)}
StateOf(p, l) == CandidateState(Relationship(l, job[p].products, job[p].supports))
EventNow(l, t) == [listing |-> l, type |-> t, run |-> Len(records) + 1]

-----------------------------------------------------------------------------
(* The decisions.                                                          *)

(* A support page has one of four relationships to the catalogue, and a    *)
(* candidate beside its product is confirmed, any other one is not.        *)
LEMMA RelationshipType ==
  ASSUME NEW l \in Listings, NEW P, NEW S
  PROVE  /\ Relationship(l, P, S) \in SupportOnly \cup {"CATALOGUE_AND_SUPPORT"}
         /\ CandidateState(Relationship(l, P, S)) \in States
         /\ Confirmed(CandidateState(Relationship(l, P, S)))
                <=> Relationship(l, P, S) = "CATALOGUE_AND_SUPPORT"
<1>1. Relationship(l, P, S) \in SupportOnly \cup {"CATALOGUE_AND_SUPPORT"}
  BY DEF Relationship, SupportOnly
<1> QED
  BY <1>1 DEF CandidateState, States, Confirmed, SupportOnly

(* Records of a reconciliation have their type. *)
LEMMA RecordsType ==
  ASSUME NEW P \in SUBSET Listings, NEW S
  PROVE  SupportRecords(P, S) \in SUBSET Record /\ CatalogueRecords(P, S) \in SUBSET Record
<1>1. SupportRecords(P, S) \in SUBSET Record
  BY RelationshipType DEF SupportRecords, Supported, Record, Relationships
<1>2. \A l \in P : (CHOOSE d \in P : SameModel(l, d)) \in Listings
  BY DEF SameModel
<1>3. CatalogueRecords(P, S) \in SUBSET Record
  BY <1>2 DEF CatalogueRecords, Record, Relationships
<1> QED
  BY <1>1, <1>3

(* A row after the upsert of a candidate. *)
LEMMA UpsertType ==
  ASSUME TypeOK, NEW p \in Procs, NEW l \in Listings, NEW state \in States
  PROVE  /\ Upsert(p, l, state, job[p].now) \in Candidate
         /\ Upsert(p, l, state, job[p].now).state = state
<1>1. /\ job[p] \in Job /\ Region[l] \in Regions
      /\ candidates[l] \in Candidate \cup {NoCandidate}
  BY SamsungConstants DEF TypeOK, Regions
<1>2. job[p].now \in Nat /\ job[p].observed[Region[l]] \in Nat
  BY <1>1, SamsungConstants DEF Job, Times
<1>3. Quiet(p, l) \in BOOLEAN
  BY <1>1 DEF Quiet, Job
<1>4. CASE candidates[l] = NoCandidate
  BY <1>2, <1>3, <1>4 DEF Upsert, Candidate
<1>5. CASE candidates[l] # NoCandidate
  BY <1>1, <1>2, <1>5 DEF Upsert, Candidate
<1> QED
  BY <1>4, <1>5

(* What the transaction does to each row and to the events. *)
LEMMA PersistMeans ==
  ASSUME NEW p \in Procs, Persist(p), candidates \in [Listings -> Candidate \cup {NoCandidate}]
  PROVE  /\ Listed(p) \subseteq Listings
         /\ \A l \in Listings :
                candidates'[l] = IF l \in Listed(p) THEN Upsert(p, l, StateOf(p, l), job[p].now)
                                 ELSE candidates[l]
         /\ candidates' = [l \in Listings |-> candidates'[l]]
         /\ \A e : e \in events' <=>
                \/ e \in events
                \/ \E l \in Listed(p) : \E t \in News(p, l, StateOf(p, l)) : e = EventNow(l, t)
<1>1. Listed(p) \subseteq Listings
  BY DEF Listed, Considered, Found, SupportRecords, Supported
<1> DEFINE relationOf == [l \in Listed(p) |-> StateOf(p, l)]
<1>2. /\ candidates' = [l \in Listings |->
              IF l \in DOMAIN relationOf THEN Upsert(p, l, relationOf[l], job[p].now) ELSE candidates[l]]
      /\ events' = events \cup UNION {
              {EventNow(l, t) : t \in News(p, l, relationOf[l])} : l \in DOMAIN relationOf}
  BY DEF Persist, Listed, StateOf, EventNow
<1>3. DOMAIN relationOf = Listed(p) /\ \A l \in Listed(p) : relationOf[l] = StateOf(p, l)
  OBVIOUS
<1> HIDE DEF relationOf
<1>4. \A e : e \in events' <=>
                \/ e \in events
                \/ \E l \in Listed(p) : \E t \in News(p, l, StateOf(p, l)) : e = EventNow(l, t)
  BY <1>2, <1>3
<1> QED
  BY <1>1, <1>2, <1>3, <1>4

(* The news of a row are events. *)
LEMMA NewsType ==
  ASSUME NEW p, NEW l, NEW state PROVE News(p, l, state) \subseteq EventTypes
  BY DEF News, FirstSeenEvent, EventTypes, FirstSeenTypes

-----------------------------------------------------------------------------
(* Types.                                                                  *)

SInv == TypeOK /\ Timed /\ EventsAccount

(* The invariant holds at first. *)
LEMMA SInit == Init => SInv
<1> SUFFICES ASSUME Init PROVE SInv
  OBVIOUS
<1>1. TypeOK
  <2>1. 0 \in Times /\ 0 \in 0..MaxCrashes /\ "absent" \in Titles
    BY SamsungConstants DEF Times, Titles
  <2>2. records \in Seq(SUBSET Record) /\ onboarded \subseteq Regions /\ events \subseteq Event
    BY DEF Init
  <2>3. Idle \in Job
    BY <2>1 DEF Idle, Job
  <2>4. candidates \in [Listings -> Candidate \cup {NoCandidate}]
    BY DEF Init
  <2> QED
    BY <2>1, <2>2, <2>3, <2>4 DEF Init, TypeOK, Stages
<1>2. Timed
  BY DEF Init, Timed
<1>3. EventsAccount
  BY DEF Init, EventsAccount, EventsOf
<1> QED
  BY <1>1, <1>2, <1>3 DEF SInv

(* A process ends. *)
LEMMA EndType ==
  ASSUME TypeOK, Timed, NEW p \in Procs, pc' = [pc EXCEPT ![p] = "idle"],
         job' = [job EXCEPT ![p] = Idle], Release(p)
  PROVE  /\ pc' \in [Procs -> Stages]
         /\ job' \in [Procs -> Job]
         /\ lock' \in Procs \cup {Nobody}
         /\ Timed'
<1>1. Idle \in Job
  BY SamsungConstants DEF Idle, Job, Times, Titles, Regions
<1>2. lock' \in Procs \cup {Nobody}
  BY DEF TypeOK, Release
<1>3. Timed'
  BY DEF TypeOK, Timed
<1> QED
  BY <1>1, <1>2, <1>3 DEF TypeOK, Stages

(* A process goes on with other work in hand. *)
LEMMA GoType ==
  ASSUME TypeOK, Timed, NEW p \in Procs,
         NEW stage \in Stages \ {"idle"}, NEW work \in Job,
         pc' = [pc EXCEPT ![p] = stage], job' = [job EXCEPT ![p] = work], work.now # 0
  PROVE  /\ pc' \in [Procs -> Stages]
         /\ job' \in [Procs -> Job]
         /\ Timed'
<1>1. Timed'
  BY DEF TypeOK, Timed
<1> QED
  BY <1>1 DEF TypeOK

(* The transaction keeps the types of its tables. *)
LEMMA PersistTypes ==
  ASSUME TypeOK, Timed, NEW p \in Procs, Persist(p)
  PROVE  TypeOK' /\ Timed'
<1>1. /\ pc' = [pc EXCEPT ![p] = "idle"] /\ job' = [job EXCEPT ![p] = Idle] /\ Release(p)
      /\ onboarded' = onboarded \cup NewRegions(p)
      /\ records' = Append(records, Found(p) \cup CatalogueRecords(job[p].products, job[p].supports))
      /\ UNCHANGED <<selling, products, supports, observedAt, clock, crashes>>
  BY DEF Persist, Goto, collected
<1>2. /\ job[p] \in Job /\ job[p].products \in SUBSET Listings
      /\ candidates \in [Listings -> Candidate \cup {NoCandidate}] /\ events \subseteq Event
      /\ records \in Seq(SUBSET Record) /\ onboarded \subseteq Regions
  BY DEF TypeOK, Job
<1>3. onboarded' \subseteq Regions
  BY <1>1, <1>2 DEF NewRegions, SupportRegions, Supported, Regions
<1>4. records' \in Seq(SUBSET Record)
  <2> DEFINE new == Found(p) \cup CatalogueRecords(job[p].products, job[p].supports)
  <2>1. new \in SUBSET Record
    BY <1>2, RecordsType DEF Found
  <2> HIDE DEF new
  <2> QED
    BY <1>1, <1>2, <2>1 DEF new
<1>5. candidates' \in [Listings -> Candidate \cup {NoCandidate}]
  <2>1. \A l \in Listings : candidates'[l] \in Candidate \cup {NoCandidate}
    BY <1>2, PersistMeans, UpsertType, RelationshipType DEF StateOf
  <2>2. candidates' = [l \in Listings |-> candidates'[l]]
    BY <1>2, PersistMeans
  <2> QED
    BY <2>1, <2>2
<1>6. events' \subseteq Event
  <2>1. Len(records) + 1 \in Nat \ {0}
    BY <1>2
  <2>2. \A l \in Listings : \A t \in EventTypes : EventNow(l, t) \in Event
    BY <2>1 DEF EventNow, Event
  <2> QED
    BY <1>2, <2>2, PersistMeans, NewsType
<1>7. /\ pc' \in [Procs -> Stages]
      /\ job' \in [Procs -> Job] /\ lock' \in Procs \cup {Nobody} /\ Timed'
  BY <1>1, EndType
<1> QED
  BY <1>1, <1>3, <1>4, <1>5, <1>6, <1>7 DEF TypeOK

(* Every other step leaves the tables alone and keeps the types. *)
LEMMA OtherTypes ==
  ASSUME TypeOK, Timed, NEW p \in Procs,
         \/ Begin(p)
         \/ \E P \in Catalogues, S \in SupportSites, h \in SUBSET Regions : Collect(p, P, S, h)
         \/ NothingToCompare(p) \/ ReadProducts(p) \/ ReadSupports(p) \/ ReadBaseline(p)
         \/ ReadOnboarding(p) \/ PersistRefused(p) \/ Crash(p)
  PROVE  TypeOK' /\ Timed' /\ UNCHANGED tables
<1> USE SamsungConstants
<1>0. job[p] \in Job /\ (pc[p] # "idle" => job[p].now # 0)
      /\ clock \in Nat /\ MaxRuns \in Nat /\ MaxCrashes \in Nat
  BY DEF TypeOK, Timed, Times
<1>1. CASE Begin(p)
  <2> DEFINE work == [job[p] EXCEPT !.now = clock + 1]
  <2>1. work \in Job /\ work.now # 0 /\ clock + 1 \in Times
    BY <1>0, <1>1 DEF Begin, Job, Times
  <2>2. pc' = [pc EXCEPT ![p] = "collecting"] /\ job' = [job EXCEPT ![p] = work]
    BY <1>1 DEF Begin, Goto, TypeOK
  <2> HIDE DEF work
  <2>3. /\ pc' \in [Procs -> Stages]
        /\ job' \in [Procs -> Job] /\ Timed'
    BY <2>1, <2>2, GoType DEF Stages
  <2> QED
    BY <1>1, <2>1, <2>3 DEF Begin, TypeOK, tables, collected
<1>2. ASSUME NEW P \in Catalogues, NEW S \in SupportSites, NEW h \in SUBSET Regions, Collect(p, P, S, h)
      PROVE  TypeOK' /\ Timed' /\ UNCHANGED tables
  <2>1. /\ pc[p] = "collecting" /\ pc' = [pc EXCEPT ![p] = "collected"]
        /\ UNCHANGED <<tables, lock, clock, job, crashes>>
    BY <1>2 DEF Collect, Goto
  <2>2. selling' \in BOOLEAN /\ products' \subseteq Listings
    BY <1>2 DEF Collect, TypeOK
  <2>3. supports' \in [Listings -> Titles]
    BY <1>2 DEF Collect, TypeOK
  <2>4. observedAt' \in [Regions -> Times]
    BY <1>0, <1>2 DEF Collect, TypeOK, Job
  <2>5. Timed' /\ pc' \in [Procs -> Stages]
    BY <2>1 DEF TypeOK, Timed, Stages
  <2> QED
    BY <2>1, <2>2, <2>3, <2>4, <2>5 DEF TypeOK, tables
<1>3. CASE NothingToCompare(p) \/ PersistRefused(p) \/ Crash(p)
  <2>1. /\ pc' = [pc EXCEPT ![p] = "idle"] /\ job' = [job EXCEPT ![p] = Idle] /\ Release(p)
        /\ UNCHANGED <<collected, tables, clock>>
        /\ crashes' \in 0..MaxCrashes
    BY <1>0, <1>3 DEF NothingToCompare, PersistRefused, Crash, Goto, TypeOK
  <2>2. /\ pc' \in [Procs -> Stages]
        /\ job' \in [Procs -> Job] /\ lock' \in Procs \cup {Nobody} /\ Timed'
    BY <2>1, EndType
  <2> QED
    BY <2>1, <2>2 DEF TypeOK, collected, tables
<1>4. CASE ReadProducts(p)
  <2> DEFINE work == [job[p] EXCEPT !.products = products]
  <2>1. work \in Job /\ work.now = job[p].now
    BY <1>0 DEF TypeOK, Job
  <2>2. pc[p] = "collected" /\ pc' = [pc EXCEPT ![p] = "offered"] /\ job' = [job EXCEPT ![p] = work]
    BY <1>0, <1>4 DEF ReadProducts, Goto, TypeOK
  <2> HIDE DEF work
  <2>3. /\ pc' \in [Procs -> Stages]
        /\ job' \in [Procs -> Job] /\ Timed'
    BY <1>0, <2>1, <2>2, GoType DEF Stages
  <2> QED
    BY <1>4, <2>3 DEF ReadProducts, TypeOK, tables, collected
<1>5. CASE ReadSupports(p)
  <2> DEFINE work == [job[p] EXCEPT !.supports = supports, !.observed = observedAt]
  <2>1. work \in Job /\ work.now = job[p].now
    BY <1>0 DEF TypeOK, Job
  <2>2. pc[p] = "offered" /\ pc' = [pc EXCEPT ![p] = "compared"] /\ job' = [job EXCEPT ![p] = work]
    BY <1>0, <1>5 DEF ReadSupports, Goto, TypeOK
  <2> HIDE DEF work
  <2>3. /\ pc' \in [Procs -> Stages]
        /\ job' \in [Procs -> Job] /\ Timed'
    BY <1>0, <2>1, <2>2, GoType DEF Stages
  <2> QED
    BY <1>5, <2>3 DEF ReadSupports, TypeOK, tables, collected
<1>6. CASE ReadBaseline(p)
  <2> DEFINE work == [job[p] EXCEPT !.baseline = (records = <<>>)]
  <2>1. work \in Job /\ work.now = job[p].now
    BY <1>0 DEF Job
  <2>2. pc[p] = "compared" /\ pc' = [pc EXCEPT ![p] = "dated"] /\ job' = [job EXCEPT ![p] = work]
    BY <1>0, <1>6 DEF ReadBaseline, Goto, TypeOK
  <2> HIDE DEF work
  <2>3. /\ pc' \in [Procs -> Stages]
        /\ job' \in [Procs -> Job] /\ Timed'
    BY <1>0, <2>1, <2>2, GoType DEF Stages
  <2> QED
    BY <1>6, <2>3 DEF ReadBaseline, TypeOK, tables, collected
<1>7. CASE ReadOnboarding(p)
  <2> DEFINE work == [job[p] EXCEPT !.onboarded = onboarded]
  <2>1. work \in Job /\ work.now = job[p].now
    BY <1>0 DEF Job, TypeOK
  <2>2. pc[p] = "dated" /\ pc' = [pc EXCEPT ![p] = "ready"] /\ job' = [job EXCEPT ![p] = work]
    BY <1>0, <1>7 DEF ReadOnboarding, Goto, TypeOK
  <2> HIDE DEF work
  <2>3. /\ pc' \in [Procs -> Stages]
        /\ job' \in [Procs -> Job] /\ Timed'
    BY <1>0, <2>1, <2>2, GoType DEF Stages
  <2> QED
    BY <1>7, <2>3 DEF ReadOnboarding, TypeOK, tables, collected
<1> QED
  BY <1>1, <1>2, <1>3, <1>4, <1>5, <1>6, <1>7

-----------------------------------------------------------------------------
(* The account.                                                            *)

(* One transaction keeps one listing's account. *)
LEMMA PersistAccounts ==
  ASSUME TypeOK, Timed, EventsAccount, NEW p \in Procs, Persist(p)
  PROVE  EventsAccount'
<1>1. /\ candidates \in [Listings -> Candidate \cup {NoCandidate}] /\ events \subseteq Event
      /\ job[p].now # 0 /\ job[p] \in Job
  BY DEF TypeOK, Timed, Persist, Goto
<1> SUFFICES ASSUME NEW l \in Listings
             PROVE  IF candidates'[l] = NoCandidate THEN EventsOf(l, EventTypes)' = {}
                    ELSE /\ \A d, e \in EventsOf(l, FirstSeenTypes)' : d = e
                         /\ candidates'[l].baseline <=> EventsOf(l, FirstSeenTypes)' = {}
                         /\ candidates'[l].catalogueSeen # 0 <=>
                                EventsOf(l, {"SUPPORT_BEFORE_PRODUCT"})' # {}
                         /\ Confirmed(candidates'[l].state) => candidates'[l].catalogueSeen # 0
  BY DEF EventsAccount
<1> DEFINE state == StateOf(p, l)
           old == candidates[l]
<1>2. /\ state \in States
      /\ Confirmed(state) <=> Relationship(l, job[p].products, job[p].supports) = "CATALOGUE_AND_SUPPORT"
  BY RelationshipType DEF StateOf
<1>3. ASSUME NEW types
      PROVE  EventsOf(l, types)' = EventsOf(l, types)
                 \cup {EventNow(l, t) : t \in {u \in News(p, l, state) : u \in types /\ l \in Listed(p)}}
  <2>1. \A k, t : EventNow(k, t).listing = k /\ EventNow(k, t).type = t
    BY DEF EventNow
  <2> QED
    BY <1>1, <2>1, PersistMeans DEF EventsOf
<1>4. CASE l \notin Listed(p)
  <2>1. candidates'[l] = old
    BY <1>1, <1>4, PersistMeans
  <2>2. \A types : EventsOf(l, types)' = EventsOf(l, types)
    BY <1>3, <1>4
  <2> QED
    BY <2>1, <2>2 DEF EventsAccount
<1>5. CASE l \in Listed(p) /\ old = NoCandidate
  <2>1. ~ Confirmed(state)
    BY <1>2, <1>5 DEF Listed, Considered, Found, SupportRecords
  <2>2. /\ candidates'[l] = Upsert(p, l, state, job[p].now)
        /\ candidates'[l].state = state /\ candidates'[l] \in Candidate
    BY <1>1, <1>2, <1>5, PersistMeans, UpsertType
  <2>3. candidates'[l].catalogueSeen = 0 /\ (candidates'[l].baseline = Quiet(p, l))
    BY <1>5, <2>2 DEF Upsert
  <2>4. News(p, l, state) = IF Quiet(p, l) THEN {} ELSE {FirstSeenEvent(state)}
    BY <1>5 DEF News
  <2>5. EventsOf(l, EventTypes) = {}
    BY <1>5 DEF EventsAccount
  <2>6. EventsOf(l, FirstSeenTypes) = {} /\ EventsOf(l, {"SUPPORT_BEFORE_PRODUCT"}) = {}
    BY <2>5 DEF EventsOf, EventTypes
  <2>7. FirstSeenEvent(state) \in FirstSeenTypes
        /\ FirstSeenEvent(state) # "SUPPORT_BEFORE_PRODUCT"
    BY DEF FirstSeenEvent, FirstSeenTypes
  <2>8. /\ EventsOf(l, FirstSeenTypes)' =
                IF Quiet(p, l) THEN {} ELSE {EventNow(l, FirstSeenEvent(state))}
        /\ EventsOf(l, {"SUPPORT_BEFORE_PRODUCT"})' = {}
    BY <1>3, <1>5, <2>4, <2>6, <2>7
  <2>9. candidates'[l] # NoCandidate
    BY <2>2 DEF Candidate, NoCandidate, States
  <2>10. candidates'[l].baseline <=> EventsOf(l, FirstSeenTypes)' = {}
    BY <2>3, <2>8
  <2> HIDE DEF state
  <2> QED
    BY <2>1, <2>2, <2>3, <2>8, <2>9, <2>10
<1>6. CASE l \in Listed(p) /\ old # NoCandidate
  <2>1. /\ candidates'[l] = Upsert(p, l, state, job[p].now)
        /\ candidates'[l].state = state /\ candidates'[l] \in Candidate
        /\ old \in Candidate
    BY <1>1, <1>2, <1>6, PersistMeans, UpsertType
  <2>2. /\ candidates'[l].baseline = old.baseline
        /\ candidates'[l].catalogueSeen =
                IF old.catalogueSeen = 0 /\ Confirmed(state) THEN job[p].now ELSE old.catalogueSeen
    BY <1>6, <2>1 DEF Upsert, Candidate
  <2>3. News(p, l, state) =
            IF old.state # state /\ Confirmed(state) THEN {"SUPPORT_BEFORE_PRODUCT"} ELSE {}
    BY <1>6 DEF News
  <2>4. "SUPPORT_BEFORE_PRODUCT" \notin FirstSeenTypes
    BY DEF FirstSeenTypes
  <2> HIDE DEF state
  <2>5. EventsOf(l, FirstSeenTypes)' = EventsOf(l, FirstSeenTypes)
    <3>1. {u \in News(p, l, state) : u \in FirstSeenTypes /\ l \in Listed(p)} = {}
      BY <2>3, <2>4
    <3>2. EventsOf(l, FirstSeenTypes)' = EventsOf(l, FirstSeenTypes)
              \cup {EventNow(l, t) : t \in {u \in News(p, l, state) :
                                               u \in FirstSeenTypes /\ l \in Listed(p)}}
      BY <1>3
    <3> QED
      BY <3>1, <3>2
  <2>6. EventsOf(l, {"SUPPORT_BEFORE_PRODUCT"})' # {}
            <=> EventsOf(l, {"SUPPORT_BEFORE_PRODUCT"}) # {} \/ (old.state # state /\ Confirmed(state))
    BY <1>3, <1>6, <2>3
  <2>7. /\ \A d, e \in EventsOf(l, FirstSeenTypes) : d = e
        /\ old.baseline <=> EventsOf(l, FirstSeenTypes) = {}
        /\ old.catalogueSeen # 0 <=> EventsOf(l, {"SUPPORT_BEFORE_PRODUCT"}) # {}
        /\ Confirmed(old.state) => old.catalogueSeen # 0
    BY <1>6 DEF EventsAccount
  <2>8. candidates'[l] # NoCandidate
    BY <2>1 DEF Candidate, NoCandidate, States
  <2>9. candidates'[l].catalogueSeen # 0 <=> EventsOf(l, {"SUPPORT_BEFORE_PRODUCT"})' # {}
    BY <1>1, <2>2, <2>6, <2>7
  <2>10. Confirmed(candidates'[l].state) => candidates'[l].catalogueSeen # 0
    BY <1>1, <2>1, <2>2
  <2> QED
    BY <2>2, <2>5, <2>7, <2>8, <2>9, <2>10
<1> QED
  BY <1>4, <1>5, <1>6

(* Every step keeps the invariant. *)
LEMMA SStep == SInv /\ [Next]_vars => SInv'
<1> SUFFICES ASSUME SInv, [Next]_vars PROVE SInv'
  OBVIOUS
<1>0. TypeOK /\ Timed /\ EventsAccount
  BY DEF SInv
<1>1. ASSUME NEW p \in Procs, Persist(p) PROVE SInv'
  BY <1>0, <1>1, PersistTypes, PersistAccounts DEF SInv
<1>2. ASSUME NEW p \in Procs,
             \/ Begin(p)
             \/ \E P \in Catalogues, S \in SupportSites, h \in SUBSET Regions : Collect(p, P, S, h)
             \/ NothingToCompare(p) \/ ReadProducts(p) \/ ReadSupports(p) \/ ReadBaseline(p)
             \/ ReadOnboarding(p) \/ PersistRefused(p) \/ Crash(p)
      PROVE  SInv'
  <2>1. TypeOK' /\ Timed' /\ UNCHANGED tables
    BY <1>0, <1>2, OtherTypes
  <2>2. EventsAccount'
    BY <1>0, <2>1 DEF EventsAccount, EventsOf, tables
  <2> QED
    BY <2>1, <2>2 DEF SInv
<1>3. CASE UNCHANGED vars
  BY <1>0, <1>3 DEF SInv, vars, collected, tables, TypeOK, Timed, EventsAccount, EventsOf
<1> QED
  BY <1>1, <1>2, <1>3 DEF Next

(* Every behaviour keeps its types. *)
THEOREM TypeCorrect == Spec => []TypeOK
<1>1. SInv => TypeOK
  BY DEF SInv
<1> QED
  BY <1>1, SInit, SStep, PTL DEF Spec

(* The events of every candidate account for its row. *)
THEOREM EventsAreAccounted == Spec => []EventsAccount
<1>1. SInv => EventsAccount
  BY DEF SInv
<1> QED
  BY <1>1, SInit, SStep, PTL DEF Spec

(* One step remembers the beginnings of every candidate. *)
LEMMA StepRemembers ==
  ASSUME SInv, [Next]_vars, NEW l \in Listings, candidates[l] # NoCandidate
  PROVE  Remembered(candidates[l], candidates'[l])
<1>0. TypeOK /\ Timed /\ candidates[l] \in Candidate
  BY DEF SInv, TypeOK
<1>1. ASSUME NEW p \in Procs, Persist(p) PROVE Remembered(candidates[l], candidates'[l])
  <2>1. CASE l \in Listed(p)
    <3>1. StateOf(p, l) \in States
      BY RelationshipType DEF StateOf
    <3>2. /\ candidates'[l] = Upsert(p, l, StateOf(p, l), job[p].now) /\ candidates'[l] \in Candidate
      BY <1>0, <1>1, <2>1, <3>1, PersistMeans, UpsertType DEF TypeOK
    <3>3. candidates'[l] # NoCandidate
      BY <3>2 DEF Candidate, NoCandidate, States
    <3> QED
      BY <1>0, <3>2, <3>3 DEF Upsert, Remembered, Candidate
  <2>2. CASE l \notin Listed(p)
    BY <1>0, <1>1, <2>2, PersistMeans DEF Remembered, TypeOK
  <2> QED
    BY <2>1, <2>2
<1>2. CASE UNCHANGED candidates
  BY <1>2 DEF Remembered
<1>3. \/ \E p \in Procs : Persist(p)
      \/ UNCHANGED candidates
  BY DEF Next, vars, tables, Begin, Collect, NothingToCompare, ReadProducts, ReadSupports, ReadBaseline,
        ReadOnboarding, PersistRefused, Crash
<1> QED
  BY <1>1, <1>2, <1>3

(* What is remembered of a candidate's beginnings never changes. *)
THEOREM FirstSightIsKept == Spec => FirstSightKept
<1>1. SInv /\ [Next]_vars =>
        [\A l \in Listings : candidates[l] # NoCandidate => Remembered(candidates[l], candidates'[l])]_vars
  BY StepRemembers
<1> QED
  BY <1>1, SInit, SStep, PTL DEF Spec, FirstSightKept

-----------------------------------------------------------------------------
(* What the events say.  A first sighting is only news because a listing    *)
(* without a candidate was in no reconciliation without its product, one    *)
(* with a candidate was in some (Recalled), and because a region is only    *)
(* onboarded by a reconciliation that holds one of its support pages        *)
(* (Onboarding), even for a run that read the regions before another one    *)
(* stored its own.                                                         *)

SeenAlone(k, l) == RelationIn(k, l) \cap SupportOnly # {}
Looked(k, g) ==
    \E r \in records[k] : Region[r.listing] = g /\ r.relationship # "CATALOGUE_ONLY"

Reported == \A e \in events : e.run \in DOMAIN records
Recalled ==
    \A l \in Listings :
        candidates[l] = NoCandidate <=> \A k \in DOMAIN records : ~ SeenAlone(k, l)
Onboarding ==
    /\ \A g \in onboarded : \E k \in DOMAIN records : Looked(k, g)
    /\ \A p \in Procs : job[p].onboarded \subseteq onboarded

NewsInv == Reported /\ Recalled /\ Onboarding /\ EventsAreNews

(* The transaction adds one reconciliation after all others: each support  *)
(* page with its relationship, and what only the catalogue knows.          *)
LEMMA ReconciliationStored ==
  ASSUME TypeOK, NEW p \in Procs, Persist(p)
  PROVE  LET n == Len(records) + 1 IN
         /\ n \in Nat /\ n \notin DOMAIN records /\ DOMAIN records' = DOMAIN records \cup {n}
         /\ \A k \in DOMAIN records : k \in Nat /\ k < n /\ records'[k] = records[k]
         /\ \A r \in records'[n] :
                \/ /\ r.listing \in Supported(job[p].supports)
                   /\ r.relationship = Relationship(r.listing, job[p].products, job[p].supports)
                \/ r.relationship = "CATALOGUE_ONLY"
         /\ \A l \in Supported(job[p].supports) : \E r \in records'[n] :
                /\ r.listing = l
                /\ r.relationship = Relationship(l, job[p].products, job[p].supports)
<1> DEFINE new == Found(p) \cup CatalogueRecords(job[p].products, job[p].supports)
           n   == Len(records) + 1
<1>1. records \in Seq(SUBSET Record) /\ new \in SUBSET Record /\ records' = Append(records, new)
  BY RecordsType DEF Persist, Found, TypeOK, Job
<1>2. /\ \A r \in new :
            \/ /\ r.listing \in Supported(job[p].supports)
               /\ r.relationship = Relationship(r.listing, job[p].products, job[p].supports)
            \/ r.relationship = "CATALOGUE_ONLY"
      /\ \A l \in Supported(job[p].supports) : \E r \in new :
            /\ r.listing = l
            /\ r.relationship = Relationship(l, job[p].products, job[p].supports)
  <2> DEFINE Page(l) == [listing |-> l,
                         relationship |-> Relationship(l, job[p].products, job[p].supports)]
  <2>1. \A l : /\ Page(l).listing = l
               /\ Page(l).relationship = Relationship(l, job[p].products, job[p].supports)
    OBVIOUS
  <2>2. Found(p) = {Page(l) : l \in Supported(job[p].supports)}
    BY DEF Found, SupportRecords
  <2>3. \A r \in CatalogueRecords(job[p].products, job[p].supports) :
          r.relationship = "CATALOGUE_ONLY"
    BY DEF CatalogueRecords
  <2> HIDE DEF Page
  <2>4. \A r : r \in Found(p) <=> \E l \in Supported(job[p].supports) : r = Page(l)
    BY <2>2
  <2> QED
    BY <2>1, <2>3, <2>4
<1> HIDE DEF new
<1>3. /\ Len(records) \in Nat /\ DOMAIN records = 1..Len(records)
      /\ DOMAIN records' = 1..n /\ records'[n] = new
      /\ \A k \in 1..Len(records) : records'[k] = records[k]
  BY <1>1, AppendProperties, LenProperties
<1> QED
  BY <1>2, <1>3

(* Who is listed, and how. *)
LEMMA ListedMeans ==
  ASSUME NEW p \in Procs, NEW l \in Listings
  PROVE  l \in Listed(p) <=>
            /\ l \in Supported(job[p].supports)
            /\ candidates[l] = NoCandidate =>
                 Relationship(l, job[p].products, job[p].supports) # "CATALOGUE_AND_SUPPORT"
<1> DEFINE Page(i) == [listing |-> i,
                       relationship |-> Relationship(i, job[p].products, job[p].supports)]
<1>1. \A i : /\ Page(i).listing = i
             /\ Page(i).relationship = Relationship(i, job[p].products, job[p].supports)
  OBVIOUS
<1>2. Found(p) = {Page(i) : i \in Supported(job[p].supports)}
  BY DEF Found, SupportRecords
<1> HIDE DEF Page
<1>3. \A i : i \in Listed(p) <=> \E r \in Considered(p) : r.listing = i
  BY DEF Listed
<1>4. \A r : r \in Considered(p) <=>
        /\ \E i \in Supported(job[p].supports) : r = Page(i)
        /\ candidates[r.listing] = NoCandidate => r.relationship # "CATALOGUE_AND_SUPPORT"
  BY <1>2 DEF Considered
<1> QED
  BY <1>1, <1>3, <1>4

(* The transaction keeps what is remembered of earlier reconciliations, and *)
(* its events are news.                                                    *)
LEMMA PersistNews ==
  ASSUME SInv, NewsInv, NEW p \in Procs, Persist(p)
  PROVE  NewsInv'
<1>0. /\ TypeOK /\ candidates \in [Listings -> Candidate \cup {NoCandidate}]
      /\ job \in [Procs -> Job] /\ events \subseteq Event
  BY DEF SInv, TypeOK
<1>a. PICK n : n = Len(records) + 1
  OBVIOUS
<1>1. /\ n \in Nat /\ n \notin DOMAIN records /\ DOMAIN records' = DOMAIN records \cup {n}
      /\ \A k \in DOMAIN records : k \in Nat /\ k < n /\ records'[k] = records[k]
      /\ \A r \in records'[n] :
            \/ /\ r.listing \in Supported(job[p].supports)
               /\ r.relationship = Relationship(r.listing, job[p].products, job[p].supports)
            \/ r.relationship = "CATALOGUE_ONLY"
      /\ \A l \in Supported(job[p].supports) : \E r \in records'[n] :
            /\ r.listing = l
            /\ r.relationship = Relationship(l, job[p].products, job[p].supports)
  BY <1>0, <1>a, ReconciliationStored
<1>2. \A l, t : EventNow(l, t).run = n /\ EventNow(l, t).listing = l /\ EventNow(l, t).type = t
  BY <1>a DEF EventNow
<1>b. \A k, l, x : x \in RelationIn(k, l)' <=>
        \E r \in records'[k] : r.listing = l /\ r.relationship = x
  BY DEF RelationIn
<1>3. /\ \A k \in DOMAIN records : \A l : RelationIn(k, l)' = RelationIn(k, l)
      /\ \A k \in DOMAIN records : \A l : SeenAlone(k, l)' <=> SeenAlone(k, l)
      /\ \A k \in DOMAIN records : \A g : Looked(k, g)' <=> Looked(k, g)
  BY <1>1 DEF RelationIn, SeenAlone, Looked
<1>4. \A l \in Supported(job[p].supports) :
        /\ l \in Listings
        /\ Relationship(l, job[p].products, job[p].supports)
             \in SupportOnly \cup {"CATALOGUE_AND_SUPPORT"}
        /\ Relationship(l, job[p].products, job[p].supports) \in RelationIn(n, l)'
        /\ Looked(n, Region[l])'
  <2> SUFFICES ASSUME NEW l \in Supported(job[p].supports)
               PROVE  /\ l \in Listings
                      /\ Relationship(l, job[p].products, job[p].supports)
                           \in SupportOnly \cup {"CATALOGUE_AND_SUPPORT"}
                      /\ Relationship(l, job[p].products, job[p].supports) \in RelationIn(n, l)'
                      /\ Looked(n, Region[l])'
    OBVIOUS
  <2> DEFINE relationship == Relationship(l, job[p].products, job[p].supports)
  <2>1. l \in Listings /\ relationship \in SupportOnly \cup {"CATALOGUE_AND_SUPPORT"}
    BY RelationshipType DEF Supported
  <2>2. PICK r \in records'[n] : r.listing = l /\ r.relationship = relationship
    BY <1>1
  <2> HIDE DEF relationship
  <2>3. relationship \in RelationIn(n, l)'
    BY <1>b, <2>2
  <2>4. Looked(n, Region[l])'
    BY <2>1, <2>2 DEF Looked, SupportOnly
  <2> QED
    BY <2>1, <2>3, <2>4 DEF relationship
<1>5. \A l \in Listings : SeenAlone(n, l)' <=>
        /\ l \in Supported(job[p].supports)
        /\ Relationship(l, job[p].products, job[p].supports) \in SupportOnly
  <2> SUFFICES ASSUME NEW l \in Listings
               PROVE  SeenAlone(n, l)' <=>
                        /\ l \in Supported(job[p].supports)
                        /\ Relationship(l, job[p].products, job[p].supports) \in SupportOnly
    OBVIOUS
  <2>1. ASSUME SeenAlone(n, l)'
        PROVE  /\ l \in Supported(job[p].supports)
               /\ Relationship(l, job[p].products, job[p].supports) \in SupportOnly
    <3>1. PICK r \in records'[n] : r.listing = l /\ r.relationship \in SupportOnly
      BY <1>b, <2>1 DEF SeenAlone
    <3>2. r.relationship # "CATALOGUE_ONLY"
      BY <3>1 DEF SupportOnly
    <3> QED
      BY <1>1, <3>1, <3>2
  <2>2. ASSUME l \in Supported(job[p].supports),
               Relationship(l, job[p].products, job[p].supports) \in SupportOnly
        PROVE  SeenAlone(n, l)'
    BY <1>4, <2>2 DEF SeenAlone
  <2> QED
    BY <2>1, <2>2
<1>6. Recalled'
  <2> SUFFICES ASSUME NEW l \in Listings
               PROVE  candidates'[l] = NoCandidate
                        <=> \A k \in DOMAIN records' : ~ SeenAlone(k, l)'
    BY DEF Recalled
  <2>1. candidates[l] = NoCandidate <=> \A k \in DOMAIN records : ~ SeenAlone(k, l)'
    BY <1>3 DEF NewsInv, Recalled
  <2>2. "CATALOGUE_AND_SUPPORT" \notin SupportOnly
    BY DEF SupportOnly
  <2>3. CASE l \in Listed(p)
    <3>1. candidates'[l] # NoCandidate
      <4>1. StateOf(p, l) \in States
        BY RelationshipType DEF StateOf
      <4>2. candidates'[l] \in Candidate
        BY <1>0, <2>3, <4>1, PersistMeans, UpsertType
      <4> QED
        BY <4>2 DEF Candidate, NoCandidate, States
    <3>2. candidates[l] = NoCandidate => SeenAlone(n, l)'
      BY <1>4, <1>5, <2>3, ListedMeans
    <3> QED
      BY <1>1, <2>1, <3>1, <3>2
  <2>4. CASE l \notin Listed(p)
    <3>1. candidates'[l] = candidates[l]
      BY <1>0, <2>4, PersistMeans
    <3>2. candidates[l] = NoCandidate => ~ SeenAlone(n, l)'
      BY <1>5, <2>2, <2>4, ListedMeans
    <3> QED
      BY <1>1, <2>1, <3>1, <3>2
  <2> QED
    BY <2>3, <2>4
<1>7. Onboarding'
  <2>1. /\ onboarded' = onboarded \cup NewRegions(p) /\ job' = [job EXCEPT ![p] = Idle]
        /\ Idle.onboarded = {}
    BY DEF Persist, Idle
  <2>2. \A g \in NewRegions(p) : Looked(n, g)'
    BY <1>4 DEF NewRegions, SupportRegions
  <2>3. \A g \in onboarded' : \E k \in DOMAIN records' : Looked(k, g)'
    BY <1>1, <1>3, <2>1, <2>2 DEF NewsInv, Onboarding
  <2>4. \A q \in Procs : job'[q].onboarded \subseteq onboarded'
    BY <1>0, <2>1 DEF NewsInv, Onboarding
  <2> QED
    BY <2>3, <2>4 DEF Onboarding
<1>8. \A e \in events' :
        \/ e \in events
        \/ /\ e.run = n /\ e.listing \in Listed(p)
           /\ e.type \in News(p, e.listing, StateOf(p, e.listing))
  BY <1>0, <1>2, PersistMeans
<1>9. Reported'
  BY <1>1, <1>8 DEF NewsInv, Reported
<1>10. EventsAreNews'
  <2> SUFFICES ASSUME NEW e \in events'
               PROVE  LET earlier == {k \in DOMAIN records' : k < e.run} IN
                      IF e.type \in FirstSeenTypes
                      THEN /\ RelationIn(e.run, e.listing)' \cap SupportOnly # {}
                           /\ \A k \in earlier : RelationIn(k, e.listing)' \cap SupportOnly = {}
                           /\ \E k \in earlier : \E r \in records'[k] :
                                  Region[r.listing] = Region[e.listing]
                                  /\ r.relationship # "CATALOGUE_ONLY"
                      ELSE /\ "CATALOGUE_AND_SUPPORT" \in RelationIn(e.run, e.listing)'
                           /\ \E k \in earlier : RelationIn(k, e.listing)' \cap SupportOnly # {}
    BY DEF EventsAreNews
  <2> DEFINE earlier == {k \in DOMAIN records' : k < e.run}
             l       == e.listing
  <2>1. CASE e \in events
    <3>1. e.run \in DOMAIN records
      BY <2>1 DEF NewsInv, Reported
    <3>2. earlier = {k \in DOMAIN records : k < e.run} /\ earlier \subseteq DOMAIN records
      BY <1>1, <3>1
    <3>3. /\ \A k \in earlier : RelationIn(k, l)' = RelationIn(k, l) /\ records'[k] = records[k]
          /\ RelationIn(e.run, l)' = RelationIn(e.run, l)
      BY <1>1, <1>3, <3>1, <3>2
    <3>4. IF e.type \in FirstSeenTypes
          THEN /\ RelationIn(e.run, l) \cap SupportOnly # {}
               /\ \A k \in earlier : RelationIn(k, l) \cap SupportOnly = {}
               /\ \E k \in earlier : \E r \in records[k] :
                      Region[r.listing] = Region[l] /\ r.relationship # "CATALOGUE_ONLY"
          ELSE /\ "CATALOGUE_AND_SUPPORT" \in RelationIn(e.run, l)
               /\ \E k \in earlier : RelationIn(k, l) \cap SupportOnly # {}
      BY <2>1, <3>2 DEF NewsInv, EventsAreNews
    <3> HIDE DEF earlier
    <3> QED
      BY <3>3, <3>4 DEF earlier
  <2>2. CASE e \notin events
    <3>1. e.run = n /\ l \in Listed(p) /\ e.type \in News(p, l, StateOf(p, l))
      BY <1>8, <2>2
    <3>2. earlier = DOMAIN records
      BY <1>1, <3>1
    <3>3. /\ l \in Listings /\ l \in Supported(job[p].supports)
          /\ candidates[l] = NoCandidate =>
               Relationship(l, job[p].products, job[p].supports) # "CATALOGUE_AND_SUPPORT"
      BY <1>0, <3>1, PersistMeans, ListedMeans
    <3>4. \A k \in earlier : RelationIn(k, l)' = RelationIn(k, l) /\ records'[k] = records[k]
      BY <1>1, <1>3, <3>2
    <3> HIDE DEF earlier, l
    <3>5. CASE candidates[l] = NoCandidate
      <4>1. e.type = FirstSeenEvent(StateOf(p, l)) /\ ~ Quiet(p, l)
        BY <3>1, <3>5 DEF News
      <4>2. e.type \in FirstSeenTypes
        BY <4>1 DEF FirstSeenEvent, FirstSeenTypes
      <4>3. RelationIn(n, l)' \cap SupportOnly # {}
        BY <1>4, <3>3, <3>5
      <4>4. \A k \in earlier : RelationIn(k, l)' \cap SupportOnly = {}
        BY <3>2, <3>3, <3>4, <3>5 DEF NewsInv, Recalled, SeenAlone
      <4>5. Region[l] \in onboarded
        BY <3>3, <4>1 DEF Quiet, NewRegions, SupportRegions, NewsInv, Onboarding
      <4>6. \E k \in earlier : \E r \in records'[k] :
              Region[r.listing] = Region[l] /\ r.relationship # "CATALOGUE_ONLY"
        BY <3>2, <3>4, <4>5 DEF NewsInv, Onboarding, Looked
      <4> QED
        BY <3>1, <4>2, <4>3, <4>4, <4>6 DEF earlier, l
    <3>6. CASE candidates[l] # NoCandidate
      <4>1. e.type = "SUPPORT_BEFORE_PRODUCT" /\ Confirmed(StateOf(p, l))
        BY <3>1, <3>6 DEF News
      <4>2. e.type \notin FirstSeenTypes
        BY <4>1 DEF FirstSeenTypes
      <4>3. Relationship(l, job[p].products, job[p].supports) = "CATALOGUE_AND_SUPPORT"
        BY <3>3, <4>1, RelationshipType DEF StateOf
      <4>4. "CATALOGUE_AND_SUPPORT" \in RelationIn(n, l)'
        BY <1>4, <3>3, <4>3
      <4>5. \E k \in earlier : RelationIn(k, l)' \cap SupportOnly # {}
        BY <3>2, <3>3, <3>4, <3>6 DEF NewsInv, Recalled, SeenAlone
      <4> QED
        BY <3>1, <4>2, <4>4, <4>5 DEF earlier, l
    <3> QED
      BY <3>5, <3>6
  <2> QED
    BY <2>1, <2>2
<1> QED
  BY <1>6, <1>7, <1>9, <1>10 DEF NewsInv

(* Every other step leaves the tables alone, and reads the onboarded        *)
(* regions as they are.                                                    *)
LEMMA OtherNews ==
  ASSUME SInv, NewsInv, NEW p \in Procs,
         \/ Begin(p)
         \/ \E P \in Catalogues, S \in SupportSites, h \in SUBSET Regions : Collect(p, P, S, h)
         \/ NothingToCompare(p) \/ ReadProducts(p) \/ ReadSupports(p) \/ ReadBaseline(p)
         \/ ReadOnboarding(p) \/ PersistRefused(p) \/ Crash(p)
  PROVE  NewsInv'
<1>1. UNCHANGED <<records, onboarded, candidates, events>> /\ job \in [Procs -> Job]
  BY OtherTypes DEF SInv, TypeOK, tables
<1>2. \A q \in Procs : job'[q].onboarded \subseteq onboarded
  <2>1. \A q \in Procs : job[q].onboarded \subseteq onboarded
    BY DEF NewsInv, Onboarding
  <2>2. \/ job' = job
        \/ job' = [job EXCEPT ![p] = Idle]
        \/ job' = [job EXCEPT ![p].now = clock + 1]
        \/ job' = [job EXCEPT ![p].products = products]
        \/ job' = [job EXCEPT ![p].supports = supports, ![p].observed = observedAt]
        \/ job' = [job EXCEPT ![p].baseline = (records = <<>>)]
        \/ job' = [job EXCEPT ![p].onboarded = onboarded]
    BY DEF Begin, Collect, NothingToCompare, ReadProducts, ReadSupports, ReadBaseline, ReadOnboarding,
       PersistRefused, Crash
  <2>3. \A w \in Job : \A u, v :
          /\ [w EXCEPT !.now = u].onboarded = w.onboarded
          /\ [w EXCEPT !.products = u].onboarded = w.onboarded
          /\ [w EXCEPT !.supports = u, !.observed = v].onboarded = w.onboarded
          /\ [w EXCEPT !.baseline = u].onboarded = w.onboarded
          /\ [w EXCEPT !.onboarded = u].onboarded = u
    BY DEF Job
  <2>4. Idle.onboarded = {}
    BY DEF Idle
  <2>5. /\ \A q \in Procs \ {p} : job'[q] = job[q]
        /\ \/ job'[p] = job[p]
           \/ job'[p] = Idle
           \/ job'[p] = [job[p] EXCEPT !.now = clock + 1]
           \/ job'[p] = [job[p] EXCEPT !.products = products]
           \/ job'[p] = [job[p] EXCEPT !.supports = supports, !.observed = observedAt]
           \/ job'[p] = [job[p] EXCEPT !.baseline = (records = <<>>)]
           \/ job'[p] = [job[p] EXCEPT !.onboarded = onboarded]
    BY <1>1, <2>2
  <2>6. job'[p].onboarded \in {job[p].onboarded, {}, onboarded}
    <3>1. job[p] \in Job
      BY <1>1
    <3>2. CASE job'[p] = job[p] \/ job'[p] = Idle
      BY <2>4, <3>2
    <3>3. CASE job'[p] = [job[p] EXCEPT !.now = clock + 1]
      BY <2>3, <3>1, <3>3
    <3>4. CASE job'[p] = [job[p] EXCEPT !.products = products]
      BY <2>3, <3>1, <3>4
    <3>5. CASE job'[p] = [job[p] EXCEPT !.supports = supports, !.observed = observedAt]
      BY <2>3, <3>1, <3>5
    <3>6. CASE job'[p] = [job[p] EXCEPT !.baseline = (records = <<>>)]
      <4> DEFINE first == records = <<>>
      <4>1. job'[p] = [job[p] EXCEPT !.baseline = first]
        BY <3>6
      <4> HIDE DEF first
      <4> QED
        BY <2>3, <3>1, <4>1
    <3>7. CASE job'[p] = [job[p] EXCEPT !.onboarded = onboarded]
      BY <2>3, <3>1, <3>7
    <3> QED
      BY <2>5, <3>2, <3>3, <3>4, <3>5, <3>6, <3>7
  <2> QED
    BY <2>1, <2>5, <2>6
<1>3. /\ \A k, l : RelationIn(k, l)' = RelationIn(k, l) /\ (SeenAlone(k, l)' <=> SeenAlone(k, l))
      /\ \A k, g : Looked(k, g)' <=> Looked(k, g)
  BY <1>1 DEF RelationIn, SeenAlone, Looked
<1> QED
  BY <1>1, <1>2, <1>3 DEF NewsInv, Reported, Recalled, Onboarding, EventsAreNews

(* Every step keeps the news true. *)
LEMMA NewsStep == SInv /\ NewsInv /\ [Next]_vars => NewsInv'
<1> SUFFICES ASSUME SInv, NewsInv, [Next]_vars PROVE NewsInv'
  OBVIOUS
<1>1. ASSUME NEW p \in Procs, Persist(p) PROVE NewsInv'
  BY <1>1, PersistNews
<1>2. ASSUME NEW p \in Procs,
             \/ Begin(p)
             \/ \E P \in Catalogues, S \in SupportSites, h \in SUBSET Regions : Collect(p, P, S, h)
             \/ NothingToCompare(p) \/ ReadProducts(p) \/ ReadSupports(p) \/ ReadBaseline(p)
             \/ ReadOnboarding(p) \/ PersistRefused(p) \/ Crash(p)
      PROVE  NewsInv'
  BY <1>2, OtherNews
<1>3. CASE UNCHANGED vars
  BY <1>3 DEF NewsInv, Reported, Recalled, Onboarding, EventsAreNews, RelationIn, SeenAlone, Looked,
     vars, collected, tables
<1> QED
  BY <1>1, <1>2, <1>3 DEF Next

(* Nothing is recorded at first. *)
LEMMA NewsInit == Init => NewsInv
<1> SUFFICES ASSUME Init PROVE NewsInv
  OBVIOUS
<1>1. DOMAIN records = {} /\ events = {} /\ onboarded = {} /\ \A p \in Procs : job[p] = Idle
  BY DEF Init
<1>2. \A l \in Listings : candidates[l] = NoCandidate
  BY DEF Init
<1> QED
  BY <1>1, <1>2 DEF NewsInv, Reported, Recalled, Onboarding, EventsAreNews, Idle

(* What a candidate event says is true of the recorded reconciliations,    *)
(* with or without the run lock.                                           *)
THEOREM EventsSayTheTruth == Spec => []EventsAreNews
<1>1. NewsInv => EventsAreNews
  BY DEF NewsInv
<1> QED
  BY <1>1, SInit, SStep, NewsInit, NewsStep, PTL DEF Spec
=============================================================================
