------------------------ MODULE SamsungReconciliation ------------------------
(***************************************************************************)
(* Samsung's support pages against its product catalogue:                  *)
(* reconcile_samsung and persist_samsung_reconciliation of                 *)
(* intelligence/samsung.py, called by every run of cli.py and of           *)
(* local_collection.py after its collectors have stored what they saw.     *)
(* A listing is one regional SKU; its region and its base model are part   *)
(* of its name.  A support page is "absent", titled as a "watch"           *)
(* (known_smartwatch) or as an "other" thing (ambiguous, non_smartwatch).  *)
(*                                                                         *)
(* What is read before the transaction is read in four steps, so that runs *)
(* with --no-lock can interleave: the products (with the check that their  *)
(* collector ever was healthy, which stays true once it is), the support   *)
(* pages (of all regions together), whether this is the baseline, and the  *)
(* regions already onboarded.  The transaction is one step.                *)
(***************************************************************************)
EXTENDS Naturals, Sequences, FiniteSets

CONSTANTS
    Procs,          \* processes that run collections
    Unlocked,       \* those started with --no-lock
    Listings,       \* regional SKUs
    Region, Base,   \* functions: the region and the base model of a listing
    Catalogues,     \* what the product catalogue may show: sets of listings
    SupportSites,   \* what the support sites may show: titles of listings
    Nobody,
    MaxRuns, MaxCrashes     \* bounds of the model

Titles  == {"absent", "watch", "other"}
Regions == {Region[l] : l \in Listings}

ASSUME SamsungConstants ==
    /\ Unlocked \subseteq Procs
    /\ Nobody \notin Procs
    /\ DOMAIN Region = Listings /\ DOMAIN Base = Listings
    /\ Catalogues \subseteq SUBSET Listings
    /\ SupportSites \subseteq [Listings -> Titles]
    /\ {MaxRuns, MaxCrashes} \subseteq Nat

VARIABLES
    selling,    \* the product collector has a healthy run
    products,   \* its last healthy catalogue
    supports,   \* the support collectors' last healthy titles
    observedAt, \* per region: when its support collector was last healthy
    records,    \* samsung_reconciliation_records, by reconciliation run
    onboarded,  \* source_onboarding: regions of samsung_support
    candidates, \* prelaunch_candidates by key, or NoCandidate
    events,     \* samsung_candidate_events
    lock, clock, pc, job, crashes

collected == <<selling, products, supports, observedAt>>
tables    == <<records, onboarded, candidates, events>>
vars      == <<collected, tables, lock, clock, pc, job, crashes>>

NoCandidate == [state |-> "NONE", firstSeen |-> 0, lastSeen |-> 0, catalogueSeen |-> 0,
                baseline |-> FALSE]

Idle == [now |-> 0, products |-> {}, supports |-> [l \in Listings |-> "absent"],
         observed |-> [r \in Regions |-> 0], baseline |-> FALSE, onboarded |-> {}]

Init ==
    /\ selling = FALSE /\ products = {}
    /\ supports = [l \in Listings |-> "absent"]
    /\ observedAt = [r \in Regions |-> 0]
    /\ records = <<>> /\ onboarded = {} /\ events = {}
    /\ candidates = [l \in Listings |-> NoCandidate]
    /\ lock = Nobody /\ clock = 0 /\ crashes = 0
    /\ pc = [p \in Procs |-> "idle"]
    /\ job = [p \in Procs |-> Idle]

-----------------------------------------------------------------------------
(* reconcile_samsung: one record per support page, and one per region and  *)
(* base model that only the catalogue knows.                               *)

Supported(S) == {l \in Listings : S[l] # "absent"}

Relationship(l, P, S) ==
    CASE S[l] # "watch"                     -> "AMBIGUOUS_SUPPORT_ONLY"
      [] S[l] = "watch" /\ l \in P          -> "CATALOGUE_AND_SUPPORT"
      [] S[l] = "watch" /\ l \notin P       ->
            IF \E d \in P : Base[d] = Base[l]
              THEN "SUPPORT_ONLY_REGIONAL_SKU" ELSE "SUPPORT_ONLY_BASE_MODEL"

SupportRecords(P, S) ==
    {[listing |-> l, relationship |-> Relationship(l, P, S)] : l \in Supported(S)}

SameModel(l, d) == Region[l] = Region[d] /\ Base[l] = Base[d]

CatalogueRecords(P, S) ==
    {[listing |-> CHOOSE d \in P : SameModel(l, d), relationship |-> "CATALOGUE_ONLY"] :
        l \in {d \in P : \A s \in Listings : S[s] = "watch" => ~ SameModel(s, d)}}

(* The candidate's state for a relationship. *)
CandidateStateRaw(relationship) == relationship
CandidateState(relationship) ==
    CASE relationship = "SUPPORT_ONLY_BASE_MODEL"   -> "GLOBAL_UNKNOWN_SUPPORT_MODEL"
      [] relationship = "SUPPORT_ONLY_REGIONAL_SKU" -> "KNOWN_GLOBALLY_SUPPORT_FIRST_IN_REGION"
      [] relationship = "AMBIGUOUS_SUPPORT_ONLY"    -> "AMBIGUOUS_OFFICIAL_IDENTIFIER"
      [] OTHER                                      -> "COMMERCIALLY_CONFIRMED"

FirstSeenEvent(state) ==
    IF state = "GLOBAL_UNKNOWN_SUPPORT_MODEL"
      THEN "SUPPORT_MODEL_FIRST_SEEN" ELSE "SUPPORT_REGIONAL_SKU_FIRST_SEEN"

-----------------------------------------------------------------------------
(* persist_samsung_reconciliation, for what process p has read.            *)

Found(p) == SupportRecords(job[p].products, job[p].supports)

SupportRegions(p) == {Region[l] : l \in Supported(job[p].supports)}
NewRegions(p) == SupportRegions(p) \ job[p].onboarded

(* The first reconciliation, and the first of a region, say nothing. *)
QuietOnlyFirst(p, l) == job[p].baseline
Quiet(p, l) == job[p].baseline \/ Region[l] \in NewRegions(p)

(* A listing that is already on sale becomes no candidate. *)
Considered(p) ==
    {r \in Found(p) :
        candidates[r.listing] = NoCandidate => r.relationship # "CATALOGUE_AND_SUPPORT"}

Confirmed(state) == state = "COMMERCIALLY_CONFIRMED"

UpsertForgets(p, l, state, now) ==
    [state |-> state, firstSeen |-> job[p].observed[Region[l]], lastSeen |-> now,
     catalogueSeen |-> IF Confirmed(state) THEN now ELSE 0, baseline |-> Quiet(p, l)]

(* INSERT ... ON CONFLICT(candidate_key) DO UPDATE *)
Upsert(p, l, state, now) ==
    LET old == candidates[l] IN
    IF old = NoCandidate
      THEN [state |-> state, firstSeen |-> job[p].observed[Region[l]], lastSeen |-> now,
            catalogueSeen |-> 0, baseline |-> Quiet(p, l)]
      ELSE [old EXCEPT !.state = state, !.lastSeen = now,
                       !.catalogueSeen = IF @ = 0 /\ Confirmed(state) THEN now ELSE @]

(* pending_event *)
NewsAgain(p, l, state) ==
    IF Confirmed(state) THEN {"SUPPORT_BEFORE_PRODUCT"}
    ELSE IF Quiet(p, l) THEN {} ELSE {FirstSeenEvent(state)}

News(p, l, state) ==
    LET old == candidates[l] IN
    IF old # NoCandidate
      THEN IF old.state # state /\ Confirmed(state) THEN {"SUPPORT_BEFORE_PRODUCT"} ELSE {}
      ELSE IF Quiet(p, l) THEN {} ELSE {FirstSeenEvent(state)}

-----------------------------------------------------------------------------
(* One run.                                                                *)

Goto(p, from, to) == pc[p] = from /\ pc' = [pc EXCEPT ![p] = to]

Begin(p) ==
    /\ Goto(p, "idle", "collecting")
    /\ clock < MaxRuns
    /\ p \in Unlocked \/ lock = Nobody
    /\ lock' = IF p \in Unlocked THEN lock ELSE p
    /\ clock' = clock + 1
    /\ job' = [job EXCEPT ![p].now = clock + 1]
    /\ UNCHANGED <<collected, tables, crashes>>

(* The collectors of the run: some are healthy and store what they saw,    *)
(* the last healthy catalogue of the others stays.                         *)
Collect(p, P, S, healthy) ==
    /\ Goto(p, "collecting", "collected")
    /\ \/ selling' = TRUE /\ products' = P
       \/ UNCHANGED <<selling, products>>
    /\ supports' = [l \in Listings |-> IF Region[l] \in healthy THEN S[l] ELSE supports[l]]
    /\ observedAt' = [r \in Regions |-> IF r \in healthy THEN job[p].now ELSE observedAt[r]]
    /\ UNCHANGED <<tables, lock, clock, job, crashes>>

Release(p) == lock' = IF lock = p THEN Nobody ELSE lock

(* has_healthy_run("samsung_product_catalogue") is false. *)
NothingToCompare(p) ==
    /\ ~ selling
    /\ Goto(p, "collected", "idle")
    /\ job' = [job EXCEPT ![p] = Idle]
    /\ Release(p)
    /\ UNCHANGED <<collected, tables, clock, crashes>>

ReadProducts(p) ==
    /\ selling
    /\ Goto(p, "collected", "offered")
    /\ job' = [job EXCEPT ![p].products = products]
    /\ UNCHANGED <<collected, tables, lock, clock, crashes>>

ReadSupports(p) ==
    /\ Goto(p, "offered", "compared")
    /\ job' = [job EXCEPT ![p].supports = supports, ![p].observed = observedAt]
    /\ UNCHANGED <<collected, tables, lock, clock, crashes>>

ReadBaseline(p) ==
    /\ Goto(p, "compared", "dated")
    /\ job' = [job EXCEPT ![p].baseline = (records = <<>>)]
    /\ UNCHANGED <<collected, tables, lock, clock, crashes>>

ReadOnboarding(p) ==
    /\ Goto(p, "dated", "ready")
    /\ job' = [job EXCEPT ![p].onboarded = onboarded]
    /\ UNCHANGED <<collected, tables, lock, clock, crashes>>

Persist(p) ==
    LET now == job[p].now
        relationOf == [l \in {r.listing : r \in Considered(p)} |->
                          CandidateState(Relationship(l, job[p].products, job[p].supports))]
    IN
    /\ NewRegions(p) \cap onboarded = {}
    /\ Goto(p, "ready", "idle")
    /\ onboarded' = onboarded \cup NewRegions(p)
    /\ records' = Append(records, Found(p) \cup CatalogueRecords(job[p].products, job[p].supports))
    /\ candidates' = [l \in Listings |->
            IF l \in DOMAIN relationOf THEN Upsert(p, l, relationOf[l], now) ELSE candidates[l]]
    /\ events' = events \cup UNION {
            {[listing |-> l, type |-> t, run |-> Len(records) + 1] : t \in News(p, l, relationOf[l])}
                : l \in DOMAIN relationOf}
    /\ job' = [job EXCEPT ![p] = Idle]
    /\ Release(p)
    /\ UNCHANGED <<collected, clock, crashes>>

(* Another run onboarded the region meanwhile: the primary key refuses the *)
(* insert, the transaction is rolled back and the run ends by an error.    *)
PersistRefused(p) ==
    /\ NewRegions(p) \cap onboarded # {}
    /\ Goto(p, "ready", "idle")
    /\ job' = [job EXCEPT ![p] = Idle]
    /\ Release(p)
    /\ UNCHANGED <<collected, tables, clock, crashes>>

Crash(p) ==
    /\ pc[p] # "idle"
    /\ crashes < MaxCrashes
    /\ pc' = [pc EXCEPT ![p] = "idle"]
    /\ job' = [job EXCEPT ![p] = Idle]
    /\ crashes' = crashes + 1
    /\ Release(p)
    /\ UNCHANGED <<collected, tables, clock>>

Next ==
    \E p \in Procs :
        \/ Begin(p)
        \/ \E P \in Catalogues, S \in SupportSites, h \in SUBSET Regions : Collect(p, P, S, h)
        \/ NothingToCompare(p)
        \/ ReadProducts(p)
        \/ ReadSupports(p)
        \/ ReadBaseline(p)
        \/ ReadOnboarding(p)
        \/ Persist(p)
        \/ PersistRefused(p)
        \/ Crash(p)

Spec == Init /\ [][Next]_vars

-----------------------------------------------------------------------------
SupportOnly == {"SUPPORT_ONLY_BASE_MODEL", "SUPPORT_ONLY_REGIONAL_SKU", "AMBIGUOUS_SUPPORT_ONLY"}
FirstSeenTypes == {"SUPPORT_MODEL_FIRST_SEEN", "SUPPORT_REGIONAL_SKU_FIRST_SEEN"}
EventTypes == FirstSeenTypes \cup {"SUPPORT_BEFORE_PRODUCT"}
States == {"GLOBAL_UNKNOWN_SUPPORT_MODEL", "KNOWN_GLOBALLY_SUPPORT_FIRST_IN_REGION",
           "AMBIGUOUS_OFFICIAL_IDENTIFIER", "COMMERCIALLY_CONFIRMED"}
Candidate == [state : States, firstSeen : Nat, lastSeen : Nat, catalogueSeen : Nat,
              baseline : BOOLEAN]

Event == [listing : Listings, type : EventTypes, run : Nat \ {0}]
Relationships == SupportOnly \cup {"CATALOGUE_AND_SUPPORT", "CATALOGUE_ONLY"}
Record == [listing : Listings, relationship : Relationships]
Times == 0..MaxRuns
Job == [now : Times, products : SUBSET Listings, supports : [Listings -> Titles],
        observed : [Regions -> Times], baseline : BOOLEAN, onboarded : SUBSET Regions]

Stages == {"idle", "collecting", "collected", "offered", "compared", "dated", "ready"}

(* Every variable keeps its type. *)
TypeOK ==
    /\ selling \in BOOLEAN /\ products \subseteq Listings
    /\ supports \in [Listings -> Titles] /\ observedAt \in [Regions -> Times]
    /\ records \in Seq(SUBSET Record) /\ onboarded \subseteq Regions
    /\ candidates \in [Listings -> Candidate \cup {NoCandidate}]
    /\ events \subseteq Event
    /\ lock \in Procs \cup {Nobody} /\ clock \in Times /\ crashes \in 0..MaxCrashes
    /\ pc \in [Procs -> Stages]
    /\ job \in [Procs -> Job]

EventsOf(l, types) == {e \in events : e.listing = l /\ e.type \in types}

(* The events of a candidate account for its row.  One made by a region's  *)
(* onboarding, or by the first reconciliation, was never announced; every  *)
(* other one was announced once; and it has been on sale since the first   *)
(* SUPPORT_BEFORE_PRODUCT and not before (persist_samsung_reconciliation). *)
EventsAccount ==
    \A l \in Listings :
        IF candidates[l] = NoCandidate THEN EventsOf(l, EventTypes) = {}
        ELSE /\ \A d, e \in EventsOf(l, FirstSeenTypes) : d = e
             /\ candidates[l].baseline <=> EventsOf(l, FirstSeenTypes) = {}
             /\ candidates[l].catalogueSeen # 0 <=>
                    EventsOf(l, {"SUPPORT_BEFORE_PRODUCT"}) # {}
             /\ Confirmed(candidates[l].state) => candidates[l].catalogueSeen # 0

RelationIn(k, l) == {r.relationship : r \in {q \in records[k] : q.listing = l}}

(* What an event says is true of the recorded reconciliations.  First      *)
(* seen: the listing's support page was in none of the earlier ones except *)
(* beside its product, and its region had been looked at before.  Support  *)
(* before product: now both are there, and an earlier reconciliation had   *)
(* the support page without the product (docs/samsung-stage21-report.md).  *)
EventsAreNews ==
    \A e \in events :
        LET earlier == {k \in DOMAIN records : k < e.run} IN
        IF e.type \in FirstSeenTypes
        THEN /\ RelationIn(e.run, e.listing) \cap SupportOnly # {}
             /\ \A k \in earlier : RelationIn(k, e.listing) \cap SupportOnly = {}
             /\ \E k \in earlier : \E r \in records[k] :
                    Region[r.listing] = Region[e.listing] /\ r.relationship # "CATALOGUE_ONLY"
        ELSE /\ "CATALOGUE_AND_SUPPORT" \in RelationIn(e.run, e.listing)
             /\ \E k \in earlier : RelationIn(k, e.listing) \cap SupportOnly # {}

(* What is remembered of a candidate's beginnings never changes: the row,  *)
(* its first sighting, whether it was a baseline, and, once it is on sale, *)
(* since when (the upsert of persist_samsung_reconciliation).              *)
Remembered(old, new) ==
    /\ new # NoCandidate
    /\ new.firstSeen = old.firstSeen
    /\ new.baseline = old.baseline
    /\ old.catalogueSeen # 0 => new.catalogueSeen = old.catalogueSeen

FirstSightKept ==
    [][\A l \in Listings : candidates[l] # NoCandidate => Remembered(candidates[l], candidates'[l])]_vars
=============================================================================
