------------------------------ MODULE Sources -------------------------------
(***************************************************************************)
(* The collectors (collectors/) between the public web and the catalogue   *)
(* a run compares with the last healthy one.  Every collector reads a list *)
(* of URLs, fetches them with retries (collectors/common.py, for Samsung   *)
(* samsung/common.py), classifies what it finds and keeps the watches.  A  *)
(* sitemap of pages is taken as given and fixed.  coros/updates.py, which  *)
(* asks for its articles only when its first page names them, is left out. *)
(* They differ in what a page that cannot be had means:                    *)
(*   "raise"  the whole collection fails (Samsung, Amazfit, COROS, news);  *)
(*   "skip"   the page counts as empty (garmin/updates.py);                *)
(*   "cache"  as "skip", but a product read once is never fetched again,   *)
(*            its classification being kept in a file (garmin/catalogue.py).*)
(* What the runner does around a collection is CollectionRun's; here a     *)
(* collection that is not a failure replaces the last catalogue.           *)
(***************************************************************************)
EXTENDS Naturals, Sequences, FiniteSetsExt

CONSTANTS
    Collectors,     \* those in the registry, by name
    Urls,           \* naturals, in the order of the addresses
    UrlsOf,         \* the pages or feeds of each collector
    Sites, Start,   \* what each URL may hold, and does at first: sets of items
    Ids,            \* identities of observations
    Attempts,       \* UrlLibHttpClient.attempts
    None,
    MaxRuns, MaxEdits, MaxCrashes   \* bounds of the model

-----------------------------------------------------------------------------
(* The classifiers: the first signal of the cascade that a text shows      *)
(* decides.  A signal stands for a list of phrases or a pattern.           *)

Rule(signal, state) == [signal |-> signal, state |-> state]
Rejects(signals) == [i \in DOMAIN signals |-> Rule(signals[i], "non_smartwatch")]

SamsungCascade == Rejects(<<"outside", "accessory", "galaxy fit", "galaxy ring">>)
    \o <<Rule("galaxy watch", "known_smartwatch")>>

SupportCascade ==
    <<Rule("galaxy watch", "known_smartwatch"), Rule("galaxy fit", "non_smartwatch")>>

GarminCascade == Rejects(<<"accessory">>)
    \o <<Rule("approach s", "known_smartwatch"), Rule("approach g", "non_smartwatch"),
         Rule("approach", "ambiguous"), Rule("family", "known_smartwatch"),
         Rule("watch", "probable_smartwatch")>>

AmazfitCascade == Rejects(<<"bundle", "trade-in", "gift card", "accessory type", "accessory">>)
    \o <<Rule("family", "known_smartwatch"), Rule("watch type", "probable_smartwatch")>>

CorosCascade == Rejects(<<"accessory", "coros release notes">>)
    \o <<Rule("coros", "known_smartwatch"), Rule("topic", "non_smartwatch")>>

NewsCascade ==
    <<Rule("relevant", "relevant"), Rule("excluded", "irrelevant"), Rule("weak", "possibly")>>

UpdatesCascade == <<Rule("beta", "public_beta")>>

(* The classifier of each collector; every news collector has the same.     *)
Cascades ==
    [samsung_product_catalogue |-> SamsungCascade, samsung_support |-> SupportCascade,
     garmin_catalogue |-> GarminCascade, amazfit_catalogue |-> AmazfitCascade,
     coros_support |-> CorosCascade, garmin_updates |-> UpdatesCascade,
     official_news |-> NewsCascade]

Unmatched ==
    [samsung_product_catalogue |-> "probable_smartwatch", samsung_support |-> "ambiguous",
     garmin_catalogue |-> "non_smartwatch", amazfit_catalogue |-> "ambiguous",
     coros_support |-> "ambiguous", garmin_updates |-> "stable", official_news |-> "irrelevant"]

Matching(c, signals) == {k \in DOMAIN Cascades[c] : Cascades[c][k].signal \in signals}
Classified(c, signals) ==
    IF Matching(c, signals) = {} THEN Unmatched[c]
    ELSE Cascades[c][Min(Matching(c, signals))].state

(* Samsung's support pages are all kept, for the reconciliation to judge.  *)
Keeps(c, item) ==
    c = "samsung_support" \/ Classified(c, item.signals) # "non_smartwatch"

-----------------------------------------------------------------------------
SkipsAll(c) == IF c = "garmin_catalogue" THEN "cache" ELSE "skip"
OnFailure(c) ==
    IF c = "garmin_updates" THEN "skip" ELSE IF c = "garmin_catalogue" THEN "cache" ELSE "raise"

Parallel == {"samsung_support", "garmin_catalogue"}    \* eight workers
Patient  == {"samsung_support", "samsung_product_catalogue"}    \* retry a 403 and a 429 too
Latest   == {"samsung_support", "garmin_catalogue", "amazfit_catalogue", "coros_support"}
                                \* the last of two items of an identity is kept

States == {"known_smartwatch", "probable_smartwatch", "ambiguous", "non_smartwatch", "relevant",
           "possibly", "irrelevant", "public_beta", "stable"}

(* What a request comes back with. *)
Failed == [failed |-> TRUE]
Holds(page) == [failed |-> FALSE, items |-> page]

Pages == UNION {Sites[u] : u \in Urls}

ASSUME SourceConstants ==
    /\ Collectors \subseteq DOMAIN Cascades
    /\ Urls \subseteq Nat /\ IsFiniteSet(Urls) /\ Attempts \in Nat \ {0}
    /\ \A c \in Collectors : UrlsOf[c] \subseteq Urls
    /\ Start \in [Urls -> Pages] /\ \A u \in Urls : Start[u] \in Sites[u]
    /\ \A page \in Pages : \A item \in page : item.id \in Ids
    /\ None \notin States \cup Collectors /\ None # Failed
    /\ \A page \in Pages : None # Holds(page)
    /\ {MaxRuns, MaxEdits, MaxCrashes} \subseteq Nat

VARIABLES
    web,        \* what each URL holds; {} is a page with nothing to parse
    last,       \* the last healthy catalogue of each collector: a state by identity
    known,      \* the identities each collector has ever reported
    cache,      \* garmin_catalogue_cache.json: what each URL held, or None
    torn,       \* the cache file is cut short
    pc, who,    \* whose collection is under way
    tries, got, turn,   \* requests made, what they gave, when it arrived
    steady,     \* which page has held what ever since the collection began
    runs, edits, crashes

fetch  == <<tries, got, turn>>
bounds == <<runs, edits, crashes>>
vars   == <<web, last, known, cache, torn, pc, who, fetch, steady, bounds>>

Nothing == [i \in Ids |-> None]
Unfetched == [u \in Urls |-> None]

Unturned == [u \in Urls |-> 0]

Shows(c, page, i) == \E item \in page : item.id = i /\ Keeps(c, item)
HeldAt(c, site) == {held \in UrlsOf[c] \X Ids : Shows(c, site[held[1]], held[2])}

Init ==
    /\ web = Start
    /\ last = [c \in Collectors |-> Nothing] /\ known = [c \in Collectors |-> {}]
    /\ cache = Unfetched /\ torn = FALSE
    /\ pc = "idle" /\ who = None
    /\ tries = Unturned /\ got = Unfetched /\ turn = Unturned
    /\ steady = {}
    /\ runs = 0 /\ edits = 0 /\ crashes = 0

(* The web changes at any time, also under a collection. *)
Edit(u) ==
    /\ edits < MaxEdits
    /\ \E page \in Sites[u] \ {web[u]} : web' = [web EXCEPT ![u] = page]
    /\ steady' = IF pc = "idle" THEN steady ELSE steady \cap HeldAt(who, web')
    /\ edits' = edits + 1
    /\ UNCHANGED <<last, known, cache, torn, pc, who, fetch, runs, crashes>>

(* collect starts; the crawler loads its cache, or {} from an unreadable   *)
(* file.                                                                   *)
Loaded(c) == IF OnFailure(c) = "cache" /\ ~ torn THEN cache ELSE Unfetched

Begin(c) ==
    /\ pc = "idle" /\ runs < MaxRuns
    /\ pc' = "fetching" /\ who' = c
    /\ tries' = Unturned /\ got' = Loaded(c) /\ turn' = Unturned
    /\ steady' = HeldAt(c, web)
    /\ runs' = runs + 1
    /\ UNCHANGED <<web, last, known, cache, torn, edits, crashes>>

-----------------------------------------------------------------------------
(* get_text: up to Attempts requests; a 403 or 429 ends it at once unless  *)
(* the client is Samsung's, and so do an unreachable relay and a body that *)
(* is no JSON.                                                             *)

Missing == {u \in UrlsOf[who] : got[u] = None}
Turn(u) == u \in Missing /\ (who \in Parallel \/ \A v \in Missing : u <= v)

Read(u) == Holds(web[u])
Unparsed(page) == page = {} /\ who \in {"garmin_updates", "garmin_catalogue"}

Arrive(u, result) ==
    /\ got' = [got EXCEPT ![u] = result]
    /\ turn' = [turn EXCEPT ![u] = 1 + Cardinality(UrlsOf[who] \ Missing)]

GetText(u) ==
    /\ pc = "fetching" /\ Turn(u)
    /\ tries' = [tries EXCEPT ![u] = @ + 1]
    /\ Arrive(u, IF Unparsed(web[u]) THEN Failed ELSE Read(u))
    /\ UNCHANGED <<web, last, known, cache, torn, pc, who, steady, bounds>>

Refuse(u) ==
    /\ pc = "fetching" /\ Turn(u)
    /\ who \notin Patient
    /\ tries' = [tries EXCEPT ![u] = @ + 1]
    /\ Arrive(u, Failed)
    /\ UNCHANGED <<web, last, known, cache, torn, pc, who, steady, bounds>>

Fail(u) ==
    /\ pc = "fetching" /\ Turn(u)
    /\ tries' = [tries EXCEPT ![u] = @ + 1]
    /\ IF tries[u] + 1 < Attempts THEN UNCHANGED <<got, turn>> ELSE Arrive(u, Failed)
    /\ UNCHANGED <<web, last, known, cache, torn, pc, who, steady, bounds>>

-----------------------------------------------------------------------------
Stop ==
    /\ pc' = "idle" /\ who' = None
    /\ tries' = Unturned /\ got' = Unfetched /\ turn' = Unturned
    /\ steady' = {}

Lost == {u \in UrlsOf[who] : got[u] = Failed}

(* One failed page fails the collection: at once when pages are fetched    *)
(* one by one, after the last when they are fetched together.              *)
Raise ==
    /\ pc = "fetching" /\ OnFailure(who) = "raise" /\ Lost # {}
    /\ (who \in Parallel => Missing = {})
    /\ Stop
    /\ UNCHANGED <<web, last, known, cache, torn, bounds>>

(* _save_cache writes the file in place: it is cut, then filled with what  *)
(* was loaded and what was read now, failures left out.                    *)
CutCache ==
    /\ pc = "fetching" /\ OnFailure(who) = "cache" /\ Missing = {}
    /\ pc' = "saving"
    /\ torn' = TRUE
    /\ UNCHANGED <<web, last, known, cache, who, fetch, steady, bounds>>

Cacheable(u) == IF got[u] = Failed THEN None ELSE got[u]

FillCache ==
    /\ pc = "saving"
    /\ pc' = "comparing"
    /\ torn' = FALSE
    /\ cache' = [u \in Urls |-> IF u \in UrlsOf[who] THEN Cacheable(u) ELSE cache[u]]
    /\ UNCHANGED <<web, last, known, who, fetch, steady, bounds>>

(* The catalogue of a collection: of two items of one identity the first   *)
(* or the last in the order they were read; the crawler goes through its    *)
(* products in the sitemap's.                                              *)
Holding(i)  == {u \in UrlsOf[who] \ (Missing \cup Lost) : Shows(who, got[u].items, i)}
Position(u) == IF OnFailure(who) = "cache" THEN u ELSE turn[u]
Deciding(i) ==
    LET reached == {Position(u) : u \in Holding(i)}
    IN CHOOSE u \in Holding(i) :
           Position(u) = IF who \in Latest THEN Max(reached) ELSE Min(reached)

StateAt(u, i) == CHOOSE s \in {Classified(who, item.signals) :
                                  item \in {x \in got[u].items : x.id = i /\ Keeps(who, x)}} : TRUE

Observed == [i \in Ids |-> IF Holding(i) = {} THEN None ELSE StateAt(Deciding(i), i)]

Count(catalogue) == Cardinality({i \in Ids : catalogue[i] # None})

(* assess_catalogue: nothing at all, or less than half, is no catalogue. *)
Healthy == Count(Observed) > 0 /\ 2 * Count(Observed) >= Count(last[who])

ReadyWhenWhole ==
    \/ pc = "comparing"
    \/ /\ pc = "fetching" /\ OnFailure(who) # "cache"
       /\ Missing = {} /\ Lost = {}

Ready ==
    \/ pc = "comparing"
    \/ /\ pc = "fetching" /\ OnFailure(who) # "cache"
       /\ Missing = {} /\ (OnFailure(who) = "raise" => Lost = {})

Accept ==
    /\ Ready /\ Healthy
    /\ last' = [last EXCEPT ![who] = Observed]
    /\ known' = [known EXCEPT ![who] = @ \cup {i \in Ids : Observed[i] # None}]
    /\ Stop
    /\ UNCHANGED <<web, cache, torn, bounds>>

Refused ==
    /\ Ready /\ ~ Healthy
    /\ Stop
    /\ UNCHANGED <<web, last, known, cache, torn, bounds>>

Crash ==
    /\ crashes < MaxCrashes
    /\ pc # "idle"
    /\ crashes' = crashes + 1
    /\ Stop
    /\ UNCHANGED <<web, last, known, cache, torn, runs, edits>>

Collecting ==
    \/ \E u \in Urls : GetText(u) \/ Refuse(u) \/ Fail(u)
    \/ Raise
    \/ CutCache
    \/ FillCache
    \/ Accept
    \/ Refused

Next ==
    \/ \E u \in Urls : Edit(u)
    \/ \E c \in Collectors : Begin(c)
    \/ Collecting
    \/ Crash

Spec == Init /\ [][Next]_vars

(* A collection goes on until it ends. *)
FairSpec == Spec /\ WF_vars(Collecting)

-----------------------------------------------------------------------------
(* What left a catalogue had left every page that held it, at least for a  *)
(* while, unless the collector takes a page it could not read for an empty *)
(* one, or a death in the middle of its save may have taken the cache: but *)
(* for these two, a failing source is never told as a removal (the raise of samsung/support.py; the *)
(* cache of garmin/catalogue.py).                                          *)
RemovalTold ==
    \A c \in Collectors, i \in Ids :
        last[c][i] # None /\ last'[c][i] = None =>
            \/ \A u \in Urls : <<u, i>> \notin steady
            \/ c = "garmin_updates"
            \/ c = "garmin_catalogue" /\ crashes > 0

RemovalsTrue == [][RemovalTold]_last

(* Every collection ends, however the source behaves (the retry budget of  *)
(* get_text).                                                              *)
CollectionsEnd == pc # "idle" ~> pc = "idle"

(* What garmin/updates.py says of its posts: only a genuinely new post     *)
(* appears as new.                                                         *)
OnlyNewAppear ==
    [][\A i \in Ids :
        known["garmin_updates"] # {} /\ last["garmin_updates"][i] = None
            /\ last'["garmin_updates"][i] # None => i \notin known["garmin_updates"]]_last

(* What garmin/catalogue.py says of its classification: an unrecognised    *)
(* product is retained, never silently dropped.                            *)
UnrecognisedKept ==
    [][\A u \in UrlsOf["garmin_catalogue"], i \in Ids :
        pc = "comparing" /\ got[u] # Failed /\ [id |-> i, signals |-> {}] \in got[u].items
            => last'["garmin_catalogue"][i] # None]_last
=============================================================================
