--------------------------- MODULE SourcesProofs ----------------------------
(***************************************************************************)
(* Proofs about Sources, for every web, every set of collectors and every  *)
(* number of requests, edits and deaths.                                   *)
(***************************************************************************)
EXTENDS Sources, FiniteSetTheorems, SequenceTheorems, WellFoundedInduction, TLAPS

(* A finite set of naturals has a least and a greatest member. *)
LEMMA LeastExists ==
  ASSUME NEW T \in SUBSET Nat, T # {}, IsFiniteSet(T) PROVE Min(T) \in T
<1> DEFINE Below(t) == {s \in T : s < t}
           Segments == {Below(t) : t \in T}
<1>1. Segments \subseteq FiniteSubsetsOf(T) /\ Segments # {}
  <2>1. \A t \in T : Below(t) \subseteq T /\ IsFiniteSet(Below(t))
    BY FS_Subset
  <2> QED
    BY <2>1 DEF FiniteSubsetsOf
<1>2. PICK A \in Segments : \A B \in Segments : ~ (<<B, A>> \in StrictSubsetOrdering(T))
  BY <1>1, FS_StrictSubsetOrderingWellFounded, WFMin
<1>3. PICK t \in T : A = Below(t)
  BY <1>2
<1>4. ASSUME NEW s \in T, s < t PROVE FALSE
  <2>1. \A r \in T : r < s => r < t
    BY <1>4
  <2>2. s \in Below(t) /\ s \notin Below(s)
    BY <1>4
  <2>3. Below(s) \subseteq Below(t) /\ Below(s) # Below(t)
    BY <2>1, <2>2
  <2>4. <<Below(s), A>> \in StrictSubsetOrdering(T)
    BY <1>3, <2>3 DEF StrictSubsetOrdering
  <2> QED
    BY <1>2, <2>4
<1>5. \A s \in T : t <= s
  BY <1>4
<1> QED
  BY <1>5 DEF Min

LEMMA GreatestExists ==
  ASSUME NEW T \in SUBSET Nat, T # {}, IsFiniteSet(T) PROVE Max(T) \in T
<1> DEFINE Above(t) == {s \in T : t < s}
           Segments == {Above(t) : t \in T}
<1>1. Segments \subseteq FiniteSubsetsOf(T) /\ Segments # {}
  <2>1. \A t \in T : Above(t) \subseteq T /\ IsFiniteSet(Above(t))
    BY FS_Subset
  <2> QED
    BY <2>1 DEF FiniteSubsetsOf
<1>2. PICK A \in Segments : \A B \in Segments : ~ (<<B, A>> \in StrictSubsetOrdering(T))
  BY <1>1, FS_StrictSubsetOrderingWellFounded, WFMin
<1>3. PICK t \in T : A = Above(t)
  BY <1>2
<1>4. ASSUME NEW s \in T, t < s PROVE FALSE
  <2>1. \A r \in T : s < r => t < r
    BY <1>4
  <2>2. s \in Above(t) /\ s \notin Above(s)
    BY <1>4
  <2>3. Above(s) \subseteq Above(t) /\ Above(s) # Above(t)
    BY <2>1, <2>2
  <2>4. <<Above(s), A>> \in StrictSubsetOrdering(T)
    BY <1>3, <2>3 DEF StrictSubsetOrdering
  <2> QED
    BY <1>2, <2>4
<1>5. \A s \in T : t >= s
  BY <1>4
<1> QED
  BY <1>5 DEF Max

Rules(signals) == [signal : signals, state : States]

(* A cascade is made of rules, and every classification is one of the      *)
(* states.                                                                 *)
LEMMA RuleType ==
  ASSUME NEW S, NEW signal \in S, NEW state \in States PROVE Rule(signal, state) \in Rules(S)
  BY DEF Rule, Rules

LEMMA RejectsType ==
  ASSUME NEW S, NEW signals \in Seq(S) PROVE Rejects(signals) \in Seq(Rules(S))
<1>1. /\ Len(signals) \in Nat /\ DOMAIN signals = 1..Len(signals)
      /\ \A i \in DOMAIN signals : signals[i] \in S
  OBVIOUS
<1>2. "non_smartwatch" \in States
  BY DEF States
<1>3. Rejects(signals) \in [1..Len(signals) -> Rules(S)]
  BY <1>1, <1>2, RuleType DEF Rejects
<1> QED
  BY <1>1, <1>3, SeqDef

LEMMA FewRules ==
  ASSUME NEW S
  PROVE  /\ \A a \in S : <<a>> \in Seq(S)
         /\ \A a, b \in S : <<a, b>> \in Seq(S)
         /\ \A a, b, c \in S : <<a, b, c>> \in Seq(S)
         /\ \A a, b, c, d, e \in S : <<a, b, c, d, e>> \in Seq(S)
  OBVIOUS

LEMMA CascadesType ==
  ASSUME NEW c \in DOMAIN Cascades
  PROVE  (\E S : Cascades[c] \in Seq(Rules(S))) /\ Unmatched[c] \in States
<1>0. {"known_smartwatch", "probable_smartwatch", "ambiguous", "non_smartwatch", "relevant",
       "possibly", "irrelevant", "public_beta"} \subseteq States
  BY DEF States
<1>1. Unmatched[c] \in States
  BY DEF Cascades, Unmatched, States
<1>2. \E S : SamsungCascade \in Seq(Rules(S))
  <2> DEFINE S == {"outside", "accessory", "galaxy fit", "galaxy ring", "galaxy watch"}
  <2>1. <<"outside", "accessory", "galaxy fit", "galaxy ring">> \in Seq(S)
    OBVIOUS
  <2>2. /\ Rule("galaxy watch", "known_smartwatch") \in Rules(S)
    BY <1>0, RuleType
  <2> DEFINE R == Rules(S)
  <2>3. /\ Rule("galaxy watch", "known_smartwatch") \in R
    BY <2>2
  <2> HIDE DEF S, R
  <2>4. Rejects(<<"outside", "accessory", "galaxy fit", "galaxy ring">>) \in Seq(Rules(S))
    BY <2>1, RejectsType
  <2>5. <<Rule("galaxy watch", "known_smartwatch")>> \in Seq(R)
    BY <2>3, FewRules
  <2> QED
    BY <2>4, <2>5, ConcatProperties DEF R, SamsungCascade
<1>3. \E S : SupportCascade \in Seq(Rules(S))
  <2> DEFINE S == {"galaxy watch", "galaxy fit"}
  <2>2. /\ Rule("galaxy watch", "known_smartwatch") \in Rules(S)
        /\ Rule("galaxy fit", "non_smartwatch") \in Rules(S)
    BY <1>0, RuleType
  <2> DEFINE R == Rules(S)
  <2>3. /\ Rule("galaxy watch", "known_smartwatch") \in R
        /\ Rule("galaxy fit", "non_smartwatch") \in R
    BY <2>2
  <2> HIDE DEF S, R
  <2>4. <<Rule("galaxy watch", "known_smartwatch"),
          Rule("galaxy fit", "non_smartwatch")>> \in Seq(R)
    BY <2>3, FewRules
  <2> QED
    BY <2>4 DEF R, SupportCascade
<1>4. \E S : GarminCascade \in Seq(Rules(S))
  <2> DEFINE S == {"accessory", "approach s", "approach g", "approach", "family",
                   "watch"}
  <2>1. <<"accessory">> \in Seq(S)
    OBVIOUS
  <2>2. /\ Rule("approach s", "known_smartwatch") \in Rules(S)
        /\ Rule("approach g", "non_smartwatch") \in Rules(S)
        /\ Rule("approach", "ambiguous") \in Rules(S)
        /\ Rule("family", "known_smartwatch") \in Rules(S)
        /\ Rule("watch", "probable_smartwatch") \in Rules(S)
    BY <1>0, RuleType
  <2> DEFINE R == Rules(S)
  <2>3. /\ Rule("approach s", "known_smartwatch") \in R
        /\ Rule("approach g", "non_smartwatch") \in R
        /\ Rule("approach", "ambiguous") \in R
        /\ Rule("family", "known_smartwatch") \in R
        /\ Rule("watch", "probable_smartwatch") \in R
    BY <2>2
  <2> HIDE DEF S, R
  <2>4. Rejects(<<"accessory">>) \in Seq(Rules(S))
    BY <2>1, RejectsType
  <2>5. <<Rule("approach s", "known_smartwatch"),
          Rule("approach g", "non_smartwatch"),
          Rule("approach", "ambiguous"),
          Rule("family", "known_smartwatch"),
          Rule("watch", "probable_smartwatch")>> \in Seq(R)
    BY <2>3, FewRules
  <2> QED
    BY <2>4, <2>5, ConcatProperties DEF R, GarminCascade
<1>5. \E S : AmazfitCascade \in Seq(Rules(S))
  <2> DEFINE S == {"bundle", "trade-in", "gift card", "accessory type", "accessory",
                   "family", "watch type"}
  <2>1. <<"bundle", "trade-in", "gift card", "accessory type", "accessory">> \in Seq(S)
    OBVIOUS
  <2>2. /\ Rule("family", "known_smartwatch") \in Rules(S)
        /\ Rule("watch type", "probable_smartwatch") \in Rules(S)
    BY <1>0, RuleType
  <2> DEFINE R == Rules(S)
  <2>3. /\ Rule("family", "known_smartwatch") \in R
        /\ Rule("watch type", "probable_smartwatch") \in R
    BY <2>2
  <2> HIDE DEF S, R
  <2>4. Rejects(<<"bundle", "trade-in", "gift card", "accessory type", "accessory">>) \in Seq(Rules(S))
    BY <2>1, RejectsType
  <2>5. <<Rule("family", "known_smartwatch"),
          Rule("watch type", "probable_smartwatch")>> \in Seq(R)
    BY <2>3, FewRules
  <2> QED
    BY <2>4, <2>5, ConcatProperties DEF R, AmazfitCascade
<1>6. \E S : CorosCascade \in Seq(Rules(S))
  <2> DEFINE S == {"accessory", "coros release notes", "coros", "topic"}
  <2>1. <<"accessory", "coros release notes">> \in Seq(S)
    OBVIOUS
  <2>2. /\ Rule("coros", "known_smartwatch") \in Rules(S)
        /\ Rule("topic", "non_smartwatch") \in Rules(S)
    BY <1>0, RuleType
  <2> DEFINE R == Rules(S)
  <2>3. /\ Rule("coros", "known_smartwatch") \in R
        /\ Rule("topic", "non_smartwatch") \in R
    BY <2>2
  <2> HIDE DEF S, R
  <2>4. Rejects(<<"accessory", "coros release notes">>) \in Seq(Rules(S))
    BY <2>1, RejectsType
  <2>5. <<Rule("coros", "known_smartwatch"),
          Rule("topic", "non_smartwatch")>> \in Seq(R)
    BY <2>3, FewRules
  <2> QED
    BY <2>4, <2>5, ConcatProperties DEF R, CorosCascade
<1>7. \E S : NewsCascade \in Seq(Rules(S))
  <2> DEFINE S == {"relevant", "excluded", "weak"}
  <2>2. /\ Rule("relevant", "relevant") \in Rules(S)
        /\ Rule("excluded", "irrelevant") \in Rules(S)
        /\ Rule("weak", "possibly") \in Rules(S)
    BY <1>0, RuleType
  <2> DEFINE R == Rules(S)
  <2>3. /\ Rule("relevant", "relevant") \in R
        /\ Rule("excluded", "irrelevant") \in R
        /\ Rule("weak", "possibly") \in R
    BY <2>2
  <2> HIDE DEF S, R
  <2>4. <<Rule("relevant", "relevant"),
          Rule("excluded", "irrelevant"),
          Rule("weak", "possibly")>> \in Seq(R)
    BY <2>3, FewRules
  <2> QED
    BY <2>4 DEF R, NewsCascade
<1>8. \E S : UpdatesCascade \in Seq(Rules(S))
  <2> DEFINE S == {"beta"}
  <2>2. /\ Rule("beta", "public_beta") \in Rules(S)
    BY <1>0, RuleType
  <2> DEFINE R == Rules(S)
  <2>3. /\ Rule("beta", "public_beta") \in R
    BY <2>2
  <2> HIDE DEF S, R
  <2>4. <<Rule("beta", "public_beta")>> \in Seq(R)
    BY <2>3, FewRules
  <2> QED
    BY <2>4 DEF R, UpdatesCascade
<1>9. Cascades[c] \in {SamsungCascade, SupportCascade, GarminCascade, AmazfitCascade, CorosCascade,
                       NewsCascade, UpdatesCascade}
  BY DEF Cascades
<1> QED
  BY <1>1, <1>2, <1>3, <1>4, <1>5, <1>6, <1>7, <1>8, <1>9

LEMMA ClassifiedType ==
  ASSUME NEW c \in DOMAIN Cascades, NEW signals PROVE Classified(c, signals) \in States
<1>1. PICK S : Cascades[c] \in Seq(Rules(S)) /\ Unmatched[c] \in States
  BY CascadesType
<1> DEFINE hits == Matching(c, signals)
<1>2. /\ DOMAIN Cascades[c] = 1..Len(Cascades[c]) /\ Len(Cascades[c]) \in Nat
      /\ \A k \in DOMAIN Cascades[c] : Cascades[c][k] \in Rules(S)
  BY <1>1
<1>3. hits \in SUBSET (1..Len(Cascades[c])) /\ \A k \in hits : Cascades[c][k].state \in States
  BY <1>2 DEF Matching, Rules
<1> HIDE DEF hits
<1>4. hits \in SUBSET Nat /\ IsFiniteSet(hits)
  <2>1. IsFiniteSet(1..Len(Cascades[c])) /\ 1..Len(Cascades[c]) \subseteq Nat
    BY <1>2, FS_Interval
  <2> QED
    BY <1>3, <2>1, FS_Subset
<1>5. hits # {} => Cascades[c][Min(hits)].state \in States
  BY <1>3, <1>4, LeastExists
<1> QED
  BY <1>1, <1>5 DEF Classified, hits

-----------------------------------------------------------------------------
(* RemovalsTrue rests on what the pages that were read show (Lasting) and,  *)
(* for the crawler, on its cache never losing a product while nobody died   *)
(* (Gathered).                                                              *)
Crawler == "garmin_catalogue"
Results == {None, Failed} \cup {Holds(page) : page \in Pages}

Types ==
    /\ web \in [Urls -> Pages]
    /\ last \in [Collectors -> [Ids -> States \cup {None}]]
    /\ got \in [Urls -> Results] /\ cache \in [Urls -> Results \ {Failed}]
    /\ turn \in [Urls -> Nat] /\ crashes \in Nat
    /\ pc \in {"idle", "fetching", "saving", "comparing"}
    /\ pc # "idle" => who \in Collectors
    /\ pc \in {"saving", "comparing"} => who = Crawler

(* What a page has held all along is what it showed when it was read. *)
Lasting ==
    pc # "idle" =>
        \A held \in steady :
            /\ held \in HeldAt(who, web)
            /\ OnFailure(who) = "raise" /\ got[held[1]] \notin {None, Failed} =>
                   Shows(who, got[held[1]].items, held[2])

Gathered ==
    crashes = 0 =>
        /\ torn => pc = "saving"
        /\ \A i \in Ids : Crawler \in Collectors /\ last[Crawler][i] # None =>
               \E u \in UrlsOf[Crawler] : cache[u] # None /\ Shows(Crawler, cache[u].items, i)
        /\ pc # "idle" /\ who = Crawler =>
               \A u \in UrlsOf[Crawler] : cache[u] # None => got[u] = cache[u]
        /\ pc = "comparing" =>
               \A u \in UrlsOf[Crawler] : got[u] \notin {None, Failed} => cache[u] = got[u]

SourcesInv == Types /\ Lasting /\ Gathered
(* The collectors of the crawler's kind are the crawler; the rest raise or  *)
(* skip.                                                                    *)
LEMMA FailureKinds ==
  \A c \in Collectors : /\ OnFailure(c) = "cache" <=> c = Crawler
                        /\ OnFailure(c) = "skip" <=> c = "garmin_updates"
                        /\ OnFailure(c) \in {"raise", "skip", "cache"}
  BY DEF OnFailure, Crawler

LEMMA ResultsApart ==
  /\ None # Failed /\ \A page \in Pages : Holds(page) \notin {None, Failed}
  /\ \A page \in Pages : Holds(page) \in Results /\ Holds(page).items = page
<1>1. \A page \in Pages : Holds(page).failed = FALSE /\ Failed.failed = TRUE
  BY DEF Holds, Failed
<1>2. \A page \in Pages : Holds(page) # Failed
  BY <1>1
<1> QED
  BY <1>2, SourceConstants DEF Results, Holds

(* Nothing is collected at first. *)
LEMMA SourcesInit == Init => SourcesInv
<1> SUFFICES ASSUME Init PROVE SourcesInv
  OBVIOUS
<1>1. Types
  BY SourceConstants DEF Init, Types, Results, Nothing, Unfetched, Unturned
<1>2. Lasting /\ Gathered
  BY DEF Init, Lasting, Gathered, Nothing
<1> QED
  BY <1>1, <1>2 DEF SourcesInv

(* The web changes under a collection. *)
LEMMA EditKeeps ==
  ASSUME SourcesInv, NEW u \in Urls, Edit(u) PROVE SourcesInv'
<1>1. PICK page \in Sites[u] : web' = [web EXCEPT ![u] = page]
  BY DEF Edit
<1>2. UNCHANGED <<last, cache, torn, pc, who, got, turn, crashes>>
  BY DEF Edit, fetch
<1>3. page \in Pages
  BY <1>1 DEF Pages
<1>4. Types'
  BY <1>1, <1>2, <1>3 DEF SourcesInv, Types
<1>5. pc # "idle" => steady' = steady \cap HeldAt(who, web')
  BY DEF Edit
<1>6. Lasting'
  BY <1>2, <1>5 DEF SourcesInv, Lasting, HeldAt
<1>7. Gathered'
  BY <1>2 DEF SourcesInv, Gathered
<1> QED
  BY <1>4, <1>6, <1>7 DEF SourcesInv

(* A collection begins with what its cache holds. *)
LEMMA BeginKeeps ==
  ASSUME SourcesInv, NEW c \in Collectors, Begin(c) PROVE SourcesInv'
<1>1. /\ pc = "idle" /\ pc' = "fetching" /\ who' = c /\ got' = Loaded(c) /\ turn' = Unturned
      /\ steady' = HeldAt(c, web) /\ UNCHANGED <<web, last, cache, torn, crashes>>
  BY DEF Begin
<1>2. cache \in [Urls -> Results] /\ Unfetched \in [Urls -> Results]
  BY DEF SourcesInv, Types, Unfetched, Results
<1>3. got' \in [Urls -> Results] /\ turn' \in [Urls -> Nat]
  BY <1>1, <1>2 DEF Loaded, Unturned
<1>4. Types'
  BY <1>1, <1>3 DEF SourcesInv, Types
<1>5. OnFailure(c) = "raise" => got' = Unfetched
  BY <1>1 DEF Loaded
<1>6. Lasting'
  <2> SUFFICES ASSUME NEW held \in steady'
               PROVE  /\ held \in HeldAt(c, web)
                      /\ OnFailure(c) = "raise" => got'[held[1]] = None
    BY <1>1 DEF Lasting, HeldAt
  <2>1. held \in HeldAt(c, web)
    BY <1>1
  <2>2. held[1] \in Urls
    BY <2>1, SourceConstants DEF HeldAt
  <2> QED
    BY <1>5, <2>1, <2>2 DEF Unfetched
<1>7. Gathered'
  <2>1. crashes = 0 /\ c = Crawler => got' = cache
    BY <1>1 DEF SourcesInv, Gathered, Loaded, OnFailure, Crawler
  <2> QED
    BY <1>1, <2>1 DEF SourcesInv, Gathered
<1> QED
  BY <1>4, <1>6, <1>7 DEF SourcesInv

(* A page arrives, or a failure in its stead. *)
LEMMA ArriveKeeps ==
  ASSUME SourcesInv, pc = "fetching", NEW u \in Urls, Turn(u),
         NEW result \in {Failed, Read(u)}, Arrive(u, result),
         UNCHANGED <<web, last, cache, torn, pc, who, steady, crashes>>
  PROVE  SourcesInv'
<1>0. /\ web \in [Urls -> Pages] /\ got \in [Urls -> Results] /\ turn \in [Urls -> Nat]
      /\ who \in Collectors
  BY DEF SourcesInv, Types
<1>1. u \in UrlsOf[who] /\ got[u] = None
  BY DEF Turn, Missing
<1>2. Read(u) = Holds(web[u]) /\ web[u] \in Pages
  BY <1>0 DEF Read
<1>3. result \in Results /\ result # None /\ (result # Failed => result.items = web[u])
  BY <1>2, ResultsApart DEF Results
<1>4. /\ got' = [got EXCEPT ![u] = result]
      /\ turn' = [turn EXCEPT ![u] = 1 + Cardinality(UrlsOf[who] \ Missing)]
  BY DEF Arrive
<1>5. Cardinality(UrlsOf[who] \ Missing) \in Nat
  <2>1. UrlsOf[who] \ Missing \subseteq Urls
    BY <1>0, SourceConstants
  <2>2. IsFiniteSet(Urls)
    BY SourceConstants
  <2> QED
    BY <2>1, <2>2, FS_Subset, FS_CardinalityType
<1>6. Types'
  <2>1. got' \in [Urls -> Results] /\ turn' \in [Urls -> Nat]
    BY <1>0, <1>3, <1>4, <1>5
  <2> QED
    BY <2>1 DEF SourcesInv, Types
<1>7. got'[u] = result /\ \A v \in Urls \ {u} : got'[v] = got[v]
  BY <1>0, <1>4
<1>8. Lasting'
  <2> SUFFICES ASSUME NEW held \in steady, OnFailure(who) = "raise",
                      got'[held[1]] \notin {None, Failed}
               PROVE  Shows(who, got'[held[1]].items, held[2])
    BY DEF SourcesInv, Lasting, HeldAt
  <2>1. held \in HeldAt(who, web)
    BY DEF SourcesInv, Lasting
  <2>2. held[1] \in Urls /\ Shows(who, web[held[1]], held[2])
    BY <1>0, <2>1, SourceConstants DEF HeldAt
  <2>3. CASE held[1] = u
    BY <1>3, <1>7, <2>2, <2>3
  <2>4. CASE held[1] # u
    BY <1>7, <2>2, <2>4 DEF SourcesInv, Lasting
  <2> QED
    BY <2>3, <2>4
<1>9. Gathered'
  <2> SUFFICES ASSUME crashes = 0
               PROVE  /\ ~ torn
                      /\ \A i \in Ids : Crawler \in Collectors /\ last[Crawler][i] # None =>
                            \E v \in UrlsOf[Crawler] :
                                cache[v] # None /\ Shows(Crawler, cache[v].items, i)
                      /\ who = Crawler =>
                            \A v \in UrlsOf[Crawler] : cache[v] # None => got'[v] = cache[v]
    BY DEF Gathered
  <2>1. who = Crawler => \A v \in UrlsOf[Crawler] : cache[v] # None => got[v] = cache[v]
    BY DEF SourcesInv, Gathered
  <2>2. who = Crawler => \A v \in UrlsOf[Crawler] : cache[v] # None => v # u
    BY <1>1, <2>1
  <2>3. who = Crawler => \A v \in UrlsOf[Crawler] : v \in Urls
    BY <1>0, SourceConstants
  <2> QED
    BY <1>7, <2>1, <2>2, <2>3 DEF SourcesInv, Gathered
<1> QED
  BY <1>6, <1>8, <1>9 DEF SourcesInv

(* A request that fails and is retried. *)
LEMMA RetryKeeps ==
  ASSUME SourcesInv,
         UNCHANGED <<web, last, cache, torn, pc, who, got, turn, steady, crashes>>
  PROVE  SourcesInv'
<1>1. Types'
  BY DEF SourcesInv, Types
<1>2. Lasting' /\ Gathered'
  BY DEF SourcesInv, Lasting, Gathered, HeldAt
<1> QED
  BY <1>1, <1>2 DEF SourcesInv

LEMMA RequestKeeps ==
  ASSUME SourcesInv, NEW u \in Urls, GetText(u) \/ Refuse(u) \/ Fail(u) PROVE SourcesInv'
<1>1. /\ pc = "fetching" /\ Turn(u)
      /\ UNCHANGED <<web, last, cache, torn, pc, who, steady, crashes>>
  BY DEF GetText, Refuse, Fail, bounds
<1>2. \/ UNCHANGED <<got, turn>>
      \/ \E result \in {Failed, Read(u)} : Arrive(u, result)
  BY DEF GetText, Refuse, Fail
<1> QED
  BY <1>1, <1>2, ArriveKeeps, RetryKeeps

(* The save: the file is cut, then filled. *)
LEMMA SaveKeeps ==
  ASSUME SourcesInv, CutCache \/ FillCache PROVE SourcesInv'
<1>0. /\ got \in [Urls -> Results] /\ cache \in [Urls -> Results \ {Failed}] /\ who \in Collectors
      /\ who = Crawler
  BY FailureKinds DEF SourcesInv, Types, CutCache, FillCache
<1>1. CASE CutCache
  <2>1. /\ pc = "fetching" /\ pc' = "saving"
        /\ UNCHANGED <<web, last, cache, who, got, turn, steady, crashes>>
    BY <1>1 DEF CutCache, fetch, bounds
  <2>2. Types'
    BY <1>0, <2>1 DEF SourcesInv, Types
  <2>3. Lasting' /\ Gathered'
    BY <2>1 DEF SourcesInv, Lasting, Gathered, HeldAt
  <2> QED
    BY <2>2, <2>3 DEF SourcesInv
<1>2. CASE FillCache
  <2>1. /\ pc = "saving" /\ pc' = "comparing" /\ torn' = FALSE
        /\ cache' = [u \in Urls |-> IF u \in UrlsOf[who] THEN Cacheable(u) ELSE cache[u]]
        /\ UNCHANGED <<web, last, who, got, turn, steady, crashes>>
    BY <1>2 DEF FillCache, fetch, bounds
  <2>2. \A u \in Urls : Cacheable(u) \in Results \ {Failed}
    BY <1>0, ResultsApart DEF Cacheable, Results
  <2>3. Types'
    BY <1>0, <2>1, <2>2 DEF SourcesInv, Types
  <2>4. Lasting'
    BY <2>1 DEF SourcesInv, Lasting, HeldAt
  <2>5. \A u \in UrlsOf[Crawler] : u \in Urls /\ cache'[u] = Cacheable(u)
    BY <1>0, <2>1, SourceConstants
  <2>6. \A u \in UrlsOf[Crawler] : cache'[u] # None => got[u] = cache'[u]
    BY <2>5 DEF Cacheable
  <2>7. \A u \in UrlsOf[Crawler] : got[u] \notin {None, Failed} => cache'[u] = got[u]
    BY <2>5 DEF Cacheable
  <2>8. ASSUME crashes = 0 PROVE \A u \in UrlsOf[Crawler] : cache[u] # None => cache'[u] = cache[u]
    <3>1. \A u \in UrlsOf[Crawler] : cache[u] # None => got[u] = cache[u]
      BY <1>0, <2>1, <2>8 DEF SourcesInv, Gathered
    <3>2. \A u \in UrlsOf[Crawler] : cache[u] # Failed
      BY <1>0, <2>5
    <3> QED
      BY <2>7, <3>1, <3>2
  <2>9. Gathered'
    BY <1>0, <2>1, <2>6, <2>7, <2>8 DEF SourcesInv, Gathered
  <2> QED
    BY <2>3, <2>4, <2>9 DEF SourcesInv
<1> QED
  BY <1>1, <1>2

(* A product or a post is reported when a page that was read shows it. *)
LEMMA ObservedType ==
  ASSUME SourcesInv, pc # "idle", NEW i \in Ids
  PROVE  IF Holding(i) = {} THEN Observed[i] = None ELSE Observed[i] \in States
<1>0. /\ who \in Collectors /\ who \in DOMAIN Cascades /\ turn \in [Urls -> Nat]
      /\ UrlsOf[who] \subseteq Urls /\ Urls \subseteq Nat /\ IsFiniteSet(Urls)
  BY SourceConstants DEF SourcesInv, Types
<1>1. CASE Holding(i) = {}
  BY <1>1 DEF Observed
<1>2. CASE Holding(i) # {}
  <2> DEFINE reached == {Position(u) : u \in Holding(i)}
             best == IF who \in Latest THEN Max(reached) ELSE Min(reached)
  <2>1. Holding(i) \subseteq Urls
    BY <1>0 DEF Holding
  <2>2. \A u \in Holding(i) : Position(u) \in Nat
    BY <1>0, <2>1 DEF Position
  <2>3. IsFiniteSet(reached)
    <3>1. IsFiniteSet(Holding(i))
      BY <1>0, <2>1, FS_Subset
    <3> QED
      <4> DEFINE at == [u \in Holding(i) |-> Position(u)]
      <4>1. at \in [Holding(i) -> reached]
        OBVIOUS
      <4>2. \A p \in reached : \E u \in Holding(i) : at[u] = p
        OBVIOUS
      <4> HIDE DEF at, reached
      <4>3. at \in Surjection(Holding(i), reached)
        BY <4>1, <4>2 DEF Surjection
      <4> QED
        BY <3>1, <4>3, FS_Surjection
  <2>4. reached \in SUBSET Nat /\ reached # {}
    BY <1>2, <2>2
  <2>5. best \in reached
    <3> HIDE DEF reached
    <3> QED
      BY <2>3, <2>4, LeastExists, GreatestExists
  <2>6. \E u \in Holding(i) : Position(u) = best
    BY <2>5
  <2>7. Deciding(i) \in Holding(i)
    BY <2>6 DEF Deciding
  <2> DEFINE page == got[Deciding(i)].items
  <2>8. PICK item \in page : item.id = i /\ Keeps(who, item)
    BY <2>7 DEF Holding, Shows
  <2>9. \A signals : Classified(who, signals) \in States
    BY <1>0, ClassifiedType
  <2>10. StateAt(Deciding(i), i) \in States
    <3> DEFINE kept == {x \in page : x.id = i /\ Keeps(who, x)}
               states == {Classified(who, x.signals) : x \in kept}
    <3>1. states # {} /\ states \subseteq States
      BY <2>8, <2>9
    <3>2. StateAt(Deciding(i), i) = CHOOSE s \in states : TRUE
      BY DEF StateAt
    <3> HIDE DEF states
    <3> QED
      BY <3>1, <3>2
  <2> QED
    BY <1>2, <2>10 DEF Observed
<1> QED
  BY <1>1, <1>2

(* A collection ends without a catalogue. *)
LEMMA StopKeeps ==
  ASSUME SourcesInv, Stop, ~ torn \/ crashes > 0, UNCHANGED <<web, last, cache, torn, crashes>>
  PROVE  SourcesInv'
<1>1. pc' = "idle" /\ got' = Unfetched /\ turn' = Unturned
  BY DEF Stop
<1>2. Types'
  BY <1>1 DEF SourcesInv, Types, Unfetched, Unturned, Results
<1>3. Lasting'
  BY <1>1 DEF Lasting
<1>4. Gathered'
  BY <1>1 DEF SourcesInv, Gathered, Types
<1> QED
  BY <1>2, <1>3, <1>4 DEF SourcesInv

(* A collection that is ready has read what its pages and its cache hold,   *)
(* unless it takes a failure for an empty page or somebody died.            *)
LEMMA ReadyHolds ==
  ASSUME SourcesInv, Ready, NEW i \in Ids, who # "garmin_updates",
         who = Crawler => crashes = 0 /\ last[who][i] # None,
         who # Crawler => \E u \in Urls : <<u, i>> \in steady
  PROVE  Holding(i) # {}
<1>0. pc # "idle" /\ who \in Collectors /\ pc \in {"fetching", "comparing"}
  BY DEF SourcesInv, Types, Ready
<1>1. CASE who = Crawler
  <2>1. pc = "comparing"
    BY <1>1, FailureKinds, <1>0 DEF Ready
  <2>2. PICK u \in UrlsOf[who] : cache[u] # None /\ Shows(who, cache[u].items, i)
    BY <1>0, <1>1 DEF SourcesInv, Gathered
  <2>3. got[u] = cache[u]
    BY <1>0, <1>1, <2>2 DEF SourcesInv, Gathered
  <2>4. cache[u] # Failed
    BY <1>0, <2>2, SourceConstants DEF SourcesInv, Types
  <2> QED
    BY <2>2, <2>3, <2>4 DEF Holding, Missing, Lost
<1>2. CASE who # Crawler
  <2>1. OnFailure(who) = "raise"
    BY <1>0, <1>2, FailureKinds
  <2>2. pc = "fetching" /\ Missing = {} /\ Lost = {}
    BY <1>2, <2>1 DEF Ready, SourcesInv, Types
  <2>3. PICK u \in Urls : <<u, i>> \in steady
    BY <1>2
  <2>4. <<u, i>> \in HeldAt(who, web)
    BY <1>0, <2>3 DEF SourcesInv, Lasting
  <2>5. u \in UrlsOf[who] /\ got[u] \notin {None, Failed}
    BY <2>2, <2>4 DEF HeldAt, Missing, Lost
  <2>6. Shows(who, got[u].items, i)
    BY <1>0, <2>1, <2>3, <2>5 DEF SourcesInv, Lasting
  <2> QED
    BY <2>2, <2>5, <2>6 DEF Holding
<1> QED
  BY <1>1, <1>2

(* A catalogue that is accepted is what its collection observed. *)
LEMMA AcceptKeeps ==
  ASSUME SourcesInv, Accept PROVE SourcesInv'
<1>0. /\ pc # "idle" /\ pc # "saving" /\ who \in Collectors /\ Stop /\ UrlsOf[who] \subseteq Urls
      /\ last \in [Collectors -> [Ids -> States \cup {None}]]
      /\ last' = [last EXCEPT ![who] = Observed]
      /\ UNCHANGED <<web, cache, torn, crashes>>
  BY SourceConstants DEF SourcesInv, Types, Ready, Accept, bounds
<1>1. pc' = "idle" /\ got' = Unfetched /\ turn' = Unturned
  BY <1>0 DEF Stop
<1>2. Observed \in [Ids -> States \cup {None}]
  <2>1. \A i \in Ids : Observed[i] \in States \cup {None}
    BY <1>0, ObservedType
  <2>2. Observed = [i \in Ids |-> Observed[i]]
    BY DEF Observed
  <2> QED
    BY <2>1, <2>2
<1>3. Types'
  BY <1>0, <1>1, <1>2 DEF SourcesInv, Types, Unfetched, Unturned, Results
<1>4. Lasting'
  BY <1>1 DEF Lasting
<1>5. ASSUME crashes = 0, Crawler \in Collectors, NEW i \in Ids, last'[Crawler][i] # None
      PROVE  \E u \in UrlsOf[Crawler] : cache[u] # None /\ Shows(Crawler, cache[u].items, i)
  <2>1. CASE who # Crawler
    <3>1. last[Crawler][i] # None
      BY <1>0, <1>5, <2>1
    <3> QED
      BY <1>5, <3>1 DEF SourcesInv, Gathered
  <2>2. CASE who = Crawler
    <3>1. Observed[i] # None
      BY <1>0, <1>2, <1>5, <2>2
    <3>2. PICK u \in Holding(i) : TRUE
      BY <1>0, <3>1, ObservedType
    <3>3. u \in UrlsOf[who] /\ got[u] \notin {None, Failed} /\ Shows(who, got[u].items, i)
      BY DEF Holding, Missing, Lost
    <3>4. pc = "comparing"
      BY <1>0, <2>2, FailureKinds DEF Accept, Ready
    <3>5. cache[u] = got[u]
      BY <1>5, <2>2, <3>3, <3>4 DEF SourcesInv, Gathered
    <3> QED
      BY <2>2, <3>3, <3>5
  <2> QED
    BY <2>1, <2>2
<1>6. Gathered'
  BY <1>0, <1>1, <1>5 DEF SourcesInv, Gathered
<1> QED
  BY <1>3, <1>4, <1>6 DEF SourcesInv

(* Every step keeps the invariant. *)
LEMMA SourcesStep ==
  ASSUME SourcesInv, [Next]_vars PROVE SourcesInv'
<1>1. ASSUME NEW u \in Urls, Edit(u) PROVE SourcesInv'
  BY <1>1, EditKeeps
<1>2. ASSUME NEW c \in Collectors, Begin(c) PROVE SourcesInv'
  BY <1>2, BeginKeeps
<1>3. ASSUME NEW u \in Urls, GetText(u) \/ Refuse(u) \/ Fail(u) PROVE SourcesInv'
  BY <1>3, RequestKeeps
<1>4. CASE Raise \/ Refused
  <2>1. pc # "saving" /\ Stop /\ UNCHANGED <<web, last, cache, torn, crashes>>
    BY <1>4 DEF Raise, Refused, Ready, bounds
  <2>2. ~ torn \/ crashes > 0
    BY <2>1 DEF SourcesInv, Gathered, Types
  <2> QED
    BY <2>1, <2>2, StopKeeps
<1>5. CASE CutCache \/ FillCache
  BY <1>5, SaveKeeps
<1>6. CASE Accept
  BY <1>6, AcceptKeeps
<1>7. CASE Crash
  <2>1. /\ Stop /\ crashes' = crashes + 1 /\ crashes \in Nat /\ UNCHANGED <<web, last, cache, torn>>
    BY <1>7 DEF Crash, SourcesInv, Types
  <2>2. pc' = "idle" /\ got' = Unfetched /\ turn' = Unturned /\ crashes' \in Nat /\ crashes' # 0
    BY <2>1 DEF Stop
  <2>3. Types'
    BY <2>1, <2>2 DEF SourcesInv, Types, Unfetched, Unturned, Results
  <2>4. Lasting' /\ Gathered'
    BY <2>2 DEF Lasting, Gathered
  <2> QED
    BY <2>3, <2>4 DEF SourcesInv
<1>8. CASE UNCHANGED vars
  BY <1>8, RetryKeeps DEF vars, fetch, bounds
<1> QED
  BY <1>1, <1>2, <1>3, <1>4, <1>5, <1>6, <1>7, <1>8 DEF Next, Collecting

(* Only a catalogue that is accepted tells a removal, and it is a true one. *)
LEMMA RemovalStep ==
  ASSUME SourcesInv, [Next]_vars PROVE [RemovalTold]_last
<1> SUFFICES ASSUME ~ UNCHANGED last PROVE RemovalTold
  OBVIOUS
<1>1. Accept
  BY DEF Next, Collecting, vars, Edit, Begin, GetText, Refuse, Fail, Raise, CutCache, FillCache,
     Refused, Crash
<1>2. /\ Ready /\ pc # "idle" /\ last' = [last EXCEPT ![who] = Observed] /\ crashes \in Nat
      /\ last \in [Collectors -> [Ids -> States \cup {None}]]
  BY <1>1 DEF Accept, Ready, SourcesInv, Types
<1> SUFFICES ASSUME NEW c \in Collectors, NEW i \in Ids,
                    last[c][i] # None, last'[c][i] = None, \E u \in Urls : <<u, i>> \in steady,
                    c # "garmin_updates", ~ (c = Crawler /\ crashes > 0)
             PROVE  FALSE
  BY DEF RemovalTold, Crawler
<1>3. c = who /\ Observed[i] = None
  BY <1>2
<1>4. Holding(i) # {}
  <2>1. who # "garmin_updates" /\ (who = Crawler => crashes = 0)
    BY <1>2, <1>3
  <2>2. (who = Crawler => crashes = 0 /\ last[who][i] # None)
        /\ (who # Crawler => \E u \in Urls : <<u, i>> \in steady)
    BY <1>3, <2>1
  <2> QED
    BY <1>2, <2>1, <2>2, ReadyHolds
<1>5. Observed[i] \in States
  BY <1>2, <1>4, ObservedType
<1> QED
  BY <1>3, <1>5, SourceConstants

(* What left a catalogue had left every page that held it, whatever fails,  *)
(* unless the collector is garmin/updates.py or a death took the cache.     *)
THEOREM RemovalsAreTrue == Spec => RemovalsTrue
<1>1. SourcesInv /\ [Next]_vars => SourcesInv'
  BY SourcesStep
<1>2. SourcesInv /\ [Next]_vars => [RemovalTold]_last
  BY RemovalStep
<1> QED
  BY <1>1, <1>2, SourcesInit, PTL DEF Spec, RemovalsTrue
=============================================================================
