--------------------------- MODULE CatalogueWatch ---------------------------
(***************************************************************************)
(* What the runner promises a reader of one collector's discoveries,       *)
(* without processes, a lock, a database or failures: a watcher learns a   *)
(* catalogue in silence when an era begins, and from then on replaces it   *)
(* only by one that has not collapsed, announcing exactly how the one came *)
(* from the other.                                                         *)
(***************************************************************************)
EXTENDS CatalogueDiff

CONSTANTS Runs, Eras, Catalogues, Unknown, ZeroIsFailure

VARIABLES
    known,      \* the catalogue the watcher holds
    era,        \* the qualification epoch it was learnt in
    announced   \* the discoveries each run announced

vars == <<known, era, announced>>

Init ==
    /\ known = Unknown
    /\ era = 0
    /\ announced = [r \in Runs |-> {}]

(* A new era starts from whatever the source says, silently. *)
Learn(c, e) ==
    /\ e > era
    /\ DOMAIN c = {} => ~ ZeroIsFailure
    /\ known' = c
    /\ era' = e
    /\ UNCHANGED announced

Observe(c, r) ==
    /\ known # Unknown
    /\ DOMAIN c = {} => ~ ZeroIsFailure
    /\ 2 * Cardinality(DOMAIN c) >= Cardinality(DOMAIN known)
    /\ announced[r] = {}
    /\ Tells(announced'[r], known, c)
    /\ \A o \in Runs \ {r} : announced'[o] = announced[o]
    /\ known' = c
    /\ UNCHANGED era

Next ==
    \E c \in Catalogues :
        \/ \E e \in Eras : Learn(c, e)
        \/ \E r \in Runs : Observe(c, r)

Spec == Init /\ [][Next]_vars
=============================================================================
