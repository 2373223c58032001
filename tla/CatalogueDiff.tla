---------------------------- MODULE CatalogueDiff ----------------------------
(***************************************************************************)
(* The pure decisions of a collection run: core/diff.py (what changed      *)
(* between two catalogues), core/health.py (may a catalogue replace the    *)
(* last one) and the editorial gate of notifications/discord.py.           *)
(*                                                                         *)
(* A catalogue is a function from identities to observations.  Of an       *)
(* observation only what these decisions look at is kept: `price` is the   *)
(* amount with its currency, `rest` every other comparable() field.        *)
(***************************************************************************)
EXTENDS Integers, FiniteSets

CONSTANT Nothing   \* the missing side of an appearance or a removal

Observation(Value) ==
    [class : {"news", "product"},           \* source_class is OFFICIAL_NEWS or not
     listing : BOOLEAN,                     \* source_kind in {product_catalogue, support}
     level : {"NEWSWORTHY", "MONITOR", "NOISE"},  \* EDITORIAL_BY_CLASSIFICATION of news
     price : Value, availability : Value, firmware : Value, rest : Value]

(* _classify_change; a new amount or a new currency is a new price. *)
ClassifyChange(before, after) ==
    CASE before.price # after.price -> "PRICE_CHANGE"
      [] before.price = after.price /\ before.availability # after.availability
           -> "AVAILABILITY_CHANGE"
      [] /\ before.price = after.price
         /\ before.availability = after.availability
         /\ before.firmware # after.firmware
           -> "FIRMWARE_RELEASED"
      [] OTHER -> "SPEC_CHANGED"

Discovery(item, change, before, after) ==
    [item |-> item, change |-> change, before |-> before, after |-> after]

Appeared(previous, current) ==
    {Discovery(i, IF current[i].class = "news" THEN "NEWS_ITEM_APPEARED" ELSE "NEW_DEVICE",
               Nothing, current[i]) : i \in DOMAIN current \ DOMAIN previous}

Changed(previous, current) ==
    {Discovery(i, ClassifyChange(previous[i], current[i]), previous[i], current[i]) :
        i \in {j \in DOMAIN previous \cap DOMAIN current : previous[j] # current[j]}}

(* An article that leaves a feed's window is not a removal. *)
Removed(previous, current) ==
    {Discovery(i, IF previous[i].listing THEN "SOURCE_LISTING_REMOVED" ELSE "PRODUCT_REMOVED",
               previous[i], Nothing) :
        i \in {j \in DOMAIN previous \ DOMAIN current : previous[j].class # "news"}}

DiffWithoutRemovals(previous, current) == Appeared(previous, current) \cup Changed(previous, current)

Diff(previous, current) ==
    Appeared(previous, current) \cup Changed(previous, current) \cup Removed(previous, current)

(* assess_catalogue with failure_ratio = 1/2; known is FALSE when the epoch *)
(* has no healthy run (previous_count is None).                             *)
CollapsedNever(count, known, previousCount, zeroIsFailure) == count = 0 /\ zeroIsFailure

Collapsed(count, known, previousCount, zeroIsFailure) ==
    \/ count = 0 /\ zeroIsFailure
    \/ known /\ previousCount # 0 /\ 2 * count < previousCount

EditorialLevel(d) ==
    IF d.change = "NEWS_ITEM_APPEARED" THEN d.after.level
    ELSE IF d.change \in {"SPEC_CHANGED", "PRODUCT_REMOVED"} THEN "MONITOR"
    ELSE "NEWSWORTHY"

DeliveryEligible(d) == EditorialLevel(d) = "NEWSWORTHY"

-----------------------------------------------------------------------------
(* What a reader of the discoveries knows, written without Diff.           *)

(* The catalogue of a reader who held `before` and applies the discoveries. *)
Patch(before, found) ==
    LET gone    == {d.item : d \in {x \in found : x.after = Nothing}}
        touched == {d.item : d \in {x \in found : x.after # Nothing}}
    IN  [i \in (DOMAIN before \ gone) \cup touched |->
            IF i \in touched THEN (CHOOSE d \in found : d.item = i).after ELSE before[i]]

(* The discoveries tell exactly how `after` came from `before`: one each,   *)
(* none that changes nothing, and applying them leaves `after` plus at most *)
(* articles that left their window.                                         *)
Tells(found, before, after) ==
    /\ \A d, x \in found : d.item = x.item => d = x
    /\ \A d \in found : d.before # d.after
    /\ LET reader == Patch(before, found) IN
         /\ \A i \in DOMAIN after : i \in DOMAIN reader /\ reader[i] = after[i]
         /\ \A i \in DOMAIN reader \ DOMAIN after : reader[i].class = "news"
=============================================================================
