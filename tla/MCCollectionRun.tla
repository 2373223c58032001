--------------------------- MODULE MCCollectionRun ---------------------------
(* Small instances of CollectionRun for TLC. *)
EXTENDS CollectionRun, TLC

CONSTANTS p1, p2

Watch1(price, rest) ==
    [class |-> "product", listing |-> TRUE, level |-> "NOISE",
     price |-> price, availability |-> 0, firmware |-> 0, rest |-> rest]
Article ==
    [class |-> "news", listing |-> FALSE, level |-> "NEWSWORTHY",
     price |-> 0, availability |-> 0, firmware |-> 0, rest |-> 0]

Seen == {Watch1(1, 1), Watch1(2, 1), Watch1(2, 2), Article}

(* Nothing, one watch, all three watches, a price cut, a respecification   *)
(* with one watch gone, and watches beside an article.                     *)
Pages ==
    {NoCatalogue,
     [i \in {1} |-> Watch1(1, 1)],
     [i \in {1, 2, 3} |-> Watch1(1, 1)],
     [i \in {1, 2, 3} |-> Watch1(IF i = 1 THEN 2 ELSE 1, 1)],
     [i \in {1, 2} |-> Watch1(2, 2)],
     [i \in {2, 3, 4} |-> IF i = 4 THEN Article ELSE Watch1(1, 1)]}

(* Enough for questions that do not look into the catalogues. *)
OnePage == {[i \in {1} |-> Watch1(1, 1)]}

Interchangeable == Permutations({p1, p2})
=============================================================================
