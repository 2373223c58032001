------------------------------ MODULE MCSamsung ------------------------------
(* A small instance of SamsungReconciliation for TLC: one model sold in two *)
(* regions, and another in the second.                                      *)
EXTENDS SamsungReconciliation, TLC

CONSTANTS p1, p2

SmallListings == {"inA", "usA", "usB"}
RegionOf == [l \in SmallListings |-> IF l = "inA" THEN "IN" ELSE "US"]
BaseOf   == [l \in SmallListings |-> IF l = "usB" THEN "B" ELSE "A"]

Shown == {{"inA"}, {"usA", "usB"}}

Site(watches, others) ==
    [l \in SmallListings |-> IF l \in watches THEN "watch"
                             ELSE IF l \in others THEN "other" ELSE "absent"]
Sites == {Site({"inA", "usA"}, {}), Site({"usA", "usB"}, {"inA"})}
=============================================================================
