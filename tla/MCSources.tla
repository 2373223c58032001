----------------------------- MODULE MCSources ------------------------------
(* Small instances of Sources for TLC. *)
EXTENDS Sources

Item(id, signals) == [id |-> id, signals |-> signals]

(* Two support pages, two feeds that share a post, two product pages. *)
MCUrlsOf == [samsung_support |-> {1, 2}, garmin_updates |-> {3, 4}, garmin_catalogue |-> {5, 6}]

MCSites == <<
    {{Item("m1", {"galaxy watch"})}, {Item("m1", {"galaxy watch"}), Item("m2", {"galaxy watch"})}},
    {{Item("m2", {"galaxy watch"})}, {Item("m2", {"galaxy fit"})}},
    {{Item("p1", {}), Item("p2", {"beta"})}},
    {{Item("p2", {"beta"}), Item("p3", {})}},
    {{Item("g1", {"family"})}, {Item("g1", {"family", "accessory"})}},
    {{Item("g2", {"watch"})}, {}} >>

(* At first the second listing is on its own page; it may move to the first. *)
MCStart == <<
    {Item("m1", {"galaxy watch"})}, {Item("m2", {"galaxy watch"})},
    {Item("p1", {}), Item("p2", {"beta"})}, {Item("p2", {"beta"}), Item("p3", {})},
    {Item("g1", {"family"})}, {Item("g2", {"watch"})} >>
=============================================================================
