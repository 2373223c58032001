---------------------------- MODULE MCDashboard -----------------------------
(* Small instances of Dashboard for TLC. *)
EXTENDS Dashboard, TLC

CONSTANTS s1, s2, q1, q2, k1, k2, c1

Interchangeable == Permutations({q1, q2}) \cup Permutations({k1, k2})
=============================================================================
