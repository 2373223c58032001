------------------------------ MODULE MCOutbox ------------------------------
(* Small instances of Outbox for TLC. *)
EXTENDS Outbox, TLC

CONSTANTS d1, d2, t1

Interchangeable == Permutations({d1, d2})
=============================================================================
