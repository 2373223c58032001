----------------------------- MODULE MCRunCycle -----------------------------
(* A small instance of RunCycle for TLC. *)
EXTENDS RunCycle

CONSTANTS r1, r2, b1
=============================================================================
