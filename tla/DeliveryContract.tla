-------------------------- MODULE DeliveryContract --------------------------
(***************************************************************************)
(* What the outbox promises about each discovery, without processes, locks *)
(* or a clock: it is queued once, may be held or given up and put back,    *)
(* reaches the channel only while queued or held, and is sent for good     *)
(* when an arrival is acknowledged.  An arrival whose acknowledgement is   *)
(* lost is the only source of a second copy.                               *)
(***************************************************************************)
EXTENDS Naturals

CONSTANT Items

VARIABLES
    phase,  \* absent, pending, held, failed or sent
    shown,  \* copies the channel shows
    lost,   \* arrivals that will never be acknowledged
    open    \* items with an arrival still to be acknowledged

vars == <<phase, shown, lost, open>>

Init ==
    /\ phase = [i \in Items |-> "absent"]
    /\ shown = [i \in Items |-> 0]
    /\ lost = [i \in Items |-> 0]
    /\ open = {}

Queued(i) == phase[i] \in {"pending", "held"} /\ i \notin open

Announce(i) ==
    /\ phase[i] = "absent"
    /\ phase' = [phase EXCEPT ![i] = "pending"]
    /\ UNCHANGED <<shown, lost, open>>

(* Held by policy, or an attempt failed: still queued, or given up. *)
Decline(i) ==
    /\ Queued(i)
    /\ \E f \in {"pending", "held", "failed"} : phase' = [phase EXCEPT ![i] = f]
    /\ UNCHANGED <<shown, lost, open>>

Arrive(i) ==
    /\ Queued(i)
    /\ shown' = [shown EXCEPT ![i] = @ + 1]
    /\ open' = open \cup {i}
    /\ UNCHANGED <<phase, lost>>

ArriveUnacknowledged(i) ==
    /\ Queued(i)
    /\ shown' = [shown EXCEPT ![i] = @ + 1]
    /\ lost' = [lost EXCEPT ![i] = @ + 1]
    /\ UNCHANGED <<phase, open>>

Acknowledge(i) ==
    /\ i \in open
    /\ open' = open \ {i}
    /\ phase' = [phase EXCEPT ![i] = "sent"]
    /\ UNCHANGED <<shown, lost>>

Lose(i) ==
    /\ i \in open
    /\ open' = open \ {i}
    /\ lost' = [lost EXCEPT ![i] = @ + 1]
    /\ UNCHANGED <<phase, shown>>

PutBack ==
    /\ phase' = [i \in Items |-> IF phase[i] = "failed" THEN "pending" ELSE phase[i]]
    /\ UNCHANGED <<shown, lost, open>>

Next ==
    \/ \E i \in Items :
         \/ Announce(i)
         \/ Decline(i)
         \/ Arrive(i)
         \/ ArriveUnacknowledged(i)
         \/ Acknowledge(i)
         \/ Lose(i)
    \/ PutBack

Spec == Init /\ [][Next]_vars
=============================================================================
