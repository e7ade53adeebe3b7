-------------------------- MODULE DeliveryContract --------------------------
(***************************************************************************)
(* What webhook delivery promises of an outbox event: it is delivered only *)
(* once all its destinations have been served, and then stays delivered;   *)
(* or it is abandoned.  Only an operator who holds a dead letter of the    *)
(* event opens it again.                                                   *)
(***************************************************************************)
CONSTANTS Events, Configs, Destinations

VARIABLES outcome, served, letters

Init ==
  /\ outcome = [e \in Events |-> "OPEN"]
  /\ served = [e \in Events |-> {}]
  /\ letters = {}

\* A destination accepts the event; retries by hand make that possible at any time.
Serve(e, c) ==
  /\ served' = [served EXCEPT ![e] = @ \cup {c}]
  /\ UNCHANGED <<outcome, letters>>

Deliver(e) ==
  /\ Destinations[e] \subseteq served[e]
  /\ outcome' = [outcome EXCEPT ![e] = "DELIVERED"]
  /\ UNCHANGED <<served, letters>>

Abandon(e) ==
  /\ outcome[e] = "OPEN"
  /\ outcome' = [outcome EXCEPT ![e] = "ABANDONED"]
  /\ UNCHANGED <<served, letters>>

WriteLetter(e) ==
  /\ letters' = letters \cup {e}
  /\ UNCHANGED <<outcome, served>>

RemoveLetter(e) ==
  /\ letters' = letters \ {e}
  /\ UNCHANGED <<outcome, served>>

Reopen(e) ==
  /\ e \in letters
  /\ outcome' = [outcome EXCEPT ![e] = "OPEN"]
  /\ UNCHANGED <<served, letters>>

Next ==
  \E e \in Events :
    \/ Deliver(e) \/ Abandon(e) \/ Reopen(e)
    \/ WriteLetter(e) \/ RemoveLetter(e)
    \/ \E c \in Configs : Serve(e, c)

Spec == Init /\ [][Next]_<<outcome, served, letters>>
=============================================================================
