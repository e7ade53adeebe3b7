------------------------- MODULE WithdrawalContract -------------------------
(***************************************************************************)
(* What the processing of withdrawals promises: every requested withdrawal *)
(* gets at most one outcome, and with it its reservation leaves the        *)
(* blocked balance once, either to the bank or back to the merchant.       *)
(***************************************************************************)
EXTENDS Integers

CONSTANTS Withdrawals, Amount

VARIABLES outcome, blocked, returned

contractVars == <<outcome, blocked, returned>>

Init ==
  /\ outcome = [w \in Withdrawals |-> "OPEN"]
  /\ blocked \in Nat
  /\ returned = 0

Send(w) ==
  /\ outcome[w] = "OPEN"
  /\ outcome' = [outcome EXCEPT ![w] = "COMPLETED"]
  /\ blocked' = blocked - Amount[w]
  /\ UNCHANGED returned

Reverse(w) ==
  /\ outcome[w] = "OPEN"
  /\ outcome' = [outcome EXCEPT ![w] = "FAILED"]
  /\ blocked' = blocked - Amount[w]
  /\ returned' = returned + Amount[w]

Next == \E w \in Withdrawals : Send(w) \/ Reverse(w)

Spec == Init /\ [][Next]_contractVars
=============================================================================
