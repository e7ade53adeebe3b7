--------------------------- MODULE MerchantFunds ---------------------------
(***************************************************************************)
(* What the ledger promises a merchant, whatever its use cases do inside:  *)
(* each account holds what its payers paid in, less what was returned to   *)
(* payers and what was sent to the merchant's bank.  Money enters, is      *)
(* returned or leaves one account at a time, and neither a return nor a    *)
(* payout can exceed what the account holds.                               *)
(***************************************************************************)
EXTENDS Integers

CONSTANT Accounts

VARIABLES held, received, returned, sent

fundsVars == <<held, received, returned, sent>>

Init ==
  /\ held = [a \in Accounts |-> 0]
  /\ received = [a \in Accounts |-> 0]
  /\ returned = [a \in Accounts |-> 0]
  /\ sent = [a \in Accounts |-> 0]

Receive(a, n) ==
  /\ held' = [held EXCEPT ![a] = @ + n]
  /\ received' = [received EXCEPT ![a] = @ + n]
  /\ UNCHANGED <<returned, sent>>

Return(a, n) ==
  /\ n <= held[a]
  /\ held' = [held EXCEPT ![a] = @ - n]
  /\ returned' = [returned EXCEPT ![a] = @ + n]
  /\ UNCHANGED <<received, sent>>

PayOut(a, n) ==
  /\ n <= held[a]
  /\ held' = [held EXCEPT ![a] = @ - n]
  /\ sent' = [sent EXCEPT ![a] = @ + n]
  /\ UNCHANGED <<received, returned>>

\* The deltas are read off the step, so that a step names its own amount.
Next ==
  \E a \in Accounts :
    \/ received'[a] - received[a] \in Nat /\ Receive(a, received'[a] - received[a])
    \/ returned'[a] - returned[a] \in Nat /\ Return(a, returned'[a] - returned[a])
    \/ sent'[a] - sent[a] \in Nat /\ PayOut(a, sent'[a] - sent[a])

Spec == Init /\ [][Next]_fundsVars
=============================================================================
