------------------------------ MODULE MCLedger ------------------------------
(* Small instances of Ledger for TLC. *)
EXTENDS LedgerAudit, TLC

CONSTANTS store, other, link, direct, p1, p2, p3, w1, w2, w3

\* One store: a payment link with two attempts and a direct charge.
MCChargeOf == p1 :> link @@ p2 :> link @@ p3 :> direct
MCOneAccount == link :> store @@ direct :> store
\* The same charges split over the accounts of two environments.
MCTwoAccounts == link :> store @@ direct :> other
MCChargeAmount == link :> 4 @@ direct :> 2
\* Amounts of which no refund's share of a fee of 1 is a tie.
MCThirds == link :> 3 @@ direct :> 3
MCWithdrawals == w1 :> store @@ w2 :> store @@ w3 :> store
\* Attempts of the link are interchangeable, and so are the withdrawals.
MCSymmetry == Permutations({p1, p2}) \cup Permutations({w1, w2, w3})
MCOneWithdrawal == w1 :> store
MCTwoWithdrawals == w1 :> store @@ w2 :> other
=============================================================================
